--------------------------- MODULE RagAnswersProofs ---------------------------
(***************************************************************************)
(* Theorems about RagAnswers, for any documents that consist of pages, any *)
(* sizes of chunks and of the context, and any questions.                  *)
(***************************************************************************)
EXTENDS RagAnswers, FiniteSetTheorems, SequenceTheorems, WellFoundedInduction, TLAPS

-----------------------------------------------------------------------------
(* Induction and recursion over numbers, from the order of the naturals.   *)

\* Every set of naturals that is not empty has a least element.
LEMMA Least ==
  ASSUME NEW T \in SUBSET Nat, T # {}
  PROVE  \E n \in T : \A m \in T : n <= m
<1>1. PICK n \in T : \A m \in T : ~ (<<m, n>> \in OpToRel(<, Nat))
  BY WFMin, NatLessThanWellFounded
<1>2. \A m \in T : ~ (m < n)
  BY <1>1 DEF OpToRel
<1> QED BY <1>2

\* Induction up to n over a set of numbers.
LEMMA UpTo ==
  ASSUME NEW n \in Nat, NEW P, 0 \in P, \A i \in 1..n : i - 1 \in P => i \in P
  PROVE  \A i \in 0..n : i \in P
<1> DEFINE T == 0..n \ P
<1> SUFFICES ASSUME T # {} PROVE FALSE
  OBVIOUS
<1>0. T \in SUBSET Nat
  OBVIOUS
<1>1. PICK m \in T : \A k \in T : m <= k
  <2> HIDE DEF T
  <2> QED BY <1>0, Least
<1>2. m \in 1..n /\ m - 1 \in 0..n /\ ~ (m <= m - 1)
  BY <1>1
<1>3. m - 1 \in P
  BY <1>1, <1>2
<1> QED BY <1>1, <1>2, <1>3

\* A function may be defined by recursion up to n.
IsRecursive(f, n, b, g) == f = [i \in 0..n |-> IF i = 0 THEN b ELSE g[i][f[i - 1]]]

LEMMA Recursion ==
  ASSUME NEW n \in Nat, NEW S, NEW b \in S, NEW g \in [1..n -> [S -> S]]
  PROVE  \E f \in [0..n -> S] : IsRecursive(f, n, b, g)
<1> DEFINE Reaches(m) == \E f \in [0..m -> S] : IsRecursive(f, m, b, g)
           P == {m \in 0..n : Reaches(m)}
<1>1. Reaches(0)
  <2> DEFINE f == [i \in 0..0 |-> b]
  <2>1. f \in [0..0 -> S] /\ IsRecursive(f, 0, b, g)
    BY DEF IsRecursive
  <2> QED BY <2>1
<1>2. ASSUME NEW m \in 1..n, Reaches(m - 1) PROVE Reaches(m)
  <2>1. PICK f \in [0..m-1 -> S] : IsRecursive(f, m - 1, b, g)
    BY <1>2
  <2> DEFINE h == [i \in 0..m |-> IF i = m THEN g[m][f[m - 1]] ELSE f[i]]
  <2>2. g[m][f[m - 1]] \in S
    BY <1>2, <2>1
  <2>3. h \in [0..m -> S]
    BY <2>1, <2>2
  <2>4. ASSUME NEW i \in 0..m PROVE h[i] = IF i = 0 THEN b ELSE g[i][h[i - 1]]
    <3>1. CASE i = m
      BY <1>2, <3>1
    <3>2. CASE i # m
      <4>1. i \in 0..m-1 /\ h[i] = f[i] /\ (i # 0 => i - 1 \in 0..m-1 /\ h[i - 1] = f[i - 1])
        BY <1>2, <3>2
      <4>2. f[i] = IF i = 0 THEN b ELSE g[i][f[i - 1]]
        BY <2>1, <4>1 DEF IsRecursive
      <4> QED BY <4>1, <4>2
    <3> QED BY <3>1, <3>2
  <2> HIDE DEF h
  <2>5. IsRecursive(h, m, b, g)
    BY <2>3, <2>4 DEF IsRecursive
  <2> QED BY <2>3, <2>5
<1> HIDE DEF Reaches
<1>3. 0 \in P /\ \A i \in 1..n : i - 1 \in P => i \in P
  BY <1>1, <1>2
<1> HIDE DEF P
<1>4. \A i \in 0..n : i \in P
  BY <1>3, UpTo
<1>5. n \in 0..n
  OBVIOUS
<1> QED BY <1>4, <1>5 DEF P, Reaches

-----------------------------------------------------------------------------
(* Texts and their lengths.                                                *)

LEMMA TextsAre ==
  ASSUME NEW text \in Texts
  PROVE  /\ Len(text) \in Nat /\ DOMAIN text = 1..Len(text)
         /\ text = <<>> <=> Len(text) = 0
         /\ \A i \in 1..Len(text) :
              /\ text[i] \in AnySentence
              /\ text[i].id \in Nat /\ text[i].len \in Nat \ {0} /\ text[i].gap \in Nat
<1>1. /\ Len(text) \in Nat /\ DOMAIN text = 1..Len(text) /\ (text = <<>> <=> Len(text) = 0)
      /\ \A i \in 1..Len(text) : text[i] \in AnySentence
  BY DEF Texts
<1>2. \A s \in AnySentence : s.id \in Nat /\ s.len \in Nat \ {0} /\ s.gap \in Nat
  BY DEF AnySentence
<1> QED BY <1>1, <1>2

LEMMA LengthsAre ==
  ASSUME NEW text \in Texts
  PROVE  /\ Lengths(text) \in [0..Len(text) -> Nat]
         /\ Lengths(text)[0] = 0
         /\ \A n \in 1..Len(text) : Lengths(text)[n] = Lengths(text)[n - 1] + text[n].gap + text[n].len
<1> DEFINE N == Len(text)
           g == [n \in 1..N |-> [l \in Nat |-> l + text[n].gap + text[n].len]]
           Meets(f) == f = [n \in 0..N |-> IF n = 0 THEN 0 ELSE f[n - 1] + text[n].gap + text[n].len]
<1>0. N \in Nat /\ \A n \in 1..N : text[n].gap \in Nat /\ text[n].len \in Nat
  BY TextsAre
<1>1. g \in [1..N -> [Nat -> Nat]]
  <2>1. \A n \in 1..N : [l \in Nat |-> l + text[n].gap + text[n].len] \in [Nat -> Nat]
    BY <1>0
  <2> QED BY <2>1
<1>2. PICK f \in [0..N -> Nat] : IsRecursive(f, N, 0, g)
  <2> HIDE DEF g, N
  <2>1. N \in Nat /\ 0 \in Nat
    BY <1>0
  <2> QED BY <1>1, <2>1, Recursion
<1>3. ASSUME NEW n \in 0..N
      PROVE  f[n] = IF n = 0 THEN 0 ELSE f[n - 1] + text[n].gap + text[n].len
  <2>1. CASE n = 0
    BY <1>2, <2>1 DEF IsRecursive
  <2>2. CASE n # 0
    <3>1. n \in 1..N /\ f[n - 1] \in Nat
      BY <2>2
    <3>2. f[n] = g[n][f[n - 1]]
      BY <1>2, <2>2 DEF IsRecursive
    <3> QED BY <2>2, <3>1, <3>2
  <2> QED BY <2>1, <2>2
<1>4. Meets(f)
  BY <1>3
<1>5. Lengths(text) = CHOOSE h : Meets(h)
  BY DEF Lengths
<1>6. Meets(Lengths(text))
  BY <1>4, <1>5
<1>7. ASSUME NEW n \in 0..N
      PROVE  Lengths(text)[n] = IF n = 0 THEN 0 ELSE Lengths(text)[n - 1] + text[n].gap + text[n].len
  BY <1>6
<1> DEFINE P == {n \in 0..N : Lengths(text)[n] \in Nat}
<1>8. 0 \in P /\ \A n \in 1..N : n - 1 \in P => n \in P
  <2>1. Lengths(text)[0] = 0 /\ 0 \in 0..N
    BY <1>0, <1>7
  <2>2. ASSUME NEW n \in 1..N, n - 1 \in P PROVE n \in P
    <3>1. n \in 0..N /\ n # 0 /\ Lengths(text)[n - 1] \in Nat
      BY <1>0, <2>2
    <3>2. Lengths(text)[n] = Lengths(text)[n - 1] + text[n].gap + text[n].len
      BY <1>7, <3>1
    <3> QED BY <1>0, <3>1, <3>2
  <2> QED BY <2>1, <2>2
<1>9. \A n \in 0..N : n \in P
  <2> HIDE DEF P
  <2> QED BY <1>0, <1>8, UpTo
<1>10. Lengths(text) \in [0..N -> Nat]
  BY <1>6, <1>9
<1>11. 0 \in 0..N /\ \A n \in 1..N : n \in 0..N /\ n # 0
  BY <1>0
<1> QED BY <1>7, <1>10, <1>11

LEMMA LengthIsNat ==
  ASSUME NEW text \in Texts
  PROVE  Length(text) \in Nat
BY LengthsAre, TextsAre DEF Length

LEMMA EmptyText == <<>> \in Texts /\ Length(<<>>) = 0
<1>1. <<>> \in Texts /\ Len(<<>>) = 0
  BY DEF Texts
<1> QED BY <1>1, LengthsAre DEF Length

LEMMA OneSentence ==
  ASSUME NEW s \in AnySentence
  PROVE  <<s>> \in Texts /\ Length(<<s>>) = s.gap + s.len
<1>1. <<s>> \in Texts /\ Len(<<s>>) = 1 /\ <<s>>[1] = s
  BY DEF Texts
<1>2. s.gap \in Nat /\ s.len \in Nat
  BY DEF AnySentence
<1>3. Lengths(<<s>>)[0] = 0 /\ Lengths(<<s>>)[1] = Lengths(<<s>>)[0] + s.gap + s.len
  <2> DEFINE t == <<s>>
  <2>1. t \in Texts /\ Len(t) = 1 /\ t[1] = s
    BY <1>1
  <2> HIDE DEF t
  <2>2. /\ Lengths(t)[0] = 0
        /\ \A n \in 1..1 : Lengths(t)[n] = Lengths(t)[n - 1] + t[n].gap + t[n].len
    BY <2>1, LengthsAre
  <2>3. Lengths(t)[1] = Lengths(t)[0] + t[1].gap + t[1].len
    BY <2>2
  <2> QED BY <2>1, <2>2, <2>3 DEF t
<1> QED BY <1>1, <1>2, <1>3 DEF Length

\* The sentences of two texts, one behind the other.
LEMMA BothTexts ==
  ASSUME NEW a \in Texts, NEW b \in Texts
  PROVE  /\ a \o b \in Texts /\ Len(a \o b) = Len(a) + Len(b)
         /\ \A i \in 1..Len(a) : (a \o b)[i] = a[i]
         /\ \A i \in 1..Len(b) : (a \o b)[Len(a) + i] = b[i]
<1>1. a \in Seq(AnySentence) /\ b \in Seq(AnySentence)
  BY DEF Texts
<1>2. a \o b \in Seq(AnySentence) /\ Len(a \o b) = Len(a) + Len(b)
  BY <1>1
<1>3. \A i \in 1..Len(a) : (a \o b)[i] = a[i]
  BY <1>1
<1>4. \A i \in 1..Len(b) : (a \o b)[Len(a) + i] = b[i]
  BY <1>1
<1> QED BY <1>2, <1>3, <1>4 DEF Texts

LEMMA LengthOfBoth ==
  ASSUME NEW a \in Texts, NEW b \in Texts
  PROVE  Length(a \o b) = Length(a) + Length(b)
<1> DEFINE c == a \o b
<1>1. /\ c \in Texts /\ Len(c) = Len(a) + Len(b)
      /\ \A i \in 1..Len(a) : c[i] = a[i]
      /\ \A i \in 1..Len(b) : c[Len(a) + i] = b[i]
  BY BothTexts
<1> HIDE DEF c
<1>2. Len(a) \in Nat /\ Len(b) \in Nat /\ Len(c) \in Nat
  BY <1>1, TextsAre
<1>3. Lengths(c)[0] = 0 /\ Lengths(a)[0] = 0 /\ Lengths(b)[0] = 0
  BY <1>1, LengthsAre
<1>11. \A n \in 1..Len(c) : Lengths(c)[n] = Lengths(c)[n - 1] + c[n].gap + c[n].len
  BY <1>1, LengthsAre
<1> DEFINE P == {n \in 0..Len(a) : Lengths(c)[n] = Lengths(a)[n]}
           Q == {n \in 0..Len(b) : Lengths(c)[Len(a) + n] = Length(a) + Lengths(b)[n]}
<1>4. 0 \in P
  BY <1>2, <1>3
<1>5. ASSUME NEW n \in 1..Len(a), n - 1 \in P PROVE n \in P
  <2>1. n \in 1..Len(c) /\ c[n] = a[n]
    BY <1>1, <1>2
  <2>2. Lengths(c)[n] = Lengths(c)[n - 1] + c[n].gap + c[n].len
    BY <1>1, <2>1, LengthsAre
  <2>3. Lengths(a)[n] = Lengths(a)[n - 1] + a[n].gap + a[n].len
    BY LengthsAre
  <2> QED BY <1>5, <2>1, <2>2, <2>3
<1>6. \A n \in 0..Len(a) : n \in P
  <2> HIDE DEF P
  <2> QED BY <1>2, <1>4, <1>5, UpTo
<1>7. 0 \in Q
  <2>1. Length(a) \in Nat /\ Lengths(c)[Len(a)] = Length(a)
    BY <1>2, <1>6, LengthIsNat DEF Length
  <2> QED BY <1>2, <1>3, <2>1
<1>8. ASSUME NEW n \in 1..Len(b), n - 1 \in Q PROVE n \in Q
  <2>1. Len(a) + n \in 1..Len(c) /\ c[Len(a) + n] = b[n] /\ Len(a) + n - 1 = Len(a) + (n - 1)
    BY <1>1, <1>2
  <2>2. Lengths(c)[Len(a) + n] = Lengths(c)[Len(a) + (n - 1)] + b[n].gap + b[n].len
    BY <1>11, <2>1
  <2>3. Lengths(b)[n] = Lengths(b)[n - 1] + b[n].gap + b[n].len
    BY LengthsAre
  <2>4. Lengths(b)[n - 1] \in Nat /\ b[n].gap \in Nat /\ b[n].len \in Nat /\ Length(a) \in Nat
    <3>1. n - 1 \in 0..Len(b) /\ Lengths(b) \in [0..Len(b) -> Nat]
      BY <1>2, LengthsAre
    <3>2. b[n].gap \in Nat /\ b[n].len \in Nat
      BY TextsAre
    <3> QED BY <3>1, <3>2, LengthIsNat
  <2>5. Lengths(c)[Len(a) + (n - 1)] = Length(a) + Lengths(b)[n - 1]
    BY <1>8
  <2>6. Lengths(c)[Len(a) + n] = Length(a) + Lengths(b)[n]
    BY <2>2, <2>3, <2>4, <2>5
  <2> QED BY <1>2, <2>6
<1>9. \A n \in 0..Len(b) : n \in Q
  <2> HIDE DEF Q
  <2> QED BY <1>2, <1>7, <1>8, UpTo
<1>10. Lengths(c)[Len(a) + Len(b)] = Length(a) + Lengths(b)[Len(b)]
  BY <1>2, <1>9
<1> QED BY <1>1, <1>10 DEF Length, c

\* A text behind a gap.
LEMMA OpeningIs ==
  ASSUME NEW text \in Texts, text # <<>>, NEW gap \in Nat
  PROVE  /\ Opening(text, gap) \in Texts /\ Len(Opening(text, gap)) = Len(text)
         /\ Opening(text, gap)[1].gap = gap
         /\ \A i \in 1..Len(text) : Opening(text, gap)[i].id = text[i].id
         /\ Length(Opening(text, gap)) = Length(text) - text[1].gap + gap
<1> DEFINE o == Opening(text, gap)
           first == [text[1] EXCEPT !.gap = gap]
           N == Len(text)
<1>1. N \in Nat \ {0} /\ DOMAIN text = 1..N /\ text \in Seq(AnySentence) /\ text[1] \in AnySentence
  BY TextsAre DEF Texts
<1>2. /\ first \in AnySentence /\ first.gap = gap /\ first.len = text[1].len
      /\ first.id = text[1].id
  BY <1>1 DEF AnySentence
<1>3. o = [text EXCEPT ![1] = first]
  BY DEF Opening
<1> HIDE DEF first
<1>4. /\ o \in Texts /\ Len(o) = N /\ o[1] = first
      /\ \A i \in 2..N : o[i] = text[i]
  <2>1. DOMAIN o = 1..N /\ o[1] = first /\ \A i \in 2..N : o[i] = text[i]
    BY <1>1, <1>3
  <2>2. \A i \in 1..N : o[i] \in AnySentence
    BY <1>1, <1>2, <2>1, <1>3
  <2>3. o \in [1..N -> AnySentence]
    BY <1>1, <1>3, <2>1, <2>2
  <2> QED BY <1>1, <2>1, <2>3 DEF Texts
<1> HIDE DEF o
<1>5. \A i \in 1..N : o[i].id = text[i].id
  BY <1>1, <1>2, <1>4
<1> DEFINE P == {n \in 0..N : n = 0 \/ Lengths(o)[n] = Lengths(text)[n] - text[1].gap + gap}
<1>6. 0 \in P
  BY <1>1
<1>7. ASSUME NEW n \in 1..N, n - 1 \in P PROVE n \in P
  <2>1. /\ Lengths(o)[n] = Lengths(o)[n - 1] + o[n].gap + o[n].len
        /\ Lengths(text)[n] = Lengths(text)[n - 1] + text[n].gap + text[n].len
        /\ Lengths(o)[0] = 0 /\ Lengths(text)[0] = 0
    BY <1>1, <1>4, LengthsAre
  <2>2. /\ Lengths(text)[n - 1] \in Nat /\ text[n].gap \in Nat /\ text[n].len \in Nat
        /\ text[1].gap \in Nat
    BY <1>1, LengthsAre, TextsAre
  <2>3. CASE n = 1
    BY <1>1, <1>2, <1>4, <2>1, <2>2, <2>3
  <2>4. CASE n # 1
    <3>1. n \in 2..N /\ n - 1 # 0
      BY <1>1, <2>4
    <3>2. Lengths(o)[n - 1] = Lengths(text)[n - 1] - text[1].gap + gap
      BY <1>7, <3>1
    <3>3. o[n] = text[n]
      BY <1>4, <3>1
    <3> QED BY <2>1, <2>2, <3>2, <3>3
  <2> QED BY <2>3, <2>4
<1>8. \A n \in 0..N : n \in P
  <2> HIDE DEF P
  <2> QED BY <1>1, <1>6, <1>7, UpTo
<1>9. Lengths(o)[N] = Lengths(text)[N] - text[1].gap + gap
  BY <1>1, <1>8
<1> QED BY <1>2, <1>4, <1>5, <1>9 DEF Length, o

\* A part of a text.
LEMMA PartOfText ==
  ASSUME NEW text \in Texts, NEW m \in 1..Len(text)+1, NEW n \in m-1..Len(text)
  PROVE  /\ SubSeq(text, m, n) \in Texts /\ Len(SubSeq(text, m, n)) = n - m + 1
         /\ \A i \in 1..n-m+1 : SubSeq(text, m, n)[i] = text[m + i - 1]
<1>1. text \in Seq(AnySentence) /\ Len(text) \in Nat
  BY TextsAre DEF Texts
<1>2. m \in Nat /\ n \in Nat /\ n - m + 1 \in Nat /\ m \in 1..Len(text)+1 /\ n \in 0..Len(text)
  BY <1>1
<1>3. /\ SubSeq(text, m, n) \in Seq(AnySentence)
      /\ Len(SubSeq(text, m, n)) = IF m <= n THEN n - m + 1 ELSE 0
      /\ \A i \in 1..n-m+1 : SubSeq(text, m, n)[i] = text[m + i - 1]
  BY <1>1, <1>2
<1> QED BY <1>2, <1>3 DEF Texts

LEMMA SameText ==
  ASSUME NEW a \in Texts, NEW b \in Texts, Len(a) = Len(b), \A i \in 1..Len(a) : a[i] = b[i]
  PROVE  a = b
BY DEF Texts

LEMMA FirstOfBoth ==
  ASSUME NEW a \in Texts, NEW b \in Texts
  PROVE  SubSeq(a \o b, 1, Len(a)) = a
<1>1. Len(a) \in Nat /\ Len(b) \in Nat
  BY TextsAre
<1>2. a \o b \in Texts /\ Len(a \o b) = Len(a) + Len(b) /\ \A i \in 1..Len(a) : (a \o b)[i] = a[i]
  BY BothTexts
<1> DEFINE c == a \o b
<1> HIDE DEF c
<1>3. c \in Texts /\ 1 \in 1..Len(c)+1 /\ Len(a) \in 1-1..Len(c)
  BY <1>1, <1>2 DEF c
<1>4. /\ SubSeq(c, 1, Len(a)) \in Texts /\ Len(SubSeq(c, 1, Len(a))) = Len(a) - 1 + 1
      /\ \A i \in 1..Len(a)-1+1 : SubSeq(c, 1, Len(a))[i] = c[1 + i - 1]
  BY <1>3, PartOfText
<1>5. Len(a) - 1 + 1 = Len(a) /\ \A i \in 1..Len(a) : 1 + i - 1 = i
  BY <1>1
<1>6. /\ Len(SubSeq(c, 1, Len(a))) = Len(a)
      /\ \A i \in 1..Len(a) : SubSeq(c, 1, Len(a))[i] = a[i]
  BY <1>2, <1>4, <1>5 DEF c
<1> QED BY <1>4, <1>6, SameText DEF c

\* The sentences of a text from the i-th on, whatever the gaps between them.
LEMMA EndingIs ==
  ASSUME NEW text \in Texts, NEW i \in 1..Len(text)
  PROVE  /\ Ending(text, i) \in Texts /\ Len(Ending(text, i)) = Len(text) - i + 1
         /\ \A j \in 1..Len(text)-i+1 : Ending(text, i)[j].id = text[i + j - 1].id
<1> DEFINE t == SubSeq(text, i, Len(text))
           n == Len(text) - i + 1
<1>1. t \in Texts /\ Len(t) = n /\ \A j \in 1..n : t[j] = text[i + j - 1]
  <2>1. i \in 1..Len(text)+1 /\ Len(text) \in i-1..Len(text)
    BY TextsAre
  <2> QED BY <2>1, PartOfText
<1> HIDE DEF t
<1>2. n \in Nat /\ DOMAIN t = 1..n /\ \A j \in 1..n : t[j] \in AnySentence
  BY <1>1, TextsAre
<1> DEFINE gap(j) == IF j = 1 THEN 0 ELSE IF t[j - 1].stop THEN WithinParagraph ELSE t[j].gap
           s(j) == [t[j] EXCEPT !.gap = gap(j)]
<1>3. Respaced(t) = [j \in 1..n |-> s(j)]
  BY <1>2 DEF Respaced
<1>4. ASSUME NEW j \in 1..n PROVE s(j) \in AnySentence /\ s(j).id = t[j].id
  <2>1. t[j] \in AnySentence
    BY <1>2
  <2>2. t[j].gap \in Nat
    BY <2>1 DEF AnySentence
  <2>3. gap(j) \in Nat
    BY <2>2 DEF WithinParagraph
  <2> HIDE DEF gap
  <2> QED BY <2>1, <2>3 DEF AnySentence
<1> HIDE DEF s
<1>5. /\ Respaced(t) \in Seq(AnySentence) /\ Len(Respaced(t)) = n
      /\ \A j \in 1..n : Respaced(t)[j].id = t[j].id
  BY <1>2, <1>3, <1>4
<1> QED BY <1>1, <1>5 DEF Ending, Texts, t

\* _compute_overlap gives an end of the text that fits, or nothing.
LEMMA OverlapIs ==
  ASSUME NEW text \in Texts
  PROVE  \/ Overlap(text) = <<>>
         \/ /\ \E i \in 1..Len(text) : Overlap(text) = Ending(text, i)
            /\ Length(Overlap(text)) <= ChunkOverlap
<1> DEFINE fitting == {i \in SentenceStarts(text) : Length(Ending(text, i)) <= ChunkOverlap}
<1>1. DOMAIN text = 1..Len(text) /\ fitting \subseteq 1..Len(text)
  BY TextsAre DEF SentenceStarts
<1>2. ASSUME fitting # {} PROVE Min(fitting) \in fitting
  <2> HIDE DEF fitting
  <2>1. fitting \in SUBSET Nat
    BY <1>1
  <2>2. \E i \in fitting : \A j \in fitting : i <= j
    BY <1>2, <2>1, Least
  <2> QED BY <2>2 DEF Min
<1>3. Overlap(text) = IF fitting = {} THEN <<>> ELSE Ending(text, Min(fitting))
  BY DEF Overlap
<1>4. ASSUME fitting # {} PROVE Length(Ending(text, Min(fitting))) <= ChunkOverlap
  BY <1>2, <1>4
<1> HIDE DEF fitting
<1> QED BY <1>1, <1>2, <1>3, <1>4

-----------------------------------------------------------------------------
(* The chunks of a page, sentence by sentence and paragraph by paragraph.  *)

States == [done : Seq(Texts), current : Texts]

\* The n first sentences of a page have been told by these chunks.
Chunked(texts, n, page) ==
  /\ texts \in Seq(Texts \ {<<>>})
  /\ \A k \in DOMAIN texts : Bounded(texts[k], page)
  /\ Covers(texts, n)
  /\ n = 0 => texts = <<>>

\* And by the one that is open.
Told(st, n, page) ==
  /\ st \in States
  /\ Chunked(Flushed(st), n, page)
  /\ n = 0 => st = Nothing
  /\ n > 0 => st.current # <<>>

First(text) == text[1].id
End(text) == text[Len(text)].id
InOrder(text) == \A i \in DOMAIN text : text[i].id = First(text) + i - 1

\* The text t may follow the text s.
Follows(s, t) ==
  /\ End(t) > End(s)
  /\ First(t) \in First(s)..End(s) + 1
  /\ Length(SubSeq(t, 1, End(s) + 1 - First(t))) <= ChunkOverlap

\* A sequence is one of all the sets its elements are of.
LEMMA ElementsDecide ==
  ASSUME NEW S, NEW T, NEW s \in Seq(S), \A k \in 1..Len(s) : s[k] \in T
  PROVE  s \in Seq(T)
<1>1. Len(s) \in Nat /\ s \in [1..Len(s) -> S]
  OBVIOUS
<1>2. s \in [1..Len(s) -> T]
  BY <1>1
<1> QED BY <1>1, <1>2

LEMMA CoversIs ==
  ASSUME NEW texts \in Seq(Texts), NEW n
  PROVE  Covers(texts, n) <=>
           /\ \A k \in 1..Len(texts) : InOrder(texts[k])
           /\ n > 0 => texts # <<>> /\ First(texts[1]) = 1 /\ End(texts[Len(texts)]) = n
           /\ \A k \in 2..Len(texts) : Follows(texts[k - 1], texts[k])
<1>1. DOMAIN texts = 1..Len(texts)
  OBVIOUS
<1> QED BY <1>1 DEF Covers, InOrder, First, End, Follows

LEMMA Ids ==
  ASSUME NEW text \in Texts, text # <<>>
  PROVE  /\ First(text) \in Nat /\ End(text) \in Nat /\ Len(text) \in Nat \ {0}
         /\ InOrder(text) => End(text) = First(text) + Len(text) - 1
<1>1. Len(text) \in Nat \ {0} /\ DOMAIN text = 1..Len(text)
  BY TextsAre
<1>2. 1 \in 1..Len(text) /\ Len(text) \in 1..Len(text)
  BY <1>1
<1>3. First(text) \in Nat /\ End(text) \in Nat
  BY <1>2, TextsAre DEF First, End
<1> QED BY <1>1, <1>2, <1>3 DEF InOrder, First, End

\* A text that follows the last chunk.
LEMMA Appended ==
  ASSUME NEW page, NEW n \in Nat, NEW texts, Chunked(texts, n, page),
         NEW t \in Texts, t # <<>>, InOrder(t), End(t) > n, Bounded(t, page),
         n = 0 => First(t) = 1,
         n > 0 => Follows(texts[Len(texts)], t)
  PROVE  Chunked(Append(texts, t), End(t), page)
<1> DEFINE L == Len(texts)
           new == Append(texts, t)
<1>1. texts \in Seq(Texts \ {<<>>}) /\ texts \in Seq(Texts) /\ L \in Nat /\ DOMAIN texts = 1..L
  BY DEF Chunked
<1>2. /\ new \in Seq(Texts \ {<<>>}) /\ new \in Seq(Texts) /\ Len(new) = L + 1
      /\ DOMAIN new = 1..L+1 /\ new[L + 1] = t /\ \A k \in 1..L : new[k] = texts[k]
  BY <1>1
<1>3. /\ \A k \in 1..L : InOrder(texts[k])
      /\ n > 0 => texts # <<>> /\ First(texts[1]) = 1 /\ End(texts[L]) = n
      /\ \A k \in 2..L : Follows(texts[k - 1], texts[k])
  BY <1>1, CoversIs DEF Chunked
<1>4. n = 0 <=> L = 0
  BY <1>1, <1>3 DEF Chunked
<1>5. \A k \in DOMAIN new : Bounded(new[k], page)
  BY <1>1, <1>2 DEF Chunked
<1> HIDE DEF new
<1>6. \A k \in 1..L+1 : InOrder(new[k])
  BY <1>1, <1>2, <1>3
<1>7. new # <<>> /\ First(new[1]) = 1 /\ End(new[L + 1]) = End(t)
  <2>1. CASE L = 0
    <3>1. n = 0 /\ Len(new) = 1 /\ new[1] = t
      BY <1>2, <1>4, <2>1
    <3> QED BY <1>2, <3>1
  <2>2. CASE L # 0
    BY <1>1, <1>2, <1>3, <1>4, <2>2
  <2> QED BY <2>1, <2>2
<1>8. ASSUME NEW k \in 2..L+1 PROVE Follows(new[k - 1], new[k])
  <2>1. CASE k \in 2..L
    <3>1. k - 1 \in 1..L /\ k \in 1..L
      BY <1>1, <2>1
    <3> QED BY <1>2, <1>3, <2>1, <3>1
  <2>2. CASE k = L + 1
    <3>1. L \in 1..L /\ k - 1 = L /\ n > 0
      BY <1>1, <1>4, <2>2
    <3> QED BY <1>2, <2>2, <3>1
  <2> QED BY <1>1, <2>1, <2>2
<1>9. Covers(new, End(t))
  BY <1>2, <1>6, <1>7, <1>8, CoversIs
<1>10. End(t) # 0
  BY Ids
<1> QED BY <1>2, <1>5, <1>9, <1>10 DEF Chunked, new

\* The last chunk, grown at its end.
LEMMA Grown ==
  ASSUME NEW page, NEW n \in Nat, NEW done \in Seq(Texts), NEW c \in Texts, c # <<>>,
         Chunked(Append(done, c), n, page),
         NEW d \in Texts, Len(d) > Len(c), \A i \in 1..Len(c) : d[i] = c[i],
         InOrder(d), Bounded(d, page)
  PROVE  Chunked(Append(done, d), End(d), page)
<1> DEFINE L == Len(done)
           old == Append(done, c)
           new == Append(done, d)
<1>1. /\ L \in Nat /\ old \in Seq(Texts) /\ Len(old) = L + 1 /\ DOMAIN old = 1..L+1
      /\ old[L + 1] = c /\ \A k \in 1..L : old[k] = done[k]
  OBVIOUS
<1>2. /\ new \in Seq(Texts) /\ Len(new) = L + 1 /\ DOMAIN new = 1..L+1
      /\ new[L + 1] = d /\ \A k \in 1..L : new[k] = old[k]
  OBVIOUS
<1>3. /\ old \in Seq(Texts \ {<<>>}) /\ old # <<>> /\ n > 0
      /\ \A k \in DOMAIN old : Bounded(old[k], page)
      /\ Covers(old, n)
  BY <1>1 DEF Chunked
<1>4. Len(c) \in Nat \ {0} /\ Len(d) \in Nat \ {0} /\ d # <<>>
  BY TextsAre
<1>5. new \in Seq(Texts \ {<<>>})
  <2>1. \A k \in 1..L+1 : new[k] \in Texts \ {<<>>}
    BY <1>1, <1>2, <1>3, <1>4
  <2>2. new \in Seq(Texts) /\ \A k \in 1..Len(new) : new[k] \in Texts \ {<<>>}
    BY <1>2, <2>1
  <2> HIDE DEF new
  <2> QED BY <2>2, ElementsDecide
<1>6. \A k \in DOMAIN new : Bounded(new[k], page)
  BY <1>1, <1>2, <1>3
<1> HIDE DEF new, old
<1>7. /\ \A k \in 1..L+1 : InOrder(old[k])
      /\ First(old[1]) = 1 /\ End(old[L + 1]) = n
      /\ \A k \in 2..L+1 : Follows(old[k - 1], old[k])
  BY <1>1, <1>3, CoversIs
<1>8. First(d) = First(c)
  BY <1>4 DEF First
<1>9. \A k \in 1..L+1 : InOrder(new[k])
  BY <1>1, <1>2, <1>7
<1>10. new # <<>> /\ First(new[1]) = 1 /\ End(new[L + 1]) = End(d)
  <2>1. CASE L = 0
    BY <1>1, <1>2, <1>7, <1>8, <2>1
  <2>2. CASE L # 0
    BY <1>1, <1>2, <1>7, <2>2
  <2> QED BY <2>1, <2>2
<1>11. ASSUME NEW k \in 2..L+1 PROVE Follows(new[k - 1], new[k])
  <2>1. CASE k \in 2..L
    <3>1. k - 1 \in 1..L /\ k \in 1..L
      BY <1>1, <2>1
    <3> QED BY <1>2, <1>7, <2>1, <3>1
  <2>2. CASE k = L + 1
    <3> DEFINE s == old[L]
               e == End(s)
               x == End(s) + 1 - First(c)
    <3>1. L \in 1..L /\ k - 1 = L /\ s \in Texts /\ s # <<>>
      BY <1>1, <1>3, <2>2
    <3>2. Follows(s, c)
      BY <1>1, <1>7, <2>2, <3>1
    <3>3. e \in Nat /\ First(c) \in Nat /\ End(c) = First(c) + Len(c) - 1 /\ End(d) = First(d) + Len(d) - 1
      <4>1. e \in Nat
        BY <3>1, Ids
      <4>2. InOrder(c)
        BY <1>1, <1>7
      <4> QED BY <1>4, <4>1, <4>2, Ids
    <3>4. e < End(c) /\ First(c) \in First(s)..e + 1 /\ Length(SubSeq(c, 1, x)) <= ChunkOverlap
      BY <3>2 DEF Follows
    <3>5. x \in 0..Len(c) /\ x \in 0..Len(d) /\ End(d) > e
      <4>1. First(s) \in Nat
        BY <3>1, Ids
      <4>2. x = e + 1 - First(c)
        OBVIOUS
      <4> HIDE DEF e, s, x
      <4> QED BY <1>4, <1>8, <3>3, <3>4, <4>1, <4>2
    <3>6. SubSeq(d, 1, x) = SubSeq(c, 1, x)
      <4> HIDE DEF x
      <4>1. /\ 1 \in 1..Len(c)+1 /\ x \in 1-1..Len(c) /\ 1 \in 1..Len(d)+1 /\ x \in 1-1..Len(d)
            /\ x - 1 + 1 = x
        BY <1>4, <3>5
      <4>2. /\ SubSeq(c, 1, x) \in Texts /\ Len(SubSeq(c, 1, x)) = x
            /\ \A i \in 1..x : SubSeq(c, 1, x)[i] = c[1 + i - 1]
        BY <4>1, PartOfText
      <4>3. /\ SubSeq(d, 1, x) \in Texts /\ Len(SubSeq(d, 1, x)) = x
            /\ \A i \in 1..x : SubSeq(d, 1, x)[i] = d[1 + i - 1]
        BY <4>1, PartOfText
      <4>4. \A i \in 1..x : i \in 1..Len(c) /\ 1 + i - 1 = i
        BY <1>4, <3>5
      <4>5. \A i \in 1..x : SubSeq(d, 1, x)[i] = SubSeq(c, 1, x)[i]
        BY <4>2, <4>3, <4>4
      <4> QED BY <4>2, <4>3, <4>5, SameText
    <3>7. Follows(s, d)
      BY <1>8, <3>4, <3>5, <3>6 DEF Follows
    <3> QED BY <1>2, <2>2, <3>1, <3>7
  <2> QED BY <1>1, <2>1, <2>2
<1>12. Covers(new, End(d))
  BY <1>2, <1>9, <1>10, <1>11, CoversIs
<1>13. End(d) # 0
  <2>1. End(c) \in Nat /\ End(c) = n /\ First(c) \in Nat
    BY <1>1, <1>7, Ids
  <2>2. InOrder(c) /\ End(c) = First(c) + Len(c) - 1 /\ End(d) = First(d) + Len(d) - 1
    BY <1>1, <1>4, <1>7, Ids
  <2> QED BY <1>3, <1>4, <1>8, <2>1, <2>2
<1> QED BY <1>5, <1>6, <1>12, <1>13 DEF Chunked, new

LEMMA JoinIs ==
  ASSUME NEW text \in Texts, NEW more \in Texts, more # <<>>, NEW gap \in Nat
  PROVE  /\ Join(text, gap, more) \in Texts
         /\ Len(Join(text, gap, more)) = Len(text) + Len(more)
         /\ \A i \in 1..Len(text) : Join(text, gap, more)[i] = text[i]
         /\ \A i \in 1..Len(more) : Join(text, gap, more)[Len(text) + i].id = more[i].id
         /\ Length(Join(text, gap, more)) =
              IF text = <<>> THEN Length(more) ELSE Length(text) + Length(more) - more[1].gap + gap
<1>1. Len(text) \in Nat /\ Len(more) \in Nat /\ (text = <<>> <=> Len(text) = 0)
  BY TextsAre
<1>2. CASE text = <<>>
  <2>1. Join(text, gap, more) = more /\ Len(text) = 0 /\ \A i \in 1..Len(more) : Len(text) + i = i
    BY <1>1, <1>2 DEF Join
  <2> QED BY <1>1, <1>2, <2>1
<1>3. CASE text # <<>>
  <2> DEFINE o == Opening(more, gap)
  <2>1. Join(text, gap, more) = text \o o
    BY <1>3 DEF Join
  <2>2. /\ o \in Texts /\ Len(o) = Len(more) /\ \A i \in 1..Len(more) : o[i].id = more[i].id
        /\ Length(o) = Length(more) - more[1].gap + gap
    BY OpeningIs
  <2> HIDE DEF o
  <2>3. /\ text \o o \in Texts /\ Len(text \o o) = Len(text) + Len(o)
        /\ \A i \in 1..Len(text) : (text \o o)[i] = text[i]
        /\ \A i \in 1..Len(o) : (text \o o)[Len(text) + i] = o[i]
        /\ Length(text \o o) = Length(text) + Length(o)
    BY <2>2, BothTexts, LengthOfBoth
  <2>4. Length(text) \in Nat /\ Length(more) \in Nat /\ more[1].gap \in Nat
    <3>1. 1 \in 1..Len(more)
      BY TextsAre
    <3> QED BY <3>1, LengthIsNat, TextsAre
  <2> QED BY <1>3, <2>1, <2>2, <2>3, <2>4
<1> QED BY <1>2, <1>3

\* Two texts that follow each other make one.
LEMMA JoinInOrder ==
  ASSUME NEW text \in Texts, NEW more \in Texts, more # <<>>, NEW gap \in Nat,
         InOrder(text), InOrder(more), text # <<>> => First(more) = End(text) + 1
  PROVE  /\ InOrder(Join(text, gap, more))
         /\ First(Join(text, gap, more)) = IF text = <<>> THEN First(more) ELSE First(text)
         /\ End(Join(text, gap, more)) = End(more)
<1> DEFINE j == Join(text, gap, more)
<1>1. /\ j \in Texts /\ Len(j) = Len(text) + Len(more)
      /\ \A i \in 1..Len(text) : j[i] = text[i]
      /\ \A i \in 1..Len(more) : j[Len(text) + i].id = more[i].id
  BY JoinIs
<1>2. /\ Len(text) \in Nat /\ DOMAIN text = 1..Len(text) /\ (text = <<>> <=> Len(text) = 0)
      /\ Len(more) \in Nat \ {0} /\ DOMAIN more = 1..Len(more) /\ First(more) \in Nat
  BY TextsAre, Ids
<1> HIDE DEF j
<1>3. DOMAIN j = 1..Len(text) + Len(more)
  BY <1>1, TextsAre
<1>4. \A i \in 1..Len(more) : j[Len(text) + i].id = First(more) + i - 1
  BY <1>1, <1>2 DEF InOrder
<1>5. j[Len(text) + Len(more)].id = End(more)
  BY <1>1, <1>2 DEF End
<1>6. CASE text = <<>>
  <2>1. Len(text) = 0 /\ \A i \in 1..Len(more) : Len(text) + i = i
    BY <1>2, <1>6
  <2>2. j[1].id = First(more) /\ \A i \in 1..Len(more) : j[i].id = First(more) + i - 1
    BY <1>2, <1>4, <2>1
  <2> QED BY <1>1, <1>2, <1>3, <1>5, <1>6, <2>1, <2>2 DEF InOrder, First, End, j
<1>7. CASE text # <<>>
  <2>1. First(text) \in Nat /\ End(text) = First(text) + Len(text) - 1 /\ Len(text) \in Nat \ {0}
    BY <1>7, Ids
  <2>2. j[1] = text[1] /\ First(j) = First(text)
    BY <1>1, <2>1 DEF First
  <2>3. ASSUME NEW i \in 1..Len(text)+Len(more) PROVE j[i].id = First(text) + i - 1
    <3>1. CASE i \in 1..Len(text)
      BY <1>1, <1>2, <3>1 DEF InOrder
    <3>2. CASE i \notin 1..Len(text)
      <4>1. i - Len(text) \in 1..Len(more) /\ Len(text) + (i - Len(text)) = i
        BY <1>2, <3>2
      <4>2. j[i].id = First(more) + (i - Len(text)) - 1
        BY <1>4, <4>1
      <4>3. First(more) = First(text) + Len(text)
        BY <1>7, <2>1
      <4> QED BY <1>2, <2>1, <4>2, <4>3
    <3> QED BY <3>1, <3>2
  <2> QED BY <1>1, <1>3, <1>5, <1>7, <2>2, <2>3 DEF InOrder, End, j
<1> QED BY <1>6, <1>7

LEMMA StatesAre ==
  ASSUME NEW st \in States
  PROVE  /\ st.done \in Seq(Texts) /\ st.current \in Texts /\ Flushed(st) \in Seq(Texts)
         /\ st = [done |-> st.done, current |-> st.current]
         /\ Flushed(st) = IF st.current = <<>> THEN st.done ELSE Append(st.done, st.current)
<1>1. st.done \in Seq(Texts) /\ st.current \in Texts
  BY DEF States
<1>2. st = [done |-> st.done, current |-> st.current]
  BY DEF States
<1> QED BY <1>1, <1>2 DEF Flushed

\* A new chunk is opened.
LEMMA Opened ==
  ASSUME NEW page, NEW n \in Nat, NEW st, Told(st, n, page),
         NEW t \in Texts, t # <<>>, InOrder(t), End(t) > n, Bounded(t, page),
         n = 0 => First(t) = 1,
         n > 0 => Follows(st.current, t)
  PROVE  Told([done |-> Flushed(st), current |-> t], End(t), page)
<1> DEFINE new == [done |-> Flushed(st), current |-> t]
<1>1. st \in States /\ Chunked(Flushed(st), n, page)
  BY DEF Told
<1>2. st.done \in Seq(Texts) /\ st.current \in Texts /\ Flushed(st) \in Seq(Texts)
  BY <1>1, StatesAre
<1>3. new \in States /\ new.current = t /\ Flushed(new) = Append(Flushed(st), t)
  BY <1>2 DEF States, Flushed
<1>4. n > 0 => Flushed(st)[Len(Flushed(st))] = st.current
  <2>1. n > 0 => Flushed(st) = Append(st.done, st.current)
    BY DEF Told, Flushed
  <2>2. /\ Len(Append(st.done, st.current)) = Len(st.done) + 1
        /\ Append(st.done, st.current)[Len(st.done) + 1] = st.current
    BY <1>2
  <2> QED BY <2>1, <2>2
<1>5. Chunked(Append(Flushed(st), t), End(t), page)
  BY <1>1, <1>4, Appended
<1>6. End(t) # 0
  BY Ids
<1> QED BY <1>3, <1>5, <1>6 DEF Told

\* The same fact about a text j, under one name.
IsJoin(j, text, gap, more) ==
  /\ j \in Texts
  /\ Len(j) = Len(text) + Len(more)
  /\ \A i \in 1..Len(text) : j[i] = text[i]
  /\ Length(j) = IF text = <<>> THEN Length(more) ELSE Length(text) + Length(more) - more[1].gap + gap

LEMMA JoinIsJoin ==
  ASSUME NEW text \in Texts, NEW more \in Texts, more # <<>>, NEW gap \in Nat
  PROVE  IsJoin(Join(text, gap, more), text, gap, more)
<1> QED BY JoinIs DEF IsJoin

\* The text fits into the chunk that is open, or becomes one.
LEMMA Fitted ==
  ASSUME NEW page, NEW n \in Nat, NEW st, Told(st, n, page),
         NEW more \in Texts, more # <<>>, InOrder(more), First(more) = n + 1,
         more[1].gap = 0, NEW gap \in {WithinParagraph, BetweenParagraphs},
         Fits(st.current, more)
  PROVE  Told([st EXCEPT !.current = Join(@, gap, more)], End(more), page)
<1> DEFINE c == st.current
           j == Join(c, gap, more)
           new == [done |-> st.done, current |-> j]
<1>1. /\ st \in States /\ Chunked(Flushed(st), n, page) /\ c \in Texts /\ st.done \in Seq(Texts)
      /\ st = [done |-> st.done, current |-> c]
  BY StatesAre DEF Told
<1>2. [st EXCEPT !.current = Join(@, gap, more)] = new
  BY <1>1
<1>3. gap \in Nat /\ gap <= 2
  BY DEF WithinParagraph, BetweenParagraphs
<1>4. /\ j \in Texts /\ Len(j) = Len(c) + Len(more) /\ \A i \in 1..Len(c) : j[i] = c[i]
      /\ Length(j) = IF c = <<>> THEN Length(more) ELSE Length(c) + Length(more) - more[1].gap + gap
  <2>1. c \in Texts /\ gap \in Nat
    BY <1>1, <1>3
  <2> HIDE DEF c
  <2>2. IsJoin(j, c, gap, more)
    BY <2>1, JoinIsJoin
  <2> HIDE DEF j
  <2> QED BY <2>2 DEF IsJoin
<1>5. Length(j) <= ChunkSize + 1
  <2>1. Length(c) \in Nat /\ Length(more) \in Nat /\ ChunkSize \in Nat
    BY <1>1, LengthIsNat, ChunkerAssumption
  <2>2. Length(c) + Length(more) + 1 <= ChunkSize
    BY DEF Fits
  <2> HIDE DEF c, j
  <2> QED BY <1>3, <1>4, <2>1, <2>2
<1>6. Bounded(j, page)
  BY <1>5 DEF Bounded
<1>7. Len(c) \in Nat /\ Len(more) \in Nat \ {0} /\ (c = <<>> <=> Len(c) = 0)
  BY <1>1, TextsAre
<1>8. End(more) = n + Len(more) /\ End(more) > n
  <2>1. End(more) = First(more) + Len(more) - 1
    BY Ids
  <2> QED BY <1>7, <2>1
<1>9. CASE c = <<>>
  <2>1. n = 0 /\ j = more /\ Flushed(st) = st.done
    BY <1>9 DEF Told, Join, Flushed
  <2>2. Told([done |-> Flushed(st), current |-> more], End(more), page)
    BY <1>6, <1>8, <2>1, Opened
  <2> QED BY <1>2, <2>1, <2>2
<1>10. CASE c # <<>>
  <2>1. Flushed(st) = Append(st.done, c) /\ n > 0
    BY <1>10 DEF Told, Flushed, Nothing
  <2>2. InOrder(c) /\ End(c) = n
    <3>1. /\ Append(st.done, c) \in Seq(Texts) /\ Len(Append(st.done, c)) = Len(st.done) + 1
          /\ Len(st.done) \in Nat
          /\ Append(st.done, c)[Len(st.done) + 1] = c
      BY <1>1
    <3>2. Covers(Append(st.done, c), n)
      BY <1>1, <2>1 DEF Chunked
    <3> DEFINE a == Append(st.done, c)
    <3>3. a \in Seq(Texts) /\ Len(a) = Len(st.done) + 1 /\ a[Len(a)] = c /\ Len(a) \in 1..Len(a) /\ Covers(a, n)
      BY <3>1, <3>2
    <3> HIDE DEF a, c
    <3>4. InOrder(a[Len(a)]) /\ End(a[Len(a)]) = n
      BY <2>1, <3>3, CoversIs
    <3> QED BY <3>3, <3>4
  <2>3. InOrder(j) /\ End(j) = End(more)
    BY <1>1, <1>3, <2>2, JoinInOrder
  <2>4. Chunked(Append(st.done, c), n, page) /\ Len(j) > Len(c) /\ j # <<>>
    <3>1. Len(j) > Len(c) /\ Len(j) # 0
      BY <1>4, <1>7
    <3> QED BY <1>1, <1>4, <2>1, <3>1, TextsAre
  <2> HIDE DEF c, j
  <2>5. Chunked(Append(st.done, j), End(more), page)
    BY <1>1, <1>4, <1>6, <1>10, <2>3, <2>4, Grown
  <2>6. new \in States /\ new.current = j /\ Flushed(new) = Append(st.done, j)
    BY <1>1, <1>4, <2>4 DEF States, Flushed
  <2>7. End(more) \in Nat /\ End(more) # 0
    BY <1>8, <1>7
  <2> QED BY <1>2, <2>4, <2>5, <2>6, <2>7 DEF Told, c, j
<1> QED BY <1>9, <1>10

\* What is put behind a text is still found in what becomes of them.
LEMMA JoinParts ==
  ASSUME NEW text \in Texts, NEW more \in Texts, more # <<>>, NEW gap \in Nat
  PROVE  LET j == Join(text, gap, more)
             rest == SubSeq(j, Len(text) + 1, Len(j))
         IN  /\ SubSeq(j, 1, Len(text)) = text
             /\ [i \in DOMAIN rest |-> rest[i].id] = [i \in DOMAIN more |-> more[i].id]
<1> DEFINE j == Join(text, gap, more)
           rest == SubSeq(j, Len(text) + 1, Len(j))
<1>1. /\ j \in Texts /\ Len(j) = Len(text) + Len(more)
      /\ \A i \in 1..Len(text) : j[i] = text[i]
      /\ \A i \in 1..Len(more) : j[Len(text) + i].id = more[i].id
  BY JoinIs
<1>2. Len(text) \in Nat /\ Len(more) \in Nat /\ DOMAIN more = 1..Len(more)
  BY TextsAre
<1> HIDE DEF j
<1>3. SubSeq(j, 1, Len(text)) = text
  <2> DEFINE a == SubSeq(j, 1, Len(text))
  <2>1. 1 \in 1..Len(j)+1 /\ Len(text) \in 1-1..Len(j)
    BY <1>1, <1>2
  <2>2. /\ a \in Texts /\ Len(a) = Len(text) - 1 + 1
        /\ \A i \in 1..Len(text)-1+1 : a[i] = j[1 + i - 1]
    BY <1>1, <2>1, PartOfText
  <2>3. Len(text) - 1 + 1 = Len(text) /\ \A i \in 1..Len(text) : 1 + i - 1 = i
    BY <1>2
  <2> HIDE DEF a
  <2>4. Len(a) = Len(text) /\ \A i \in 1..Len(a) : a[i] = text[i]
    BY <1>1, <2>2, <2>3
  <2> QED BY <2>2, <2>4, SameText DEF a
<1>4. DOMAIN rest = 1..Len(more) /\ \A i \in 1..Len(more) : rest[i].id = more[i].id
  <2>1. Len(text) + 1 \in 1..Len(j)+1 /\ Len(j) \in Len(text)+1-1..Len(j)
    BY <1>1, <1>2
  <2>2. /\ rest \in Texts /\ Len(rest) = Len(j) - (Len(text) + 1) + 1
        /\ \A i \in 1..Len(j)-(Len(text)+1)+1 : rest[i] = j[Len(text) + 1 + i - 1]
    BY <1>1, <2>1, PartOfText
  <2>3. /\ Len(j) - (Len(text) + 1) + 1 = Len(more)
        /\ \A i \in 1..Len(more) : Len(text) + 1 + i - 1 = Len(text) + i
    BY <1>1, <1>2
  <2> HIDE DEF rest
  <2>4. Len(rest) = Len(more) /\ \A i \in 1..Len(more) : rest[i] = j[Len(text) + i]
    BY <2>2, <2>3
  <2> QED BY <1>1, <2>2, <2>4, TextsAre
<1> HIDE DEF rest
<1>5. [i \in DOMAIN rest |-> rest[i].id] = [i \in DOMAIN more |-> more[i].id]
  BY <1>2, <1>4
<1> QED BY <1>3, <1>5 DEF j, rest

\* The numbers of an ending go on to those of what is behind the text.
LEMMA EndingInOrder ==
  ASSUME NEW text \in Texts, InOrder(text), NEW i \in 1..Len(text)
  PROVE  LET o == Ending(text, i)
         IN  /\ o \in Texts /\ o # <<>> /\ InOrder(o) /\ End(o) = End(text)
             /\ First(o) \in First(text)..End(text)
             /\ Len(o) = End(text) + 1 - First(o)
<1> DEFINE o == Ending(text, i)
           n == Len(text) - i + 1
<1>1. /\ Len(text) \in Nat \ {0} /\ DOMAIN text = 1..Len(text) /\ text # <<>> /\ n \in Nat \ {0}
      /\ First(text) \in Nat /\ End(text) = First(text) + Len(text) - 1
  <2>1. Len(text) \in Nat \ {0} /\ DOMAIN text = 1..Len(text) /\ text # <<>>
    BY TextsAre
  <2>2. First(text) \in Nat /\ End(text) = First(text) + Len(text) - 1
    BY <2>1, Ids
  <2> QED BY <2>1, <2>2
<1>2. o \in Texts /\ Len(o) = n /\ \A j \in 1..n : o[j].id = text[i + j - 1].id
  BY EndingIs
<1> HIDE DEF o
<1>3. \A j \in 1..n : o[j].id = First(text) + i + j - 2
  <2> TAKE j \in 1..n
  <2>1. i + j - 1 \in 1..Len(text)
    BY <1>1
  <2>2. text[i + j - 1].id = First(text) + (i + j - 1) - 1
    BY <1>1, <2>1 DEF InOrder
  <2> QED BY <1>1, <1>2, <2>2
<1>4. o # <<>> /\ DOMAIN o = 1..n /\ 1 \in 1..n /\ n \in 1..n
  BY <1>1, <1>2, TextsAre
<1>5. First(o) = First(text) + i - 1
  <2>1. First(o) = First(text) + i + 1 - 2
    BY <1>3, <1>4 DEF First
  <2> QED BY <1>1, <2>1
<1>6. End(o) = First(text) + i + n - 2
  BY <1>2, <1>3, <1>4 DEF End
<1>7. InOrder(o)
  <2>1. \A j \in 1..n : o[j].id = First(o) + j - 1
    BY <1>1, <1>3, <1>5
  <2> QED BY <1>4, <2>1 DEF InOrder
<1>8. End(o) = End(text) /\ First(o) \in First(text)..End(text) /\ Len(o) = End(text) + 1 - First(o)
  BY <1>1, <1>2, <1>5, <1>6
<1> QED BY <1>2, <1>4, <1>7, <1>8 DEF o

\* A paragraph that does not fit is put behind the overlap with the last chunk.
LEMMA Overlapped ==
  ASSUME NEW page, NEW n \in Nat, NEW st, Told(st, n, page), st.current # <<>>,
         NEW p \in DOMAIN page, page[p] \in Texts, page[p] # <<>>,
         InOrder(page[p]), First(page[p]) = n + 1
  PROVE  Told([done |-> Flushed(st),
               current |-> Join(Overlap(st.current), BetweenParagraphs, page[p])],
              End(page[p]), page)
<1> DEFINE c == st.current
           o == Overlap(c)
           para == page[p]
           t == Join(o, BetweenParagraphs, para)
<1>1. c \in Texts /\ Flushed(st) = Append(st.done, c) /\ st.done \in Seq(Texts) /\ n > 0
  BY StatesAre DEF Told, Flushed, Nothing
<1>2. InOrder(c) /\ End(c) = n
  <2> DEFINE a == Append(st.done, c)
  <2>1. Covers(a, n)
    BY <1>1 DEF Told, Chunked
  <2>2. a \in Seq(Texts) /\ a[Len(a)] = c /\ Len(a) \in 1..Len(a)
    BY <1>1
  <2> HIDE DEF a, c
  <2>3. InOrder(a[Len(a)]) /\ End(a[Len(a)]) = n
    BY <1>1, <2>1, <2>2, CoversIs
  <2> QED BY <2>2, <2>3
<1>3. First(c) \in Nat /\ Len(c) \in Nat \ {0} /\ End(c) = First(c) + Len(c) - 1
  BY <1>1, <1>2, Ids
<1>4. BetweenParagraphs \in Nat
  BY DEF BetweenParagraphs
<1>5. End(para) = n + Len(para) /\ Len(para) \in Nat \ {0} /\ End(para) > n
  <2>1. Len(para) \in Nat \ {0} /\ End(para) = First(para) + Len(para) - 1
    BY Ids
  <2> QED BY <2>1
<1>6. /\ o \in Texts /\ Length(o) <= ChunkOverlap /\ InOrder(o)
      /\ o # <<>> => End(o) = n /\ First(o) \in First(c)..n /\ Len(o) = n + 1 - First(o)
  <2>1. CASE o = <<>>
    <3>1. DOMAIN o = {}
      BY <2>1
    <3> QED BY <2>1, <3>1, EmptyText, ChunkerAssumption DEF InOrder
  <2>2. CASE o # <<>>
    <3>1. PICK i \in 1..Len(c) : o = Ending(c, i)
      BY <1>1, <2>2, OverlapIs
    <3>2. Length(o) <= ChunkOverlap
      BY <1>1, <2>2, OverlapIs
    <3> HIDE DEF c, o
    <3>3. /\ o \in Texts /\ InOrder(o) /\ End(o) = End(c)
          /\ First(o) \in First(c)..End(c) /\ Len(o) = End(c) + 1 - First(o)
      BY <1>1, <1>2, <3>1, EndingInOrder
    <3> QED BY <1>2, <3>2, <3>3
  <2> QED BY <2>1, <2>2
<1> HIDE DEF c, o, para
<1>7. para \in Texts /\ para # <<>> /\ InOrder(para) /\ First(para) = n + 1
  BY DEF para
<1>8. /\ InOrder(t) /\ End(t) = End(para)
      /\ First(t) = IF o = <<>> THEN First(para) ELSE First(o)
  <2>1. o # <<>> => First(para) = End(o) + 1
    BY <1>6, <1>7
  <2> QED BY <1>4, <1>6, <1>7, <2>1, JoinInOrder
<1>9. /\ t \in Texts /\ Len(t) = Len(o) + Len(para)
  BY <1>4, <1>6, <1>7, JoinIs
<1>10. /\ SubSeq(t, 1, Len(o)) = o
       /\ LET rest == SubSeq(t, Len(o) + 1, Len(t))
          IN  [i \in DOMAIN rest |-> rest[i].id] = [i \in DOMAIN para |-> para[i].id]
  BY <1>4, <1>6, <1>7, JoinParts
<1>11. Len(o) \in Nat /\ (o = <<>> <=> Len(o) = 0)
  BY <1>6, TextsAre
<1>12. t # <<>> /\ DOMAIN t = 1..Len(t)
  <2>1. Len(t) # 0
    BY <1>5, <1>9, <1>11
  <2> HIDE DEF t
  <2> QED BY <1>9, <2>1, TextsAre
<1> HIDE DEF t
<1>13. Bounded(t, page)
  <2>1. Len(o) + 1 \in DOMAIN t /\ Len(o) + 1 - 1 = Len(o)
    BY <1>5, <1>9, <1>11, <1>12
  <2>2. IsParagraph(SubSeq(t, Len(o) + 1, Len(t)), page)
    BY <1>10 DEF IsParagraph, para
  <2>3. Length(SubSeq(t, 1, Len(o) + 1 - 1)) <= ChunkOverlap
    BY <1>6, <1>10, <2>1
  <2> QED BY <2>1, <2>2, <2>3 DEF Bounded
<1>14. Follows(c, t)
  <2>1. First(t) \in First(c)..n + 1 /\ n + 1 - First(t) = Len(o)
    <3>1. CASE o = <<>>
      <4>1. First(t) = n + 1 /\ Len(o) = 0
        BY <1>7, <1>8, <1>11, <3>1
      <4>2. First(c) <= n
        BY <1>2, <1>3
      <4> QED BY <1>3, <4>1, <4>2
    <3>2. CASE o # <<>>
      <4>1. First(t) = First(o) /\ First(o) \in First(c)..n /\ Len(o) = n + 1 - First(o)
        BY <1>6, <1>8, <3>2
      <4> QED BY <1>3, <4>1
    <3> QED BY <3>1, <3>2
  <2> QED BY <1>2, <1>5, <1>6, <1>8, <1>10, <2>1 DEF Follows
<1>15. Told([done |-> Flushed(st), current |-> t], End(t), page)
  <2>1. Follows(st.current, t) /\ n > 0
    BY <1>1, <1>14 DEF c
  <2>2. t \in Texts /\ t # <<>> /\ InOrder(t) /\ Bounded(t, page)
    BY <1>8, <1>9, <1>12, <1>13
  <2>3. End(t) > n
    BY <1>5, <1>8
  <2> QED BY <2>1, <2>2, <2>3, Opened
<1> QED BY <1>8, <1>15 DEF t, c, o, para

\* A sentence of a paragraph, as it is added.
LEMMA SentenceIs ==
  ASSUME NEW para \in Texts, NEW i \in 1..Len(para)
  PROVE  LET s == Sentences(para)[i]
         IN  /\ s \in Texts /\ s # <<>> /\ Len(s) = 1 /\ s[1].gap = 0
             /\ InOrder(s) /\ First(s) = para[i].id /\ End(s) = para[i].id
<1> DEFINE b == <<para[i]>>
           s == Opening(b, 0)
<1>1. Sentences(para)[i] = s
  BY TextsAre DEF Sentences
<1>2. b \in Texts /\ Len(b) = 1 /\ b # <<>> /\ b[1] = para[i] /\ para[i].id \in Nat
  BY TextsAre, OneSentence
<1> HIDE DEF b
<1>3. s \in Texts /\ Len(s) = 1 /\ s[1].gap = 0 /\ s[1].id = para[i].id
  <2>1. 0 \in Nat /\ 1 \in 1..Len(b)
    BY <1>2
  <2>2. /\ s \in Texts /\ Len(s) = Len(b) /\ s[1].gap = 0
        /\ \A j \in 1..Len(b) : s[j].id = b[j].id
    BY <1>2, <2>1, OpeningIs
  <2> HIDE DEF s
  <2> QED BY <1>2, <2>1, <2>2
<1> HIDE DEF s
<1>4. s # <<>> /\ DOMAIN s = {1}
  BY <1>3, TextsAre
<1>5. InOrder(s) /\ First(s) = para[i].id /\ End(s) = para[i].id
  BY <1>2, <1>3, <1>4 DEF InOrder, First, End
<1> QED BY <1>1, <1>3, <1>4, <1>5

LEMMA SentenceAddedToState ==
  ASSUME NEW st \in States, NEW s \in Texts, s # <<>>
  PROVE  AddSentence(st, s) \in States
<1>1. /\ st.done \in Seq(Texts) /\ st.current \in Texts /\ Flushed(st) \in Seq(Texts)
      /\ st = [done |-> st.done, current |-> st.current]
  BY StatesAre
<1>2. Join(st.current, WithinParagraph, s) \in Texts
  <2>1. WithinParagraph \in Nat
    BY DEF WithinParagraph
  <2> QED BY <1>1, <2>1, JoinIs
<1>3. /\ [done |-> st.done, current |-> Join(st.current, WithinParagraph, s)] \in States
      /\ [done |-> Flushed(st), current |-> s] \in States
  BY <1>1, <1>2 DEF States
<1>4. [st EXCEPT !.current = Join(@, WithinParagraph, s)]
         = [done |-> st.done, current |-> Join(st.current, WithinParagraph, s)]
  BY <1>1
<1> QED BY <1>3, <1>4 DEF AddSentence

LEMMA SentenceAdded ==
  ASSUME NEW page, NEW n \in Nat, NEW st, Told(st, n, page),
         NEW s \in Texts, s # <<>>, Len(s) = 1, s[1].gap = 0,
         InOrder(s), First(s) = n + 1, End(s) = n + 1
  PROVE  Told(AddSentence(st, s), n + 1, page)
<1>1. CASE Fits(st.current, s)
  <2>1. WithinParagraph \in {WithinParagraph, BetweenParagraphs}
    OBVIOUS
  <2>2. Told([st EXCEPT !.current = Join(@, WithinParagraph, s)], End(s), page)
    BY <1>1, <2>1, Fitted
  <2> QED BY <1>1, <2>2 DEF AddSentence
<1>2. CASE ~ Fits(st.current, s)
  <2>1. Bounded(s, page)
    BY DEF Bounded
  <2>2. n = 0 => First(s) = 1
    OBVIOUS
  <2>3. ASSUME n > 0 PROVE Follows(st.current, s)
    <3> DEFINE c == st.current
               a == Append(st.done, c)
    <3>1. c \in Texts /\ c # <<>> /\ Flushed(st) = a /\ st.done \in Seq(Texts)
      BY <2>3, StatesAre DEF Told, Flushed
    <3>2. Covers(a, n) /\ a \in Seq(Texts) /\ a[Len(a)] = c /\ Len(a) \in 1..Len(a)
      BY <3>1 DEF Told, Chunked
    <3> HIDE DEF a, c
    <3>3. InOrder(c) /\ End(c) = n
      <4>1. InOrder(a[Len(a)]) /\ End(a[Len(a)]) = n
        BY <2>3, <3>2, CoversIs
      <4> QED BY <3>2, <4>1
    <3>4. First(c) \in Nat /\ Len(c) \in Nat \ {0} /\ End(c) = First(c) + Len(c) - 1
      BY <3>1, <3>3, Ids
    <3>5. First(c) <= n
      BY <3>3, <3>4
    <3>6. End(c) + 1 - First(s) = 0 /\ First(s) \in First(c)..End(c) + 1
      BY <3>3, <3>4, <3>5
    <3>7. SubSeq(s, 1, 0) = <<>>
      OBVIOUS
    <3>8. Length(SubSeq(s, 1, 0)) <= ChunkOverlap
      <4>1. Length(<<>>) <= ChunkOverlap
        BY EmptyText, ChunkerAssumption
      <4> QED BY <3>7, <4>1, Zenon
    <3>9. End(s) > End(c)
      BY <3>3
    <3>10. Follows(c, s)
      BY <3>6, <3>8, <3>9 DEF Follows
    <3> QED BY <3>10 DEF c
  <2>4. Told([done |-> Flushed(st), current |-> s], End(s), page)
    <3>1. End(s) > n
      OBVIOUS
    <3> QED BY <2>1, <2>2, <2>3, <3>1, Opened
  <2> QED BY <1>2, <2>4 DEF AddSentence
<1> QED BY <1>1, <1>2

\* The loop over the sentences of a paragraph.
LEMMA AddSentencesIs ==
  ASSUME NEW st \in States, NEW para \in Texts
  PROVE  LET after == AddSentences(st, para)
         IN  /\ after \in [0..Len(para) -> States]
             /\ after[0] = st
             /\ \A n \in 1..Len(para) : after[n] = AddSentence(after[n - 1], Sentences(para)[n])
<1> DEFINE N == Len(para)
           g == [n \in 1..N |-> [x \in States |-> AddSentence(x, Sentences(para)[n])]]
           Meets(f) == f = [n \in 0..N |-> IF n = 0 THEN st ELSE AddSentence(f[n - 1], Sentences(para)[n])]
<1>0. N \in Nat
  BY TextsAre
<1>1. g \in [1..N -> [States -> States]]
  <2>1. ASSUME NEW n \in 1..N PROVE [x \in States |-> AddSentence(x, Sentences(para)[n])] \in [States -> States]
    <3>1. Sentences(para)[n] \in Texts /\ Sentences(para)[n] # <<>>
      BY SentenceIs
    <3> QED BY <3>1, SentenceAddedToState
  <2> QED BY <2>1
<1>2. PICK f \in [0..N -> States] : IsRecursive(f, N, st, g)
  <2> HIDE DEF g, N
  <2> QED BY <1>0, <1>1, Recursion
<1>3. ASSUME NEW n \in 0..N
      PROVE  f[n] = IF n = 0 THEN st ELSE AddSentence(f[n - 1], Sentences(para)[n])
  <2>1. CASE n = 0
    BY <1>2, <2>1 DEF IsRecursive
  <2>2. CASE n # 0
    <3>1. n \in 1..N /\ f[n - 1] \in States
      BY <1>0, <2>2
    <3>2. f[n] = g[n][f[n - 1]]
      BY <1>2, <2>2 DEF IsRecursive
    <3> QED BY <2>2, <3>1, <3>2
  <2> QED BY <2>1, <2>2
<1>4. Meets(f)
  BY <1>3
<1>5. AddSentences(st, para) = CHOOSE h : Meets(h)
  BY DEF AddSentences
<1> DEFINE after == AddSentences(st, para)
<1>6. Meets(after)
  BY <1>4, <1>5
<1> HIDE DEF after
<1>7. ASSUME NEW n \in 0..N
      PROVE  after[n] = IF n = 0 THEN st ELSE AddSentence(after[n - 1], Sentences(para)[n])
  BY <1>6
<1> DEFINE P == {n \in 0..N : after[n] \in States}
<1>8. 0 \in P
  BY <1>0, <1>7
<1>9. ASSUME NEW n \in 1..N, n - 1 \in P PROVE n \in P
  <2>1. n \in 0..N /\ after[n] = AddSentence(after[n - 1], Sentences(para)[n])
    BY <1>0, <1>7
  <2>2. after[n - 1] \in States
    BY <1>9
  <2>3. Sentences(para)[n] \in Texts /\ Sentences(para)[n] # <<>>
    BY SentenceIs
  <2> QED BY <2>1, <2>2, <2>3, SentenceAddedToState
<1>10. \A n \in 0..N : n \in P
  <2> HIDE DEF P
  <2> QED BY <1>0, <1>8, <1>9, UpTo
<1>11. after \in [0..N -> States]
  BY <1>6, <1>10
<1>12. 0 \in 0..N /\ \A n \in 1..N : n \in 0..N /\ n # 0
  BY <1>0
<1> QED BY <1>7, <1>11, <1>12 DEF after

\* A paragraph that is split into its sentences is told sentence by sentence.
LEMMA SentencesAdded ==
  ASSUME NEW page, NEW n \in Nat, NEW st, Told(st, n, page),
         NEW para \in Texts, para # <<>>, InOrder(para), First(para) = n + 1
  PROVE  Told(AddSentences(st, para)[Len(para)], End(para), page)
<1> DEFINE after == AddSentences(st, para)
           N == Len(para)
           P == {i \in 0..N : Told(after[i], n + i, page)}
<1>1. N \in Nat \ {0} /\ DOMAIN para = 1..N /\ End(para) = n + N
  <2>1. N \in Nat \ {0} /\ DOMAIN para = 1..N
    BY TextsAre
  <2>2. End(para) = First(para) + N - 1
    BY Ids
  <2> QED BY <2>1, <2>2
<1>2. st \in States
  BY DEF Told
<1>3. after[0] = st /\ \A i \in 1..N : after[i] = AddSentence(after[i - 1], Sentences(para)[i])
  BY <1>2, AddSentencesIs
<1> HIDE DEF after
<1>4. 0 \in P
  <2>1. n + 0 = n /\ 0 \in 0..N
    BY <1>1
  <2> QED BY <1>3, <2>1
<1>5. ASSUME NEW i \in 1..N, i - 1 \in P PROVE i \in P
  <2> DEFINE s == Sentences(para)[i]
  <2>1. /\ s \in Texts /\ s # <<>> /\ Len(s) = 1 /\ s[1].gap = 0
        /\ InOrder(s) /\ First(s) = para[i].id /\ End(s) = para[i].id
    BY SentenceIs
  <2>2. para[i].id = n + (i - 1) + 1 /\ n + (i - 1) \in Nat /\ n + (i - 1) + 1 = n + i /\ i \in 0..N
    <3>1. para[i].id = First(para) + i - 1
      BY <1>1 DEF InOrder
    <3> QED BY <1>1, <3>1
  <2>3. Told(after[i - 1], n + (i - 1), page)
    BY <1>5
  <2> HIDE DEF s
  <2>4. Told(AddSentence(after[i - 1], s), n + (i - 1) + 1, page)
    BY <2>1, <2>2, <2>3, SentenceAdded
  <2> QED BY <1>3, <2>2, <2>4 DEF s
<1>6. \A i \in 0..N : i \in P
  <2> HIDE DEF P
  <2> QED BY <1>1, <1>4, <1>5, UpTo
<1>7. N \in P
  BY <1>1, <1>6
<1> QED BY <1>1, <1>7 DEF after

LEMMA ParagraphAddedToState ==
  ASSUME NEW st \in States, NEW para \in Texts, para # <<>>
  PROVE  AddParagraph(st, para) \in States
<1>1. /\ st.done \in Seq(Texts) /\ st.current \in Texts /\ Flushed(st) \in Seq(Texts)
      /\ st = [done |-> st.done, current |-> st.current]
  BY StatesAre
<1>2. BetweenParagraphs \in Nat
  BY DEF BetweenParagraphs
<1>3. Join(st.current, BetweenParagraphs, para) \in Texts
  BY <1>1, <1>2, JoinIs
<1>4. Overlap(st.current) \in Texts
  BY <1>1, OverlapIs, EndingIs, EmptyText
<1>5. Join(Overlap(st.current), BetweenParagraphs, para) \in Texts
  BY <1>2, <1>4, JoinIs
<1>6. AddSentences(st, para)[Len(para)] \in States
  <2>1. Len(para) \in 0..Len(para)
    BY TextsAre
  <2> QED BY <2>1, AddSentencesIs
<1>7. /\ [done |-> st.done, current |-> Join(st.current, BetweenParagraphs, para)] \in States
      /\ [done |-> Flushed(st), current |-> Join(Overlap(st.current), BetweenParagraphs, para)] \in States
  BY <1>1, <1>3, <1>5 DEF States
<1>8. [st EXCEPT !.current = Join(@, BetweenParagraphs, para)]
         = [done |-> st.done, current |-> Join(st.current, BetweenParagraphs, para)]
  BY <1>1
<1> QED BY <1>6, <1>7, <1>8 DEF AddParagraph

LEMMA ParagraphAdded ==
  ASSUME NEW page, NEW n \in Nat, NEW st, Told(st, n, page),
         NEW p \in DOMAIN page, page[p] \in Texts, page[p] # <<>>,
         page[p][1].gap = 0, InOrder(page[p]), First(page[p]) = n + 1
  PROVE  Told(AddParagraph(st, page[p]), End(page[p]), page)
<1>1. CASE Fits(st.current, page[p])
  <2>1. BetweenParagraphs \in {WithinParagraph, BetweenParagraphs}
    OBVIOUS
  <2>2. Told([st EXCEPT !.current = Join(@, BetweenParagraphs, page[p])], End(page[p]), page)
    BY <1>1, <2>1, Fitted
  <2> QED BY <1>1, <2>2 DEF AddParagraph
<1>2. CASE ~ Fits(st.current, page[p]) /\ st.current # <<>>
  BY <1>2, Overlapped DEF AddParagraph
<1>3. CASE ~ Fits(st.current, page[p]) /\ st.current = <<>>
  BY <1>3, SentencesAdded DEF AddParagraph
<1> QED BY <1>1, <1>2, <1>3

\* What a page is found to be.
LEMMA PageIs ==
  ASSUME NEW page, IsPage(page)
  PROVE  /\ page \in Seq(Texts \ {<<>>}) /\ DOMAIN page = 1..Len(page) /\ Len(page) \in Nat
         /\ \A p \in 1..Len(page) :
              /\ page[p] \in Texts /\ page[p] # <<>> /\ page[p][1].gap = 0 /\ InOrder(page[p])
              /\ First(page[p]) \in Nat /\ Len(page[p]) \in Nat \ {0}
              /\ End(page[p]) = First(page[p]) + Len(page[p]) - 1
              /\ First(page[p]) = IF p = 1 THEN 1 ELSE End(page[p - 1]) + 1
<1>1. page \in Seq(Texts \ {<<>>}) /\ DOMAIN page = 1..Len(page) /\ Len(page) \in Nat
  BY DEF IsPage
<1>2. ASSUME NEW p \in 1..Len(page)
      PROVE  /\ page[p] \in Texts /\ page[p] # <<>> /\ page[p][1].gap = 0 /\ InOrder(page[p])
             /\ First(page[p]) = IF p = 1 THEN 1 ELSE First(page[p - 1]) + Len(page[p - 1])
  BY <1>1 DEF IsPage, InOrder, First
<1>3. ASSUME NEW p \in 1..Len(page)
      PROVE  /\ First(page[p]) \in Nat /\ Len(page[p]) \in Nat \ {0}
             /\ End(page[p]) = First(page[p]) + Len(page[p]) - 1
  BY <1>2, Ids
<1>4. ASSUME NEW p \in 1..Len(page)
      PROVE  First(page[p]) = IF p = 1 THEN 1 ELSE End(page[p - 1]) + 1
  <2>1. CASE p = 1
    BY <1>2, <2>1
  <2>2. CASE p # 1
    <3>1. p - 1 \in 1..Len(page)
      BY <1>1, <2>2
    <3>2. End(page[p - 1]) + 1 = First(page[p - 1]) + Len(page[p - 1])
      BY <1>3, <3>1
    <3> QED BY <1>2, <2>2, <3>2
  <2> QED BY <2>1, <2>2
<1> QED BY <1>1, <1>2, <1>3, <1>4

\* The loop over the paragraphs of a page.
LEMMA AddParagraphsIs ==
  ASSUME NEW page, IsPage(page)
  PROVE  LET after == AddParagraphs(page)
         IN  /\ after[0] = Nothing
             /\ \A p \in 1..Len(page) : after[p] = AddParagraph(after[p - 1], page[p])
<1> DEFINE N == Len(page)
           g == [p \in 1..N |-> [x \in States |-> AddParagraph(x, page[p])]]
           Meets(f) == f = [p \in 0..N |-> IF p = 0 THEN Nothing ELSE AddParagraph(f[p - 1], page[p])]
<1>0. N \in Nat /\ \A p \in 1..N : page[p] \in Texts /\ page[p] # <<>>
  BY PageIs
<1>1. g \in [1..N -> [States -> States]]
  <2>1. ASSUME NEW p \in 1..N PROVE [x \in States |-> AddParagraph(x, page[p])] \in [States -> States]
    BY <1>0, ParagraphAddedToState
  <2> QED BY <2>1
<1>2. Nothing \in States
  BY EmptyText DEF Nothing, States
<1>3. PICK f \in [0..N -> States] : IsRecursive(f, N, Nothing, g)
  <2> HIDE DEF g, N
  <2> QED BY <1>0, <1>1, <1>2, Recursion
<1>4. ASSUME NEW p \in 0..N
      PROVE  f[p] = IF p = 0 THEN Nothing ELSE AddParagraph(f[p - 1], page[p])
  <2>1. CASE p = 0
    BY <1>3, <2>1 DEF IsRecursive
  <2>2. CASE p # 0
    <3>1. p \in 1..N /\ f[p - 1] \in States
      BY <1>0, <2>2
    <3>2. f[p] = g[p][f[p - 1]]
      BY <1>3, <2>2 DEF IsRecursive
    <3> QED BY <2>2, <3>1, <3>2
  <2> QED BY <2>1, <2>2
<1>5. Meets(f)
  BY <1>4
<1>6. AddParagraphs(page) = CHOOSE h : Meets(h)
  BY DEF AddParagraphs
<1> DEFINE after == AddParagraphs(page)
<1>7. Meets(after)
  BY <1>5, <1>6
<1> HIDE DEF after
<1>8. ASSUME NEW p \in 0..N
      PROVE  after[p] = IF p = 0 THEN Nothing ELSE AddParagraph(after[p - 1], page[p])
  BY <1>7
<1>9. 0 \in 0..N /\ \A p \in 1..N : p \in 0..N /\ p # 0
  BY <1>0
<1> QED BY <1>8, <1>9 DEF after

\* The number of the last sentence of the first p paragraphs.
LastOf(page, p) == IF p = 0 THEN 0 ELSE End(page[p])

LEMMA PageTold ==
  ASSUME NEW page, IsPage(page), NEW p \in 0..Len(page)
  PROVE  LastOf(page, p) \in Nat /\ Told(AddParagraphs(page)[p], LastOf(page, p), page)
<1> DEFINE after == AddParagraphs(page)
           P == {q \in 0..Len(page) : LastOf(page, q) \in Nat /\ Told(after[q], LastOf(page, q), page)}
<1>1. after[0] = Nothing /\ \A q \in 1..Len(page) : after[q] = AddParagraph(after[q - 1], page[q])
  BY AddParagraphsIs
<1>2. Len(page) \in Nat /\ DOMAIN page = 1..Len(page)
  BY PageIs
<1>3. Told(Nothing, 0, page)
  <2>1. Nothing \in States /\ Flushed(Nothing) = <<>>
    BY EmptyText DEF Nothing, States, Flushed
  <2>2. <<>> \in Seq(Texts \ {<<>>}) /\ <<>> \in Seq(Texts) /\ Len(<<>>) = 0 /\ DOMAIN <<>> = {}
    OBVIOUS
  <2>3. Covers(<<>>, 0)
    <3> DEFINE e == <<>>
    <3>1. e \in Seq(Texts) /\ 1..Len(e) = {} /\ 2..Len(e) = {} /\ ~ (0 > 0)
      OBVIOUS
    <3> HIDE DEF e
    <3>2. Covers(e, 0)
      BY <3>1, CoversIs
    <3> QED BY <3>2 DEF e
  <2> QED BY <2>1, <2>2, <2>3 DEF Told, Chunked
<1> HIDE DEF after
<1>4. 0 \in P
  BY <1>1, <1>2, <1>3 DEF LastOf
<1>5. ASSUME NEW q \in 1..Len(page), q - 1 \in P PROVE q \in P
  <2>1. /\ page[q] \in Texts /\ page[q] # <<>> /\ page[q][1].gap = 0 /\ InOrder(page[q])
        /\ First(page[q]) \in Nat /\ Len(page[q]) \in Nat \ {0}
        /\ End(page[q]) = First(page[q]) + Len(page[q]) - 1
        /\ First(page[q]) = IF q = 1 THEN 1 ELSE End(page[q - 1]) + 1
    BY PageIs
  <2>2. First(page[q]) = LastOf(page, q - 1) + 1
    BY <2>1 DEF LastOf
  <2>3. LastOf(page, q) = End(page[q]) /\ LastOf(page, q) \in Nat
    BY <2>1 DEF LastOf
  <2>4. q \in DOMAIN page /\ LastOf(page, q - 1) \in Nat /\ Told(after[q - 1], LastOf(page, q - 1), page)
    BY <1>2, <1>5
  <2>5. Told(AddParagraph(after[q - 1], page[q]), End(page[q]), page)
    BY <2>1, <2>2, <2>4, ParagraphAdded
  <2> QED BY <1>1, <1>2, <2>3, <2>5
<1>6. \A q \in 0..Len(page) : q \in P
  <2> HIDE DEF P
  <2> QED BY <1>2, <1>4, <1>5, UpTo
<1> QED BY <1>6 DEF after

-----------------------------------------------------------------------------
(* Sequences that are put together of sequences.                           *)

\* What there is of the sequence when n parts have been put together.
Flattens(G, seqs) ==
  /\ G[0] = <<>>
  /\ \A n \in 1..Len(seqs) : G[n] = G[n - 1] \o seqs[n]

LEMMA FlattenIs ==
  ASSUME NEW S, NEW seqs \in Seq(Seq(S))
  PROVE  \E G \in [0..Len(seqs) -> Seq(S)] : Flattens(G, seqs) /\ FlattenSeq(seqs) = G[Len(seqs)]
<1> DEFINE L == Len(seqs)
<1>0. L \in Nat /\ \A n \in 1..L : seqs[n] \in Seq(S)
  OBVIOUS
<1>1. CASE L = 0
  <2> DEFINE G == [n \in 0..L |-> <<>>]
  <2>1. G \in [0..L -> Seq(S)] /\ G[0] = <<>> /\ G[L] = <<>> /\ \A n \in 1..L : FALSE
    BY <1>1
  <2>2. FlattenSeq(seqs) = <<>>
    BY <1>1 DEF FlattenSeq
  <2> QED BY <2>1, <2>2 DEF Flattens
<1>2. CASE L # 0
  <2> DEFINE M == L - 1
             g == [n \in 1..M |-> [x \in Seq(S) |-> x \o seqs[n + 1]]]
             Meets(f) == f = [n \in 1..L |-> IF n = 1 THEN seqs[n] ELSE f[n - 1] \o seqs[n]]
  <2>1. M \in Nat /\ L = M + 1 /\ seqs[1] \in Seq(S)
    BY <1>0, <1>2
  <2>2. g \in [1..M -> [Seq(S) -> Seq(S)]]
    <3>1. ASSUME NEW n \in 1..M PROVE [x \in Seq(S) |-> x \o seqs[n + 1]] \in [Seq(S) -> Seq(S)]
      <4>1. seqs[n + 1] \in Seq(S)
        BY <1>0, <2>1
      <4> QED BY <4>1
    <3> QED BY <3>1
  <2>3. PICK f \in [0..M -> Seq(S)] : IsRecursive(f, M, seqs[1], g)
    <3> HIDE DEF g, M
    <3> QED BY <2>1, <2>2, Recursion
  <2>4. f[0] = seqs[1] /\ \A n \in 1..M : f[n] = f[n - 1] \o seqs[n + 1]
    <3>1. f[0] = seqs[1]
      BY <2>1, <2>3 DEF IsRecursive
    <3>2. ASSUME NEW n \in 1..M PROVE f[n] = f[n - 1] \o seqs[n + 1]
      <4>1. n \in 0..M /\ n # 0 /\ n - 1 \in 0..M /\ f[n - 1] \in Seq(S)
        <5> HIDE DEF g, M
        <5> QED BY <2>1, <2>3
      <4>2. f[n] = g[n][f[n - 1]]
        BY <2>3, <4>1 DEF IsRecursive
      <4> QED BY <4>1, <4>2
    <3> QED BY <3>1, <3>2
  <2> DEFINE h == [n \in 1..L |-> f[n - 1]]
  <2>5. ASSUME NEW n \in 1..L PROVE h[n] = IF n = 1 THEN seqs[n] ELSE h[n - 1] \o seqs[n]
    <3>1. CASE n = 1
      BY <2>1, <2>4, <3>1
    <3>2. CASE n # 1
      <4>1. n - 1 \in 1..M /\ n - 1 \in 1..L /\ n - 1 + 1 = n
        BY <2>1, <3>2
      <4>2. h[n] = f[n - 1] /\ h[n - 1] = f[n - 1 - 1]
        BY <4>1
      <4>3. f[n - 1] = f[n - 1 - 1] \o seqs[n - 1 + 1]
        BY <2>4, <4>1
      <4> QED BY <3>2, <4>1, <4>2, <4>3
    <3> QED BY <3>1, <3>2
  <2>6. Meets(h)
    BY <2>5
  <2> DEFINE flatten == CHOOSE x : Meets(x)
  <2>7. FlattenSeq(seqs) = flatten[L]
    BY <1>2 DEF FlattenSeq
  <2>8. Meets(flatten)
    BY <2>6
  <2> HIDE DEF flatten
  <2>9. ASSUME NEW n \in 1..L PROVE flatten[n] = IF n = 1 THEN seqs[n] ELSE flatten[n - 1] \o seqs[n]
    BY <2>8
  <2> DEFINE G == [n \in 0..L |-> IF n = 0 THEN <<>> ELSE flatten[n]]
             P == {n \in 0..L : G[n] \in Seq(S)}
  <2>10. G[0] = <<>> /\ G[L] = flatten[L] /\ L \in 0..L
    BY <1>0, <1>2
  <2>11. ASSUME NEW n \in 1..L, n - 1 \in P PROVE n \in P /\ G[n] = G[n - 1] \o seqs[n]
    <3>1. n \in 0..L /\ n - 1 \in 0..L /\ G[n] = flatten[n] /\ G[n - 1] \in Seq(S) /\ seqs[n] \in Seq(S)
      BY <1>0, <2>11
    <3>2. CASE n = 1
      <4>1. G[n - 1] = <<>> /\ G[n] = seqs[n]
        BY <2>9, <3>1, <3>2
      <4>2. <<>> \o seqs[n] = seqs[n]
        BY <3>1
      <4> QED BY <3>1, <4>1, <4>2
    <3>3. CASE n # 1
      <4>1. G[n] = G[n - 1] \o seqs[n]
        <5>1. n - 1 # 0 /\ G[n - 1] = flatten[n - 1]
          BY <1>0, <3>1, <3>3
        <5>2. flatten[n] = flatten[n - 1] \o seqs[n]
          BY <2>9, <3>3
        <5> QED BY <3>1, <5>1, <5>2
      <4>2. G[n - 1] \o seqs[n] \in Seq(S)
        BY <3>1
      <4> QED BY <3>1, <4>1, <4>2
    <3> QED BY <3>2, <3>3
  <2>12. 0 \in P
    BY <1>0, <2>10
  <2>13. \A n \in 0..L : n \in P
    <3> HIDE DEF P
    <3> QED BY <1>0, <2>11, <2>12, UpTo
  <2>14. G \in [0..L -> Seq(S)]
    BY <2>13
  <2>15. \A n \in 1..L : G[n] = G[n - 1] \o seqs[n]
    <3> TAKE n \in 1..L
    <3>1. n - 1 \in P
      BY <1>0, <2>13
    <3> QED BY <2>11, <3>1
  <2> HIDE DEF G
  <2> QED BY <2>7, <2>10, <2>14, <2>15 DEF Flattens
<1> QED BY <1>1, <1>2

\* All the sentences of a page are told by its chunks.
LEMMA SentencesOfPage ==
  ASSUME NEW page, IsPage(page)
  PROVE  Len(FlattenSeq(page)) = LastOf(page, Len(page))
<1>1. /\ page \in Seq(Seq(AnySentence)) /\ Len(page) \in Nat
      /\ \A p \in 1..Len(page) : page[p] \in Seq(AnySentence)
  <2>1. page \in Seq(Texts \ {<<>>}) /\ Len(page) \in Nat
    BY PageIs
  <2>2. page \in Seq(Texts)
    BY <2>1
  <2> QED BY <2>1, <2>2 DEF Texts
<1>2. PICK G \in [0..Len(page) -> Seq(AnySentence)] :
        Flattens(G, page) /\ FlattenSeq(page) = G[Len(page)]
  BY <1>1, FlattenIs
<1> DEFINE P == {p \in 0..Len(page) : Len(G[p]) = LastOf(page, p)}
<1>3. 0 \in P
  BY <1>1, <1>2 DEF Flattens, LastOf
<1>4. ASSUME NEW p \in 1..Len(page), p - 1 \in P PROVE p \in P
  <2>1. /\ First(page[p]) \in Nat /\ Len(page[p]) \in Nat \ {0}
        /\ End(page[p]) = First(page[p]) + Len(page[p]) - 1
        /\ First(page[p]) = IF p = 1 THEN 1 ELSE End(page[p - 1]) + 1
    BY PageIs
  <2>2. First(page[p]) = LastOf(page, p - 1) + 1 /\ LastOf(page, p) = End(page[p])
    BY <2>1 DEF LastOf
  <2>3. p - 1 \in 0..Len(page) /\ p \in 0..Len(page)
    BY <1>1
  <2>4. G[p] = G[p - 1] \o page[p] /\ G[p - 1] \in Seq(AnySentence) /\ page[p] \in Seq(AnySentence)
    BY <1>1, <1>2, <2>3 DEF Flattens
  <2>5. Len(G[p]) = Len(G[p - 1]) + Len(page[p]) /\ Len(G[p - 1]) \in Nat
    BY <2>4
  <2>6. Len(G[p - 1]) = LastOf(page, p - 1)
    BY <1>4
  <2> QED BY <2>1, <2>2, <2>3, <2>5, <2>6
<1>5. \A p \in 0..Len(page) : p \in P
  <2> HIDE DEF P
  <2> QED BY <1>1, <1>3, <1>4, UpTo
<1>6. Len(page) \in P
  BY <1>1, <1>5
<1> QED BY <1>2, <1>6

LEMMA PageChunked ==
  ASSUME NEW page, IsPage(page)
  PROVE  Chunked(ChunkDocument(page), Len(FlattenSeq(page)), page)
<1>1. Len(page) \in 0..Len(page)
  BY PageIs
<1>2. Told(AddParagraphs(page)[Len(page)], LastOf(page, Len(page)), page)
  BY <1>1, PageTold
<1> QED BY <1>2, SentencesOfPage DEF ChunkDocument, Told

\* Where the first m parts are found in the whole, and that it is all there is.
Placed(G, seqs, m) ==
  \A p \in 1..m : \A k \in 1..Len(seqs[p]) :
    /\ Len(G[p - 1]) + k \in 1..Len(G[m])
    /\ G[m][Len(G[p - 1]) + k] = seqs[p][k]

Reached(G, seqs, m) ==
  \A i \in 1..Len(G[m]) : \E p \in 1..m : \E k \in 1..Len(seqs[p]) : i = Len(G[p - 1]) + k

\* A concatenation, element by element.
LEMMA ConcatenationIs ==
  ASSUME NEW S, NEW a \in Seq(S), NEW b \in Seq(S)
  PROVE  /\ Len(a \o b) = Len(a) + Len(b)
         /\ \A i \in 1..Len(a) : (a \o b)[i] = a[i]
         /\ \A i \in 1..Len(b) : (a \o b)[Len(a) + i] = b[i]
<1> QED OBVIOUS

LEMMA PartsOfFlatten ==
  ASSUME NEW S, NEW seqs \in Seq(Seq(S)),
         NEW G \in [0..Len(seqs) -> Seq(S)], Flattens(G, seqs),
         NEW m \in 0..Len(seqs)
  PROVE  Placed(G, seqs, m) /\ Reached(G, seqs, m)
<1> DEFINE L == Len(seqs)
           P == {n \in 0..L : Placed(G, seqs, n) /\ Reached(G, seqs, n)}
<1>1. L \in Nat /\ \A n \in 0..L : G[n] \in Seq(S) /\ Len(G[n]) \in Nat
  <2>1. ASSUME NEW n \in 0..L PROVE G[n] \in Seq(S) /\ Len(G[n]) \in Nat
    <3>1. G[n] \in Seq(S)
      OBVIOUS
    <3> QED BY <3>1
  <2> QED BY <2>1
<1>2. \A n \in 1..L : seqs[n] \in Seq(S) /\ Len(seqs[n]) \in Nat
  OBVIOUS
<1>3. 0 \in P
  BY <1>1 DEF Flattens, Placed, Reached
<1>4. ASSUME NEW n \in 1..L, n - 1 \in P PROVE n \in P
  <2> DEFINE a == G[n - 1]
             b == seqs[n]
             c == G[n]
  <2>1. n \in 0..L /\ n - 1 \in 0..L
    BY <1>1
  <2>2. /\ c = a \o b /\ a \in Seq(S) /\ b \in Seq(S) /\ Len(a) \in Nat /\ Len(b) \in Nat
        /\ Placed(G, seqs, n - 1) /\ Reached(G, seqs, n - 1)
    BY <1>1, <1>2, <1>4, <2>1 DEF Flattens
  <2>3. /\ Len(c) = Len(a) + Len(b)
        /\ \A i \in 1..Len(a) : c[i] = a[i]
        /\ \A i \in 1..Len(b) : c[Len(a) + i] = b[i]
    <3>1. a \in Seq(S) /\ b \in Seq(S) /\ c = a \o b
      BY <2>2
    <3> HIDE DEF a, b, c
    <3>2. /\ Len(a \o b) = Len(a) + Len(b)
          /\ \A i \in 1..Len(a) : (a \o b)[i] = a[i]
          /\ \A i \in 1..Len(b) : (a \o b)[Len(a) + i] = b[i]
      BY <3>1, ConcatenationIs
    <3> QED BY <3>1, <3>2
  <2>4. Placed(G, seqs, n)
    <3> SUFFICES ASSUME NEW p \in 1..n, NEW k \in 1..Len(seqs[p])
                 PROVE  /\ Len(G[p - 1]) + k \in 1..Len(c)
                        /\ c[Len(G[p - 1]) + k] = seqs[p][k]
      BY DEF Placed
    <3>1. CASE p = n
      <4>1. Len(G[p - 1]) = Len(a) /\ seqs[p] = b /\ k \in 1..Len(b)
        BY <3>1
      <4> HIDE DEF a, b, c
      <4>2. Len(a) + k \in 1..Len(c) /\ c[Len(a) + k] = b[k]
        BY <2>2, <2>3, <4>1
      <4> QED BY <4>1, <4>2
    <3>2. CASE p # n
      <4>1. p \in 1..n-1
        BY <1>1, <3>2
      <4>2. Len(G[p - 1]) + k \in 1..Len(a) /\ a[Len(G[p - 1]) + k] = seqs[p][k]
        BY <2>2, <4>1 DEF Placed
      <4> DEFINE i == Len(G[p - 1]) + k
      <4>3. i \in 1..Len(a) /\ a[i] = seqs[p][k]
        BY <4>2
      <4> HIDE DEF a, b, c, i
      <4>4. i \in 1..Len(c) /\ c[i] = seqs[p][k]
        BY <2>2, <2>3, <4>3
      <4> QED BY <4>4 DEF i
    <3> QED BY <3>1, <3>2
  <2>5. Reached(G, seqs, n)
    <3> SUFFICES ASSUME NEW i \in 1..Len(c)
                 PROVE  \E p \in 1..n : \E k \in 1..Len(seqs[p]) : i = Len(G[p - 1]) + k
      BY DEF Reached
    <3>1. CASE i \in 1..Len(a)
      <4>1. PICK p \in 1..n-1 : \E k \in 1..Len(seqs[p]) : i = Len(G[p - 1]) + k
        BY <2>2, <3>1 DEF Reached
      <4>2. p \in 1..n
        BY <1>1, <2>1
      <4> QED BY <4>1, <4>2
    <3>2. CASE i \notin 1..Len(a)
      <4>1. i - Len(a) \in 1..Len(b) /\ i = Len(a) + (i - Len(a)) /\ n \in 1..n
        <5> HIDE DEF a, b, c
        <5> QED BY <1>1, <2>1, <2>2, <2>3, <3>2
      <4> QED BY <4>1
    <3> QED BY <3>1, <3>2
  <2> QED BY <2>1, <2>4, <2>5
<1>5. \A n \in 0..L : n \in P
  <2> HIDE DEF P, L
  <2> QED BY <1>1, <1>3, <1>4, UpTo
<1> QED BY <1>1, <1>5

\* The chunks of a document as they are put together.
Chunks == [page : Nat, index : Nat, text : Texts]

OfPage(p, page) ==
  LET texts == ChunkDocument(page)
  IN  [i \in DOMAIN texts |-> [page |-> p, index |-> i, text |-> texts[i]]]

LEMMA OfPageIs ==
  ASSUME NEW p \in Nat, NEW page, IsPage(page)
  PROVE  /\ OfPage(p, page) \in Seq(Chunks)
         /\ Len(OfPage(p, page)) = Len(ChunkDocument(page))
         /\ \A k \in 1..Len(ChunkDocument(page)) :
              OfPage(p, page)[k].page = p /\ OfPage(p, page)[k].text = ChunkDocument(page)[k]
<1> DEFINE texts == ChunkDocument(page)
<1>0. texts \in Seq(Texts \ {<<>>})
  BY PageChunked DEF Chunked
<1> HIDE DEF texts
<1>1. texts \in Seq(Texts) /\ DOMAIN texts = 1..Len(texts) /\ Len(texts) \in Nat
  BY <1>0
<1>2. OfPage(p, page) = [i \in 1..Len(texts) |-> [page |-> p, index |-> i, text |-> texts[i]]]
  BY <1>1 DEF OfPage, texts
<1>3. \A i \in 1..Len(texts) : [page |-> p, index |-> i, text |-> texts[i]] \in Chunks
  BY <1>1 DEF Chunks
<1> QED BY <1>1, <1>2, <1>3 DEF texts

\* What becomes of a document: its chunks are numbered through, and those of a
\* page are found side by side.
LEMMA StoredIs ==
  ASSUME NEW d, NEW docPages \in Seq(Seq(Texts)),
         \A p \in DOMAIN docPages : IsPage(docPages[p])
  PROVE  \E all \in Seq(Chunks), G \in [0..Len(docPages) -> Seq(Chunks)] :
           /\ DOMAIN Stored(d, docPages) = {<<d, i>> : i \in 1..Len(all)}
           /\ \A i \in 1..Len(all) : /\ Stored(d, docPages)[<<d, i>>].page = all[i].page
                                     /\ Stored(d, docPages)[<<d, i>>].text = all[i].text
           /\ all = G[Len(docPages)]
           /\ Flattens(G, [p \in DOMAIN docPages |-> OfPage(p, docPages[p])])
<1> DEFINE L == Len(docPages)
           seqs == [p \in DOMAIN docPages |-> OfPage(p, docPages[p])]
<1>1. L \in Nat /\ DOMAIN docPages = 1..L
  OBVIOUS
<1>2. seqs \in Seq(Seq(Chunks)) /\ Len(seqs) = L
  <2>1. \A p \in 1..L : OfPage(p, docPages[p]) \in Seq(Chunks)
    BY <1>1, OfPageIs
  <2> QED BY <1>1, <2>1
<1>3. ChunkPages(docPages) = FlattenSeq(seqs)
  BY DEF ChunkPages, OfPage
<1> HIDE DEF seqs
<1>4. PICK G \in [0..L -> Seq(Chunks)] : Flattens(G, seqs) /\ FlattenSeq(seqs) = G[L]
  BY <1>2, FlattenIs
<1> DEFINE all == G[L]
           new == Renumber(all)
           N == Len(all)
<1>5. all \in Seq(Chunks) /\ N \in Nat /\ DOMAIN all = 1..N /\ all = ChunkPages(docPages)
  BY <1>1, <1>3, <1>4
<1> HIDE DEF all
<1>6. ASSUME NEW i \in 1..N
      PROVE  new[i].index = i /\ new[i].page = all[i].page /\ new[i].text = all[i].text
  <2>1. all[i] \in Chunks /\ new[i] = [all[i] EXCEPT !.index = i]
    BY <1>5 DEF Renumber
  <2> QED BY <2>1 DEF Chunks
<1>7. DOMAIN new = 1..N
  BY <1>5 DEF Renumber
<1> DEFINE Earliest(k) == Min({i \in DOMAIN new : new[i].index = k})
           ids == {<<d, new[i].index>> : i \in DOMAIN new}
<1>8. Stored(d, docPages) = [id \in ids |-> new[Earliest(id[2])]]
  BY <1>5 DEF Stored
<1> HIDE DEF new
<1>9. ids = {<<d, i>> : i \in 1..N}
  BY <1>6, <1>7
<1>10. ASSUME NEW k \in 1..N PROVE Earliest(k) = k
  <2>1. {i \in DOMAIN new : new[i].index = k} = {k}
    BY <1>6, <1>7
  <2> QED BY <1>5, <2>1 DEF Min
<1>11. ASSUME NEW k \in 1..N PROVE Stored(d, docPages)[<<d, k>>] = new[k]
  <2>1. <<d, k>> \in ids /\ <<d, k>>[2] = k
    BY <1>9
  <2> HIDE DEF ids, Earliest
  <2> QED BY <1>8, <1>10, <2>1
<1>12. DOMAIN Stored(d, docPages) = {<<d, i>> : i \in 1..N}
  BY <1>8, <1>9
<1>13. \A i \in 1..N : /\ Stored(d, docPages)[<<d, i>>].page = all[i].page
                       /\ Stored(d, docPages)[<<d, i>>].text = all[i].text
  BY <1>6, <1>11
<1> QED BY <1>4, <1>5, <1>12, <1>13 DEF seqs, all

TextsAmong(d, chunks, p) ==
  LET ids == {i \in 1..Cardinality(DOMAIN chunks) : chunks[<<d, i>>].page = p}
  IN  [k \in 1..Cardinality(ids) |-> chunks[<<d, Min(ids) + k - 1>>].text]

\* The texts of a page, as TextsOf finds them, are those it was cut into.
LEMMA StoredTexts ==
  ASSUME NEW d, NEW docPages \in Seq(Seq(Texts)), \A q \in DOMAIN docPages : IsPage(docPages[q]),
         NEW chunks, chunks = Stored(d, docPages), NEW p \in DOMAIN docPages
  PROVE  TextsAmong(d, chunks, p) = ChunkDocument(docPages[p])
<1> DEFINE L == Len(docPages)
           seqs == [q \in DOMAIN docPages |-> OfPage(q, docPages[q])]
           texts == ChunkDocument(docPages[p])
<1>1. /\ L \in Nat /\ DOMAIN docPages = 1..L /\ p \in 1..L /\ docPages \in Seq(Seq(Texts))
      /\ \A q \in DOMAIN docPages : IsPage(docPages[q])
      /\ chunks = Stored(d, docPages)
  OBVIOUS
<1>2. PICK all \in Seq(Chunks), G \in [0..L -> Seq(Chunks)] :
        /\ DOMAIN chunks = {<<d, i>> : i \in 1..Len(all)}
        /\ \A i \in 1..Len(all) : /\ chunks[<<d, i>>].page = all[i].page
                                  /\ chunks[<<d, i>>].text = all[i].text
        /\ all = G[L]
        /\ Flattens(G, seqs)
  <2>1. \E all \in Seq(Chunks), G \in [0..L -> Seq(Chunks)] :
          /\ DOMAIN Stored(d, docPages) = {<<d, i>> : i \in 1..Len(all)}
          /\ \A i \in 1..Len(all) : /\ Stored(d, docPages)[<<d, i>>].page = all[i].page
                                    /\ Stored(d, docPages)[<<d, i>>].text = all[i].text
          /\ all = G[L]
          /\ Flattens(G, seqs)
    BY <1>1, StoredIs
  <2> HIDE DEF L, seqs
  <2> QED BY <1>1, <2>1
<1> DEFINE N == Len(all)
           base == Len(G[p - 1])
           n == Len(texts)
           ids == {i \in 1..Cardinality(DOMAIN chunks) : chunks[<<d, i>>].page = p}
<1>3. ASSUME NEW q \in 1..L
      PROVE  /\ seqs[q] \in Seq(Chunks) /\ Len(seqs[q]) = Len(ChunkDocument(docPages[q]))
             /\ \A k \in 1..Len(seqs[q]) : /\ seqs[q][k].page = q
                                           /\ seqs[q][k].text = ChunkDocument(docPages[q])[k]
  <2>1. seqs[q] = OfPage(q, docPages[q]) /\ q \in Nat /\ IsPage(docPages[q])
    <3>1. q \in DOMAIN docPages
      BY <1>1
    <3>2. q \in Nat
      <4> HIDE DEF L
      <4> QED BY <1>1
    <3> HIDE DEF L
    <3> QED BY <1>1, <3>1, <3>2
  <2> DEFINE s == OfPage(q, docPages[q])
             t == ChunkDocument(docPages[q])
  <2>2. /\ s \in Seq(Chunks) /\ Len(s) = Len(t)
        /\ \A k \in 1..Len(t) : s[k].page = q /\ s[k].text = t[k]
    BY <2>1, OfPageIs
  <2>3. seqs[q] = s
    BY <2>1
  <2> HIDE DEF s, seqs
  <2> QED BY <2>2, <2>3
<1>4. seqs \in Seq(Seq(Chunks)) /\ Len(seqs) = L
  <2>1. seqs = [q \in 1..L |-> OfPage(q, docPages[q])]
    BY <1>1
  <2>2. \A q \in 1..L : OfPage(q, docPages[q]) = seqs[q]
    BY <2>1
  <2>3. ASSUME NEW q \in 1..L PROVE OfPage(q, docPages[q]) \in Seq(Chunks)
    <3>1. OfPage(q, docPages[q]) = seqs[q]
      BY <2>2
    <3>2. seqs[q] \in Seq(Chunks)
      BY <1>3
    <3> HIDE DEF seqs, L
    <3> QED BY <3>1, <3>2
  <2> HIDE DEF seqs, L
  <2> QED BY <1>1, <2>1, <2>3
<1>5. N \in Nat /\ base \in Nat
  BY <1>1, <1>2
<1>6. texts \in Seq(Texts) /\ n \in Nat /\ DOMAIN texts = 1..n
  <2>1. texts \in Seq(Texts \ {<<>>})
    BY <1>1, PageChunked DEF Chunked
  <2> HIDE DEF texts
  <2> QED BY <2>1
<1> HIDE DEF seqs
<1>7. /\ \A q \in 1..L : \A k \in 1..Len(seqs[q]) :
           /\ Len(G[q - 1]) + k \in 1..N
           /\ all[Len(G[q - 1]) + k] = seqs[q][k]
      /\ \A i \in 1..N : \E q \in 1..L : \E k \in 1..Len(seqs[q]) : i = Len(G[q - 1]) + k
  <2> HIDE DEF L
  <2>1. L \in 0..Len(seqs) /\ G \in [0..Len(seqs) -> Seq(Chunks)]
    BY <1>1, <1>4
  <2>2. /\ \A q \in 1..L : \A k \in 1..Len(seqs[q]) :
             /\ Len(G[q - 1]) + k \in 1..Len(G[L])
             /\ G[L][Len(G[q - 1]) + k] = seqs[q][k]
        /\ \A i \in 1..Len(G[L]) : \E q \in 1..L : \E k \in 1..Len(seqs[q]) : i = Len(G[q - 1]) + k
    <3>1. Flattens(G, seqs) /\ seqs \in Seq(Seq(Chunks))
      BY <1>2, <1>4
    <3> HIDE DEF seqs
    <3>2. Placed(G, seqs, L) /\ Reached(G, seqs, L)
      BY <2>1, <3>1, PartsOfFlatten
    <3> QED BY <3>2 DEF Placed, Reached
  <2> QED BY <1>2, <2>2
<1>8. Cardinality(DOMAIN chunks) = N
  <2> DEFINE f == [i \in 1..N |-> <<d, i>>]
             T == {<<d, i>> : i \in 1..N}
  <2>1. f \in Bijection(1..N, T)
    <3>1. f \in [1..N -> T]
      OBVIOUS
    <3>2. \A i, j \in 1..N : f[i] = f[j] => i = j
      OBVIOUS
    <3>3. \A t \in T : \E i \in 1..N : f[i] = t
      OBVIOUS
    <3> HIDE DEF f, T
    <3>4. IsInjective(f)
      BY <3>1, <3>2 DEF IsInjective
    <3> QED BY <3>1, <3>3, <3>4 DEF Bijection, Injection, Surjection
  <2>2. ExistsBijection(1..N, T)
    <3> HIDE DEF f, T
    <3> QED BY <2>1 DEF ExistsBijection
  <2>3. IsFiniteSet(1..N) /\ Cardinality(1..N) = N
    <3> HIDE DEF N
    <3>1. 1 \in Int /\ N \in Int /\ (IF 1 > N THEN 0 ELSE N - 1 + 1) = N
      BY <1>5
    <3> QED BY <3>1, FS_Interval
  <2>4. Cardinality(T) = N
    <3> HIDE DEF T, N
    <3> QED BY <2>2, <2>3, FS_Bijection
  <2> QED BY <1>2, <2>4
<1>9. ids = base+1..base+n
  <2>1. Len(seqs[p]) = n
    BY <1>1, <1>3 DEF seqs
  <2>2. ASSUME NEW i \in ids PROVE i \in base+1..base+n
    <3>1. i \in 1..N /\ all[i].page = p
      BY <1>2, <1>8
    <3>2. PICK q \in 1..L : \E k \in 1..Len(seqs[q]) : i = Len(G[q - 1]) + k
      BY <1>7, <3>1
    <3>3. PICK k \in 1..Len(seqs[q]) : i = Len(G[q - 1]) + k
      BY <3>2
    <3>4. all[i] = seqs[q][k]
      BY <1>7, <3>3
    <3>5. seqs[q][k].page = q
      BY <1>3 DEF seqs
    <3>6. q = p
      BY <3>1, <3>4, <3>5
    <3>7. k \in 1..n /\ i = base + k
      BY <2>1, <3>3, <3>6
    <3> HIDE DEF base, n
    <3> QED BY <1>5, <1>6, <3>7
  <2>3. ASSUME NEW i \in base+1..base+n PROVE i \in ids
    <3> DEFINE k == i - base
    <3>1. k \in 1..n /\ i = base + k
      <4> HIDE DEF base, n
      <4> QED BY <1>5, <1>6
    <3> HIDE DEF k
    <3>2. base + k \in 1..N /\ all[base + k] = seqs[p][k]
      BY <1>1, <1>7, <2>1, <3>1
    <3>3. seqs[p][k].page = p
      BY <1>1, <1>3, <2>1, <3>1 DEF seqs
    <3>4. i \in 1..N /\ all[i].page = p
      BY <3>1, <3>2, <3>3
    <3> QED BY <1>2, <1>8, <3>4
  <2> HIDE DEF ids
  <2> QED BY <2>2, <2>3
<1>10. Cardinality(ids) = n
  <2>1. base+1 \in Int /\ base+n \in Int
    BY <1>5, <1>6
  <2> HIDE DEF ids, base, n
  <2> QED BY <1>5, <1>6, <1>9, <2>1, FS_Interval
<1>11. ASSUME NEW k \in 1..n
       PROVE  chunks[<<d, Min(ids) + k - 1>>].text = texts[k]
  <2>1. Min(ids) = base + 1
    <3>1. base + 1 \in base+1..base+n /\ \A y \in base+1..base+n : base + 1 <= y
      <4> HIDE DEF base, n
      <4> QED BY <1>5, <1>6
    <3> HIDE DEF ids, base, n
    <3>2. ASSUME NEW x \in ids, \A y \in ids : x <= y PROVE x = base + 1
      <4>1. x \in Int /\ base + 1 <= x /\ x <= base + 1
        BY <1>5, <1>9, <3>1, <3>2
      <4> QED BY <1>5, <4>1
    <3> QED BY <1>9, <3>1, <3>2 DEF Min
  <2>2. Min(ids) + k - 1 = base + k
    <3> HIDE DEF ids, base
    <3> QED BY <1>5, <1>6, <2>1
  <2>3. k \in 1..Len(seqs[p])
    BY <1>1, <1>3 DEF seqs
  <2>4. base + k \in 1..N /\ all[base + k] = seqs[p][k] /\ seqs[p][k].text = texts[k]
    <3>1. base + k \in 1..N /\ all[base + k] = seqs[p][k]
      BY <1>1, <1>7, <2>3
    <3>2. seqs[p][k].text = texts[k]
      BY <1>1, <1>3, <2>3 DEF seqs
    <3> QED BY <3>1, <3>2
  <2> QED BY <1>2, <2>2, <2>4
<1> DEFINE found == [k \in 1..Cardinality(ids) |-> chunks[<<d, Min(ids) + k - 1>>].text]
<1>12. found = [k \in 1..n |-> chunks[<<d, Min(ids) + k - 1>>].text]
  <2> HIDE DEF ids
  <2> QED BY <1>10
<1>13. found = [k \in 1..n |-> texts[k]]
  <2> HIDE DEF found, ids
  <2> QED BY <1>11, <1>12
<1>14. texts = [k \in 1..n |-> texts[k]]
  <2> HIDE DEF texts
  <2> QED BY <1>6
<1>15. found = texts
  BY <1>13, <1>14
<1> QED BY <1>15 DEF TextsAmong

LEMMA TextsOfPage ==
  ASSUME NEW d, stored[d] = Stored(d, pages[d]), pages[d] \in Seq(Seq(Texts)),
         \A q \in DOMAIN pages[d] : IsPage(pages[d][q]), NEW p \in DOMAIN pages[d]
  PROVE  TextsOf(d, p) = ChunkDocument(pages[d][p])
<1> DEFINE docPages == pages[d]
           chunks == stored[d]
<1>1. TextsOf(d, p) = TextsAmong(d, chunks, p)
  BY DEF TextsOf, TextsAmong
<1>2. /\ docPages \in Seq(Seq(Texts)) /\ \A q \in DOMAIN docPages : IsPage(docPages[q])
      /\ chunks = Stored(d, docPages) /\ p \in DOMAIN docPages
  OBVIOUS
<1> HIDE DEF docPages, chunks
<1>3. TextsAmong(d, chunks, p) = ChunkDocument(docPages[p])
  BY <1>2, StoredTexts
<1> QED BY <1>1, <1>3 DEF docPages

-----------------------------------------------------------------------------
(* The corpus, which does not change, and what is indexed of it.           *)

CorpusInv ==
  \A d \in Documents :
    /\ pages[d] \in Seq(Seq(Texts)) /\ \A p \in DOMAIN pages[d] : IsPage(pages[d][p])
    /\ stored[d] = Stored(d, pages[d])

LEMMA CorpusInvariant == Spec => []CorpusInv
<1>1. Init => CorpusInv
  BY CorporaAssumption DEF Init, CorpusInv
<1>2. CorpusInv /\ [Next /\ UNCHANGED corpusVars]_allVars => CorpusInv'
  <2> SUFFICES ASSUME CorpusInv, [Next /\ UNCHANGED corpusVars]_allVars PROVE CorpusInv'
    OBVIOUS
  <2>1. UNCHANGED <<pages, stored>>
    BY DEF allVars, corpusVars
  <2> QED BY <2>1 DEF CorpusInv
<1> QED BY <1>1, <1>2, PTL DEF Spec

\* Every text that is indexed has a length.
LEMMA IndexedIs ==
  ASSUME Init, NEW id \in DOMAIN Indexed
  PROVE  Indexed[id].size \in Nat
<1>1. CorpusInv
  BY CorporaAssumption DEF Init, CorpusInv
<1>2. PICK d \in Documents : id \in DOMAIN stored[d]
  BY DEF Indexed
<1> DEFINE docPages == pages[d]
           chunks == stored[d]
<1>3. /\ docPages \in Seq(Seq(Texts)) /\ \A p \in DOMAIN docPages : IsPage(docPages[p])
      /\ chunks = Stored(d, docPages)
  BY <1>1 DEF CorpusInv
<1> HIDE DEF docPages
<1>4. PICK all \in Seq(Chunks) :
        /\ DOMAIN Stored(d, docPages) = {<<d, i>> : i \in 1..Len(all)}
        /\ \A i \in 1..Len(all) : Stored(d, docPages)[<<d, i>>].text = all[i].text
  BY <1>3, StoredIs
<1>5. PICK i \in 1..Len(all) : id = <<d, i>>
  BY <1>2, <1>3, <1>4
<1>6. chunks[id].text \in Texts
  <2>1. all[i] \in Chunks
    OBVIOUS
  <2>2. all[i].text \in Texts
    BY <2>1 DEF Chunks
  <2>3. chunks[id].text = all[i].text
    BY <1>3, <1>4, <1>5
  <2> QED BY <2>2, <2>3
<1>7. id[1] = d
  BY <1>5
<1>8. Indexed[id].size = Length(chunks[id].text)
  BY <1>7 DEF Indexed
<1> QED BY <1>6, <1>8, LengthIsNat

\* ChunksCoverThePages: no sentence of a page is missing from the collection,
\* none is out of order, and what is told twice is an overlap that fits.
THEOREM NothingIsLost == Spec => []ChunksCoverThePages
<1>1. CorpusInv => ChunksCoverThePages
  <2> SUFFICES ASSUME CorpusInv, NEW d \in Documents, NEW p \in DOMAIN pages[d]
               PROVE  Covers(TextsOf(d, p), Len(FlattenSeq(pages[d][p])))
    BY DEF ChunksCoverThePages
  <2>1. /\ pages[d] \in Seq(Seq(Texts)) /\ \A q \in DOMAIN pages[d] : IsPage(pages[d][q])
        /\ stored[d] = Stored(d, pages[d])
    BY DEF CorpusInv
  <2>2. TextsOf(d, p) = ChunkDocument(pages[d][p])
    BY <2>1, TextsOfPage
  <2>3. Chunked(ChunkDocument(pages[d][p]), Len(FlattenSeq(pages[d][p])), pages[d][p])
    BY <2>1, PageChunked
  <2> QED BY <2>2, <2>3 DEF Chunked
<1> QED BY <1>1, CorpusInvariant, PTL

\* ChunksAreBounded: whatever the sentences' and paragraphs' lengths, a chunk is
\* too long by one character at most, or it is one sentence, or a paragraph that
\* is not split behind an overlap that fits.
THEOREM NothingIsTooLong == Spec => []ChunksAreBounded
<1>1. CorpusInv => ChunksAreBounded
  <2> SUFFICES ASSUME CorpusInv, NEW d \in Documents, NEW p \in DOMAIN pages[d]
               PROVE  \A k \in DOMAIN TextsOf(d, p) : Bounded(TextsOf(d, p)[k], pages[d][p])
    BY DEF ChunksAreBounded
  <2>1. /\ pages[d] \in Seq(Seq(Texts)) /\ \A q \in DOMAIN pages[d] : IsPage(pages[d][q])
        /\ stored[d] = Stored(d, pages[d])
    BY DEF CorpusInv
  <2>2. TextsOf(d, p) = ChunkDocument(pages[d][p])
    BY <2>1, TextsOfPage
  <2>3. Chunked(ChunkDocument(pages[d][p]), Len(FlattenSeq(pages[d][p])), pages[d][p])
    BY <2>1, PageChunked
  <2> QED BY <2>2, <2>3 DEF Chunked
<1> QED BY <1>1, CorpusInvariant, PTL

-----------------------------------------------------------------------------
(* The context of a prompt: where its parts begin and what survives a cut. *)

LEMMA SizesAre == /\ Label \in Nat /\ MaxContext \in Nat /\ Preamble \in Nat /\ Instructions \in Nat
                  /\ Marker \in Nat /\ RetryChars \in Nat /\ TopK \in Nat \ {0}
                  /\ HardMax \in Nat \ {0} /\ RetryTokens \in Nat \ {0} /\ ChunkSize \in Nat
BY RagCompletionAssumption, ChunkerAssumption

LEMMA OffsetsAre ==
  ASSUME NEW S, \A s \in S : s.size \in Nat, NEW found \in Seq(S)
  PROVE  /\ Offsets(found) \in [0..Len(found) -> Nat]
         /\ Offsets(found)[0] = 0
         /\ \A n \in 1..Len(found) :
              Offsets(found)[n] = Offsets(found)[n - 1] + Label + found[n].size + 2
<1> DEFINE N == Len(found)
           g == [n \in 1..N |-> [l \in Nat |-> l + Label + found[n].size + 2]]
           Meets(f) == f = [n \in 0..N |-> IF n = 0 THEN 0 ELSE f[n - 1] + Label + found[n].size + 2]
<1>0. N \in Nat /\ Label \in Nat /\ \A n \in 1..N : found[n].size \in Nat
  BY SizesAre
<1>1. g \in [1..N -> [Nat -> Nat]]
  <2>1. \A n \in 1..N : [l \in Nat |-> l + Label + found[n].size + 2] \in [Nat -> Nat]
    BY <1>0
  <2> QED BY <2>1
<1>2. PICK f \in [0..N -> Nat] : IsRecursive(f, N, 0, g)
  <2> HIDE DEF g, N
  <2>1. N \in Nat /\ 0 \in Nat
    BY <1>0
  <2> QED BY <1>1, <2>1, Recursion
<1>3. ASSUME NEW n \in 0..N
      PROVE  f[n] = IF n = 0 THEN 0 ELSE f[n - 1] + Label + found[n].size + 2
  <2>1. CASE n = 0
    BY <1>2, <2>1 DEF IsRecursive
  <2>2. CASE n # 0
    <3>1. n \in 1..N /\ f[n - 1] \in Nat
      BY <2>2
    <3>2. f[n] = g[n][f[n - 1]]
      BY <1>2, <2>2 DEF IsRecursive
    <3> QED BY <2>2, <3>1, <3>2
  <2> QED BY <2>1, <2>2
<1>4. Meets(f)
  BY <1>3
<1> DEFINE after == Offsets(found)
<1>5. after = CHOOSE h : Meets(h)
  BY DEF Offsets
<1>6. Meets(after)
  BY <1>4, <1>5
<1> HIDE DEF after
<1>7. ASSUME NEW n \in 0..N
      PROVE  after[n] = IF n = 0 THEN 0 ELSE after[n - 1] + Label + found[n].size + 2
  BY <1>6
<1> DEFINE P == {n \in 0..N : after[n] \in Nat}
<1>8. 0 \in P
  BY <1>0, <1>7
<1>9. ASSUME NEW n \in 1..N, n - 1 \in P PROVE n \in P
  <2>1. n \in 0..N /\ n # 0 /\ after[n - 1] \in Nat
    BY <1>0, <1>9
  <2>2. after[n] = after[n - 1] + Label + found[n].size + 2
    BY <1>7, <2>1
  <2> QED BY <1>0, <2>1, <2>2
<1>10. \A n \in 0..N : n \in P
  <2> HIDE DEF P
  <2> QED BY <1>0, <1>8, <1>9, UpTo
<1>11. after \in [0..N -> Nat]
  BY <1>6, <1>10
<1>12. 0 \in 0..N /\ \A n \in 1..N : n \in 0..N /\ n # 0
  BY <1>0
<1> QED BY <1>7, <1>11, <1>12 DEF after

\* A part begins where the parts before it end or later, and n parts whose texts
\* are of the intended size take no more than n times what one takes.
LEMMA OffsetsGrow ==
  ASSUME NEW S, \A s \in S : s.size \in Nat, NEW found \in Seq(S), NEW n \in 0..Len(found)
  PROVE  /\ Offsets(found)[n] \in Nat
         /\ \A j \in 0..n : Offsets(found)[j] <= Offsets(found)[n]
         /\ (\A i \in 1..n : found[i].size <= ChunkSize + 1)
              => Offsets(found)[n] <= n * (Label + ChunkSize + 3)
<1> DEFINE N == Len(found)
           K == Label + ChunkSize + 3
           after == Offsets(found)
           Small(m) == \A i \in 1..m : found[i].size <= ChunkSize + 1
           P == {m \in 0..N : (\A j \in 0..m : after[j] <= after[m]) /\ (Small(m) => after[m] <= m * K)}
<1>1. /\ N \in Nat /\ Label \in Nat /\ ChunkSize \in Nat /\ K \in Nat
      /\ \A m \in 1..N : found[m].size \in Nat
  BY SizesAre
<1>2. /\ after \in [0..N -> Nat] /\ after[0] = 0
      /\ \A m \in 1..N : after[m] = after[m - 1] + Label + found[m].size + 2
  BY OffsetsAre
<1> HIDE DEF after
<1>3. 0 \in P
  <2>1. 0 * K = 0 /\ 0 \in 0..N /\ \A j \in 0..0 : j = 0
    BY <1>1
  <2> HIDE DEF K, N
  <2> QED BY <1>2, <2>1
<1>4. ASSUME NEW m \in 1..N, m - 1 \in P PROVE m \in P
  <2>1. m \in 0..N /\ m - 1 \in 0..N /\ after[m] \in Nat /\ after[m - 1] \in Nat
    <3> HIDE DEF N, K
    <3>1. m \in 0..N /\ m - 1 \in 0..N
      BY <1>1
    <3> QED BY <1>2, <3>1
  <2>2. after[m] = after[m - 1] + Label + found[m].size + 2
    BY <1>2
  <2>3. ASSUME NEW j \in 0..m PROVE after[j] <= after[m]
    <3>1. CASE j = m
      BY <2>1, <3>1
    <3>2. CASE j # m
      <4>1. j \in 0..m-1 /\ j \in 0..N
        BY <1>1, <3>2
      <4>2. after[j] <= after[m - 1] /\ after[j] \in Nat
        BY <1>2, <1>4, <4>1
      <4>3. after[m - 1] <= after[m]
        <5> DEFINE l == found[m].size
        <5>1. l \in Nat /\ after[m] = after[m - 1] + Label + l + 2
          BY <1>1, <2>2
        <5> HIDE DEF l, N, K
        <5> QED BY <1>1, <2>1, <5>1
      <4> HIDE DEF N, K
      <4> QED BY <2>1, <4>2, <4>3
    <3> QED BY <3>1, <3>2
  <2>4. ASSUME Small(m) PROVE after[m] <= m * K
    <3>1. after[m - 1] <= (m - 1) * K
      <4>1. \A i \in 1..m-1 : i \in 1..m
        BY <1>1
      <4>2. Small(m - 1)
        BY <2>4, <4>1
      <4> QED BY <1>4, <4>2
    <3>2. found[m].size <= ChunkSize + 1
      BY <1>1, <2>4
    <3>3. after[m] <= (m - 1) * K + K
      <4>1. (m - 1) * K \in Int
        BY <1>1
      <4>2. found[m].size \in Nat /\ Label + found[m].size + 2 <= K
        BY <1>1, <3>2
      <4> DEFINE x == (m - 1) * K
      <4>3. x \in Int /\ after[m - 1] <= x
        BY <3>1, <4>1
      <4> HIDE DEF K, N, x
      <4>4. after[m] <= x + K
        <5> DEFINE a == after[m - 1]
                   b == after[m]
                   l == found[m].size
        <5>1. a \in Nat /\ l \in Nat /\ Label + l + 2 <= K /\ a <= x /\ b = a + Label + l + 2
          BY <2>1, <2>2, <4>2, <4>3
        <5>2. K \in Nat /\ x \in Int /\ Label \in Nat
          BY <1>1, <4>3
        <5> HIDE DEF a, b, l
        <5>3. b <= x + K
          BY <5>1, <5>2
        <5> QED BY <5>3 DEF b
      <4> QED BY <4>4 DEF x
    <3>4. (m - 1) * K + K = m * K
      <4> HIDE DEF K, N
      <4>1. m \in Int
        BY <1>1
      <4> QED BY <1>1, <4>1
    <3> QED BY <3>3, <3>4
  <2> HIDE DEF Small, K
  <2> QED BY <2>1, <2>3, <2>4
<1>5. \A m \in 0..N : m \in P
  <2> HIDE DEF P, N
  <2> QED BY <1>1, <1>3, <1>4, UpTo
<1> QED BY <1>2, <1>5 DEF after

\* What a cut leaves is of what was cited; every part but the last, and the label
\* behind it, is within the context.
LEMMA LabelledIs ==
  ASSUME NEW S, \A s \in S : s.size \in Nat, NEW found \in Seq(S), found # <<>>
  PROVE  /\ ContextLength(found) \in Nat
         /\ \A length : Labelled(found, length) \subseteq Cited(found)
         /\ \A k \in 1..Len(found) :
              k < Len(found) => Offsets(found)[k] + Label <= ContextLength(found)
         /\ Label <= ContextLength(found)
<1> DEFINE N == Len(found)
           after == Offsets(found)
<1>1. /\ N \in Nat \ {0} /\ DOMAIN found = 1..N /\ Label \in Nat
      /\ \A i \in 1..N : found[i].size \in Nat
  BY SizesAre
<1>2. N - 1 \in 0..N
  BY <1>1
<1>3. after[N - 1] \in Nat /\ \A j \in 0..N-1 : after[j] <= after[N - 1]
  BY <1>2, OffsetsGrow
<1>4. \A j \in 0..N-1 : after[j] \in Nat
  <2>1. after \in [0..N -> Nat]
    BY OffsetsAre
  <2> HIDE DEF after, N
  <2> QED BY <1>1, <2>1
<1>5. ContextLength(found) = after[N - 1] + Label + found[N].size
  BY DEF ContextLength, OffsetOf
<1> HIDE DEF after
<1>6. ContextLength(found) \in Nat /\ found[N].size \in Nat
  BY <1>1, <1>3, <1>5
<1>7. ASSUME NEW k \in 1..N, k < N PROVE after[k] + Label <= ContextLength(found)
  <2>1. k \in 0..N-1
    BY <1>1, <1>7
  <2>2. after[k] <= after[N - 1] /\ after[k] \in Nat
    BY <1>3, <1>4, <2>1
  <2> QED BY <1>1, <1>3, <1>5, <1>6, <2>2
<1>8. Label <= ContextLength(found)
  BY <1>1, <1>3, <1>5, <1>6
<1>9. \A length : Labelled(found, length) \subseteq Cited(found)
  BY DEF Labelled, Cited
<1> QED BY <1>6, <1>7, <1>8, <1>9 DEF after

\* A cut leaves the labels of the first parts.
LEMMA CutTakesTheLast ==
  ASSUME NEW S, \A s \in S : s.size \in Nat, NEW found \in Seq(S), found # <<>>,
         NEW length \in Nat, Label <= length
  PROVE  \E k \in 1..Len(found) :
           /\ Labelled(found, length) = {found[j].doc : j \in 1..k}
           /\ k < Len(found) => Offsets(found)[k] + Label > length
<1> DEFINE N == Len(found)
           after == Offsets(found)
           T == {j \in 1..N : after[j - 1] + Label > length}
<1>1. N \in Nat \ {0} /\ DOMAIN found = 1..N /\ Label \in Nat
  BY SizesAre
<1>2. after \in [0..N -> Nat] /\ after[0] = 0
  BY OffsetsAre
<1>3. ASSUME NEW n \in 0..N, NEW j \in 0..n PROVE after[j] <= after[n]
  BY <1>3, OffsetsGrow
<1>4. Labelled(found, length) = {found[j].doc : j \in 1..N \ T}
  <2>1. \A j \in 1..N : OffsetOf(found, j) = after[j - 1]
    BY DEF OffsetOf
  <2> HIDE DEF after
  <2>2. \A j \in 1..N : after[j - 1] \in Nat
    <3>1. \A j \in 1..N : j - 1 \in 0..N
      BY <1>1
    <3> HIDE DEF N
    <3> QED BY <1>2, <3>1
  <2>3. {j \in DOMAIN found : OffsetOf(found, j) + Label <= length} = 1..N \ T
    BY <1>1, <2>1, <2>2
  <2> HIDE DEF T, N
  <2> QED BY <2>3 DEF Labelled
<1> HIDE DEF after, N
<1>5. CASE T = {}
  <2>1. 1..N \ T = 1..N /\ N \in 1..N /\ ~ (N < N)
    BY <1>1, <1>5
  <2> HIDE DEF T
  <2> QED BY <1>4, <2>1 DEF N
<1>6. CASE T # {}
  <2>1. PICK m \in T : \A j \in T : m <= j
    <3>1. T \in SUBSET Nat
      BY <1>1
    <3> HIDE DEF T
    <3> QED BY <1>6, <3>1, Least
  <2>2. m \in 1..N /\ after[m - 1] + Label > length
    BY <2>1
  <2>3. m # 1
    BY <1>1, <1>2, <2>2
  <2>4. m - 1 \in 1..N
    BY <1>1, <2>2, <2>3
  <2>5. ASSUME NEW j \in 1..N PROVE j \in T <=> j > m - 1
    <3>1. CASE j < m
      BY <1>1, <2>1, <2>2, <3>1
    <3>2. CASE j >= m
      <4>1. j - 1 \in 0..N /\ m - 1 \in 0..j-1 /\ m - 1 \in 0..N
        BY <1>1, <2>2, <3>2
      <4>2. after[m - 1] <= after[j - 1] /\ after[m - 1] \in Nat /\ after[j - 1] \in Nat
        BY <1>2, <1>3, <4>1
      <4>3. after[j - 1] + Label > length
        BY <1>1, <2>2, <4>2
      <4> QED BY <1>1, <2>2, <3>2, <4>3
    <3> QED BY <1>1, <2>2, <3>1, <3>2
  <2>6. 1..N \ T = 1..m-1
    <3> HIDE DEF T
    <3> QED BY <1>1, <2>4, <2>5
  <2> HIDE DEF T
  <2> QED BY <1>4, <2>2, <2>4, <2>6 DEF N, after
<1> QED BY <1>5, <1>6

\* As long as more are to come and all are of the intended size, the label of
\* the next part fits into the context.
LEMMA NextFits ==
  ASSUME NEW S, \A s \in S : s.size \in Nat, NEW found \in Seq(S), Len(found) <= TopK,
         NEW k \in 1..Len(found), k < Len(found),
         \A i \in 1..k : found[i].size <= ChunkSize + 1
  PROVE  Offsets(found)[k] + Label <= MaxContext
<1> DEFINE K == Label + ChunkSize + 3
           a == Offsets(found)[k]
<1>1. k \in Nat \ {0} /\ k + 1 <= TopK /\ k \in 0..Len(found)
  <2>1. Len(found) \in Nat
    OBVIOUS
  <2> QED BY <2>1, SizesAre
<1>2. a \in Nat /\ a <= k * K
  BY <1>1, OffsetsGrow
<1>3. K \in Nat /\ TopK \in Nat /\ MaxContext \in Nat /\ Label \in Nat /\ ChunkSize \in Nat
      /\ TopK * K <= MaxContext + 2
  BY SizesAre, AnswersAssumption
<1>4. Label + 3 <= K
  BY <1>3
<1> HIDE DEF K, a
<1>5. TopK * K = k * K + K + (TopK - (k + 1)) * K
  BY <1>1, <1>3
<1>6. (TopK - (k + 1)) * K \in Nat /\ k * K \in Nat
  <2>1. TopK - (k + 1) \in Nat
    BY <1>1, <1>3
  <2> QED BY <1>1, <1>3, <2>1
<1> DEFINE x == k * K
           y == TopK * K
           z == (TopK - (k + 1)) * K
<1>7. x \in Nat /\ z \in Nat /\ y = x + K + z /\ a <= x /\ y <= MaxContext + 2
  BY <1>2, <1>3, <1>5, <1>6
<1> HIDE DEF x, y, z
<1>8. a + Label <= MaxContext
  BY <1>2, <1>3, <1>4, <1>7
<1> QED BY <1>8 DEF a

-----------------------------------------------------------------------------
(* The answer to a question.                                               *)

\* The chunks there are to be found, and what the client may be told.
AnyHit == {collection[id] : id \in DOMAIN collection}
AnyEvent ==
  {e \in [kind : Kinds, cited : SUBSET {h.doc : h \in AnyHit}, call : 0..2] :
     e.kind = "piece" => e.call # 0}

\* SecondCall of the request that FirstCall made.
Shortened ==
  LET cut == FirstCall.prompt > RetryChars
      context == Smaller(ContextLength(hits), MaxContext)
  IN  [client |-> FirstCall.client,
       labels |-> IF cut THEN Labelled(hits, Smaller(context, RetryChars - Preamble))
                  ELSE FirstCall.labels,
       prompt |-> IF cut THEN RetryChars + Marker ELSE FirstCall.prompt,
       instructed |-> ~cut,
       tokens |-> Smaller(Smaller(request.tokens, RetryTokens), HardMax)]

DataInv ==
  /\ request.tokens \in Int
  /\ \A h \in AnyHit : h.size \in Nat
  /\ hits \in Seq(AnyHit) /\ Len(hits) <= TopK
  /\ sent \in Seq(AnyEvent)

\* What has been requested of the upstream, and of what.
CallsInv ==
  /\ step \in {"posted", "search", "fallback", "finish", "build"} => calls = <<>>
  /\ step \in {"open", "stream"} => calls # <<>>
  /\ calls = <<>> \/ calls = <<FirstCall>> \/ calls = <<FirstCall, Shortened>>
  /\ step = "build" \/ calls # <<>> =>
       sent # <<>> /\ hits # <<>> /\ sent[1].cited = Cited(hits)

\* The metadata, and behind it only pieces of the last request's answer.
Streamed ==
  \A i \in 1..Len(sent) :
    IF i = 1 THEN sent[i].kind = "metadata"
    ELSE sent[i].kind = "piece" /\ sent[i].call = Len(calls)

\* What the client has been sent, by what the generator does next.
SentInv ==
  /\ step \in Steps
  /\ step \in {"posted", "search"} => sent = <<>>
  /\ step \in {"fallback", "build", "open"} => Len(sent) = 1
  /\ step \in {"fallback", "build", "open", "stream", "fail"} => Streamed
  /\ step = "fallback" => sent[1].cited = {}
  /\ step = "finish" =>
       /\ Len(sent) = 2 /\ sent[1].kind = "metadata" /\ sent[1].cited = {}
       /\ sent[2].kind = "fallback"

AnswerInv == DataInv /\ CallsInv /\ SentInv /\ StreamIsWellFormed

LEMMA CallsStay ==
  ASSUME UNCHANGED <<request, hits>>
  PROVE  FirstCall' = FirstCall /\ Shortened' = Shortened
<1>1. request' = request /\ hits' = hits
  OBVIOUS
<1>2. FirstCall' = FirstCall
  BY <1>1 DEF FirstCall, Forwarded
<1> QED BY <1>1, <1>2 DEF Shortened

\* There are two calls at most, and the second is what Retry makes of the first.
LEMMA CallsAre ==
  ASSUME CallsInv
  PROVE  /\ Len(calls) \in 0..2
         /\ calls # <<>> => calls[1] = FirstCall /\ Len(calls) \in 1..2
         /\ Len(calls) = 1 => calls = <<FirstCall>>
         /\ Len(calls) = 2 => calls[2] = Shortened
         /\ Len(calls) = 1 => SecondCall = Shortened
<1> DEFINE f == FirstCall
           s == Shortened
<1>1. calls = <<>> \/ calls = <<f>> \/ calls = <<f, s>>
  BY DEF CallsInv
<1> HIDE DEF f, s
<1>2. /\ Len(calls) \in 0..2
      /\ calls # <<>> => calls[1] = f /\ Len(calls) \in 1..2
      /\ Len(calls) = 1 => calls = <<f>>
      /\ Len(calls) = 2 => calls[2] = s
  BY <1>1
<1>3. ASSUME calls[1] = FirstCall PROVE SecondCall = Shortened
  BY <1>3 DEF SecondCall, Shortened
<1>4. Len(calls) = 1 => calls[1] = f
  BY <1>1
<1> QED BY <1>2, <1>3, <1>4 DEF f, s

LEMMA EventIs ==
  ASSUME CallsInv, NEW kind \in Kinds, kind = "piece" => calls # <<>>,
         NEW cited \in SUBSET {h.doc : h \in AnyHit}
  PROVE  /\ Event(kind) \in AnyEvent /\ Event(kind).kind = kind /\ Event(kind).cited = {}
         /\ Event(kind).call = Len(calls)
         /\ Metadata(cited) \in AnyEvent /\ Metadata(cited).kind = "metadata"
         /\ Metadata(cited).cited = cited
<1>1. Len(calls) \in 0..2 /\ (kind = "piece" => Len(calls) # 0)
  <2>1. calls # <<>> => Len(calls) \in 1..2
    BY CallsAre
  <2> QED BY <2>1, CallsAre
<1>2. "metadata" \in Kinds
  BY DEF Kinds
<1> QED BY <1>1, <1>2 DEF Event, Metadata, AnyEvent

\* What has been sent stays, and one event comes behind it.
LEMMA Sending ==
  ASSUME DataInv, NEW e \in AnyEvent, Send(e), UNCHANGED collection
  PROVE  /\ sent' \in Seq(AnyEvent') /\ Len(sent) \in Nat /\ Len(sent') = Len(sent) + 1
         /\ DOMAIN sent = 1..Len(sent) /\ DOMAIN sent' = 1..Len(sent)+1
         /\ \A i \in 1..Len(sent) : sent'[i] = sent[i]
         /\ sent'[Len(sent) + 1] = e
<1>1. sent \in Seq(AnyEvent) /\ sent' = Append(sent, e)
  BY DEF DataInv, Send
<1>2. AnyEvent' = AnyEvent
  BY DEF AnyEvent, AnyHit
<1> HIDE DEF AnyEvent
<1> QED BY <1>1, <1>2

\* Nothing but the step changes, and no event was the last.
LEMMA Silent ==
  ASSUME AnswerInv, UNCHANGED <<collection, request, hits, sent, calls>>
  PROVE  /\ DataInv'
         /\ FirstCall' = FirstCall /\ Shortened' = Shortened
         /\ Streamed' <=> Streamed
         /\ step # "ended" \/ step' = step => StreamIsWellFormed'
<1>1. UNCHANGED <<collection, request, hits, sent, calls>>
  OBVIOUS
<1>2. DataInv'
  BY <1>1 DEF AnswerInv, DataInv, AnyHit, AnyEvent
<1>3. Streamed' <=> Streamed
  BY <1>1 DEF Streamed
<1>4. step # "ended" \/ step' = step => StreamIsWellFormed'
  BY <1>1 DEF AnswerInv, StreamIsWellFormed
<1> QED BY <1>1, <1>2, <1>3, <1>4, CallsStay

\* Init establishes it: the sizes are lengths of texts, and nothing has been sent.
LEMMA AnswerInit == Init => AnswerInv
<1> SUFFICES ASSUME Init PROVE AnswerInv
  OBVIOUS
<1>1. PICK body \in Questions : InitWith(Indexed, body)
  BY DEF Init
<1>2. /\ collection = Indexed /\ request = body /\ step = "posted"
      /\ hits = <<>> /\ sent = <<>> /\ calls = <<>>
  BY <1>1 DEF InitWith
<1>3. DataInv
  <2>1. \A h \in AnyHit : h.size \in Nat
    <3> SUFFICES ASSUME NEW id \in DOMAIN Indexed PROVE Indexed[id].size \in Nat
      BY <1>2 DEF AnyHit
    <3> QED BY IndexedIs
  <2>2. request.tokens \in Int
    BY <1>2, QuestionsAssumption
  <2> QED BY <1>2, <2>1, <2>2, SizesAre DEF DataInv
<1>4. CallsInv
  BY <1>2 DEF CallsInv
<1>5. SentInv
  BY <1>2 DEF SentInv, Steps
<1>6. StreamIsWellFormed
  <2>1. DOMAIN sent = {} /\ DOMAIN calls = {}
    BY <1>2
  <2> QED BY <2>1 DEF StreamIsWellFormed
<1> QED BY <1>3, <1>4, <1>5, <1>6 DEF AnswerInv

\* The steps that send and request nothing.
LEMMA SilentSteps ==
  ASSUME AnswerInv,
         Refuse \/ Accept \/ SearchRaises \/ BuildRaises \/ Opens \/ OpenRaises
           \/ StreamRaises \/ StreamEnds \/ Leave
  PROVE  AnswerInv'
<1>1. /\ UNCHANGED <<collection, request, hits, sent, calls>> /\ step # "ended"
      /\ \/ step = "posted" /\ step' \in {"ended", "search"}
         \/ step \in {"search", "build", "open", "stream"} /\ step' = "fail"
         \/ step = "open" /\ step' = "stream"
         \/ step = "stream" /\ step' = "ended"
         \/ step' = "left"
  BY DEF Refuse, Accept, SearchRaises, BuildRaises, Opens, OpenRaises, StreamRaises,
         StreamEnds, Leave, Raise
<1>2. /\ DataInv' /\ StreamIsWellFormed' /\ (Streamed' <=> Streamed)
      /\ FirstCall' = FirstCall /\ Shortened' = Shortened
  BY <1>1, Silent
<1>3. /\ CallsInv /\ SentInv
  BY DEF AnswerInv
<1>4. CallsInv'
  <2>1. Cited(hits)' = Cited(hits) /\ sent' = sent /\ calls' = calls /\ hits' = hits
    BY <1>1
  <2> QED BY <1>1, <1>2, <1>3, <2>1 DEF CallsInv
<1>5. SentInv'
  <2>1. step = "search" => Streamed
    <3>1. step = "search" => 1..Len(sent) = {}
      BY <1>3 DEF SentInv
    <3> QED BY <3>1 DEF Streamed
  <2> QED BY <1>1, <1>2, <1>3, <2>1 DEF SentInv, Steps
<1> QED BY <1>2, <1>4, <1>5 DEF AnswerInv

\* The metadata of a search that found nothing.
LEMMA NothingFoundStep ==
  ASSUME AnswerInv, NothingFound
  PROVE  AnswerInv'
<1> DEFINE e == Metadata({})
<1>1. /\ step = "search" /\ step' = "fallback" /\ Send(e)
      /\ UNCHANGED <<collection, request, hits, calls>>
  BY DEF NothingFound
<1>2. DataInv /\ CallsInv /\ SentInv
  BY DEF AnswerInv
<1>3. /\ e \in AnyEvent /\ e.kind = "metadata" /\ e.cited = {}
  <2>1. "metadata" \in Kinds /\ {} \in SUBSET {h.doc : h \in AnyHit}
    BY DEF Kinds
  <2> QED BY <1>2, <2>1, EventIs
<1> HIDE DEF e
<1>4. sent = <<>> /\ calls = <<>>
  BY <1>1, <1>2 DEF SentInv, CallsInv
<1>5. /\ sent' \in Seq(AnyEvent') /\ DOMAIN sent' = {1} /\ Len(sent') = 1 /\ sent'[1] = e
  BY <1>1, <1>2, <1>3, <1>4, Sending
<1>6. DataInv'
  BY <1>1, <1>2, <1>5 DEF DataInv, AnyHit
<1>7. CallsInv'
  BY <1>1, <1>4 DEF CallsInv
<1>8. SentInv'
  BY <1>1, <1>3, <1>5 DEF SentInv, Steps, Streamed
<1>9. StreamIsWellFormed'
  BY <1>3, <1>5 DEF StreamIsWellFormed
<1> QED BY <1>6, <1>7, <1>8, <1>9 DEF AnswerInv

\* The metadata of one that did.
LEMMA FoundStep ==
  ASSUME AnswerInv, Found
  PROVE  AnswerInv'
<1> DEFINE e == Metadata(Cited(hits'))
<1>1. /\ step = "search" /\ step' = "build" /\ Send(e)
      /\ UNCHANGED <<collection, request, calls>>
  BY DEF Found
<1>2. DataInv /\ CallsInv /\ SentInv
  BY DEF AnswerInv
<1>3. PICK found \in Findings : hits' = [i \in DOMAIN found |-> collection[found[i]]]
  BY DEF Found
<1>4. PICK n \in 1..TopK : found \in [1..n -> Eligible]
  BY <1>3 DEF Findings
<1>5. /\ hits' \in Seq(AnyHit) /\ Len(hits') = n /\ n \in 1..TopK /\ hits' # <<>>
      /\ Len(hits') <= TopK
  <2>1. n \in Nat \ {0} /\ n <= TopK
    BY <1>4, SizesAre
  <2>2. \A i \in 1..n : found[i] \in DOMAIN collection
    BY <1>4 DEF Eligible
  <2>3. hits' = [i \in 1..n |-> collection[found[i]]]
    BY <1>3, <1>4
  <2>4. hits' \in [1..n -> AnyHit]
    BY <2>2, <2>3 DEF AnyHit
  <2> HIDE DEF AnyHit
  <2> QED BY <2>1, <2>4
<1>6. Cited(hits') \subseteq {h.doc : h \in AnyHit}
  <2>1. \A i \in DOMAIN hits' : hits'[i] \in AnyHit
    BY <1>5
  <2> QED BY <2>1 DEF Cited
<1>7. e \in AnyEvent /\ e.kind = "metadata" /\ e.cited = Cited(hits')
  <2>1. "metadata" \in Kinds
    BY DEF Kinds
  <2> QED BY <1>2, <1>6, <2>1, EventIs
<1> HIDE DEF e
<1>8. sent = <<>> /\ calls = <<>>
  BY <1>1, <1>2 DEF SentInv, CallsInv
<1>9. /\ sent' \in Seq(AnyEvent') /\ DOMAIN sent' = {1} /\ Len(sent') = 1 /\ sent'[1] = e
  BY <1>1, <1>2, <1>7, <1>8, Sending
<1>10. DataInv'
  BY <1>1, <1>2, <1>5, <1>9 DEF DataInv, AnyHit
<1>11. CallsInv'
  <2>1. sent' # <<>> /\ calls' = <<>>
    BY <1>1, <1>8, <1>9
  <2> QED BY <1>1, <1>5, <1>7, <1>9, <2>1 DEF CallsInv
<1>12. SentInv'
  BY <1>1, <1>7, <1>9 DEF SentInv, Steps, Streamed
<1>13. StreamIsWellFormed'
  BY <1>7, <1>9 DEF StreamIsWellFormed
<1> QED BY <1>10, <1>11, <1>12, <1>13 DEF AnswerInv

\* What stands when an event has been sent behind others, and nothing else done.
LEMMA SentBehind ==
  ASSUME AnswerInv, NEW e \in AnyEvent, Send(e), step # "build" => step' # "build",
         UNCHANGED <<collection, request, hits, calls>>,
         step' \in {"posted", "search", "fallback", "finish", "build"} => calls = <<>>,
         step' \in {"open", "stream"} => calls # <<>>
  PROVE  DataInv' /\ CallsInv'
<1>1. DataInv /\ CallsInv
  BY DEF AnswerInv
<1>2. /\ sent' \in Seq(AnyEvent') /\ Len(sent) \in Nat /\ Len(sent') = Len(sent) + 1
      /\ \A i \in 1..Len(sent) : sent'[i] = sent[i]
  BY <1>1, Sending
<1>3. DataInv'
  BY <1>1, <1>2 DEF DataInv, AnyHit
<1>4. FirstCall' = FirstCall /\ Shortened' = Shortened
  BY CallsStay
<1>5. sent # <<>> => sent' # <<>> /\ sent'[1] = sent[1]
  <2>1. sent # <<>> => 1 \in 1..Len(sent)
    BY <1>1 DEF DataInv
  <2>2. sent' # <<>>
    BY <1>2
  <2> QED BY <1>2, <2>1, <2>2
<1>6. CallsInv'
  BY <1>1, <1>4, <1>5 DEF CallsInv
<1> QED BY <1>3, <1>6

\* The fallback and the mark of the end behind it.
LEMMA FallbackSteps ==
  ASSUME AnswerInv, SendFallback \/ SendDone
  PROVE  AnswerInv'
<1>1. DataInv /\ CallsInv /\ SentInv
  BY DEF AnswerInv
<1>2. CASE SendFallback
  <2> DEFINE e == Event("fallback")
  <2>1. /\ step = "fallback" /\ step' = "finish" /\ Send(e)
        /\ UNCHANGED <<collection, request, hits, calls>>
    BY <1>2 DEF SendFallback
  <2>2. e \in AnyEvent /\ e.kind = "fallback"
    <3>1. "fallback" \in Kinds /\ {} \in SUBSET {h.doc : h \in AnyHit}
      BY DEF Kinds
    <3> QED BY <1>1, <3>1, EventIs
  <2> HIDE DEF e
  <2>3. /\ Len(sent) = 1 /\ sent[1].kind = "metadata" /\ sent[1].cited = {} /\ calls = <<>>
    BY <1>1, <2>1 DEF SentInv, CallsInv, Streamed
  <2>4. /\ DOMAIN sent' = {1, 2} /\ Len(sent') = 2 /\ sent'[1] = sent[1] /\ sent'[2] = e
    <3>1. /\ Len(sent') = Len(sent) + 1 /\ DOMAIN sent' = 1..Len(sent)+1
          /\ \A i \in 1..Len(sent) : sent'[i] = sent[i]
          /\ sent'[Len(sent) + 1] = e
      BY <1>1, <2>1, <2>2, Sending
    <3> QED BY <2>3, <3>1
  <2>5. DataInv' /\ CallsInv'
    BY <2>1, <2>2, <2>3, SentBehind
  <2>6. SentInv'
    BY <2>1, <2>2, <2>3, <2>4 DEF SentInv, Steps
  <2>7. StreamIsWellFormed'
    BY <2>2, <2>3, <2>4 DEF StreamIsWellFormed
  <2> QED BY <2>5, <2>6, <2>7 DEF AnswerInv
<1>3. CASE SendDone
  <2> DEFINE e == Event("done")
  <2>1. /\ step = "finish" /\ step' = "ended" /\ Send(e)
        /\ UNCHANGED <<collection, request, hits, calls>>
    BY <1>3 DEF SendDone
  <2>2. e \in AnyEvent /\ e.kind = "done"
    <3>1. "done" \in Kinds /\ {} \in SUBSET {h.doc : h \in AnyHit}
      BY DEF Kinds
    <3> QED BY <1>1, <3>1, EventIs
  <2> HIDE DEF e
  <2>3. /\ Len(sent) = 2 /\ sent[1].kind = "metadata" /\ sent[1].cited = {}
        /\ sent[2].kind = "fallback" /\ calls = <<>>
    BY <1>1, <2>1 DEF SentInv, CallsInv
  <2>4. /\ DOMAIN sent' = {1, 2, 3} /\ Len(sent') = 3 /\ sent'[1] = sent[1]
        /\ sent'[2] = sent[2] /\ sent'[3] = e
    <3>1. /\ Len(sent') = Len(sent) + 1 /\ DOMAIN sent' = 1..Len(sent)+1
          /\ \A i \in 1..Len(sent) : sent'[i] = sent[i]
          /\ sent'[Len(sent) + 1] = e
      BY <1>1, <2>1, <2>2, Sending
    <3> QED BY <2>3, <3>1
  <2>5. DataInv' /\ CallsInv'
    BY <2>1, <2>2, <2>3, SentBehind
  <2>6. SentInv'
    BY <2>1 DEF SentInv, Steps
  <2>7. StreamIsWellFormed'
    BY <2>1, <2>2, <2>3, <2>4 DEF StreamIsWellFormed
  <2> QED BY <2>5, <2>6, <2>7 DEF AnswerInv
<1> QED BY <1>2, <1>3

\* A piece of the answer.
LEMMA PieceStep ==
  ASSUME AnswerInv, SendPiece
  PROVE  AnswerInv'
<1> DEFINE e == Event("piece")
<1>1. /\ step = "stream" /\ step' = step /\ Send(e)
      /\ UNCHANGED <<collection, request, hits, calls>>
  BY DEF SendPiece
<1>2. DataInv /\ CallsInv /\ SentInv
  BY DEF AnswerInv
<1>3. e \in AnyEvent /\ e.kind = "piece" /\ e.call = Len(calls)
  <2>1. "piece" \in Kinds /\ {} \in SUBSET {h.doc : h \in AnyHit}
    BY DEF Kinds
  <2>2. calls # <<>>
    BY <1>1, <1>2 DEF CallsInv
  <2> QED BY <1>2, <2>1, <2>2, EventIs
<1> HIDE DEF e
<1>4. calls # <<>> /\ sent # <<>> /\ Streamed /\ Len(sent) # 0
  BY <1>1, <1>2 DEF SentInv, CallsInv, DataInv
<1>5. /\ Len(sent) \in Nat \ {0} /\ Len(sent') = Len(sent) + 1 /\ DOMAIN sent' = 1..Len(sent)+1
      /\ \A i \in 1..Len(sent) : sent'[i] = sent[i]
      /\ sent'[Len(sent) + 1] = e
  BY <1>1, <1>2, <1>3, <1>4, Sending
<1>6. Streamed'
  <2> SUFFICES ASSUME NEW i \in 1..Len(sent)+1
               PROVE  IF i = 1 THEN sent'[i].kind = "metadata"
                      ELSE sent'[i].kind = "piece" /\ sent'[i].call = Len(calls)
    BY <1>1, <1>5 DEF Streamed
  <2>1. CASE i \in 1..Len(sent)
    BY <1>4, <1>5, <2>1 DEF Streamed
  <2>2. CASE i = Len(sent) + 1
    BY <1>3, <1>5, <2>2
  <2> QED BY <1>5, <2>1, <2>2
<1>7. DataInv' /\ CallsInv'
  BY <1>1, <1>3, <1>4, SentBehind
<1>8. SentInv'
  BY <1>1, <1>6 DEF SentInv, Steps
<1>9. StreamIsWellFormed'
  <2>1. \A i \in DOMAIN sent' :
          IF i = 1 THEN sent'[i].kind = "metadata"
          ELSE sent'[i].kind = "piece" /\ sent'[i].call = Len(calls')
    BY <1>5, <1>6 DEF Streamed
  <2> QED BY <2>1 DEF StreamIsWellFormed
<1> QED BY <1>7, <1>8, <1>9 DEF AnswerInv

\* The error behind whatever had been sent.
LEMMA ErrorStep ==
  ASSUME AnswerInv, SendError
  PROVE  AnswerInv'
<1> DEFINE e == Event("error")
<1>1. /\ step = "fail" /\ step' = "ended" /\ Send(e)
      /\ UNCHANGED <<collection, request, hits, calls>>
  BY DEF SendError
<1>2. DataInv /\ CallsInv /\ SentInv
  BY DEF AnswerInv
<1>3. e \in AnyEvent /\ e.kind = "error"
  <2>1. "error" \in Kinds /\ {} \in SUBSET {h.doc : h \in AnyHit}
    BY DEF Kinds
  <2> QED BY <1>2, <2>1, EventIs
<1> HIDE DEF e
<1>4. Streamed
  BY <1>1, <1>2 DEF SentInv
<1>5. /\ Len(sent) \in Nat /\ Len(sent') = Len(sent) + 1 /\ DOMAIN sent' = 1..Len(sent)+1
      /\ \A i \in 1..Len(sent) : sent'[i] = sent[i]
      /\ sent'[Len(sent) + 1] = e
  BY <1>1, <1>2, <1>3, Sending
<1>6. DataInv' /\ CallsInv'
  BY <1>1, <1>3, SentBehind
<1>7. SentInv'
  BY <1>1 DEF SentInv, Steps
<1>8. ASSUME NEW i \in 1..Len(sent)+1
      PROVE  IF i = Len(sent) + 1 THEN sent'[i].kind = "error"
             ELSE IF i = 1 THEN sent'[i].kind = "metadata"
             ELSE sent'[i].kind = "piece" /\ sent'[i].call = Len(calls')
  <2>1. CASE i \in 1..Len(sent)
    BY <1>1, <1>4, <1>5, <2>1 DEF Streamed
  <2>2. CASE i = Len(sent) + 1
    BY <1>3, <1>5, <2>2
  <2> QED BY <1>5, <2>1, <2>2
<1>9. StreamIsWellFormed'
  BY <1>1, <1>5, <1>8 DEF StreamIsWellFormed
<1> QED BY <1>6, <1>7, <1>9 DEF AnswerInv

\* The two requests to the upstream, of which no event tells.
LEMMA CallSteps ==
  ASSUME AnswerInv, Call \/ Retry
  PROVE  AnswerInv'
<1>1. /\ UNCHANGED <<collection, request, hits, sent>> /\ step' = "open"
      /\ \/ step = "build" /\ calls' = Append(calls, FirstCall)
         \/ step = "open" /\ Len(calls) = 1 /\ calls' = Append(calls, SecondCall)
  BY DEF Call, Retry
<1>2. DataInv /\ CallsInv /\ SentInv
  BY DEF AnswerInv
<1>3. FirstCall' = FirstCall /\ Shortened' = Shortened
  BY <1>1, CallsStay
<1>4. calls' # <<>> /\ (calls' = <<FirstCall>> \/ calls' = <<FirstCall, Shortened>>)
  <2> DEFINE f == FirstCall
             s == Shortened
  <2>1. CASE step = "build" /\ calls' = Append(calls, FirstCall)
    <3>1. calls = <<>> /\ calls' = Append(calls, f)
      BY <1>2, <2>1 DEF CallsInv
    <3> HIDE DEF f
    <3>2. calls' = <<f>>
      BY <3>1
    <3> QED BY <3>2 DEF f
  <2>2. CASE Len(calls) = 1 /\ calls' = Append(calls, SecondCall)
    <3>1. calls = <<f>> /\ SecondCall = s
      BY <1>2, <2>2, CallsAre
    <3>2. calls' = Append(<<f>>, s)
      BY <2>2, <3>1
    <3> HIDE DEF f, s
    <3>3. Append(<<f>>, s) = <<f, s>>
      <4> DEFINE a == Append(<<f>>, s)
      <4>1. <<f>> \in Seq({f, s}) /\ Len(<<f>>) = 1 /\ <<f>>[1] = f /\ s \in {f, s}
        OBVIOUS
      <4>2. a \in Seq({f, s}) /\ Len(a) = 2 /\ a[1] = f /\ a[2] = s
        BY <4>1
      <4> HIDE DEF a
      <4>3. a = <<f, s>>
        BY <4>2
      <4> QED BY <4>3 DEF a
    <3> QED BY <3>2, <3>3 DEF f, s
  <2> QED BY <1>1, <2>1, <2>2
<1>5. /\ sent # <<>> /\ hits # <<>> /\ sent[1].cited = Cited(hits) /\ Len(sent) = 1 /\ Streamed
  BY <1>1, <1>2 DEF CallsInv, SentInv
<1>6. DataInv'
  BY <1>1, <1>2 DEF DataInv, AnyHit, AnyEvent
<1>7. CallsInv'
  <2>1. sent' # <<>> /\ hits' # <<>> /\ sent'[1].cited = Cited(hits')
    BY <1>1, <1>5
  <2>2. calls' = <<FirstCall'>> \/ calls' = <<FirstCall', Shortened'>>
    BY <1>3, <1>4
  <2> QED BY <1>1, <1>4, <2>1, <2>2 DEF CallsInv
<1>8. DOMAIN sent' = {1} /\ Len(sent') = 1 /\ sent'[1].kind = "metadata"
  <2>1. sent[1].kind = "metadata" /\ DOMAIN sent = 1..Len(sent)
    BY <1>2, <1>5 DEF Streamed, DataInv
  <2> QED BY <1>1, <1>5, <2>1
<1>9. SentInv'
  BY <1>1, <1>8 DEF SentInv, Steps, Streamed
<1>10. StreamIsWellFormed'
  BY <1>8 DEF StreamIsWellFormed
<1> QED BY <1>6, <1>7, <1>9, <1>10 DEF AnswerInv

LEMMA AnswerInvariant == Spec => []AnswerInv
<1>1. AnswerInv /\ [Next /\ UNCHANGED corpusVars]_allVars => AnswerInv'
  <2> SUFFICES ASSUME AnswerInv, [Next /\ UNCHANGED corpusVars]_allVars PROVE AnswerInv'
    OBVIOUS
  <2>1. CASE Refuse \/ Accept \/ SearchRaises \/ BuildRaises \/ Opens \/ OpenRaises
               \/ StreamRaises \/ StreamEnds \/ Leave
    BY <2>1, SilentSteps
  <2>2. CASE NothingFound
    BY <2>2, NothingFoundStep
  <2>3. CASE Found
    BY <2>3, FoundStep
  <2>4. CASE SendFallback \/ SendDone
    BY <2>4, FallbackSteps
  <2>5. CASE SendPiece
    BY <2>5, PieceStep
  <2>6. CASE SendError
    BY <2>6, ErrorStep
  <2>7. CASE Call \/ Retry
    BY <2>7, CallSteps
  <2>8. CASE Terminated \/ UNCHANGED allVars
    <3>1. UNCHANGED vars
      BY <2>8 DEF Terminated, allVars
    <3>2. UNCHANGED <<collection, request, hits, sent, calls>> /\ step' = step
      BY <3>1 DEF vars
    <3>3. /\ DataInv' /\ StreamIsWellFormed' /\ (Streamed' <=> Streamed)
          /\ FirstCall' = FirstCall /\ Shortened' = Shortened
      BY <3>2, Silent
    <3>4. CallsInv' /\ SentInv'
      BY <3>2, <3>3 DEF AnswerInv, CallsInv, SentInv
    <3> QED BY <3>3, <3>4 DEF AnswerInv
  <2> QED BY <2>1, <2>2, <2>3, <2>4, <2>5, <2>6, <2>7, <2>8
       DEF Next, Progress, Search, Upstream
<1> QED BY <1>1, AnswerInit, PTL DEF Spec

-----------------------------------------------------------------------------

\* The steps, the number of hits and calls, and the kinds of events.
THEOREM TypeCorrect == Spec => []TypeOK
<1>1. AnswerInv => TypeOK
  <2> SUFFICES ASSUME AnswerInv PROVE TypeOK
    OBVIOUS
  <2>1. DataInv /\ CallsInv /\ SentInv
    BY DEF AnswerInv
  <2>2. Len(calls) \in 0..2
    BY <2>1, CallsAre
  <2>3. \A i \in DOMAIN sent : sent[i].kind \in Kinds /\ sent[i].call \in 0..2
    <3>1. \A i \in DOMAIN sent : sent[i] \in AnyEvent
      BY <2>1 DEF DataInv
    <3>2. \A e \in AnyEvent : e.kind \in Kinds /\ e.call \in 0..2
      BY DEF AnyEvent
    <3> HIDE DEF AnyEvent
    <3> QED BY <3>1, <3>2
  <2>4. step \in Steps /\ Len(hits) <= TopK /\ Len(calls) <= 2
    <3>1. step \in Steps
      BY <2>1 DEF SentInv
    <3>2. Len(hits) <= TopK
      BY <2>1 DEF DataInv
    <3>3. Len(calls) <= 2
      <4>1. \A n \in 0..2 : n <= 2
        OBVIOUS
      <4> QED BY <2>2, <4>1
    <3> QED BY <3>1, <3>2, <3>3
  <2> QED BY <2>3, <2>4 DEF TypeOK
<1> QED BY <1>1, AnswerInvariant, PTL

\* StreamIsWellFormed: metadata, then the pieces of one request or the fallback,
\* and nothing behind the end or an error, wherever the generator raises, the
\* upstream rejects or the client leaves.
THEOREM OneAnswer == Spec => []StreamIsWellFormed
<1>1. AnswerInv => StreamIsWellFormed
  BY DEF AnswerInv
<1> QED BY <1>1, AnswerInvariant, PTL

\* No cut of a prompt reaches the first label.
LEMMA LabelsFit == Label <= MaxContext /\ RetryChars - Preamble \in Nat /\ Label <= RetryChars - Preamble
<1> DEFINE K == Label + ChunkSize + 3
           x == (TopK - 1) * K
           y == TopK * K
<1>1. K \in Nat /\ Label + 3 <= K /\ TopK - 1 \in Nat /\ TopK \in Nat /\ y <= MaxContext + 2
  BY SizesAre, AnswersAssumption
<1>2. y = x + K /\ x \in Nat
  <2> HIDE DEF K
  <2>1. TopK * K = (TopK - 1) * K + K /\ (TopK - 1) * K \in Nat
    BY <1>1
  <2> QED BY <2>1
<1> HIDE DEF K, x, y
<1>3. Label <= MaxContext
  BY <1>1, <1>2, SizesAre
<1>4. RetryChars - Preamble \in Nat /\ Label <= RetryChars - Preamble
  BY SizesAre, RagCompletionAssumption
<1> QED BY <1>3, <1>4

\* The lemmas about the parts of a context, for the hits.
LEMMA Contexts ==
  ASSUME DataInv, hits # <<>>
  PROVE  /\ ContextLength(hits) \in Nat /\ Label <= ContextLength(hits)
         /\ \A length : Labelled(hits, length) \subseteq Cited(hits)
         /\ \A length \in Nat : Label <= length =>
              \E k \in 1..Len(hits) :
                /\ Labelled(hits, length) = {hits[j].doc : j \in 1..k}
                /\ k < Len(hits) => Offsets(hits)[k] + Label > length
         /\ \A k \in 1..Len(hits) :
              k < Len(hits) =>
                /\ Offsets(hits)[k] \in Nat
                /\ Offsets(hits)[k] + Label <= ContextLength(hits)
                /\ \/ \E j \in 1..k : hits[j].size > ChunkSize + 1
                   \/ Offsets(hits)[k] + Label <= MaxContext
<1>1. (\A h \in AnyHit : h.size \in Nat) /\ hits \in Seq(AnyHit) /\ Len(hits) <= TopK
  BY DEF DataInv
<1> HIDE DEF AnyHit
<1>2. /\ ContextLength(hits) \in Nat /\ Label <= ContextLength(hits)
      /\ \A length : Labelled(hits, length) \subseteq Cited(hits)
      /\ \A k \in 1..Len(hits) :
           k < Len(hits) => Offsets(hits)[k] + Label <= ContextLength(hits)
  BY <1>1, LabelledIs
<1>3. ASSUME NEW length \in Nat, Label <= length
      PROVE  \E k \in 1..Len(hits) :
               /\ Labelled(hits, length) = {hits[j].doc : j \in 1..k}
               /\ k < Len(hits) => Offsets(hits)[k] + Label > length
  BY <1>1, <1>3, CutTakesTheLast
<1>4. ASSUME NEW k \in 1..Len(hits), k < Len(hits),
             ~ \E j \in 1..k : hits[j].size > ChunkSize + 1
      PROVE  Offsets(hits)[k] + Label <= MaxContext
  <2>1. \A j \in 1..k : j \in 1..Len(hits)
    BY <1>1
  <2>2. \A j \in 1..k : hits[j].size \in Nat
    BY <1>1, <2>1
  <2>3. \A j \in 1..k : hits[j].size <= ChunkSize + 1
    BY <1>4, <2>2, SizesAre
  <2> QED BY <1>1, <1>4, <2>3, NextFits
<1>5. \A k \in 1..Len(hits) : Offsets(hits)[k] \in Nat
  <2>1. Offsets(hits) \in [0..Len(hits) -> Nat]
    BY <1>1, OffsetsAre
  <2> QED BY <2>1
<1> QED BY <1>2, <1>3, <1>4, <1>5

\* What is known of any call that was made.
LEMMA EachCall ==
  ASSUME AnswerInv, NEW i \in DOMAIN calls
  PROVE  /\ DataInv /\ hits # <<>> /\ sent[1].cited = Cited(hits)
         /\ calls[1] = FirstCall
         /\ i = 1 \/ (i = 2 /\ calls[2] = Shortened)
<1> DEFINE f == FirstCall
           s == Shortened
<1>1. DataInv /\ CallsInv
  BY DEF AnswerInv
<1>2. calls = <<>> \/ calls = <<f>> \/ calls = <<f, s>>
  BY <1>1 DEF CallsInv
<1>3. (calls # <<>> => hits # <<>> /\ sent[1].cited = Cited(hits))
  BY <1>1 DEF CallsInv
<1> HIDE DEF f, s
<1>4. DOMAIN <<f>> = {1} /\ DOMAIN <<f, s>> = {1, 2} /\ DOMAIN <<>> = {}
  OBVIOUS
<1>5. /\ <<f>>[1] = f /\ <<f, s>>[1] = f /\ <<f, s>>[2] = s
      /\ <<f>> # <<>> /\ <<f, s>> # <<>>
  OBVIOUS
<1>6. calls # <<>>
  BY <1>4
<1>7. CASE calls = <<f>>
  <2>1. i = 1 /\ calls[1] = f
    BY <1>4, <1>5, <1>7
  <2> QED BY <1>1, <1>3, <1>6, <2>1 DEF f
<1>8. CASE calls = <<f, s>>
  <2>1. i \in {1, 2} /\ calls[1] = f /\ calls[2] = s
    BY <1>4, <1>5, <1>8
  <2> QED BY <1>1, <1>3, <1>6, <2>1 DEF f, s
<1> QED BY <1>2, <1>6, <1>7, <1>8

\* The first request loses only what stands behind a chunk that is too large.
LEMMA FirstShows ==
  ASSUME DataInv, hits # <<>>
  PROVE  \E k \in 1..Len(hits) :
           /\ FirstCall.labels = {hits[j].doc : j \in 1..k}
           /\ k < Len(hits) => \E j \in 1..k : hits[j].size > ChunkSize + 1
<1> DEFINE c == Smaller(ContextLength(hits), MaxContext)
<1>1. c \in Nat /\ Label <= c /\ (c = ContextLength(hits) \/ c = MaxContext)
  BY Contexts, LabelsFit, SizesAre DEF Smaller
<1>2. FirstCall.labels = Labelled(hits, c)
  BY DEF FirstCall
<1> HIDE DEF c
<1>3. PICK k \in 1..Len(hits) :
        /\ Labelled(hits, c) = {hits[j].doc : j \in 1..k}
        /\ k < Len(hits) => Offsets(hits)[k] + Label > c
  BY <1>1, Contexts
<1>4. ASSUME k < Len(hits) PROVE \E j \in 1..k : hits[j].size > ChunkSize + 1
  <2> DEFINE o == Offsets(hits)[k]
             Large == \E j \in 1..k : hits[j].size > ChunkSize + 1
  <2>1. o \in Nat /\ o + Label <= ContextLength(hits) /\ (Large \/ o + Label <= MaxContext)
    BY <1>4, Contexts
  <2>2. o + Label > c
    BY <1>3, <1>4
  <2>3. ContextLength(hits) \in Nat
    BY Contexts
  <2> HIDE DEF o, Large
  <2>4. ~ (o + Label <= MaxContext)
    BY <1>1, <2>1, <2>2, <2>3, SizesAre
  <2> QED BY <2>1, <2>4 DEF Large
<1> QED BY <1>2, <1>3, <1>4

\* A cut of the system prompt leaves the first labels, and one at least.
LEMMA CutShows ==
  ASSUME DataInv, hits # <<>>, FirstCall.prompt > RetryChars
  PROVE  \E k \in 1..Len(hits) : Shortened.labels = {hits[j].doc : j \in 1..k}
<1> DEFINE c == Smaller(ContextLength(hits), MaxContext)
           d == Smaller(c, RetryChars - Preamble)
<1>1. c \in Nat /\ Label <= c
  BY Contexts, LabelsFit, SizesAre DEF Smaller
<1>2. d \in Nat /\ Label <= d
  BY <1>1, LabelsFit DEF Smaller
<1>3. Shortened.labels = Labelled(hits, d)
  BY DEF Shortened
<1> HIDE DEF d
<1> QED BY <1>2, <1>3, Contexts

\* BestSourcesAreShown: for any chunks and any question, each request names the
\* sources of the best chunks; the first one of all of them, unless a chunk is
\* too large, and the retry of as many unless it had to cut the prompt.
THEOREM TheBestAreShown == Spec => []BestSourcesAreShown
<1>1. AnswerInv => BestSourcesAreShown
  <2> SUFFICES ASSUME AnswerInv, NEW i \in DOMAIN calls
               PROVE  \E k \in 1..Len(hits) :
                        /\ calls[i].labels = {hits[j].doc : j \in 1..k}
                        /\ k < Len(hits) =>
                             \/ \E j \in 1..k : hits[j].size > ChunkSize + 1
                             \/ i = 2 /\ calls[1].prompt > RetryChars
    BY DEF BestSourcesAreShown
  <2>1. /\ DataInv /\ hits # <<>> /\ calls[1] = FirstCall
        /\ i = 1 \/ (i = 2 /\ calls[2] = Shortened)
    BY EachCall
  <2>2. CASE i = 2 /\ FirstCall.prompt > RetryChars
    BY <2>1, <2>2, CutShows
  <2>3. CASE ~ (i = 2 /\ FirstCall.prompt > RetryChars)
    <3>1. calls[i].labels = FirstCall.labels
      <4>1. ~ (FirstCall.prompt > RetryChars) => Shortened.labels = FirstCall.labels
        BY DEF Shortened
      <4> QED BY <2>1, <2>3, <4>1
    <3> QED BY <2>1, <3>1, FirstShows
  <2> QED BY <2>2, <2>3
<1> QED BY <1>1, AnswerInvariant, PTL

\* AnswersAreGrounded: every piece the client reads was asked for with sources it
\* has been told of and without a system prompt of its own, the retry included,
\* which asks for no more tokens and drops the instructions only with a cut.
THEOREM AnswersStayGrounded == Spec => []AnswersAreGrounded
<1>1. AnswerInv => AnswersAreGrounded
  <2> SUFFICES ASSUME AnswerInv, NEW i \in DOMAIN sent, sent[i].kind = "piece"
               PROVE  LET call == calls[sent[i].call]
                      IN  /\ call.labels # {} /\ call.labels \subseteq sent[1].cited
                          /\ \A m \in call.client : request.messages[m].role # "system"
                          /\ call.tokens <= calls[1].tokens
                          /\ \/ call.instructed
                             \/ sent[i].call = 2 /\ calls[1].prompt > RetryChars
    BY DEF AnswersAreGrounded
  <2> DEFINE n == sent[i].call
  <2>1. n \in DOMAIN calls
    <3>1. sent[i] \in AnyEvent
      BY DEF AnswerInv, DataInv
    <3>2. n = Len(calls) /\ n # 0
      BY <3>1 DEF AnswerInv, StreamIsWellFormed, AnyEvent
    <3>3. Len(calls) \in 0..2
      BY CallsAre DEF AnswerInv
    <3>4. DOMAIN calls = 1..Len(calls)
      <4> DEFINE f == FirstCall
                 s == Shortened
      <4>1. calls = <<>> \/ calls = <<f>> \/ calls = <<f, s>>
        BY DEF AnswerInv, CallsInv
      <4> HIDE DEF f, s
      <4> QED BY <4>1
    <3> HIDE DEF n
    <3> QED BY <3>2, <3>3, <3>4
  <2> HIDE DEF n
  <2>2. /\ DataInv /\ hits # <<>> /\ sent[1].cited = Cited(hits) /\ calls[1] = FirstCall
        /\ n = 1 \/ (n = 2 /\ calls[2] = Shortened)
    BY <2>1, EachCall
  <2>3. FirstCall.labels \subseteq Cited(hits) /\ Shortened.labels \subseteq Cited(hits)
    <3>1. \A length : Labelled(hits, length) \subseteq Cited(hits)
      BY <2>2, Contexts
    <3> QED BY <3>1 DEF FirstCall, Shortened
  <2>4. FirstCall.labels # {} /\ Shortened.labels # {}
    <3>1. \A k \in 1..Len(hits) : {hits[j].doc : j \in 1..k} # {}
      <4> SUFFICES ASSUME NEW k \in 1..Len(hits) PROVE {hits[j].doc : j \in 1..k} # {}
        OBVIOUS
      <4>1. 1 \in 1..k
        OBVIOUS
      <4> QED BY <4>1
    <3>2. FirstCall.labels # {}
      BY <2>2, <3>1, FirstShows
    <3>3. CASE FirstCall.prompt > RetryChars
      BY <2>2, <3>1, <3>2, <3>3, CutShows
    <3>4. CASE ~ (FirstCall.prompt > RetryChars)
      <4>1. Shortened.labels = FirstCall.labels
        BY <3>4 DEF Shortened
      <4> QED BY <3>2, <4>1
    <3> QED BY <3>2, <3>3, <3>4
  <2>5. /\ \A m \in FirstCall.client : request.messages[m].role # "system"
        /\ Shortened.client = FirstCall.client
    BY DEF FirstCall, Shortened, Forwarded
  <2>6. Shortened.tokens <= FirstCall.tokens /\ FirstCall.tokens <= FirstCall.tokens
    <3>1. request.tokens \in Int
      BY <2>2 DEF DataInv
    <3>2. /\ FirstCall.tokens = Smaller(request.tokens, HardMax)
          /\ Shortened.tokens = Smaller(Smaller(request.tokens, RetryTokens), HardMax)
      BY DEF FirstCall, Shortened
    <3> QED BY <3>1, <3>2, SizesAre DEF Smaller
  <2>7. FirstCall.instructed /\ (Shortened.instructed \/ FirstCall.prompt > RetryChars)
    BY DEF FirstCall, Shortened
  <2>8. CASE n = 1
    BY <2>2, <2>3, <2>4, <2>5, <2>6, <2>7, <2>8 DEF n
  <2>9. CASE n = 2
    BY <2>2, <2>3, <2>4, <2>5, <2>6, <2>7, <2>9 DEF n
  <2> QED BY <2>2, <2>8, <2>9
<1> QED BY <1>1, AnswerInvariant, PTL

=============================================================================
