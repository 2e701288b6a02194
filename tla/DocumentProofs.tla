---------------------------- MODULE DocumentProofs ----------------------------
(***************************************************************************)
(* Theorems about DocumentPipeline, for files of any length.               *)
(***************************************************************************)
EXTENDS DocumentProps, SequenceTheorems, FiniteSetTheorems, TLAPS

-----------------------------------------------------------------------------
(* The folds of the model, each with its step.                             *)

TakeText(kept, e)      == IF IsText(e) THEN Append(kept, e) ELSE kept
TakeObject(kept, e)    == IF IsObject(e) THEN Append(kept, e) ELSE kept
TakeKept(kept, e)      == IF Kept(e) THEN Append(kept, e) ELSE kept
TakeExtracted(kept, e) == IF Extracted(e) THEN Append(kept, e) ELSE kept
TakeWithRows(kept, e)  == IF HasRows(e) THEN Append(kept, e) ELSE kept
TakeFilled(kept, e)    == IF IsFilled(e) THEN Append(kept, e) ELSE kept
TakeQuoted(kept, e)    == IF IsQuoted(e) THEN Append(kept, e) ELSE kept
TakeFilledRow(kept, e) == IF IsFilledRow(e) THEN Append(kept, e) ELSE kept
TakePositive(kept, e)  == IF e > 0 THEN Append(kept, e) ELSE kept
TakeHasText(kept, e)   == IF HasText(e) THEN Append(kept, e) ELSE kept
TakeGoodText(kept, e)  == IF IsText(e) /\ ~e.noise THEN Append(kept, e) ELSE kept

NotReleveled == [done |-> <<>>, previous |-> 0]
NotNumbered  == [done |-> <<>>, idx |-> 0]
NoLines      == [done |-> <<>>, open |-> FALSE]

T  == INSTANCE Folding WITH Step <- TakeText
O  == INSTANCE Folding WITH Step <- TakeObject
K  == INSTANCE Folding WITH Step <- TakeKept
X  == INSTANCE Folding WITH Step <- TakeExtracted
W  == INSTANCE Folding WITH Step <- TakeWithRows
F  == INSTANCE Folding WITH Step <- TakeFilled
Q  == INSTANCE Folding WITH Step <- TakeQuoted
R  == INSTANCE Folding WITH Step <- TakeFilledRow
P  == INSTANCE Folding WITH Step <- TakePositive
C  == INSTANCE Folding WITH Step <- TakeHasText
G  == INSTANCE Folding WITH Step <- TakeGoodText
B  == INSTANCE Folding WITH Step <- OrContinued
M  == INSTANCE Folding WITH Step <- OrMerged
H  == INSTANCE Folding WITH Step <- Relevelled
N  == INSTANCE Folding WITH Step <- Renumbered
A  == INSTANCE Folding WITH Step <- AddLine
Again == INSTANCE Folding WITH Step <- OrRepeated
Empty == INSTANCE Folding WITH Step <- OrEmpty
J  == INSTANCE Folding WITH Step <- \o
S  == INSTANCE Folding WITH Step <- +

\* What ContentFilter and StructureFixer select.
LEMMA TheSelections ==
  ASSUME NEW s
  PROVE  /\ Texts(s) = T!Fold(<<>>, s) /\ Objects(s) = O!Fold(<<>>, s)
         /\ ContentFilter(s) = K!Fold(<<>>, s)
<1>1. Texts(s) = T!Fold(<<>>, s)
  BY DEF Texts, Selected, T!Fold, TakeText, FoldLeft, MapThenFoldSet, T!MapThenFoldSet,
        Max, T!GreatestOf
<1>2. Objects(s) = O!Fold(<<>>, s)
  BY DEF Objects, Selected, O!Fold, TakeObject, FoldLeft, MapThenFoldSet, O!MapThenFoldSet,
        Max, O!GreatestOf
<1>3. ContentFilter(s) = K!Fold(<<>>, s)
  BY DEF ContentFilter, Selected, K!Fold, TakeKept, FoldLeft, MapThenFoldSet,
        K!MapThenFoldSet, Max, K!GreatestOf
<1> QED
  BY <1>1, <1>2, <1>3

\* StructureFixer's passes.
LEMMA TheRepairs ==
  ASSUME NEW s
  PROVE  /\ FixBrokenSentences(s) = B!Fold(<<>>, s) /\ FixSplitParagraphs(s) = M!Fold(<<>>, s)
         /\ FixHeadingHierarchy(s) = H!Fold(NotReleveled, s).done
         /\ NormalizeLists(s) = N!Fold(NotNumbered, s).done
<1>1. FixBrokenSentences(s) = B!Fold(<<>>, s)
  BY DEF FixBrokenSentences, B!Fold, FoldLeft, MapThenFoldSet, B!MapThenFoldSet,
        Max, B!GreatestOf
<1>2. FixSplitParagraphs(s) = M!Fold(<<>>, s)
  BY DEF FixSplitParagraphs, M!Fold, FoldLeft, MapThenFoldSet, M!MapThenFoldSet,
        Max, M!GreatestOf
<1>3. FixHeadingHierarchy(s) = H!Fold(NotReleveled, s).done
  BY DEF FixHeadingHierarchy, NotReleveled, H!Fold, FoldLeft, MapThenFoldSet,
        H!MapThenFoldSet, Max, H!GreatestOf
<1>4. NormalizeLists(s) = N!Fold(NotNumbered, s).done
  BY DEF NormalizeLists, NotNumbered, N!Fold, FoldLeft, MapThenFoldSet, N!MapThenFoldSet,
        Max, N!GreatestOf
<1> QED
  BY <1>1, <1>2, <1>3, <1>4

\* What preprocessors, generator and validator select.
LEMMA TheFilters ==
  ASSUME NEW s
  PROVE  /\ Selected(s, Extracted) = X!Fold(<<>>, s) /\ Selected(s, HasRows) = W!Fold(<<>>, s)
         /\ Selected(s, IsFilled) = F!Fold(<<>>, s) /\ Selected(s, IsQuoted) = Q!Fold(<<>>, s)
         /\ Selected(s, IsFilledRow) = R!Fold(<<>>, s)
         /\ Selected(s, LAMBDA n : n > 0) = P!Fold(<<>>, s)
         /\ Selected(s, HasText) = C!Fold(<<>>, s)
         /\ Selected(s, LAMBDA e : IsText(e) /\ ~e.noise) = G!Fold(<<>>, s)
<1>1. Selected(s, Extracted) = X!Fold(<<>>, s)
  BY DEF Selected, X!Fold, TakeExtracted, FoldLeft, MapThenFoldSet, X!MapThenFoldSet,
        Max, X!GreatestOf
<1>2. Selected(s, HasRows) = W!Fold(<<>>, s)
  BY DEF Selected, W!Fold, TakeWithRows, FoldLeft, MapThenFoldSet, W!MapThenFoldSet,
        Max, W!GreatestOf
<1>3. Selected(s, IsFilled) = F!Fold(<<>>, s)
  BY DEF Selected, F!Fold, TakeFilled, FoldLeft, MapThenFoldSet, F!MapThenFoldSet,
        Max, F!GreatestOf
<1>4. Selected(s, IsQuoted) = Q!Fold(<<>>, s)
  BY DEF Selected, Q!Fold, TakeQuoted, FoldLeft, MapThenFoldSet, Q!MapThenFoldSet,
        Max, Q!GreatestOf
<1>5. Selected(s, IsFilledRow) = R!Fold(<<>>, s)
  BY DEF Selected, R!Fold, TakeFilledRow, FoldLeft, MapThenFoldSet, R!MapThenFoldSet,
        Max, R!GreatestOf
<1>6. Selected(s, LAMBDA n : n > 0) = P!Fold(<<>>, s)
  BY DEF Selected, P!Fold, TakePositive, FoldLeft, MapThenFoldSet, P!MapThenFoldSet,
        Max, P!GreatestOf
<1>7. Selected(s, HasText) = C!Fold(<<>>, s)
  BY DEF Selected, C!Fold, TakeHasText, FoldLeft, MapThenFoldSet, C!MapThenFoldSet,
        Max, C!GreatestOf
<1>8. Selected(s, LAMBDA e : IsText(e) /\ ~e.noise) = G!Fold(<<>>, s)
  BY DEF Selected, G!Fold, TakeGoodText, FoldLeft, MapThenFoldSet, G!MapThenFoldSet,
        Max, G!GreatestOf
<1> QED
  BY <1>1, <1>2, <1>3, <1>4, <1>5, <1>6, <1>7, <1>8

\* Joined sequences, sums, and blocks of lines.
LEMMA TheOthers ==
  ASSUME NEW s
  PROVE  /\ Flat(s) = J!Fold(<<>>, s) /\ Total(s) = S!Fold(0, s)
         /\ Blocks(s) = A!Fold(NoLines, s).done
<1>1. Flat(s) = J!Fold(<<>>, s)
  BY DEF Flat, J!Fold, FoldLeft, MapThenFoldSet, J!MapThenFoldSet, Max, J!GreatestOf
<1>2. Total(s) = S!Fold(0, s)
  BY DEF Total, S!Fold, FoldLeft, MapThenFoldSet, S!MapThenFoldSet, Max, S!GreatestOf
<1>3. Blocks(s) = A!Fold(NoLines, s).done
  BY DEF Blocks, NoLines, A!Fold, FoldLeft, MapThenFoldSet, A!MapThenFoldSet,
        Max, A!GreatestOf
<1> QED
  BY <1>1, <1>2, <1>3

\* Lines without those that repeat the one before.
LEMMA TheRewriting ==
  ASSUME NEW text, NEW repeated
  PROVE  WithoutRepeats(text, repeated)
           = IF repeated THEN Again!Fold(<<>>, text) ELSE Empty!Fold(<<>>, text)
<1>1. FoldLeft(OrRepeated, <<>>, text) = Again!Fold(<<>>, text)
  BY DEF Again!Fold, FoldLeft, MapThenFoldSet, Again!MapThenFoldSet, Max, Again!GreatestOf
<1>2. FoldLeft(OrEmpty, <<>>, text) = Empty!Fold(<<>>, text)
  BY DEF Empty!Fold, FoldLeft, MapThenFoldSet, Empty!MapThenFoldSet, Max, Empty!GreatestOf
<1> QED
  BY <1>1, <1>2 DEF WithoutRepeats

-----------------------------------------------------------------------------
(* What the cleaners do to the elements of a page: each that is left is    *)
(* one that was there, with the same identifier, role and table.           *)

\* Induction over sequences.
LEMMA AllSequences ==
  ASSUME NEW E, NEW Z \in SUBSET Seq(E), <<>> \in Z,
         \A s \in Z : \A e \in E : Append(s, e) \in Z
  PROVE  Z = Seq(E)
BY K!Sequences

Kin(a, b) == a.id = b.id /\ a.role = b.role /\ a.table = b.table /\ a.noise = b.noise

Distinct(s) == \A i, j \in DOMAIN s : s[i].id = s[j].id => i = j

From(t, s) == \A k \in DOMAIN t : \E i \in DOMAIN s : Kin(t[k], s[i])

Stays(t, s) == From(t, s) /\ (Distinct(s) => Distinct(t))

\* What has come of s when one more element passes and is not taken up, is taken up, or
\* goes into the last one.
LEMMA StaysWithout ==
  ASSUME NEW E, NEW s \in Seq(E), NEW t \in Seq(E), NEW e \in E, Stays(t, s)
  PROVE  Stays(t, Append(s, e))
<1>1. /\ DOMAIN s \subseteq DOMAIN Append(s, e)
      /\ \A i \in DOMAIN s : Append(s, e)[i] = s[i]
  OBVIOUS
<1> DEFINE a == Append(s, e)
<1> HIDE DEF a
<1>2. Distinct(a) => Distinct(s)
  BY <1>1 DEF Distinct, a
<1>3. From(t, a)
  BY <1>1 DEF From, Stays, a
<1> QED
  BY <1>2, <1>3 DEF Stays, a

\* An element put behind the others stays what it was.
LEMMA StaysWith ==
  ASSUME NEW E, NEW s \in Seq(E), NEW t \in Seq(E), NEW e \in E, Stays(t, s),
         NEW x \in E, Kin(x, e)
  PROVE  Stays(Append(t, x), Append(s, e))
<1> DEFINE a == Append(s, e)
           b == Append(t, x)
           m == Len(s) + 1
           n == Len(t) + 1
<1>1. /\ DOMAIN s \subseteq DOMAIN a /\ m \in DOMAIN a /\ m \notin DOMAIN s /\ a[m] = e
      /\ \A i \in DOMAIN s : a[i] = s[i]
  OBVIOUS
<1>2. /\ DOMAIN b = DOMAIN t \cup {n} /\ b[n] = x
      /\ \A i \in DOMAIN t : b[i] = t[i]
  OBVIOUS
<1> HIDE DEF a, b, m, n
<1>3. From(b, a)
  BY <1>1, <1>2 DEF From, Stays
<1>4. ASSUME Distinct(a)
      PROVE  Distinct(b)
  <2>1. Distinct(t)
    BY <1>1, <1>4 DEF Distinct, Stays
  <2>2. ASSUME NEW k \in DOMAIN t
        PROVE  t[k].id # x.id
    <3>1. PICK i \in DOMAIN s : Kin(t[k], s[i])
      BY DEF From, Stays
    <3>2. a[i].id # a[m].id
      BY <1>1, <1>4 DEF Distinct
    <3> QED
      BY <1>1, <3>1, <3>2 DEF Kin
  <2> QED
    BY <1>2, <2>1, <2>2 DEF Distinct
<1> QED
  BY <1>3, <1>4 DEF Stays, a, b

\* So does one that is merged into the last, which keeps its identifier.
LEMMA StaysInto ==
  ASSUME NEW E, NEW s \in Seq(E), NEW t \in Seq(E), t # <<>>, Stays(t, s),
         NEW x \in E, Kin(x, Last(t))
  PROVE  /\ Append(Front(t), x) \in Seq(E)
         /\ Stays(Append(Front(t), x), s)
<1> DEFINE b == Append(Front(t), x)
           n == Len(t)
<1>1. n \in Nat /\ n > 0 /\ \A i \in 1 .. n : t[i] \in E
  <2>1. n \in Nat \ {0}
    BY EmptySeq
  <2> QED
    BY <2>1, ElementOfSeq
<1>2. /\ Front(t) \in Seq(E) /\ Len(Front(t)) = n - 1
      /\ \A i \in 1 .. n - 1 : Front(t)[i] = t[i]
  <2>1. 1 \in Int /\ n - 1 \in Int /\ \A i \in 1 .. n - 1 : t[i] \in E
    BY <1>1
  <2>2. /\ SubSeq(t, 1, n - 1) \in Seq(E)
        /\ Len(SubSeq(t, 1, n - 1)) = IF 1 <= n - 1 THEN n - 1 - 1 + 1 ELSE 0
        /\ \A i \in 1 .. n - 1 - 1 + 1 : SubSeq(t, 1, n - 1)[i] = t[1 + i - 1]
    BY <2>1, SubSeqProperties
  <2>3. n - 1 - 1 + 1 = n - 1 /\ \A i \in 1 .. n - 1 : 1 + i - 1 = i
    BY <1>1
  <2>4. Len(SubSeq(t, 1, n - 1)) = n - 1
    <3>1. \A k \in Nat : k > 0 => (IF 1 <= k - 1 THEN k - 1 - 1 + 1 ELSE 0) = k - 1
      OBVIOUS
    <3> QED
      BY <1>1, <2>2, <3>1
  <2> QED
    BY <2>2, <2>3, <2>4 DEF Front
<1>3. b \in Seq(E) /\ Len(b) = n /\ b[n] = x /\ \A i \in 1 .. n - 1 : b[i] = t[i]
  BY <1>1, <1>2
<1>4. DOMAIN b = 1 .. n /\ DOMAIN t = 1 .. n
  BY <1>3
<1>5. Last(t) = t[n]
  BY DEF Last
<1> HIDE DEF b, n
<1>6. \A i \in 1 .. n : Kin(b[i], t[i])
  <2>1. \A i \in 1 .. n : i = n \/ i \in 1 .. n - 1
    BY <1>1
  <2> QED
    BY <1>3, <1>5, <2>1 DEF Kin
<1>7. From(b, s)
  BY <1>4, <1>6 DEF From, Stays, Kin
<1>8. Distinct(t) => Distinct(b)
  BY <1>4, <1>6 DEF Distinct, Kin
<1> QED
  BY <1>3, <1>7, <1>8 DEF Stays, b, n

\* One pass after the other.
LEMMA StaysTwice ==
  ASSUME NEW s, NEW t, NEW u, Stays(t, s), Stays(u, t)
  PROVE  Stays(u, s)
BY DEF Stays, From, Kin

\* Texts, other elements, and what ContentFilter keeps.
LEMMA Filtered ==
  ASSUME NEW E, NEW s \in Seq(E)
  PROVE  /\ Texts(s) \in Seq({e \in E : IsText(e)}) /\ Stays(Texts(s), s)
         /\ Objects(s) \in Seq({e \in E : IsObject(e)}) /\ Stays(Objects(s), s)
         /\ ContentFilter(s) \in Seq({e \in E : Kept(e)}) /\ Stays(ContentFilter(s), s)
<1> DEFINE TE == {e \in E : IsText(e)}
           OE == {e \in E : IsObject(e)}
           KE == {e \in E : Kept(e)}
           Good == {r \in Seq(E) : /\ Texts(r) \in Seq(TE) /\ Stays(Texts(r), r)
                                   /\ Objects(r) \in Seq(OE) /\ Stays(Objects(r), r)
                                   /\ ContentFilter(r) \in Seq(KE) /\ Stays(ContentFilter(r), r)}
<1>1. <<>> \in Good
  <2>1. Texts(<<>>) = <<>> /\ Objects(<<>>) = <<>> /\ ContentFilter(<<>>) = <<>>
    BY TheSelections, T!OfNothing, O!OfNothing, K!OfNothing
  <2>2. Stays(<<>>, <<>>)
    BY DEF Stays, From
  <2>3. <<>> \in Seq(E) /\ <<>> \in Seq(TE) /\ <<>> \in Seq(OE) /\ <<>> \in Seq(KE)
    OBVIOUS
  <2> HIDE DEF TE, OE, KE
  <2> QED
    BY <2>1, <2>2, <2>3
<1>2. ASSUME NEW r \in Good, NEW e \in E
      PROVE  Append(r, e) \in Good
  <2>1. /\ Texts(Append(r, e)) = TakeText(Texts(r), e)
        /\ Objects(Append(r, e)) = TakeObject(Objects(r), e)
        /\ ContentFilter(Append(r, e)) = TakeKept(ContentFilter(r), e)
    <3>1. /\ T!Fold(<<>>, Append(r, e)) = TakeText(T!Fold(<<>>, r), e)
          /\ O!Fold(<<>>, Append(r, e)) = TakeObject(O!Fold(<<>>, r), e)
          /\ K!Fold(<<>>, Append(r, e)) = TakeKept(K!Fold(<<>>, r), e)
      BY T!OfOneMore, O!OfOneMore, K!OfOneMore
    <3> QED
      BY <3>1, TheSelections
  <2>2. /\ r \in Seq(E) /\ Append(r, e) \in Seq(E)
        /\ Texts(r) \in Seq(TE) /\ Stays(Texts(r), r) /\ Texts(r) \in Seq(E)
        /\ Objects(r) \in Seq(OE) /\ Stays(Objects(r), r) /\ Objects(r) \in Seq(E)
        /\ ContentFilter(r) \in Seq(KE) /\ Stays(ContentFilter(r), r)
        /\ ContentFilter(r) \in Seq(E)
    OBVIOUS
  <2>3. Kin(e, e)
    BY DEF Kin
  <2>4. /\ IsText(e) => e \in TE
        /\ IsObject(e) => e \in OE
        /\ Kept(e) => e \in KE
    OBVIOUS
  <2> HIDE DEF TE, OE, KE
  <2>5. TakeText(Texts(r), e) \in Seq(TE) /\ Stays(TakeText(Texts(r), e), Append(r, e))
    <3>1. Stays(Texts(r), Append(r, e)) /\ Stays(Append(Texts(r), e), Append(r, e))
      BY <2>2, <2>3, StaysWith, StaysWithout
    <3> QED
      BY <2>2, <2>4, <3>1 DEF TakeText
  <2>6. TakeObject(Objects(r), e) \in Seq(OE) /\ Stays(TakeObject(Objects(r), e), Append(r, e))
    <3>1. Stays(Objects(r), Append(r, e)) /\ Stays(Append(Objects(r), e), Append(r, e))
      BY <2>2, <2>3, StaysWith, StaysWithout
    <3> QED
      BY <2>2, <2>4, <3>1 DEF TakeObject
  <2>7. /\ TakeKept(ContentFilter(r), e) \in Seq(KE)
        /\ Stays(TakeKept(ContentFilter(r), e), Append(r, e))
    <3>1. /\ Stays(ContentFilter(r), Append(r, e))
          /\ Stays(Append(ContentFilter(r), e), Append(r, e))
      BY <2>2, <2>3, StaysWith, StaysWithout
    <3> QED
      BY <2>2, <2>4, <3>1 DEF TakeKept
  <2> QED
    BY <2>1, <2>2, <2>5, <2>6, <2>7
<1>3. Good = Seq(E)
  <2>1. Good \in SUBSET Seq(E)
    OBVIOUS
  <2> HIDE DEF Good
  <2> QED
    BY <1>1, <1>2, <2>1, AllSequences
<1> QED
  BY <1>3

\* A joined element has the identifier, role and table of the first.
LEMMA JoinedIs ==
  ASSUME NEW Tabs, NEW a \in Element(Tabs), NEW b \in Element(Tabs)
  PROVE  Joined(a, b) \in Element(Tabs) /\ Kin(Joined(a, b), a)
<1>1. a.size + 1 + b.size \in Nat /\ a.parts \o b.parts \in Seq(Part)
  BY DEF Element
<1> QED
  BY <1>1 DEF Joined, Element, Kin

\* The two merges.
LEMMA Merged ==
  ASSUME NEW Tabs, NEW s \in Seq(Element(Tabs))
  PROVE  /\ FixBrokenSentences(s) \in Seq(Element(Tabs)) /\ Stays(FixBrokenSentences(s), s)
         /\ FixSplitParagraphs(s) \in Seq(Element(Tabs)) /\ Stays(FixSplitParagraphs(s), s)
<1> DEFINE E == Element(Tabs)
           Good == {r \in Seq(E) : /\ FixBrokenSentences(r) \in Seq(E)
                                   /\ Stays(FixBrokenSentences(r), r)
                                   /\ FixSplitParagraphs(r) \in Seq(E)
                                   /\ Stays(FixSplitParagraphs(r), r)}
<1>1. <<>> \in Good
  <2>1. FixBrokenSentences(<<>>) = <<>> /\ FixSplitParagraphs(<<>>) = <<>>
    BY TheRepairs, B!OfNothing, M!OfNothing
  <2>2. Stays(<<>>, <<>>) /\ <<>> \in Seq(E)
    BY DEF Stays, From
  <2> QED
    BY <2>1, <2>2
<1>2. ASSUME NEW m \in Seq(E), NEW r \in Seq(E), Stays(m, r), NEW e \in E
      PROVE  /\ Append(m, e) \in Seq(E) /\ Stays(Append(m, e), Append(r, e))
             /\ m # <<>> => TakenIn(m, e) \in Seq(E) /\ Stays(TakenIn(m, e), Append(r, e))
  <2>1. Append(m, e) \in Seq(E) /\ Stays(Append(m, e), Append(r, e))
    BY <1>2, StaysWith DEF Kin
  <2>2. ASSUME m # <<>>
        PROVE  TakenIn(m, e) \in Seq(E) /\ Stays(TakenIn(m, e), Append(r, e))
    <3>1. Last(m) \in E
      <4>1. Len(m) \in Nat \ {0}
        BY <2>2, EmptySeq
      <4>2. Len(m) \in 1 .. Len(m)
        BY <4>1
      <4> QED
        BY <4>2, ElementOfSeq DEF Last
    <3>2. Joined(Last(m), e) \in E /\ Kin(Joined(Last(m), e), Last(m))
      BY <3>1, JoinedIs
    <3>3. Stays(m, Append(r, e)) /\ Append(r, e) \in Seq(E)
      BY <1>2, StaysWithout
    <3> HIDE DEF E
    <3> QED
      BY <2>2, <3>2, <3>3, StaysInto DEF TakenIn
  <2> QED
    BY <2>1, <2>2
<1>3. ASSUME NEW r \in Good, NEW e \in E
      PROVE  Append(r, e) \in Good
  <2>1. /\ FixBrokenSentences(Append(r, e)) = OrContinued(FixBrokenSentences(r), e)
        /\ FixSplitParagraphs(Append(r, e)) = OrMerged(FixSplitParagraphs(r), e)
    <3>1. /\ B!Fold(<<>>, Append(r, e)) = OrContinued(B!Fold(<<>>, r), e)
          /\ M!Fold(<<>>, Append(r, e)) = OrMerged(M!Fold(<<>>, r), e)
      BY B!OfOneMore, M!OfOneMore
    <3> QED
      BY <3>1, TheRepairs
  <2>2. /\ r \in Seq(E) /\ Append(r, e) \in Seq(E)
        /\ FixBrokenSentences(r) \in Seq(E) /\ Stays(FixBrokenSentences(r), r)
        /\ FixSplitParagraphs(r) \in Seq(E) /\ Stays(FixSplitParagraphs(r), r)
    OBVIOUS
  <2> HIDE DEF E
  <2>3. /\ OrContinued(FixBrokenSentences(r), e) \in Seq(E)
        /\ Stays(OrContinued(FixBrokenSentences(r), e), Append(r, e))
    BY <1>2, <2>2 DEF OrContinued
  <2>4. /\ OrMerged(FixSplitParagraphs(r), e) \in Seq(E)
        /\ Stays(OrMerged(FixSplitParagraphs(r), e), Append(r, e))
    BY <1>2, <2>2 DEF OrMerged
  <2> QED
    BY <2>1, <2>2, <2>3, <2>4
<1>4. Good = Seq(E)
  <2>1. Good \in SUBSET Seq(E)
    OBVIOUS
  <2> HIDE DEF Good, E
  <2> QED
    BY <1>1, <1>3, <2>1, AllSequences
<1> QED
  BY <1>4

\* The levels of headings and the numbers of lists.
LEMMA Repaired ==
  ASSUME NEW Tabs, NEW s \in Seq(Element(Tabs))
  PROVE  /\ FixHeadingHierarchy(s) \in Seq(Element(Tabs)) /\ Stays(FixHeadingHierarchy(s), s)
         /\ NormalizeLists(s) \in Seq(Element(Tabs)) /\ Stays(NormalizeLists(s), s)
<1> DEFINE E == Element(Tabs)
           HA == [done : Seq(E), previous : Nat]
           NA == [done : Seq(E), idx : Nat]
           Good == {r \in Seq(E) : /\ H!Fold(NotReleveled, r) \in HA
                                   /\ Stays(H!Fold(NotReleveled, r).done, r)
                                   /\ N!Fold(NotNumbered, r) \in NA
                                   /\ Stays(N!Fold(NotNumbered, r).done, r)}
<1>1. <<>> \in Good
  <2>1. /\ H!Fold(NotReleveled, <<>>) = NotReleveled
        /\ N!Fold(NotNumbered, <<>>) = NotNumbered
    BY H!OfNothing, N!OfNothing
  <2>2. Stays(<<>>, <<>>) /\ <<>> \in Seq(E)
    BY DEF Stays, From
  <2>3. NotReleveled \in HA /\ NotReleveled.done = <<>>
    BY <2>2 DEF NotReleveled
  <2>4. NotNumbered \in NA /\ NotNumbered.done = <<>>
    BY <2>2 DEF NotNumbered
  <2> HIDE DEF HA, NA, E
  <2> QED
    BY <2>1, <2>2, <2>3, <2>4
<1>2. ASSUME NEW e \in E, NEW n \in Nat
      PROVE  /\ [e EXCEPT !.level = NewLevel(@, n)] \in E
             /\ Kin([e EXCEPT !.level = NewLevel(@, n)], e)
             /\ [e EXCEPT !.number = n + 1] \in E /\ Kin([e EXCEPT !.number = n + 1], e)
             /\ e.level \in Nat /\ Kin(e, e)
  <2>1. NewLevel(e.level, n) \in Nat
    BY DEF NewLevel, Element
  <2>2. [e EXCEPT !.level = NewLevel(@, n)] \in E /\ Kin([e EXCEPT !.level = NewLevel(@, n)], e)
    BY <2>1 DEF Element, Kin
  <2>3. [e EXCEPT !.number = n + 1] \in E /\ Kin([e EXCEPT !.number = n + 1], e)
    <3>1. n + 1 \in Nat
      OBVIOUS
    <3> QED
      BY <3>1 DEF Element, Kin
  <2>4. e.level \in Nat
    BY DEF Element
  <2>5. Kin(e, e)
    BY DEF Kin
  <2> HIDE DEF E
  <2> QED
    BY <2>2, <2>3, <2>4, <2>5
<1>3. ASSUME NEW r \in Good, NEW e \in E
      PROVE  Append(r, e) \in Good
  <2> DEFINE h == H!Fold(NotReleveled, r)
             n == N!Fold(NotNumbered, r)
             a == Append(r, e)
  <2>1. /\ H!Fold(NotReleveled, a) = Relevelled(h, e)
        /\ N!Fold(NotNumbered, a) = Renumbered(n, e)
    BY H!OfOneMore, N!OfOneMore
  <2>2. /\ r \in Seq(E) /\ a \in Seq(E)
        /\ h \in HA /\ h.done \in Seq(E) /\ h.previous \in Nat /\ Stays(h.done, r)
        /\ n \in NA /\ n.done \in Seq(E) /\ n.idx \in Nat /\ Stays(n.done, r)
    OBVIOUS
  <2>3. \A x \in E : Kin(x, e) =>
          /\ Append(h.done, x) \in Seq(E) /\ Stays(Append(h.done, x), a)
          /\ Append(n.done, x) \in Seq(E) /\ Stays(Append(n.done, x), a)
    <3> HIDE DEF E, HA, NA, h, n
    <3> QED
      BY <2>2, StaysWith
  <2> HIDE DEF h, n, a, E
  <2>4. Relevelled(h, e) \in HA /\ Stays(Relevelled(h, e).done, a)
    <3> DEFINE x == [e EXCEPT !.level = NewLevel(@, h.previous)]
    <3>1. /\ x \in E /\ Kin(x, e) /\ e \in E /\ Kin(e, e) /\ e.level \in Nat
      BY <1>2, <2>2
    <3>2. /\ Append(h.done, x) \in Seq(E) /\ Stays(Append(h.done, x), a)
          /\ Append(h.done, e) \in Seq(E) /\ Stays(Append(h.done, e), a)
      BY <2>3, <3>1
    <3>3. CASE e.role = "heading" /\ e.level # 0
      <4>1. Relevelled(h, e) = [done |-> Append(h.done, x), previous |-> e.level]
        BY <3>3 DEF Relevelled
      <4> HIDE DEF x
      <4> QED
        BY <3>1, <3>2, <4>1
    <3>4. CASE ~(e.role = "heading" /\ e.level # 0)
      <4>1. Relevelled(h, e) = [h EXCEPT !.done = Append(@, e)]
        BY <3>4 DEF Relevelled
      <4>2. /\ [h EXCEPT !.done = Append(@, e)] \in HA
            /\ [h EXCEPT !.done = Append(@, e)].done = Append(h.done, e)
        <5>1. h \in HA /\ Append(h.done, e) \in Seq(E)
          BY <2>2, <3>2
        <5> HIDE DEF x
        <5> QED
          BY <5>1
      <4> HIDE DEF x
      <4> QED
        BY <2>2, <3>2, <4>1, <4>2
    <3> QED
      BY <3>3, <3>4
  <2>5. Renumbered(n, e) \in NA /\ Stays(Renumbered(n, e).done, a)
    <3> DEFINE x == [e EXCEPT !.number = n.idx + 1]
    <3>1. /\ x \in E /\ Kin(x, e) /\ e \in E /\ Kin(e, e)
      BY <1>2, <2>2
    <3>2. /\ Append(n.done, x) \in Seq(E) /\ Stays(Append(n.done, x), a)
          /\ Append(n.done, e) \in Seq(E) /\ Stays(Append(n.done, e), a)
      BY <2>3, <3>1
    <3>3. CASE e.role # "list_item"
      <4>1. Renumbered(n, e) = [done |-> Append(n.done, e), idx |-> 0]
        BY <3>3 DEF Renumbered, NoNumber
      <4> HIDE DEF x
      <4> QED
        BY <3>2, <4>1
    <3>4. CASE e.role = "list_item" /\ e.marker = "numbered"
      <4>1. Renumbered(n, e) = [done |-> Append(n.done, x), idx |-> n.idx + 1]
        BY <3>4 DEF Renumbered
      <4> HIDE DEF x
      <4> QED
        BY <2>2, <3>2, <4>1
    <3>5. CASE e.role = "list_item" /\ e.marker # "numbered"
      <4>1. Renumbered(n, e) = [n EXCEPT !.done = Append(@, e)]
        BY <3>5 DEF Renumbered
      <4>2. /\ [n EXCEPT !.done = Append(@, e)] \in NA
            /\ [n EXCEPT !.done = Append(@, e)].done = Append(n.done, e)
        <5>1. n \in NA /\ Append(n.done, e) \in Seq(E)
          BY <2>2, <3>2
        <5> HIDE DEF x
        <5> QED
          BY <5>1
      <4> HIDE DEF x
      <4> QED
        BY <2>2, <3>2, <4>1, <4>2
    <3> QED
      BY <3>3, <3>4, <3>5
  <2> HIDE DEF HA, NA
  <2> QED
    BY <2>1, <2>2, <2>4, <2>5 DEF a
<1>4. Good = Seq(E)
  <2>1. Good \in SUBSET Seq(E)
    OBVIOUS
  <2> HIDE DEF Good, E
  <2> QED
    BY <1>1, <1>3, <2>1, AllSequences
<1>5. /\ H!Fold(NotReleveled, s) \in HA /\ Stays(H!Fold(NotReleveled, s).done, s)
      /\ N!Fold(NotNumbered, s) \in NA /\ Stays(N!Fold(NotNumbered, s).done, s)
  BY <1>4
<1> HIDE DEF E
<1> QED
  BY <1>5, TheRepairs DEF E

\* Texts and other elements together.
LEMMA StaysTogether ==
  ASSUME NEW E, NEW s \in Seq(E), NEW t \in Seq(E), NEW u \in Seq(E),
         Stays(t, s), Stays(u, s),
         \A i \in DOMAIN t : IsText(t[i]), \A i \in DOMAIN u : IsObject(u[i])
  PROVE  t \o u \in Seq(E) /\ Stays(t \o u, s)
<1> DEFINE b == t \o u
           m == Len(t)
<1>1. /\ b \in Seq(E) /\ m \in Nat /\ DOMAIN t = 1 .. m
      /\ \A k \in DOMAIN b : \/ k \in DOMAIN t /\ b[k] = t[k]
                             \/ k - m \in DOMAIN u /\ b[k] = u[k - m] /\ k \in Nat
  OBVIOUS
<1> HIDE DEF b, m
<1>2. From(b, s)
  BY <1>1 DEF From, Stays
<1>3. ASSUME Distinct(s), NEW i \in DOMAIN t, NEW j \in DOMAIN u
      PROVE  t[i].id # u[j].id
  <2>1. PICK x \in DOMAIN s : Kin(t[i], s[x])
    BY DEF From, Stays
  <2>2. PICK y \in DOMAIN s : Kin(u[j], s[y])
    BY DEF From, Stays
  <2> SUFFICES ASSUME t[i].id = u[j].id
               PROVE  FALSE
    OBVIOUS
  <2>3. x = y
    BY <1>3, <2>1, <2>2 DEF Distinct, Kin
  <2>4. t[i].role = u[j].role
    BY <2>1, <2>2, <2>3 DEF Kin
  <2> QED
    BY <2>4 DEF IsText, IsObject
<1>4. ASSUME Distinct(s)
      PROVE  Distinct(b)
  <2>1. Distinct(t) /\ Distinct(u)
    BY <1>4 DEF Stays
  <2> SUFFICES ASSUME NEW i \in DOMAIN b, NEW j \in DOMAIN b, b[i].id = b[j].id
               PROVE  i = j
    BY DEF Distinct
  <2>2. CASE i \in DOMAIN t /\ b[i] = t[i] /\ j \in DOMAIN t /\ b[j] = t[j]
    BY <2>1, <2>2 DEF Distinct
  <2>3. CASE /\ i - m \in DOMAIN u /\ b[i] = u[i - m] /\ i \in Nat
             /\ j - m \in DOMAIN u /\ b[j] = u[j - m] /\ j \in Nat
    <3>1. i - m = j - m
      BY <2>1, <2>3 DEF Distinct
    <3> QED
      BY <1>1, <2>3, <3>1
  <2> QED
    BY <1>1, <1>3, <1>4, <2>2, <2>3
<1> QED
  BY <1>1, <1>2, <1>4 DEF Stays, b

\* What is left of the elements of a page: none is noise.
LEMMA CleanedIs ==
  ASSUME NEW Tabs, NEW s \in Seq(Element(Tabs))
  PROVE  /\ Cleaned(s) \in Seq(Element(Tabs)) /\ Stays(Cleaned(s), s)
         /\ \A i \in DOMAIN Cleaned(s) : Kept(Cleaned(s)[i])
         /\ \E n \in Seq(Element(Tabs)) : Cleaned(s) = n \o Objects(ContentFilter(s))
<1> DEFINE E == Element(Tabs)
           c == ContentFilter(s)
           t == Texts(c)
           b == FixBrokenSentences(t)
           m == FixSplitParagraphs(b)
           h == FixHeadingHierarchy(m)
           n == NormalizeLists(h)
           o == Objects(c)
<1>1. c \in Seq({e \in E : Kept(e)}) /\ c \in Seq(E) /\ Stays(c, s)
  <2>1. c \in Seq({e \in E : Kept(e)}) /\ Stays(c, s)
    BY Filtered
  <2> HIDE DEF c
  <2> QED
    BY <2>1
<1>2. /\ t \in Seq({e \in E : IsText(e)}) /\ t \in Seq(E) /\ Stays(t, c)
      /\ o \in Seq({e \in E : IsObject(e)}) /\ o \in Seq(E) /\ Stays(o, c)
  <2> HIDE DEF c
  <2>1. /\ t \in Seq({e \in E : IsText(e)}) /\ Stays(t, c)
        /\ o \in Seq({e \in E : IsObject(e)}) /\ Stays(o, c)
    BY <1>1, Filtered
  <2> HIDE DEF t, o
  <2> QED
    BY <2>1
<1> HIDE DEF E, c, t, o
<1>3. b \in Seq(E) /\ Stays(b, t)
  BY <1>2, Merged DEF E
<1>4. m \in Seq(E) /\ Stays(m, b)
  <2> HIDE DEF b
  <2> QED
    BY <1>3, Merged DEF E
<1>5. h \in Seq(E) /\ Stays(h, m)
  <2> HIDE DEF b, m
  <2> QED
    BY <1>4, Repaired DEF E
<1>6. n \in Seq(E) /\ Stays(n, h)
  <2> HIDE DEF b, m, h
  <2> QED
    BY <1>5, Repaired DEF E
<1> HIDE DEF b, m, h, n
<1>7. Stays(n, t) /\ Stays(n, c)
  BY <1>2, <1>3, <1>4, <1>5, <1>6, StaysTwice
<1>8. \A i \in DOMAIN n : IsText(n[i])
  <2>1. \A i \in DOMAIN t : IsText(t[i])
    BY <1>2
  <2> QED
    BY <1>7, <2>1 DEF Stays, From, Kin, IsText
<1>9. \A i \in DOMAIN o : IsObject(o[i])
  BY <1>2
<1>10. n \o o \in Seq(E) /\ Stays(n \o o, c)
  BY <1>1, <1>2, <1>6, <1>7, <1>8, <1>9, StaysTogether
<1>11. Cleaned(s) = n \o o
  BY DEF Cleaned, StructureFixer, Interleaved, n, h, m, b, t, c, o
<1>12. \A i \in DOMAIN c : Kept(c[i])
  BY <1>1
<1>13. \A i \in DOMAIN (n \o o) : Kept((n \o o)[i])
  <2>1. \A x, y : Kin(x, y) /\ Kept(y) => Kept(x)
    BY DEF Kin, Kept, IsText
  <2> QED
    BY <1>10, <1>12, <2>1 DEF Stays, From
<1>14. Stays(n \o o, s)
  BY <1>1, <1>10, StaysTwice
<1>15. n \in Seq(E) /\ Cleaned(s) = n \o Objects(ContentFilter(s))
  BY <1>6, <1>11 DEF c, o
<1> HIDE DEF Cleaned
<1> QED
  BY <1>10, <1>11, <1>13, <1>14, <1>15 DEF E

-----------------------------------------------------------------------------
(* What the preprocessors make: elements with identifiers of their page.   *)

\* Functions over 1 .. n are sequences.
LEMMA AreSequences ==
  ASSUME NEW V, NEW n \in Nat, NEW f \in [1 .. n -> V]
  PROVE  f \in Seq(V)
OBVIOUS

\* The next free place of a row.
LEMMA LeastIs ==
  ASSUME NEW Ns \in SUBSET Nat, Ns # {}
  PROVE  Min(Ns) \in Ns /\ \A n \in Ns : Min(Ns) <= n
<1>1. \E m \in Ns : \A n \in Ns : m <= n
  BY K!Least
<1> QED
  BY <1>1 DEF Min

TableWith(rows, count, cols) ==
  [rows |-> rows, headers |-> <<>>, count |-> count, merged |-> FALSE, score |-> 10,
   cols |-> cols]

\* A table made of rows has the type.
LEMMA TableWithIs ==
  ASSUME NEW rows \in Seq(Seq(CellType)), NEW count \in Nat, NEW cols \in Nat
  PROVE  TableWith(rows, count, cols) \in TableType
<1> DEFINE none == <<>>
           no == FALSE
<1>1. none \in {<<>>} /\ no \in {FALSE} /\ 10 \in Nat
  OBVIOUS
<1>2. TableWith(rows, count, cols)
        = [rows |-> rows, headers |-> none, count |-> count, merged |-> no, score |-> 10,
           cols |-> cols]
  BY DEF TableWith
<1> DEFINE Nones == {<<>>}
<1> HIDE DEF none, no, Nones
<1>3. none \in Nones
  BY <1>1 DEF Nones
<1>4. TableWith(rows, count, cols) \in
        [rows : Seq(Seq(CellType)), headers : Nones, count : Nat, merged : {FALSE}, score : Nat,
         cols : Nat]
  BY <1>1, <1>2, <1>3
<1> QED
  BY <1>4 DEF TableType, Nones

\* A blank item has the type.
LEMMA ItemIs ==
  /\ Item \in ItemType /\ Table(<<>>) \in TableType
  /\ Item.role = "object"
<1> DEFINE most == Max({Len(<<>>[r]) : r \in DOMAIN <<>>})
<1>1. Table(<<>>) = [rows |-> <<>>, headers |-> <<>>, count |-> Len(<<>>), merged |-> FALSE,
                      score |-> 10, cols |-> IF <<>> = <<>> THEN 0 ELSE most]
  BY DEF Table
<1> HIDE DEF most
<1>2. Table(<<>>) \in TableType
  <2>1. Len(<<>>) = 0 /\ <<>> \in Seq(Seq(CellType)) /\ 0 \in Nat
    OBVIOUS
  <2>2. Table(<<>>) = TableWith(<<>>, 0, 0)
    BY <1>1, <2>1 DEF TableWith
  <2> QED
    BY <2>1, <2>2, TableWithIs
<1>3. Item \in ItemType
  <2>1. <<>> \in Seq(Part) /\ "object" \in Roles
    BY DEF Roles
  <2>2. <<"none", 0, 0>> \in Id
    BY DEF Id
  <2> QED
    BY <1>2, <2>1, <2>2 DEF Item, ItemType, Element
<1>4. Item.role = "object"
  BY DEF Item
<1> QED
  BY <1>2, <1>3, <1>4

\* A line of a file.
Line == [no : Nat, kind : DOMAIN LineSize]

\* An element that stands on page p.
OfPage(s, p) == \A i \in DOMAIN s : s[i].id[2] = p
Original(s) == \A i \in DOMAIN s : s[i].id[1] # "ocr"

\* Sums of lengths are lengths.
LEMMA TotalIs ==
  ASSUME NEW s \in Seq(Nat)
  PROVE  Total(s) \in Nat
<1>1. \A a \in Nat, b \in Nat : a + b \in Nat
  OBVIOUS
<1>2. S!Fold(0, s) \in Nat
  BY <1>1, S!OfType
<1> QED
  BY <1>2, TheOthers

\* Joined sequences.
LEMMA FlatIs ==
  ASSUME NEW E, NEW ss \in Seq(Seq(E))
  PROVE  Flat(ss) \in Seq(E)
<1>1. \A a \in Seq(E), b \in Seq(E) : a \o b \in Seq(E)
  OBVIOUS
<1>2. <<>> \in Seq(E)
  OBVIOUS
<1>3. J!Fold(<<>>, ss) \in Seq(E)
  BY <1>1, <1>2, J!OfType
<1> QED
  BY <1>3, TheOthers

\* What is selected is some of what there was.
LEMMA SelectedIs ==
  ASSUME NEW E, NEW s \in Seq(E)
  PROVE  /\ Texts(s) \in Seq(E) /\ Selected(s, Extracted) \in Seq(E)
         /\ Selected(s, HasRows) \in Seq(E) /\ Selected(s, IsFilled) \in Seq(E)
         /\ Selected(s, IsQuoted) \in Seq(E) /\ Selected(s, IsFilledRow) \in Seq(E)
         /\ Selected(s, LAMBDA n : n > 0) \in Seq(E)
<1>1. \A a \in Seq(E), e \in E :
        /\ TakeText(a, e) \in Seq(E) /\ TakeExtracted(a, e) \in Seq(E)
        /\ TakeWithRows(a, e) \in Seq(E) /\ TakeFilled(a, e) \in Seq(E)
        /\ TakeQuoted(a, e) \in Seq(E) /\ TakeFilledRow(a, e) \in Seq(E)
        /\ TakePositive(a, e) \in Seq(E)
  <2>1. \A a \in Seq(E), e \in E : a \in Seq(E) /\ Append(a, e) \in Seq(E)
    OBVIOUS
  <2> QED
    BY <2>1 DEF TakeText, TakeExtracted, TakeWithRows, TakeFilled, TakeQuoted, TakeFilledRow,
                TakePositive
<1>2. <<>> \in Seq(E)
  OBVIOUS
<1>3. /\ T!Fold(<<>>, s) \in Seq(E) /\ X!Fold(<<>>, s) \in Seq(E)
      /\ W!Fold(<<>>, s) \in Seq(E) /\ F!Fold(<<>>, s) \in Seq(E)
      /\ Q!Fold(<<>>, s) \in Seq(E) /\ R!Fold(<<>>, s) \in Seq(E)
      /\ P!Fold(<<>>, s) \in Seq(E)
  <2>1. T!Fold(<<>>, s) \in Seq(E)
    BY <1>1, <1>2, T!OfType
  <2>2. X!Fold(<<>>, s) \in Seq(E)
    BY <1>1, <1>2, X!OfType
  <2>3. W!Fold(<<>>, s) \in Seq(E)
    BY <1>1, <1>2, W!OfType
  <2>4. F!Fold(<<>>, s) \in Seq(E)
    BY <1>1, <1>2, F!OfType
  <2>5. Q!Fold(<<>>, s) \in Seq(E)
    BY <1>1, <1>2, Q!OfType
  <2>6. R!Fold(<<>>, s) \in Seq(E)
    BY <1>1, <1>2, R!OfType
  <2>7. P!Fold(<<>>, s) \in Seq(E)
    BY <1>1, <1>2, P!OfType
  <2> QED
    BY <2>1, <2>2, <2>3, <2>4, <2>5, <2>6, <2>7
<1> QED
  BY <1>3, TheSelections, TheFilters

\* The number of characters of a text.
LEMMA LengthIs ==
  ASSUME NEW text \in Seq(Nat), NEW eol \in {1, 2}
  PROVE  LengthOf(text, eol) \in Nat
<1>1. CASE text = <<>>
  BY <1>1 DEF LengthOf
<1>2. CASE text # <<>>
  <2>1. Len(text) \in Nat /\ Len(text) # 0
    BY <1>2, EmptySeq
  <2>2. Total(text) \in Nat
    BY TotalIs
  <2>3. LengthOf(text, eol) = Total(text) + eol * (Len(text) - 1)
    BY <1>2 DEF LengthOf
  <2>4. Len(text) - 1 \in Nat
    BY <2>1
  <2>5. eol * (Len(text) - 1) \in Nat
    <3>1. \A k \in Nat : 1 * k \in Nat /\ 2 * k \in Nat
      OBVIOUS
    <3> QED
      BY <2>4, <3>1
  <2> QED
    BY <2>2, <2>3, <2>5
<1> QED
  BY <1>1, <1>2

\* Texts with empty lines between them are a text.
LEMMA ApartIs ==
  ASSUME NEW texts \in Seq(Seq(Nat))
  PROVE  Apart(texts) \in Seq(Nat)
<1> DEFINE all == [i \in DOMAIN texts |-> IF i = 1 THEN texts[i] ELSE <<0>> \o texts[i]]
<1>1. /\ Len(texts) \in Nat /\ DOMAIN texts = 1 .. Len(texts)
      /\ \A i \in DOMAIN texts : texts[i] \in Seq(Nat)
  OBVIOUS
<1>2. <<0>> \in Seq(Nat)
  OBVIOUS
<1>3. \A a \in Seq(Nat) : <<0>> \o a \in Seq(Nat)
  BY <1>2
<1>4. all \in [1 .. Len(texts) -> Seq(Nat)]
  BY <1>1, <1>3
<1>5. Apart(texts) = Flat(all)
  BY DEF Apart
<1> HIDE DEF all
<1>6. all \in Seq(Seq(Nat))
  BY <1>1, <1>4, AreSequences
<1> QED
  BY <1>5, <1>6, FlatIs

\* An element with an identifier of its page.
LEMMA WithId ==
  ASSUME NEW Tabs, NEW e \in Element(Tabs), NEW x \in Id
  PROVE  [e EXCEPT !.id = x] \in Element(Tabs) /\ [e EXCEPT !.id = x].id = x
<1>1. [e EXCEPT !.id = x] \in Element(Tabs)
  BY DEF Element
<1>2. [e EXCEPT !.id = x].id = x
  BY DEF Element
<1> QED
  BY <1>1, <1>2

OcrElement(e, x) == [e EXCEPT !.role = "paragraph", !.id = x]

\* A paragraph that recognition found, with its identifier.
LEMMA WithOcrId ==
  ASSUME NEW Tabs, NEW e \in Element(Tabs), NEW x \in Id
  PROVE  OcrElement(e, x) \in Element(Tabs) /\ OcrElement(e, x).id = x
<1> DEFINE r == "paragraph"
           d == [e EXCEPT !.role = r, !.id = x]
<1>1. r \in Roles
  BY DEF Roles, TextRoles
<1> HIDE DEF r
<1>2. d \in Element(Tabs)
  BY <1>1 DEF Element
<1>3. d.id = x
  BY DEF Element
<1> HIDE DEF d
<1>4. d \in Element(Tabs) /\ d.id = x
  BY <1>2, <1>3
<1> QED
  BY <1>4 DEF d, r, OcrElement

\* Numbered elements differ in their identifiers.
LEMMA NumberedIs ==
  ASSUME NEW s \in Seq(ItemType), NEW p \in Nat, NEW first \in Nat
  PROVE  LET n == Numbered(p, s, first)
         IN  /\ n \in Seq(ItemType) /\ Len(n) = Len(s) /\ OfPage(n, p) /\ Original(n) /\ Distinct(n)
             /\ \A i \in DOMAIN n : n[i].id = <<Prefix(s[i]), p, first + i - 1>>
<1> DEFINE n == Numbered(p, s, first)
           m == Len(s)
<1>1. m \in Nat /\ DOMAIN s = 1 .. m /\ \A i \in 1 .. m : s[i] \in ItemType
  OBVIOUS
<1>2. \A e : Prefix(e) \in {"txt", "tbl", "img", "code"}
  BY DEF Prefix
<1>4. \A i \in 1 .. m : <<Prefix(s[i]), p, first + i - 1>> \in Id
  <2>1. \A i \in 1 .. m : first + i - 1 \in Nat
    BY <1>1
  <2> QED
    BY <1>2, <2>1 DEF Id
<1>5. \A i \in 1 .. m : n[i] \in ItemType /\ n[i].id = <<Prefix(s[i]), p, first + i - 1>>
  <2> SUFFICES ASSUME NEW i \in 1 .. m
               PROVE  n[i] \in ItemType /\ n[i].id = <<Prefix(s[i]), p, first + i - 1>>
    OBVIOUS
  <2> DEFINE x == <<Prefix(s[i]), p, first + i - 1>>
             e == s[i]
  <2>1. n[i] = [e EXCEPT !.id = x]
    BY <1>1 DEF Numbered
  <2>2. x \in Id /\ e \in ItemType
    BY <1>1, <1>4
  <2> HIDE DEF n, x, e
  <2>3. n[i] \in ItemType /\ n[i].id = x
    BY <2>1, <2>2, WithId DEF ItemType
  <2> QED
    BY <2>3 DEF x
<1>6. n \in Seq(ItemType) /\ Len(n) = m /\ DOMAIN n = 1 .. m
  <2>1. n = [i \in 1 .. m |-> n[i]]
    BY <1>1 DEF Numbered
  <2> HIDE DEF n, m
  <2>2. n \in [1 .. m -> ItemType]
    BY <1>5, <2>1
  <2>3. n \in Seq(ItemType)
    BY <1>1, <2>2, AreSequences
  <2>4. DOMAIN n = 1 .. m
    BY <2>2
  <2> QED
    BY <1>1, <2>3, <2>4
<1> HIDE DEF n, m
<1>7. OfPage(n, p) /\ Original(n)
  <2>1. \A i \in 1 .. m : n[i].id[1] = Prefix(s[i]) /\ n[i].id[2] = p
    BY <1>5
  <2> QED
    BY <1>2, <1>6, <2>1 DEF OfPage, Original
<1>8. Distinct(n)
  <2> SUFFICES ASSUME NEW i \in 1 .. m, NEW j \in 1 .. m, n[i].id = n[j].id
               PROVE  i = j
    BY <1>6 DEF Distinct
  <2>1. first + i - 1 = first + j - 1
    BY <1>5
  <2> QED
    BY <1>1, <2>1
<1> QED
  BY <1>1, <1>5, <1>6, <1>7, <1>8 DEF n, m

\* So do those that recognition adds.
LEMMA OcrElementsAre ==
  ASSUME NEW s \in Seq(ItemType), NEW p \in Nat, NEW first \in Nat
  PROVE  LET n == OcrElements(p, s, first)
         IN  /\ n \in Seq(ItemType) /\ OfPage(n, p) /\ Distinct(n)
             /\ \A i \in DOMAIN n : n[i].id[1] = "ocr"
<1> DEFINE n == OcrElements(p, s, first)
           m == Len(s)
<1>1. m \in Nat /\ DOMAIN s = 1 .. m /\ \A i \in 1 .. m : s[i] \in ItemType
  OBVIOUS
<1>4. \A i \in 1 .. m : <<"ocr", p, first + i - 1>> \in Id
  <2>1. \A i \in 1 .. m : first + i - 1 \in Nat
    BY <1>1
  <2> QED
    BY <2>1 DEF Id
<1>5. \A i \in 1 .. m : n[i] \in ItemType /\ n[i].id = <<"ocr", p, first + i - 1>>
  <2> SUFFICES ASSUME NEW i \in 1 .. m
               PROVE  n[i] \in ItemType /\ n[i].id = <<"ocr", p, first + i - 1>>
    OBVIOUS
  <2> DEFINE x == <<"ocr", p, first + i - 1>>
             e == s[i]
  <2>1. n[i] = OcrElement(e, x)
    BY <1>1 DEF OcrElements, OcrElement
  <2>2. x \in Id /\ e \in ItemType
    BY <1>1, <1>4
  <2> HIDE DEF n, x, e
  <2>3. n[i] \in ItemType /\ n[i].id = x
    BY <2>1, <2>2, WithOcrId DEF ItemType
  <2> QED
    BY <2>3 DEF x
<1>6. n \in Seq(ItemType) /\ Len(n) = m /\ DOMAIN n = 1 .. m
  <2>1. n = [i \in 1 .. m |-> n[i]]
    BY <1>1 DEF OcrElements
  <2> HIDE DEF n, m
  <2>2. n \in [1 .. m -> ItemType]
    BY <1>5, <2>1
  <2>3. n \in Seq(ItemType)
    BY <1>1, <2>2, AreSequences
  <2>4. DOMAIN n = 1 .. m
    BY <2>2
  <2> QED
    BY <1>1, <2>3, <2>4
<1> HIDE DEF n, m
<1>7. /\ OfPage(n, p)
      /\ \A i \in DOMAIN n : n[i].id[1] = "ocr"
  <2>1. \A i \in 1 .. m : n[i].id[1] = "ocr" /\ n[i].id[2] = p
    BY <1>5
  <2> QED
    BY <1>6, <2>1 DEF OfPage
<1>8. Distinct(n)
  <2> SUFFICES ASSUME NEW i \in 1 .. m, NEW j \in 1 .. m, n[i].id = n[j].id
               PROVE  i = j
    BY <1>6 DEF Distinct
  <2>1. first + i - 1 = first + j - 1
    BY <1>5
  <2> QED
    BY <1>1, <2>1
<1> QED
  BY <1>6, <1>7, <1>8 DEF n

\* Two sequences without an identifier in common.
LEMMA DistinctTogether ==
  ASSUME NEW E, NEW s \in Seq(E), NEW t \in Seq(E), Distinct(s), Distinct(t),
         \A i \in DOMAIN s, j \in DOMAIN t : s[i].id # t[j].id
  PROVE  Distinct(s \o t)
<1> DEFINE b == s \o t
           m == Len(s)
<1>1. /\ m \in Nat /\ DOMAIN s = 1 .. m
      /\ \A k \in DOMAIN b : \/ k \in DOMAIN s /\ b[k] = s[k]
                             \/ k - m \in DOMAIN t /\ b[k] = t[k - m] /\ k \in Nat
  OBVIOUS
<1> HIDE DEF b, m
<1> SUFFICES ASSUME NEW k \in DOMAIN b, NEW l \in DOMAIN b, b[k].id = b[l].id
             PROVE  k = l
  BY DEF Distinct, b
<1>2. CASE k \in DOMAIN s /\ b[k] = s[k] /\ l \in DOMAIN s /\ b[l] = s[l]
  BY <1>2 DEF Distinct
<1>3. CASE /\ k - m \in DOMAIN t /\ b[k] = t[k - m] /\ k \in Nat
           /\ l - m \in DOMAIN t /\ b[l] = t[l - m] /\ l \in Nat
  <2>1. k - m = l - m
    BY <1>3 DEF Distinct
  <2> QED
    BY <1>1, <1>3, <2>1
<1>4. CASE /\ k \in DOMAIN s /\ b[k] = s[k]
           /\ l - m \in DOMAIN t /\ b[l] = t[l - m]
  BY <1>4
<1>5. CASE /\ k - m \in DOMAIN t /\ b[k] = t[k - m]
           /\ l \in DOMAIN s /\ b[l] = s[l]
  BY <1>5
<1> QED
  BY <1>1, <1>2, <1>3, <1>4, <1>5

-----------------------------------------------------------------------------
(* Pages.                                                                  *)

PageType(Tabs) ==
  [number : Nat, elements : Seq(Element(Tabs)), text : Seq(Nat), eol : {1, 2},
   scanned : BOOLEAN]

\* A page in its place: its elements have its number, each an identifier of its own.
InPlace(page, p) ==
  page.number = p /\ OfPage(page.elements, p) /\ Distinct(page.elements)

\* The pages that preprocessors make.
Extractions ==
  {pages \in Seq(PageType(TableType)) : \A p \in DOMAIN pages : InPlace(pages[p], p)}

Originals == {pages \in Extractions : \A p \in DOMAIN pages : Original(pages[p].elements)}

\* A page that a preprocessor puts together.
LEMMA NewPage ==
  ASSUME NEW p \in Nat, NEW s \in Seq(ItemType), OfPage(s, p), Distinct(s), NEW text \in Seq(Nat)
  PROVE  /\ Page(p, s, text) \in PageType(TableType) /\ InPlace(Page(p, s, text), p)
         /\ Page(p, s, text).elements = s /\ Page(p, s, text).eol = 1
<1> DEFINE no == FALSE
<1>1. no \in BOOLEAN
  OBVIOUS
<1> HIDE DEF no
<1>2. Page(p, s, text)
        = [number |-> p, elements |-> s, text |-> text, eol |-> 1, scanned |-> no]
  BY DEF Page, no
<1>3. Page(p, s, text) \in PageType(TableType)
  BY <1>1, <1>2 DEF PageType, ItemType
<1>4. /\ Page(p, s, text).number = p /\ Page(p, s, text).elements = s
      /\ Page(p, s, text).eol = 1
  BY <1>2
<1> QED
  BY <1>3, <1>4 DEF InPlace

\* A page of numbered elements is in its place.
LEMMA NumberedPage ==
  ASSUME NEW p \in Nat, NEW s \in Seq(ItemType), NEW first \in Nat, NEW text \in Seq(Nat)
  PROVE  LET page == Page(p, Numbered(p, s, first), text)
         IN  page \in PageType(TableType) /\ InPlace(page, p) /\ Original(page.elements)
<1> DEFINE n == Numbered(p, s, first)
<1>1. n \in Seq(ItemType) /\ OfPage(n, p) /\ Original(n) /\ Distinct(n)
  BY NumberedIs
<1> HIDE DEF n
<1>2. Page(p, n, text) \in PageType(TableType) /\ InPlace(Page(p, n, text), p)
      /\ Page(p, n, text).elements = n
  BY <1>1, NewPage
<1> QED
  BY <1>1, <1>2 DEF n

\* A page for each number.
LEMMA PagesAre ==
  ASSUME NEW n \in Nat, NEW pages, pages = [p \in 1 .. n |-> pages[p]],
         \A p \in 1 .. n : /\ pages[p] \in PageType(TableType) /\ InPlace(pages[p], p)
                           /\ Original(pages[p].elements)
  PROVE  pages \in Originals
<1>1. pages \in [1 .. n -> PageType(TableType)]
  OBVIOUS
<1>2. pages \in Seq(PageType(TableType)) /\ DOMAIN pages = 1 .. n
  BY <1>1, AreSequences
<1> QED
  BY <1>2 DEF Originals, Extractions

\* A document of one page.
LEMMA OnePage ==
  ASSUME NEW page \in PageType(TableType), InPlace(page, 1)
  PROVE  /\ <<page>> \in Extractions
         /\ Original(page.elements) => <<page>> \in Originals
<1> DEFINE pages == <<page>>
<1>1. pages \in Seq(PageType(TableType)) /\ DOMAIN pages = {1} /\ pages[1] = page
  OBVIOUS
<1> HIDE DEF pages
<1> QED
  BY <1>1 DEF Originals, Extractions, pages

\* A document has the pages it is made with.
LEMMA DocumentHas ==
  ASSUME NEW title, NEW pages, NEW n
  PROVE  /\ Document(title, pages, n).pages = pages
         /\ "pages" \in DOMAIN Document(title, pages, n)
         /\ \A x : /\ [Document(title, pages, n) EXCEPT !.scanned = x].pages = pages
                   /\ "pages" \in DOMAIN [Document(title, pages, n) EXCEPT !.scanned = x]
         /\ \A x : /\ [Document(title, pages, n) EXCEPT !.chars = x].pages = pages
                   /\ "pages" \in DOMAIN [Document(title, pages, n) EXCEPT !.chars = x]
<1> DEFINE chars == Total(Lengths(pages))
           tables == HasRole(pages, "table")
           images == HasRole(pages, "image")
<1>1. Document(title, pages, n)
        = [title |-> title, pages |-> pages, pageCount |-> n, chars |-> chars,
           hasTables |-> tables, hasImages |-> images, hasOcr |-> FALSE, scanned |-> FALSE]
  BY DEF Document
<1> HIDE DEF chars, tables, images
<1> QED
  BY <1>1

-----------------------------------------------------------------------------
(* Lines.                                                                  *)

\* The lengths of lines are a text.
LEMMA LineSizesAre ==
  ASSUME NEW b \in Seq(Line)
  PROVE  LineSizes(b) \in Seq(Nat)
<1>1. LineSize \in [DOMAIN LineSize -> Nat]
  BY DEF LineSize
<1>2. \A i \in DOMAIN b : LineSize[b[i].kind] \in Nat
  <2>1. \A i \in DOMAIN b : b[i] \in Line
    OBVIOUS
  <2> QED
    BY <1>1, <2>1 DEF Line
<1>3. Len(b) \in Nat /\ DOMAIN b = 1 .. Len(b)
  OBVIOUS
<1>4. LineSizes(b) \in [1 .. Len(b) -> Nat]
  BY <1>2, <1>3 DEF LineSizes
<1> QED
  BY <1>3, <1>4, AreSequences

\* Elements made of lines.
LEMMA LinesAre ==
  ASSUME NEW b \in Seq(Line)
  PROVE  Lines(b) \in ItemType
<1> DEFINE parts == [i \in DOMAIN b |-> <<1, "item", b[i].no>>]
           size == LengthOf(LineSizes(b), 1)
<1>1. parts \in Seq(Part)
  <2>1. \A i \in DOMAIN b : <<1, "item", b[i].no>> \in Part
    <3>1. \A i \in DOMAIN b : b[i] \in Line
      OBVIOUS
    <3> QED
      BY <3>1 DEF Part, Line
  <2>2. Len(b) \in Nat /\ DOMAIN b = 1 .. Len(b)
    OBVIOUS
  <2>3. parts \in [1 .. Len(b) -> Part]
    BY <2>1, <2>2
  <2> HIDE DEF parts
  <2> QED
    BY <2>2, <2>3, AreSequences
<1>2. size \in Nat
  BY LineSizesAre, LengthIs
<1>3. Lines(b) = [Item EXCEPT !.parts = parts, !.size = size]
  BY DEF Lines
<1> HIDE DEF parts, size
<1> QED
  BY <1>1, <1>2, <1>3, ItemIs DEF ItemType, Element

\* Their roles.
LEMMA WithRole ==
  ASSUME NEW e \in ItemType, NEW role \in Roles, NEW level \in Nat,
         NEW marker \in {"none", "bulleted", "numbered"}
  PROVE  /\ [e EXCEPT !.role = role] \in ItemType
         /\ [e EXCEPT !.role = role, !.level = level] \in ItemType
         /\ [e EXCEPT !.role = role, !.marker = marker] \in ItemType
<1>1. [e EXCEPT !.role = role] \in ItemType
  BY DEF ItemType, Element
<1>2. [e EXCEPT !.role = role, !.level = level] \in ItemType
  BY DEF ItemType, Element
<1>3. [e EXCEPT !.role = role, !.marker = marker] \in ItemType
  BY DEF ItemType, Element
<1> QED
  BY <1>1, <1>2, <1>3

\* The lines of a file have the type.
LEMMA LinesOfIs ==
  ASSUME NEW f, f.lines \in Seq(DOMAIN LineSize)
  PROVE  LinesOf(f) \in Seq(Line)
<1>1. Len(f.lines) \in Nat /\ DOMAIN f.lines = 1 .. Len(f.lines)
  OBVIOUS
<1>2. \A i \in DOMAIN f.lines : f.lines[i] \in DOMAIN LineSize
  OBVIOUS
<1>3. \A i \in DOMAIN f.lines : [no |-> i, kind |-> f.lines[i]] \in Line
  BY <1>1, <1>2 DEF Line
<1>4. LinesOf(f) \in [1 .. Len(f.lines) -> Line]
  BY <1>1, <1>3 DEF LinesOf
<1> QED
  BY <1>1, <1>4, AreSequences

\* Blocks are sequences of lines, none of them empty.
Block == Seq(Line) \ {<<>>}
Blocked == {a \in [done : Seq(Block), open : BOOLEAN] : a.open => a.done # <<>>}

\* The parts of a sequence that is not empty.
LEMMA LastOf ==
  ASSUME NEW E, NEW s \in Seq(E), s # <<>>
  PROVE  Last(s) \in E /\ Front(s) \in Seq(E) /\ Head(s) \in E
<1>1. Len(s) \in Nat \ {0}
  BY EmptySeq
<1>2. Len(s) \in 1 .. Len(s) /\ Len(s) - 1 \in Int /\ 1 \in 1 .. Len(s)
  BY <1>1
<1>3. Last(s) \in E
  BY <1>2, ElementOfSeq DEF Last
<1>4. Head(s) \in E
  BY <1>2
<1>5. \A i \in 1 .. Len(s) - 1 : s[i] \in E
  BY <1>1
<1>6. SubSeq(s, 1, Len(s) - 1) \in Seq(E)
  BY <1>2, <1>5, SubSeqProperties
<1> QED
  BY <1>3, <1>4, <1>6 DEF Front

\* Blocks have lines in them.
LEMMA BlocksAre ==
  ASSUME NEW s \in Seq(Line)
  PROVE  Blocks(s) \in Seq(Block)
<1>1. NoLines \in Blocked
  BY DEF NoLines, Blocked
<1>2. ASSUME NEW a \in Blocked, NEW line \in Line
      PROVE  AddLine(a, line) \in Blocked
  <2>1. a.done \in Seq(Block) /\ a.open \in BOOLEAN /\ (a.open => a.done # <<>>)
    BY DEF Blocked
  <2>2. CASE ~IsFilled(line)
    BY <2>1, <2>2 DEF AddLine, Blocked
  <2>3. CASE IsFilled(line) /\ a.open
    <3> DEFINE done == Append(Front(a.done), Append(Last(a.done), line))
    <3>1. Last(a.done) \in Block /\ Front(a.done) \in Seq(Block)
      BY <2>1, <2>3, LastOf
    <3>2. Append(Last(a.done), line) \in Block
      <4>1. Last(a.done) \in Seq(Line)
        BY <3>1 DEF Block
      <4> QED
        BY <4>1 DEF Block
    <3>3. done \in Seq(Block) /\ done # <<>>
      BY <3>1, <3>2
    <3>4. AddLine(a, line) = [a EXCEPT !.done = done]
      BY <2>3 DEF AddLine
    <3> HIDE DEF done
    <3> QED
      BY <2>1, <3>3, <3>4 DEF Blocked
  <2>4. CASE IsFilled(line) /\ ~a.open
    <3> DEFINE one == <<line>>
               done == Append(a.done, one)
    <3>1. one \in Block
      BY DEF Block
    <3> HIDE DEF one
    <3>2. done \in Seq(Block) /\ done # <<>>
      <4>1. \A V : \A v \in V, u \in Seq(V) : Append(u, v) \in Seq(V) /\ Append(u, v) # <<>>
        OBVIOUS
      <4> QED
        BY <2>1, <3>1, <4>1
    <3>3. AddLine(a, line) = [done |-> done, open |-> TRUE]
      BY <2>4 DEF AddLine, one
    <3> HIDE DEF done
    <3> QED
      BY <3>2, <3>3 DEF Blocked
  <2> QED
    BY <2>2, <2>3, <2>4
<1>3. A!Fold(NoLines, s) \in Blocked
  BY <1>1, <1>2, A!OfType
<1> QED
  BY <1>3, TheOthers DEF Blocked

\* So have those of a Markdown file, whatever its line ends.
LEMMA MdBlocksAre ==
  ASSUME NEW s \in Seq(Line), NEW eol
  PROVE  MdBlocks(s, eol) \in Seq(Block)
<1> DEFINE filled == Selected(s, IsFilled)
<1>1. filled \in Seq(Line)
  BY SelectedIs
<1> HIDE DEF filled
<1>2. <<>> \in Seq(Block)
  OBVIOUS
<1>3. filled # <<>> => <<filled>> \in Seq(Block)
  <2>1. filled # <<>> => filled \in Block
    BY <1>1 DEF Block
  <2> HIDE DEF Block
  <2> QED
    BY <2>1
<1>4. Blocks(s) \in Seq(Block)
  BY BlocksAre
<1> QED
  BY <1>2, <1>3, <1>4 DEF MdBlocks, filled

\* A block of Markdown makes one element.
LEMMA MdItemIs ==
  ASSUME NEW eol, NEW b \in Block
  PROVE  MdItem(eol, b) \in ItemType
<1> DEFINE first  == Head(b).kind
           fences == {j \in 2 .. Len(b) : b[j].kind = "fence"}
           h1     == IF first = "h1" THEN 1 ELSE 3
           inside == SubSeq(b, 2, Min(fences) - 1)
           heading == [Lines(<<Head(b)>>) EXCEPT !.role = "heading", !.level = h1]
           code == [Lines(inside) EXCEPT !.role = "code_block"]
           quote == [Lines(Selected(b, IsQuoted)) EXCEPT !.role = "quote"]
           item == [Lines(b) EXCEPT !.role = "list_item", !.marker = "bulleted"]
           text == [Lines(b) EXCEPT !.role = "paragraph"]
<1>1. b \in Seq(Line) /\ b # <<>> /\ Head(b) \in Line /\ Len(b) \in Nat
  <2>1. b \in Seq(Line) /\ b # <<>>
    BY DEF Block
  <2> QED
    BY <2>1, LastOf
<1>2. heading \in ItemType
  <2>1. <<Head(b)>> \in Seq(Line)
    BY <1>1
  <2>2. Lines(<<Head(b)>>) \in ItemType
    BY <2>1, LinesAre, Zenon
  <2>3. "heading" \in Roles /\ h1 \in Nat
    BY DEF Roles, TextRoles
  <2> HIDE DEF h1
  <2> QED
    BY <2>2, <2>3, WithRole, Zenon
<1>3. fences # {} => code \in ItemType
  <2>1. SUFFICES ASSUME fences # {}
                 PROVE  code \in ItemType
    OBVIOUS
  <2>2. fences \in SUBSET Nat
    BY <1>1
  <2>3. Min(fences) \in 2 .. Len(b)
    <3>1. Min(fences) \in fences
      BY <2>1, <2>2, LeastIs
    <3> QED
      BY <3>1
  <2>4. inside \in Seq(Line)
    <3>1. Min(fences) - 1 \in Int /\ 2 \in Int /\ \A i \in 2 .. Min(fences) - 1 : b[i] \in Line
      <4>1. \A i \in 2 .. Min(fences) - 1 : i \in 1 .. Len(b)
        BY <1>1, <2>3
      <4> QED
        BY <1>1, <2>3, <4>1
    <3> HIDE DEF fences
    <3> QED
      BY <1>1, <3>1, SubSeqProperties
  <2> HIDE DEF inside
  <2>5. Lines(inside) \in ItemType /\ "code_block" \in Roles
    BY <2>4, LinesAre DEF Roles
  <2> QED
    BY <2>5, WithRole, ItemIs, Zenon
<1>4. quote \in ItemType
  <2>1. Selected(b, IsQuoted) \in Seq(Line) /\ "quote" \in Roles
    BY <1>1, SelectedIs DEF Roles, TextRoles
  <2> QED
    BY <2>1, LinesAre, WithRole, Zenon
<1>5. item \in ItemType /\ text \in ItemType
  <2>1. Lines(b) \in ItemType /\ "list_item" \in Roles /\ "paragraph" \in Roles
    BY <1>1, LinesAre DEF Roles, TextRoles
  <2> QED
    BY <2>1, WithRole, Zenon
<1>6. MdItem(eol, b) =
        CASE first \in {"h1", "h3"} -> heading
          [] first = "fence" /\ eol = "lf" /\ fences # {} -> code
          [] first = "quote" -> quote
          [] first = "item" -> item
          [] OTHER -> text
  BY DEF MdItem
<1> HIDE DEF first, fences, heading, code, quote, item, text
<1> QED
  BY <1>2, <1>3, <1>4, <1>5, <1>6

-----------------------------------------------------------------------------
(* The preprocessors.                                                      *)

\* What is shown of a preprocessor.
Makes(d, Pages) == "pages" \in DOMAIN d /\ d.pages \in Pages

\* Text and Markdown files make one page.
LEMMA LineDocumentIs ==
  ASSUME NEW f, f.lines \in Seq(DOMAIN LineSize), NEW items \in Seq(ItemType),
         NEW eol \in {1, 2}, NEW title
  PROVE  Makes(LineDocument(f, items, eol, title), Originals)
<1> DEFINE text == LineSizes(LinesOf(f))
           first == Page(1, Numbered(1, items, 0), text)
           page == [first EXCEPT !.eol = eol]
<1>1. text \in Seq(Nat)
  BY LinesOfIs, LineSizesAre
<1> HIDE DEF text
<1>2. first \in PageType(TableType) /\ InPlace(first, 1) /\ Original(first.elements)
  BY <1>1, NumberedPage
<1>3. LineDocument(f, items, eol, title) = Document(title, <<page>>, 0)
  BY DEF LineDocument, text
<1> HIDE DEF first
<1>4. page \in PageType(TableType) /\ page.number = first.number /\ page.elements = first.elements
  <2>1. page \in PageType(TableType)
    BY <1>2 DEF PageType
  <2>2. page.number = first.number /\ page.elements = first.elements
    BY <1>2 DEF PageType
  <2> QED
    BY <2>1, <2>2
<1>5. InPlace(page, 1) /\ Original(page.elements)
  BY <1>2, <1>4 DEF InPlace
<1> HIDE DEF page
<1>6. <<page>> \in Originals
  BY <1>4, <1>5, OnePage
<1> QED
  BY <1>3, <1>6, DocumentHas DEF Makes

\* MarkdownPreprocessor.
LEMMA MarkdownIs ==
  ASSUME NEW f, f.lines \in Seq(DOMAIN LineSize)
  PROVE  Makes(ExtractMarkdown(f), Originals)
<1> DEFINE blocks == MdBlocks(LinesOf(f), f.eol)
           items  == [i \in DOMAIN blocks |-> MdItem(f.eol, blocks[i])]
           H1s    == {i \in DOMAIN items : items[i].role = "heading" /\ items[i].level = 1}
           title  == IF H1s = {} THEN <<>> ELSE items[Min(H1s)].parts
           eol    == IF f.eol = "lf" THEN 1 ELSE 2
<1>1. blocks \in Seq(Block)
  BY LinesOfIs, MdBlocksAre
<1>2. items \in Seq(ItemType)
  <2> HIDE DEF blocks
  <2>1. Len(blocks) \in Nat /\ DOMAIN blocks = 1 .. Len(blocks)
    BY <1>1
  <2>2. \A i \in DOMAIN blocks : blocks[i] \in Block
    BY <1>1
  <2>3. \A i \in DOMAIN blocks : MdItem(f.eol, blocks[i]) \in ItemType
    BY <2>2, MdItemIs
  <2>4. items \in [1 .. Len(blocks) -> ItemType]
    BY <2>1, <2>3
  <2> HIDE DEF items
  <2> QED
    BY <2>1, <2>4, AreSequences
<1>3. ExtractMarkdown(f) = LineDocument(f, items, eol, title) /\ eol \in {1, 2}
  BY DEF ExtractMarkdown
<1> HIDE DEF items, title, eol
<1> QED
  BY <1>2, <1>3, LineDocumentIs

\* TxtPreprocessor.
LEMMA TxtIs ==
  ASSUME NEW f, f.lines \in Seq(DOMAIN LineSize)
  PROVE  Makes(ExtractTxt(f), Originals)
<1> DEFINE blocks == Blocks(LinesOf(f))
           Para(b) == [Lines(b) EXCEPT !.role = "paragraph"]
           items  == [i \in DOMAIN blocks |-> Para(blocks[i])]
<1>1. blocks \in Seq(Block)
  BY LinesOfIs, BlocksAre
<1>2. items \in Seq(ItemType)
  <2> HIDE DEF blocks
  <2>1. Len(blocks) \in Nat /\ DOMAIN blocks = 1 .. Len(blocks)
    BY <1>1
  <2>2. \A i \in DOMAIN blocks : blocks[i] \in Seq(Line)
    BY <1>1 DEF Block
  <2>3. ASSUME NEW i \in DOMAIN blocks
        PROVE  Para(blocks[i]) \in ItemType
    <3>1. Lines(blocks[i]) \in ItemType /\ "paragraph" \in Roles
      BY <2>2, LinesAre DEF Roles, TextRoles
    <3> QED
      BY <3>1, WithRole, Zenon
  <2>4. items \in [1 .. Len(blocks) -> ItemType]
    BY <2>1, <2>3
  <2> HIDE DEF items
  <2> QED
    BY <2>1, <2>4, AreSequences
<1>3. ExtractTxt(f) = LineDocument(f, items, 1, <<>>)
  BY DEF ExtractTxt
<1> HIDE DEF items
<1> QED
  BY <1>2, <1>3, LineDocumentIs

\* The lengths of elements are a text.
LEMMA SizesAre ==
  ASSUME NEW s \in Seq(ItemType)
  PROVE  Sizes(s) \in Seq(Nat)
<1>1. Len(s) \in Nat /\ DOMAIN s = 1 .. Len(s) /\ \A i \in DOMAIN s : s[i] \in ItemType
  OBVIOUS
<1>2. \A i \in DOMAIN s : s[i].size \in Nat
  BY <1>1 DEF ItemType, Element
<1>3. Sizes(s) \in [1 .. Len(s) -> Nat]
  BY <1>1, <1>2 DEF Sizes
<1> QED
  BY <1>1, <1>3, AreSequences

\* So are those of texts, each with the end of its line.
LEMMA TextOfIs ==
  ASSUME NEW s \in Seq(ItemType)
  PROVE  TextOf(s) \in Seq(Nat)
<1>1. Sizes(Texts(s)) \in Seq(Nat)
  BY SelectedIs, SizesAre
<1> QED
  BY <1>1 DEF TextOf

\* DocxPreprocessor.
LEMMA DocxIs ==
  ASSUME NEW f, f.pages \in Seq(PagesOf("docx")), Len(f.pages) = 1
  PROVE  Makes(ExtractDocx(f), Originals)
<1> DEFINE items == Selected(f.pages[1].items, Extracted)
           text == TextOf(items)
           page == Page(1, Numbered(1, items, 0), text)
<1>1. f.pages[1].items \in Seq(ItemType)
  <2>1. f.pages[1] \in PagesOf("docx")
    OBVIOUS
  <2>2. f.pages[1] \in [items : Seq(ItemType), pictures : Seq(ItemType)]
    BY <2>1 DEF PagesOf
  <2> QED
    BY <2>2
<1>2. items \in Seq(ItemType)
  BY <1>1, SelectedIs
<1>3. ExtractDocx(f) = Document(TitleOf(f), <<page>>, 0)
  BY DEF ExtractDocx
<1> HIDE DEF items
<1>4. text \in Seq(Nat)
  BY <1>2, TextOfIs
<1> HIDE DEF text
<1>5. page \in PageType(TableType) /\ InPlace(page, 1) /\ Original(page.elements)
  BY <1>2, <1>4, NumberedPage
<1> HIDE DEF page
<1>6. <<page>> \in Originals
  BY <1>5, OnePage
<1> QED
  BY <1>3, <1>6, DocumentHas DEF Makes

\* PptxPreprocessor.
LEMMA PptxIs ==
  ASSUME NEW f, f.pages \in Seq(PagesOf("pptx"))
  PROVE  Makes(ExtractPptx(f), Originals)
<1> DEFINE pages == [n \in DOMAIN f.pages |-> Slide(n, f.pages[n])]
<1>1. Len(f.pages) \in Nat /\ DOMAIN f.pages = 1 .. Len(f.pages)
  OBVIOUS
<1>2. ASSUME NEW n \in 1 .. Len(f.pages)
      PROVE  /\ Slide(n, f.pages[n]) \in PageType(TableType)
             /\ InPlace(Slide(n, f.pages[n]), n)
             /\ Original(Slide(n, f.pages[n]).elements)
  <2> DEFINE slide == f.pages[n]
             both == slide.items \o slide.notes
             items == Selected(both, Extracted)
             text == TextOf(items)
  <2>1. slide \in [items : Seq(ItemType), notes : Seq(ItemType)] /\ n \in Nat
    <3>1. slide \in PagesOf("pptx")
      BY <1>1
    <3> QED
      BY <1>1, <3>1 DEF PagesOf
  <2> HIDE DEF slide
  <2>2. both \in Seq(ItemType)
    BY <2>1
  <2> HIDE DEF both
  <2>3. items \in Seq(ItemType) /\ text \in Seq(Nat)
    BY <2>2, SelectedIs, TextOfIs
  <2>4. Slide(n, slide) = Page(n, Numbered(n, items, 0), text)
    BY DEF Slide, both
  <2> HIDE DEF items, text
  <2>5. /\ Slide(n, slide) \in PageType(TableType) /\ InPlace(Slide(n, slide), n)
        /\ Original(Slide(n, slide).elements)
    BY <2>1, <2>3, <2>4, NumberedPage
  <2> QED
    BY <2>5 DEF slide
<1>3. pages \in Originals
  <2>1. /\ pages = [n \in 1 .. Len(f.pages) |-> pages[n]]
        /\ \A n \in 1 .. Len(f.pages) : pages[n] = Slide(n, f.pages[n])
    BY <1>1
  <2> HIDE DEF pages
  <2> QED
    BY <1>1, <1>2, <2>1, PagesAre
<1>4. ExtractPptx(f) = Document(TitleOf(f), pages, Len(f.pages))
  BY DEF ExtractPptx
<1> HIDE DEF pages
<1> QED
  BY <1>3, <1>4, DocumentHas DEF Makes

\* A sequence of numbers has a greatest one.
LEMMA GreatestOfSequence ==
  ASSUME NEW s \in Seq(Nat), s # <<>>
  PROVE  Max({s[i] : i \in DOMAIN s}) \in Nat
<1> DEFINE Top(r, k) == k \in DOMAIN r /\ \A i \in DOMAIN r : r[i] <= r[k]
           Good == {r \in Seq(Nat) : r # <<>> => \E k : Top(r, k)}
<1>1. <<>> \in Good
  OBVIOUS
<1>2. ASSUME NEW r \in Good, NEW n \in Nat
      PROVE  Append(r, n) \in Good
  <2> DEFINE a == Append(r, n)
             m == Len(r) + 1
  <2>1. /\ a \in Seq(Nat) /\ m \in Nat /\ DOMAIN a = DOMAIN r \cup {m} /\ a[m] = n
        /\ \A i \in DOMAIN r : a[i] = r[i] /\ r[i] \in Nat
    OBVIOUS
  <2> HIDE DEF a, m
  <2>2. CASE \E k \in DOMAIN r : Top(r, k) /\ r[k] >= n
    <3>1. PICK k \in DOMAIN r : Top(r, k) /\ r[k] >= n
      BY <2>2
    <3>2. Top(a, k)
      BY <2>1, <3>1
    <3> QED
      BY <2>1, <3>2 DEF a
  <2>3. CASE \A k \in DOMAIN r : Top(r, k) => ~(r[k] >= n)
    <3>1. \A i \in DOMAIN r : r[i] <= n
      <4>1. CASE r = <<>>
        BY <4>1
      <4>2. CASE r # <<>>
        <5>1. PICK k : Top(r, k)
          BY <4>2
        <5>2. k \in DOMAIN r /\ ~(r[k] >= n) /\ \A i \in DOMAIN r : r[i] <= r[k]
          BY <2>3, <5>1
        <5> QED
          BY <2>1, <5>2
      <4> QED
        BY <4>1, <4>2
    <3>2. Top(a, m)
      BY <2>1, <3>1
    <3> QED
      BY <2>1, <3>2 DEF a
  <2> QED
    BY <2>2, <2>3
<1>3. Good = Seq(Nat)
  <2>1. Good \in SUBSET Seq(Nat)
    OBVIOUS
  <2> HIDE DEF Good
  <2> QED
    BY <1>1, <1>2, <2>1, AllSequences
<1>4. PICK k : Top(s, k)
  BY <1>3
<1> DEFINE Values == {s[i] : i \in DOMAIN s}
<1>5. s[k] \in Values /\ Values \in SUBSET Nat /\ \A n \in Values : s[k] >= n
  <2>1. \A i \in DOMAIN s : s[i] \in Nat
    OBVIOUS
  <2> QED
    BY <1>4, <2>1
<1> HIDE DEF Values
<1>6. Max(Values) \in Values
  BY <1>5 DEF Max
<1> QED
  BY <1>5, <1>6 DEF Values

\* The lesser of two numbers.
LEMMA LesserIs ==
  ASSUME NEW a \in Nat, NEW b \in Nat
  PROVE  Min({a, b}) \in Nat /\ Min({a, b}) <= a /\ Min({a, b}) <= b
<1>1. {a, b} \in SUBSET Nat /\ {a, b} # {}
  OBVIOUS
<1> QED
  BY <1>1, LeastIs

\* The rows of a sheet make a table.
LEMMA TableIs ==
  ASSUME NEW rows \in Seq(Seq(CellType))
  PROVE  Table(rows) \in TableType
<1> DEFINE lengths == [r \in DOMAIN rows |-> Len(rows[r])]
           most == Max({Len(rows[r]) : r \in DOMAIN rows})
           cols == IF rows = <<>> THEN 0 ELSE most
<1>1. Len(rows) \in Nat /\ DOMAIN rows = 1 .. Len(rows) /\ (rows # <<>> => Len(rows) # 0)
  OBVIOUS
<1>2. \A r \in DOMAIN rows : Len(rows[r]) \in Nat
  OBVIOUS
<1>3. lengths \in Seq(Nat) /\ DOMAIN lengths = DOMAIN rows
  <2>1. lengths \in [1 .. Len(rows) -> Nat]
    BY <1>1, <1>2
  <2> HIDE DEF lengths
  <2> QED
    BY <1>1, <2>1, AreSequences
<1>4. {Len(rows[r]) : r \in DOMAIN rows} = {lengths[r] : r \in DOMAIN lengths}
  OBVIOUS
<1>5. rows # <<>> => lengths # <<>>
  <2> HIDE DEF lengths
  <2> QED
    BY <1>1, <1>3
<1>6. rows # <<>> => most \in Nat
  <2> HIDE DEF lengths
  <2> QED
    BY <1>3, <1>4, <1>5, GreatestOfSequence
<1> HIDE DEF most
<1>7. cols \in Nat
  BY <1>6
<1>8. Table(rows) = TableWith(rows, Len(rows), cols)
  BY DEF Table, TableWith, most
<1> HIDE DEF cols
<1> QED
  BY <1>1, <1>7, <1>8, TableWithIs

\* Rows and cells up to the limits.
LEMMA SheetRowsAre ==
  ASSUME NEW rows \in Seq(Seq(CellType))
  PROVE  RowsRead(rows) \in Seq(Seq(CellType)) /\ SheetRows(rows) \in Seq(Seq(CellType))
<1> DEFINE n == Min({Len(rows), MaxRows})
           Width(r) == Min({Len(rows[r]), MaxColumns})
           cut == [r \in 1 .. n |-> SubSeq(rows[r], 1, Width(r))]
<1>1. MaxRows \in Nat /\ MaxColumns \in Nat /\ Len(rows) \in Nat
  BY LimitsAssumption
<1>2. n \in Nat /\ n <= Len(rows)
  BY <1>1, LesserIs
<1> HIDE DEF n
<1>3. ASSUME NEW r \in 1 .. n
      PROVE  SubSeq(rows[r], 1, Width(r)) \in Seq(CellType)
  <2> DEFINE row == rows[r]
             w == Width(r)
  <2>1. row \in Seq(CellType) /\ Len(row) \in Nat
    BY <1>1, <1>2
  <2>2. w \in Nat /\ w <= Len(row)
    BY <1>1, <2>1, LesserIs
  <2> HIDE DEF row, w
  <2>3. \A i \in 1 .. w : i \in 1 .. Len(row)
    BY <2>1, <2>2
  <2>4. 1 \in Int /\ w \in Int /\ \A i \in 1 .. w : row[i] \in CellType
    BY <2>1, <2>2, <2>3
  <2>5. SubSeq(row, 1, w) \in Seq(CellType)
    BY <2>1, <2>4, SubSeqProperties
  <2> QED
    BY <2>5 DEF row, w
<1> HIDE DEF Width
<1>4. cut \in Seq(Seq(CellType))
  <2>1. cut \in [1 .. n -> Seq(CellType)]
    BY <1>3
  <2> HIDE DEF cut
  <2> QED
    BY <1>2, <2>1, AreSequences
<1>5. RowsRead(rows) = cut /\ SheetRows(rows) = Selected(cut, IsFilledRow)
  BY DEF RowsRead, SheetRows, cut, n, Width
<1> HIDE DEF cut
<1> QED
  BY <1>4, <1>5, SelectedIs

\* The two elements of a sheet.
LEMMA SheetElementsAre ==
  ASSUME NEW n \in Nat, NEW rows \in Seq(Seq(CellType))
  PROVE  /\ [Item EXCEPT !.role = "table", !.table = Table(rows),
                         !.parts = <<<<n, "table", 1>>>>] \in ItemType
         /\ [Item EXCEPT !.role = "heading", !.size = 12,
                         !.parts = <<<<n, "name", 1>>>>] \in ItemType
<1> DEFINE role1 == "table"
           role2 == "heading"
           table == Table(rows)
           parts1 == <<<<n, "table", 1>>>>
           parts2 == <<<<n, "name", 1>>>>
<1>1. role1 \in Roles /\ role2 \in Roles /\ table \in TableType
  BY TableIs DEF Roles, TextRoles
<1>2. parts1 \in Seq(Part) /\ parts2 \in Seq(Part)
  <2> DEFINE a == <<n, "table", 1>>
             b == <<n, "name", 1>>
  <2>1. a \in Part /\ b \in Part
    BY DEF Part
  <2> HIDE DEF a, b
  <2>2. <<a>> \in Seq(Part) /\ <<b>> \in Seq(Part)
    BY <2>1
  <2> QED
    BY <2>2 DEF a, b
<1> HIDE DEF role1, role2, table, parts1, parts2
<1>3. [Item EXCEPT !.role = role1, !.table = table, !.parts = parts1] \in ItemType
  BY <1>1, <1>2, ItemIs DEF ItemType, Element
<1>4. [Item EXCEPT !.role = role2, !.size = 12, !.parts = parts2] \in ItemType
  BY <1>1, <1>2, ItemIs DEF ItemType, Element
<1>5. [Item EXCEPT !.role = "table", !.table = Table(rows),
                   !.parts = <<<<n, "table", 1>>>>] \in ItemType
  BY <1>3 DEF role1, table, parts1
<1>6. [Item EXCEPT !.role = "heading", !.size = 12,
                   !.parts = <<<<n, "name", 1>>>>] \in ItemType
  BY <1>4 DEF role2, parts2
<1> QED
  BY <1>5, <1>6

\* A single element.
LEMMA OneNumbered ==
  ASSUME NEW e \in ItemType, NEW p \in Nat, NEW first \in Nat
  PROVE  /\ Numbered(p, <<e>>, first) \in Seq(ItemType)
         /\ OfPage(Numbered(p, <<e>>, first), p) /\ Original(Numbered(p, <<e>>, first))
         /\ Distinct(Numbered(p, <<e>>, first))
         /\ \A i \in DOMAIN Numbered(p, <<e>>, first) :
               Numbered(p, <<e>>, first)[i].id[3] = first
<1> DEFINE s == <<e>>
           n == Numbered(p, s, first)
<1>1. s \in Seq(ItemType) /\ Len(s) = 1
  OBVIOUS
<1> HIDE DEF s
<1>2. /\ n \in Seq(ItemType) /\ Len(n) = Len(s) /\ OfPage(n, p) /\ Original(n) /\ Distinct(n)
      /\ \A i \in DOMAIN n : n[i].id = <<Prefix(s[i]), p, first + i - 1>>
  BY <1>1, NumberedIs
<1> HIDE DEF n
<1>3. DOMAIN n = {1}
  BY <1>1, <1>2
<1>4. n[1].id[3] = first + 1 - 1
  BY <1>2, <1>3
<1>5. \A i \in DOMAIN n : n[i].id[3] = first
  BY <1>3, <1>4
<1> QED
  BY <1>2, <1>5 DEF n, s

\* The lengths of cells are a text.
LEMMA CellSizesAre ==
  ASSUME NEW s \in Seq(CellType)
  PROVE  Sizes(s) \in Seq(Nat)
<1>1. Len(s) \in Nat /\ DOMAIN s = 1 .. Len(s) /\ \A i \in DOMAIN s : s[i] \in CellType
  OBVIOUS
<1>2. \A i \in DOMAIN s : s[i].size \in Nat
  BY <1>1 DEF CellType
<1>3. Sizes(s) \in [1 .. Len(s) -> Nat]
  BY <1>1, <1>2 DEF Sizes
<1> QED
  BY <1>1, <1>3, AreSequences

\* The page of a sheet.
LEMMA SheetIs ==
  ASSUME NEW n \in Nat, NEW sheet, sheet.rows \in Seq(Seq(CellType))
  PROVE  /\ Sheet(n, sheet) \in PageType(TableType) /\ InPlace(Sheet(n, sheet), n)
         /\ Original(Sheet(n, sheet).elements)
<1> DEFINE rows    == SheetRows(sheet.rows)
           table   == [Item EXCEPT !.role = "table", !.table = Table(rows),
                                   !.parts = <<<<n, "table", 1>>>>]
           heading == [Item EXCEPT !.role = "heading", !.size = 12,
                                   !.parts = <<<<n, "name", 1>>>>]
           cells   == Flat(RowsRead(sheet.rows))
           text    == Sizes(cells)
           h       == Numbered(n, <<heading>>, 1)
           t       == Numbered(n, <<table>>, 0)
           both    == h \o t
<1>1. rows \in Seq(Seq(CellType))
  BY SheetRowsAre
<1>2. table \in ItemType /\ heading \in ItemType
  <2> HIDE DEF rows
  <2> QED
    BY <1>1, SheetElementsAre
<1>3. cells \in Seq(CellType)
  BY SheetRowsAre, FlatIs
<1>4. text \in Seq(Nat)
  <2> HIDE DEF cells
  <2> QED
    BY <1>3, CellSizesAre
<1> HIDE DEF table, heading, text
<1>5. /\ h \in Seq(ItemType) /\ OfPage(h, n) /\ Original(h) /\ Distinct(h)
      /\ t \in Seq(ItemType) /\ OfPage(t, n) /\ Original(t) /\ Distinct(t)
      /\ \A i \in DOMAIN h : h[i].id[3] = 1
      /\ \A i \in DOMAIN t : t[i].id[3] = 0
  BY <1>2, OneNumbered
<1>6. Sheet(n, sheet) = Page(n, both, text)
  BY DEF Sheet, table, heading, text
<1> HIDE DEF h, t
<1>7. both \in Seq(ItemType) /\ OfPage(both, n) /\ Original(both)
  <2>1. /\ both \in Seq(ItemType)
        /\ \A k \in DOMAIN both : \/ k \in DOMAIN h /\ both[k] = h[k]
                                  \/ k - Len(h) \in DOMAIN t /\ both[k] = t[k - Len(h)]
    BY <1>5
  <2> HIDE DEF both
  <2> QED
    BY <1>5, <2>1 DEF OfPage, Original
<1>8. Distinct(both)
  <2>1. \A i \in DOMAIN h, j \in DOMAIN t : h[i].id # t[j].id
    BY <1>5
  <2> QED
    BY <1>5, <2>1, DistinctTogether
<1> HIDE DEF both
<1> QED
  BY <1>4, <1>6, <1>7, <1>8, NewPage

\* XlsxPreprocessor.
LEMMA XlsxIs ==
  ASSUME NEW f, f.pages \in Seq(PagesOf("xlsx"))
  PROVE  Makes(ExtractXlsx(f), Originals)
<1> DEFINE pages == [n \in DOMAIN f.pages |-> Sheet(n, f.pages[n])]
<1>1. Len(f.pages) \in Nat /\ DOMAIN f.pages = 1 .. Len(f.pages)
  OBVIOUS
<1>2. ASSUME NEW n \in 1 .. Len(f.pages)
      PROVE  /\ Sheet(n, f.pages[n]) \in PageType(TableType)
             /\ InPlace(Sheet(n, f.pages[n]), n)
             /\ Original(Sheet(n, f.pages[n]).elements)
  <2>1. n \in Nat /\ f.pages[n] \in PagesOf("xlsx")
    BY <1>1
  <2>2. f.pages[n].rows \in Seq(Seq(CellType))
    BY <2>1 DEF PagesOf
  <2> QED
    BY <2>1, <2>2, SheetIs
<1>3. pages \in Originals
  <2>1. /\ pages = [n \in 1 .. Len(f.pages) |-> pages[n]]
        /\ \A n \in 1 .. Len(f.pages) : pages[n] = Sheet(n, f.pages[n])
    BY <1>1
  <2> HIDE DEF pages
  <2> QED
    BY <1>1, <1>2, <2>1, PagesAre
<1> DEFINE chars == Total([n \in DOMAIN f.pages |-> CellChars(f.pages[n])])
<1>4. ExtractXlsx(f) = [Document(TitleOf(f), pages, Len(f.pages)) EXCEPT !.chars = chars]
  BY DEF ExtractXlsx
<1> HIDE DEF pages, chars
<1> QED
  BY <1>3, <1>4, DocumentHas DEF Makes

\* A block of the text layer.
LEMMA PdfBlockIs ==
  ASSUME NEW b, b.item \in ItemType, b.lines \in Seq(Nat)
  PROVE  PdfBlock(b) \in ItemType
<1> DEFINE size == LengthOf(b.lines, 1)
           level == IF size < 60 THEN 2 ELSE 3
           role1 == "paragraph"
           role2 == "heading"
<1>1. role1 \in Roles /\ role2 \in Roles /\ level \in Nat /\ size \in Nat
  BY LengthIs DEF Roles, TextRoles
<1>2. PdfBlock(b) \in {[b.item EXCEPT !.role = role1, !.size = size],
                       [b.item EXCEPT !.role = role2, !.size = size, !.level = level]}
  BY DEF PdfBlock
<1> HIDE DEF level, size, role1, role2
<1>3. [b.item EXCEPT !.role = role1, !.size = size] \in ItemType
  BY <1>1 DEF ItemType, Element
<1>4. [b.item EXCEPT !.role = role2, !.size = size, !.level = level] \in ItemType
  BY <1>1 DEF ItemType, Element
<1> QED
  BY <1>2, <1>3, <1>4

\* A page of a PDF.
LEMMA PdfPageIs ==
  ASSUME NEW n \in Nat, NEW page \in PagesOf("pdf")
  PROVE  /\ PdfPage(n, page) \in PageType(TableType) /\ InPlace(PdfPage(n, page), n)
         /\ Original(PdfPage(n, page).elements)
<1> DEFINE tables == Selected(page.tables, HasRows)
           texts  == [i \in DOMAIN page.blocks |-> PdfBlock(page.blocks[i])]
           items  == tables \o page.pictures \o texts
           lines  == [i \in DOMAIN page.blocks |-> page.blocks[i].lines]
           text   == Apart(lines)
           Blks   == [lines : Seq(Nat), item : ItemType]
<1>1. /\ page.tables \in Seq(ItemType) /\ page.pictures \in Seq(ItemType)
      /\ page.blocks \in Seq(Blks)
  BY DEF PagesOf
<1>2. tables \in Seq(ItemType)
  BY <1>1, SelectedIs
<1>3. texts \in Seq(ItemType)
  <2>1. Len(page.blocks) \in Nat /\ DOMAIN page.blocks = 1 .. Len(page.blocks)
    BY <1>1
  <2>2. ASSUME NEW i \in DOMAIN page.blocks
        PROVE  PdfBlock(page.blocks[i]) \in ItemType
    <3>1. page.blocks[i] \in Blks
      <4> HIDE DEF tables, texts, items, text, lines, Blks
      <4> QED
        BY <1>1
    <3>2. page.blocks[i].item \in ItemType /\ page.blocks[i].lines \in Seq(Nat)
      BY <3>1
    <3> QED
      BY <3>2, PdfBlockIs
  <2>3. texts \in [1 .. Len(page.blocks) -> ItemType]
    BY <2>1, <2>2
  <2> HIDE DEF texts
  <2> QED
    BY <2>1, <2>3, AreSequences
<1>6. lines \in Seq(Seq(Nat))
  <2>1. Len(page.blocks) \in Nat /\ DOMAIN page.blocks = 1 .. Len(page.blocks)
    BY <1>1
  <2>2. ASSUME NEW i \in DOMAIN page.blocks
        PROVE  page.blocks[i].lines \in Seq(Nat)
    <3>1. page.blocks[i] \in Blks
      <4> HIDE DEF tables, texts, items, text, lines, Blks
      <4> QED
        BY <1>1
    <3> QED
      BY <3>1
  <2>3. lines \in [1 .. Len(page.blocks) -> Seq(Nat)]
    BY <2>1, <2>2
  <2> HIDE DEF lines
  <2> QED
    BY <2>1, <2>3, AreSequences
<1> HIDE DEF tables, texts
<1>4. items \in Seq(ItemType) /\ text \in Seq(Nat)
  <2>1. items \in Seq(ItemType)
    BY <1>1, <1>2, <1>3
  <2> HIDE DEF lines
  <2> QED
    BY <1>6, <2>1, ApartIs
<1>5. PdfPage(n, page) = Page(n, Numbered(n, items, 0), text)
  BY DEF PdfPage, tables, texts
<1> HIDE DEF items, text
<1> QED
  BY <1>4, <1>5, NumberedPage

\* PdfPreprocessor: pages up to the limit.
LEMMA PdfIs ==
  ASSUME NEW f, f.pages \in Seq(PagesOf("pdf"))
  PROVE  Makes(ExtractPdf(f), Originals) /\ Len(ExtractPdf(f).pages) <= Len(f.pages)
<1> DEFINE total == Min({Len(f.pages), MaxPages})
           pages == [n \in 1 .. total |-> PdfPage(n, f.pages[n])]
           scan == f.sample < 50
<1>1. /\ Len(f.pages) \in Nat /\ MaxPages \in Nat
      /\ \A n \in 1 .. Len(f.pages) : f.pages[n] \in PagesOf("pdf")
  BY LimitsAssumption
<1>2. total \in Nat /\ total <= Len(f.pages)
  BY <1>1, LesserIs
<1>3. ExtractPdf(f) = [Document(TitleOf(f), pages, total) EXCEPT !.scanned = scan]
  BY DEF ExtractPdf
<1> HIDE DEF total
<1>4. ASSUME NEW n \in 1 .. total
      PROVE  /\ PdfPage(n, f.pages[n]) \in PageType(TableType)
             /\ InPlace(PdfPage(n, f.pages[n]), n)
             /\ Original(PdfPage(n, f.pages[n]).elements)
  <2>1. n \in Nat /\ n \in 1 .. Len(f.pages)
    BY <1>1, <1>2
  <2> QED
    BY <1>1, <2>1, PdfPageIs
<1>5. pages \in Originals /\ Len(pages) = total
  <2>1. /\ pages = [n \in 1 .. total |-> pages[n]]
        /\ \A n \in 1 .. total : pages[n] = PdfPage(n, f.pages[n])
    OBVIOUS
  <2> HIDE DEF pages
  <2>2. pages \in Originals
    BY <1>2, <1>4, <2>1, PagesAre
  <2>3. pages \in Seq(PageType(TableType)) /\ DOMAIN pages = 1 .. total
    BY <2>1, <2>2 DEF Originals, Extractions
  <2> QED
    BY <1>2, <2>2, <2>3
<1> HIDE DEF pages, scan
<1>6. "pages" \in DOMAIN ExtractPdf(f) /\ ExtractPdf(f).pages = pages
  BY <1>3, DocumentHas
<1> QED
  BY <1>2, <1>5, <1>6 DEF Makes

\* What recognition makes of a page.
LEMMA TextAndOcrIs ==
  ASSUME NEW s \in Seq(Nat), NEW t \in Seq(Nat)
  PROVE  TextAndOcr(s, t) \in Seq(Nat)
<1>1. CASE s = <<>> \/ t = <<>>
  BY <1>1 DEF TextAndOcr
<1>2. CASE s # <<>> /\ t # <<>>
  <2> DEFINE both == Last(s) + Head(t)
             front == Front(s)
  <2>1. front \in Seq(Nat) /\ both \in Nat /\ Tail(t) \in Seq(Nat)
    <3>1. Last(s) \in Nat /\ Front(s) \in Seq(Nat) /\ Head(t) \in Nat
      BY <1>2, LastOf
    <3>2. Tail(t) \in Seq(Nat)
      BY <1>2
    <3> QED
      BY <3>1, <3>2
  <2>2. TextAndOcr(s, t) = front \o <<both>> \o Tail(t)
    BY <1>2 DEF TextAndOcr
  <2> HIDE DEF both, front
  <2> QED
    BY <2>1, <2>2
<1> QED
  BY <1>1, <1>2

\* The text of paragraphs.
LEMMA OcrTextIs ==
  ASSUME NEW s \in Seq(ItemType)
  PROVE  OcrText(s) \in Seq(Nat)
<1> DEFINE texts == [i \in DOMAIN s |-> <<s[i].size>>]
<1>1. Len(s) \in Nat /\ DOMAIN s = 1 .. Len(s) /\ \A i \in DOMAIN s : s[i] \in ItemType
  OBVIOUS
<1>2. \A i \in DOMAIN s : s[i].size \in Nat
  BY <1>1 DEF ItemType, Element
<1>3. \A i \in DOMAIN s : <<s[i].size>> \in Seq(Nat)
  BY <1>2
<1>4. texts \in [1 .. Len(s) -> Seq(Nat)]
  BY <1>1, <1>3
<1>5. OcrText(s) = Apart(texts)
  BY DEF OcrText
<1> HIDE DEF texts
<1> QED
  BY <1>1, <1>4, <1>5, AreSequences, ApartIs

\* A page with what recognition found put behind what was there.
LEMMA OcrPageIs ==
  ASSUME NEW p \in Nat, NEW page \in PageType(TableType), InPlace(page, p),
         Original(page.elements), NEW found \in Seq(ItemType)
  PROVE  OcrPage(page, found) \in PageType(TableType) /\ InPlace(OcrPage(page, found), p)
<1> DEFINE s == page.elements
           t == OcrElements(page.number, found, Len(s))
           both == s \o t
           text == TextAndOcr(page.text, OcrText(found))
           yes == TRUE
           d == [page EXCEPT !.scanned = yes, !.elements = both, !.text = text]
<1>1. /\ s \in Seq(ItemType) /\ page.text \in Seq(Nat) /\ page.number = p
      /\ OfPage(s, p) /\ Distinct(s)
  BY DEF PageType, ItemType, InPlace
<1>2. OcrPage(page, found) = d
  BY DEF OcrPage
<1>3. yes \in BOOLEAN
  OBVIOUS
<1>4. /\ t \in Seq(ItemType) /\ OfPage(t, p) /\ Distinct(t)
      /\ \A i \in DOMAIN t : t[i].id[1] = "ocr"
  <2>1. Len(s) \in Nat
    BY <1>1
  <2> HIDE DEF s
  <2> QED
    BY <1>1, <2>1, OcrElementsAre
<1>5. text \in Seq(Nat)
  BY <1>1, OcrTextIs, TextAndOcrIs
<1>6. Original(s)
  OBVIOUS
<1> HIDE DEF s, t, text, yes
<1>7. both \in Seq(ItemType) /\ OfPage(both, p)
  <2>1. /\ both \in Seq(ItemType)
        /\ \A k \in DOMAIN both : \/ k \in DOMAIN s /\ both[k] = s[k]
                                  \/ k - Len(s) \in DOMAIN t /\ both[k] = t[k - Len(s)]
    BY <1>1, <1>4
  <2> HIDE DEF both
  <2> QED
    BY <1>1, <1>4, <2>1 DEF OfPage
<1>8. Distinct(both)
  <2>1. \A i \in DOMAIN s, j \in DOMAIN t : s[i].id # t[j].id
    BY <1>4, <1>6 DEF Original
  <2> QED
    BY <1>1, <1>4, <2>1, DistinctTogether
<1> HIDE DEF both
<1>9. d \in PageType(TableType)
  BY <1>3, <1>5, <1>7 DEF PageType, ItemType
<1>10. d.number = p /\ d.elements = both
  BY <1>1 DEF PageType
<1> HIDE DEF d
<1> QED
  BY <1>2, <1>7, <1>8, <1>9, <1>10 DEF InPlace

\* ImagePreprocessor.
LEMMA ImageIs ==
  ASSUME NEW f, f.pages \in Seq(PagesOf("image")), Len(f.pages) = 1
  PROVE  Makes(ExtractImage(f), Extractions)
<1> DEFINE found == f.pages[1].ocr
           s == OcrElements(1, found, 0)
           blank == Page(1, s, OcrText(found))
           yes == TRUE
           page == [blank EXCEPT !.scanned = yes]
<1>1. found \in Seq(ItemType)
  <2>1. f.pages[1] \in PagesOf("image")
    OBVIOUS
  <2> QED
    BY <2>1 DEF PagesOf
<1>2. ExtractImage(f) = [Document(<<>>, <<page>>, 1) EXCEPT !.scanned = TRUE]
  BY DEF ExtractImage
<1>3. yes \in BOOLEAN
  OBVIOUS
<1> HIDE DEF found, yes
<1>4. s \in Seq(ItemType) /\ OfPage(s, 1) /\ Distinct(s)
  BY <1>1, OcrElementsAre
<1> HIDE DEF s
<1>5. blank \in PageType(TableType) /\ InPlace(blank, 1) /\ blank.elements = s
  BY <1>1, <1>4, OcrTextIs, NewPage
<1> HIDE DEF blank
<1>6. page \in PageType(TableType) /\ page.number = blank.number /\ page.elements = blank.elements
  <2>1. page \in PageType(TableType)
    BY <1>3, <1>5 DEF PageType
  <2>2. page.number = blank.number /\ page.elements = blank.elements
    BY <1>5 DEF PageType
  <2> QED
    BY <2>1, <2>2
<1> HIDE DEF page
<1>7. <<page>> \in Extractions
  <2>1. InPlace(page, 1)
    BY <1>5, <1>6 DEF InPlace
  <2> QED
    BY <1>6, <2>1, OnePage
<1> QED
  BY <1>2, <1>7, DocumentHas DEF Makes

-----------------------------------------------------------------------------
(* The stages.                                                             *)

\* A file that could not be read has no pages.
LEMMA NoPages == <<>> \in Originals
<1> DEFINE none == <<>>
<1>1. none \in Seq(PageType(TableType)) /\ DOMAIN none = {}
  OBVIOUS
<1> HIDE DEF none
<1>2. none \in Originals
  BY <1>1 DEF Originals, Extractions
<1> QED
  BY <1>2 DEF none

\* The files tried are files.
LEMMA AFile ==
  ASSUME NEW f \in Files, f.format # NoFormat
  PROVE  \/ f.format \in LineFormats /\ f.lines \in Seq(DOMAIN LineSize)
         \/ /\ f.format \in PageFormats /\ f.pages \in Seq(PagesOf(f.format))
            /\ f.format \in {"docx", "image"} => Len(f.pages) = 1
BY FilesAssumption DEF IsFile

\* Every preprocessor makes pages in their places; those of a PDF are no more than the file
\* has, and have no elements from recognition yet.
LEMMA ExtractIs ==
  ASSUME NEW f \in Files, f.format # NoFormat
  PROVE  /\ Makes(Extract(f), Extractions)
         /\ f.format = "pdf" => /\ Makes(Extract(f), Originals)
                                /\ f.pages \in Seq(PagesOf("pdf"))
                                /\ Len(Extract(f).pages) <= Len(f.pages)
<1>1. \A d : Makes(d, Originals) => Makes(d, Extractions)
  BY DEF Makes, Originals
<1>2. CASE f.format = "md"
  <2>1. f.lines \in Seq(DOMAIN LineSize) /\ Extract(f) = ExtractMarkdown(f)
    BY <1>2, AFile DEF LineFormats, PageFormats, Extract
  <2> QED
    BY <1>1, <1>2, <2>1, MarkdownIs
<1>3. CASE f.format = "txt"
  <2>1. f.lines \in Seq(DOMAIN LineSize) /\ Extract(f) = ExtractTxt(f)
    BY <1>3, AFile DEF LineFormats, PageFormats, Extract
  <2> QED
    BY <1>1, <1>3, <2>1, TxtIs
<1>4. CASE f.format = "docx"
  <2>1. f.pages \in Seq(PagesOf("docx")) /\ Len(f.pages) = 1 /\ Extract(f) = ExtractDocx(f)
    BY <1>4, AFile DEF LineFormats, PageFormats, Extract
  <2> QED
    BY <1>1, <1>4, <2>1, DocxIs
<1>5. CASE f.format = "pptx"
  <2>1. f.pages \in Seq(PagesOf("pptx")) /\ Extract(f) = ExtractPptx(f)
    BY <1>5, AFile DEF LineFormats, PageFormats, Extract
  <2> QED
    BY <1>1, <1>5, <2>1, PptxIs
<1>6. CASE f.format = "xlsx"
  <2>1. f.pages \in Seq(PagesOf("xlsx")) /\ Extract(f) = ExtractXlsx(f)
    BY <1>6, AFile DEF LineFormats, PageFormats, Extract
  <2> QED
    BY <1>1, <1>6, <2>1, XlsxIs
<1>7. CASE f.format = "pdf"
  <2>1. f.pages \in Seq(PagesOf("pdf")) /\ Extract(f) = ExtractPdf(f)
    BY <1>7, AFile DEF LineFormats, PageFormats, Extract
  <2> QED
    BY <1>1, <1>7, <2>1, PdfIs
<1>8. CASE f.format = "image"
  <2>1. f.pages \in Seq(PagesOf("image")) /\ Len(f.pages) = 1 /\ Extract(f) = ExtractImage(f)
    BY <1>8, AFile DEF LineFormats, PageFormats, Extract
  <2> QED
    BY <1>8, <2>1, ImageIs
<1> QED
  BY <1>2, <1>3, <1>4, <1>5, <1>6, <1>7, <1>8, AFile DEF LineFormats, PageFormats

\* Tables before and behind the element stage.
AnyTable == TableType \cup {ProcessTable(t) : t \in TableType}

\* The pages of a document behind the element stage, and behind the cleaners.
Processings ==
  {pages \in Seq(PageType(AnyTable)) : \A p \in DOMAIN pages : InPlace(pages[p], p)}

Cleanings ==
  {pages \in Processings :
     \A p \in DOMAIN pages : \A i \in DOMAIN pages[p].elements : Kept(pages[p].elements[i])}

\* The element stage changes tables and leaves the rest.
LEMMA ProcessedElements ==
  ASSUME NEW s \in Seq(ItemType)
  PROVE  /\ Processed(s) \in Seq(Element(AnyTable)) /\ DOMAIN Processed(s) = DOMAIN s
         /\ \A i \in DOMAIN s : /\ Processed(s)[i].id = s[i].id
                               /\ Processed(s)[i].role = s[i].role
<1> DEFINE Do(e) == IF e.role = "table" THEN [e EXCEPT !.table = ProcessTable(@)] ELSE e
<1>1. ASSUME NEW e \in ItemType
      PROVE  Do(e) \in Element(AnyTable) /\ Do(e).id = e.id /\ Do(e).role = e.role
  <2>1. CASE e.role # "table"
    <3>1. TableType \subseteq AnyTable
      BY DEF AnyTable
    <3>2. e \in Element(AnyTable)
      BY <3>1 DEF ItemType, Element
    <3> QED
      BY <2>1, <3>2
  <2>2. CASE e.role = "table"
    <3> DEFINE t == ProcessTable(e.table)
               d == [e EXCEPT !.table = t]
    <3>1. e.table \in TableType
      BY DEF ItemType, Element
    <3>2. t \in AnyTable
      BY <3>1 DEF AnyTable
    <3> HIDE DEF t
    <3>3. d \in Element(AnyTable)
      BY <3>2 DEF ItemType, Element
    <3>4. d.id = e.id /\ d.role = e.role
      BY DEF ItemType, Element
    <3>5. Do(e) = d
      BY <2>2 DEF t
    <3> HIDE DEF d, Do
    <3> QED
      BY <3>3, <3>4, <3>5
  <2> QED
    BY <2>1, <2>2
<1>2. Len(s) \in Nat /\ DOMAIN s = 1 .. Len(s) /\ \A i \in DOMAIN s : s[i] \in ItemType
  OBVIOUS
<1>3. Processed(s) = [i \in DOMAIN s |-> Do(s[i])]
  BY DEF Processed
<1> HIDE DEF Do
<1>4. Processed(s) \in [1 .. Len(s) -> Element(AnyTable)]
  BY <1>1, <1>2, <1>3
<1>5. \A i \in DOMAIN s : Processed(s)[i].id = s[i].id /\ Processed(s)[i].role = s[i].role
  BY <1>1, <1>2, <1>3
<1> QED
  BY <1>2, <1>4, <1>5, AreSequences

\* A page whose elements are replaced.
LEMMA WithElements ==
  ASSUME NEW Tabs, NEW Tabs2, NEW page \in PageType(Tabs), NEW s \in Seq(Element(Tabs2)),
         NEW p, InPlace(page, p), OfPage(s, p), Distinct(s)
  PROVE  /\ [page EXCEPT !.elements = s] \in PageType(Tabs2)
         /\ InPlace([page EXCEPT !.elements = s], p)
         /\ [page EXCEPT !.elements = s].elements = s
<1> DEFINE d == [page EXCEPT !.elements = s]
<1>1. d \in PageType(Tabs2)
  BY DEF PageType
<1>2. d.elements = s /\ d.number = page.number
  BY DEF PageType
<1> HIDE DEF d
<1>3. InPlace(d, p)
  BY <1>2 DEF InPlace
<1> QED
  BY <1>1, <1>2, <1>3 DEF d

\* The pages behind the element stage.
LEMMA ProcessedAre ==
  ASSUME NEW pages \in Extractions
  PROVE  ProcessedPages(pages) \in Processings
<1> DEFINE Do(page) == [page EXCEPT !.elements = Processed(@)]
           new == [p \in DOMAIN pages |-> Do(pages[p])]
           m == Len(pages)
<1>1. /\ pages \in Seq(PageType(TableType)) /\ m \in Nat /\ DOMAIN pages = 1 .. m
      /\ \A p \in 1 .. m : pages[p] \in PageType(TableType) /\ InPlace(pages[p], p)
  BY DEF Extractions
<1>2. ProcessedPages(pages) = new
  BY DEF ProcessedPages
<1> HIDE DEF m
<1>3. ASSUME NEW p \in 1 .. m
      PROVE  Do(pages[p]) \in PageType(AnyTable) /\ InPlace(Do(pages[p]), p)
  <2> DEFINE page == pages[p]
             s == page.elements
             t == Processed(s)
  <2>1. page \in PageType(TableType) /\ InPlace(page, p)
    BY <1>1
  <2> HIDE DEF page
  <2>2. s \in Seq(ItemType) /\ OfPage(s, p) /\ Distinct(s)
    BY <2>1 DEF PageType, ItemType, InPlace
  <2>5. Do(page) = [page EXCEPT !.elements = t]
    OBVIOUS
  <2> HIDE DEF s
  <2>3. /\ t \in Seq(Element(AnyTable)) /\ DOMAIN t = DOMAIN s
        /\ \A i \in DOMAIN s : t[i].id = s[i].id
    BY <2>2, ProcessedElements
  <2> HIDE DEF t
  <2>4. OfPage(t, p) /\ Distinct(t)
    BY <2>2, <2>3 DEF OfPage, Distinct
  <2> HIDE DEF Do
  <2>6. Do(page) \in PageType(AnyTable) /\ InPlace(Do(page), p)
    BY <2>1, <2>3, <2>4, <2>5, WithElements
  <2> QED
    BY <2>6 DEF page
<1>4. new \in Processings
  <2> HIDE DEF Do
  <2>1. new \in [1 .. m -> PageType(AnyTable)] /\ \A p \in 1 .. m : new[p] = Do(pages[p])
    BY <1>1, <1>3
  <2> HIDE DEF new
  <2>2. new \in Seq(PageType(AnyTable)) /\ DOMAIN new = 1 .. m
    BY <1>1, <2>1, AreSequences DEF m
  <2> QED
    BY <1>3, <2>1, <2>2 DEF Processings
<1> HIDE DEF new
<1> QED
  BY <1>2, <1>4

\* A sequence with one more element.
LEMMA OneMoreIs ==
  ASSUME NEW V, NEW n \in Nat, NEW f \in [1 .. n + 1 -> V], NEW g \in [1 .. n -> V],
         \A p \in 1 .. n : f[p] = g[p]
  PROVE  g \in Seq(V) /\ Len(g) = n /\ f = Append(g, f[n + 1])
<1> DEFINE a == Append(g, f[n + 1])
<1>1. g \in Seq(V) /\ Len(g) = n
  BY AreSequences
<1>2. f[n + 1] \in V
  OBVIOUS
<1>3. DOMAIN a = 1 .. n + 1 /\ a[n + 1] = f[n + 1] /\ \A p \in 1 .. n : a[p] = g[p]
  BY <1>1, <1>2
<1>4. a = [p \in 1 .. n + 1 |-> a[p]]
  BY <1>1, <1>2
<1> HIDE DEF a
<1>5. \A p \in 1 .. n + 1 : p \in 1 .. n \/ p = n + 1
  OBVIOUS
<1>6. f = a
  BY <1>3, <1>4, <1>5
<1> QED
  BY <1>1, <1>6 DEF a

\* A sequence that is not empty, taken apart at its end.
LEMMA LastApart ==
  ASSUME NEW E, NEW t \in Seq(E), NEW n \in Nat, Len(t) = n + 1
  PROVE  /\ Front(t) \in Seq(E) /\ Len(Front(t)) = n /\ t = Append(Front(t), t[n + 1])
         /\ t[n + 1] \in E /\ Last(t) = t[n + 1] /\ \A i \in 1 .. n : Front(t)[i] = t[i]
<1> DEFINE f == Front(t)
<1>1. DOMAIN t = 1 .. n + 1 /\ \A i \in 1 .. n + 1 : t[i] \in E
  OBVIOUS
<1>2. f \in Seq(E) /\ Len(f) = n /\ \A i \in 1 .. n : f[i] = t[i]
  <2>1. /\ 1 \in Int /\ n \in Int /\ \A i \in 1 .. n : t[i] \in E
        /\ Len(t) - 1 = n
    BY <1>1
  <2>2. /\ SubSeq(t, 1, n) \in Seq(E)
        /\ Len(SubSeq(t, 1, n)) = IF 1 <= n THEN n - 1 + 1 ELSE 0
        /\ \A i \in 1 .. n - 1 + 1 : SubSeq(t, 1, n)[i] = t[1 + i - 1]
    BY <2>1, SubSeqProperties
  <2>3. n - 1 + 1 = n /\ \A i \in 1 .. n : 1 + i - 1 = i
    OBVIOUS
  <2>4. Len(SubSeq(t, 1, n)) = n
    <3>1. \A k \in Nat : (IF 1 <= k THEN k - 1 + 1 ELSE 0) = k
      OBVIOUS
    <3> QED
      BY <2>2, <3>1
  <2>5. f = SubSeq(t, 1, n)
    BY <2>1 DEF Front
  <2> QED
    BY <2>2, <2>3, <2>4, <2>5
<1>3. n + 1 \in 1 .. n + 1 /\ Last(t) = t[n + 1]
  BY DEF Last
<1> HIDE DEF f
<1>4. t \in [1 .. n + 1 -> E] /\ f \in [1 .. n -> E] /\ \A i \in 1 .. n : t[i] = f[i]
  BY <1>1, <1>2
<1>5. t = Append(f, t[n + 1])
  BY <1>2, <1>4, OneMoreIs
<1> QED
  BY <1>1, <1>2, <1>3, <1>5 DEF f

\* The same for numbers.
LEMMA LastNumber ==
  ASSUME NEW t \in Seq(Nat), NEW n \in Nat, Len(t) = n + 1
  PROVE  /\ Front(t) \in Seq(Nat) /\ Len(Front(t)) = n /\ t = Append(Front(t), t[n + 1])
         /\ t[n + 1] \in Nat /\ Last(t) = t[n + 1] /\ \A i \in 1 .. n : Front(t)[i] = t[i]
<1> DEFINE E == Nat
<1>1. t \in Seq(E)
  OBVIOUS
<1> HIDE DEF E
<1>2. /\ Front(t) \in Seq(E) /\ Len(Front(t)) = n /\ t = Append(Front(t), t[n + 1])
      /\ t[n + 1] \in E /\ Last(t) = t[n + 1] /\ \A i \in 1 .. n : Front(t)[i] = t[i]
  BY <1>1, LastApart
<1> QED
  BY <1>2 DEF E

\* BasicCleaner makes a text of a text.
LEMMA RewrittenIs ==
  ASSUME NEW text \in Seq(Nat), NEW repeated
  PROVE  Rewritten(text, repeated) \in Seq(Nat)
<1> DEFINE lines == WithoutRepeats(text, repeated)
           V == Seq(Nat)
           none == <<>>
<1>1. none \in V
  OBVIOUS
<1>2. \A kept \in V : \A line \in Nat : Append(kept, line) \in V
  OBVIOUS
<1> HIDE DEF V, none
<1>3. \A kept \in V : \A line \in Nat : OrRepeated(kept, line) \in V
  BY <1>2 DEF OrRepeated
<1>4. \A kept \in V : \A line \in Nat : OrEmpty(kept, line) \in V
  BY <1>2 DEF OrEmpty
<1>5. Again!Fold(none, text) \in V
  BY <1>1, <1>3, Again!OfType
<1>6. Empty!Fold(none, text) \in V
  BY <1>1, <1>4, Empty!OfType
<1>7. lines \in Seq(Nat)
  BY <1>5, <1>6, TheRewriting DEF V, none
<1>8. Rewritten(text, repeated) = IF lines # <<>> /\ Last(lines) = 0 THEN Front(lines) ELSE lines
  BY DEF Rewritten
<1> HIDE DEF lines
<1>9. lines # <<>> => Front(lines) \in Seq(Nat)
  <2> SUFFICES ASSUME lines # <<>>
               PROVE  Front(lines) \in Seq(Nat)
    OBVIOUS
  <2>1. Len(lines) \in Nat /\ Len(lines) # 0
    BY <1>7, EmptySeq
  <2>2. Len(lines) - 1 \in Nat /\ Len(lines) = (Len(lines) - 1) + 1
    BY <2>1
  <2> QED
    BY <1>7, <2>2, LastNumber
<1> QED
  BY <1>7, <1>8, <1>9

\* A page that went through the cleaners.
LEMMA CleanedPageIs ==
  ASSUME NEW page \in PageType(AnyTable), NEW p, InPlace(page, p), NEW repeated
  PROVE  LET new == CleanedPage(page, repeated)
         IN  /\ new \in PageType(AnyTable) /\ InPlace(new, p)
             /\ new.elements = Cleaned(page.elements) /\ new.scanned = page.scanned
             /\ \A i \in DOMAIN new.elements : Kept(new.elements[i])
<1> DEFINE s == page.elements
           t == Cleaned(s)
           text == Rewritten(page.text, repeated)
           new == CleanedPage(page, repeated)
<1>1. s \in Seq(Element(AnyTable)) /\ OfPage(s, p) /\ Distinct(s) /\ page.text \in Seq(Nat)
  BY DEF PageType, InPlace
<1>2. new = [page EXCEPT !.elements = t, !.text = text, !.eol = 1]
  BY DEF CleanedPage
<1>3. text \in Seq(Nat)
  BY <1>1, RewrittenIs
<1> HIDE DEF s, text, new
<1>4. t \in Seq(Element(AnyTable)) /\ Stays(t, s) /\ \A i \in DOMAIN t : Kept(t[i])
  BY <1>1, CleanedIs
<1> HIDE DEF t
<1>5. \A k \in DOMAIN t : \E i \in DOMAIN s : Kin(t[k], s[i])
  BY <1>4 DEF Stays, From
<1>6. OfPage(t, p)
  BY <1>1, <1>5 DEF OfPage, Kin
<1>7. Distinct(t)
  BY <1>1, <1>4 DEF Stays
<1>8. new \in PageType(AnyTable)
  BY <1>2, <1>3, <1>4 DEF PageType
<1>9. new.elements = t /\ new.number = page.number /\ new.scanned = page.scanned
  BY <1>2 DEF PageType
<1>10. InPlace(new, p)
  BY <1>6, <1>7, <1>9 DEF InPlace
<1> QED
  BY <1>4, <1>8, <1>9, <1>10 DEF new, t, s

\* The pages behind the cleaners.
LEMMA CleanedAre ==
  ASSUME NEW pages \in Processings, NEW repeated
  PROVE  CleanedPages(pages, repeated) \in Cleanings
<1> DEFINE new == CleanedPages(pages, repeated)
           m == Len(pages)
<1>1. /\ pages \in Seq(PageType(AnyTable)) /\ m \in Nat /\ DOMAIN pages = 1 .. m
      /\ \A p \in 1 .. m : pages[p] \in PageType(AnyTable) /\ InPlace(pages[p], p)
  BY DEF Processings
<1>2. new = [p \in 1 .. m |-> CleanedPage(pages[p], p \in repeated)]
  BY <1>1 DEF CleanedPages
<1> HIDE DEF new, m
<1>3. ASSUME NEW p \in 1 .. m
      PROVE  /\ new[p] \in PageType(AnyTable) /\ InPlace(new[p], p)
             /\ \A i \in DOMAIN new[p].elements : Kept(new[p].elements[i])
  <2>1. new[p] = CleanedPage(pages[p], p \in repeated)
    BY <1>2
  <2> QED
    BY <1>1, <2>1, CleanedPageIs
<1>4. new \in [1 .. m -> PageType(AnyTable)]
  BY <1>2, <1>3
<1>5. new \in Seq(PageType(AnyTable)) /\ DOMAIN new = 1 .. m
  BY <1>1, <1>4, AreSequences
<1>6. new \in Processings
  BY <1>3, <1>5 DEF Processings
<1>7. new \in Cleanings
  BY <1>3, <1>5, <1>6 DEF Cleanings
<1> QED
  BY <1>7 DEF new

\* Recognition of page n of a document that has been extracted.
LEMMA RecognisedPages ==
  ASSUME NEW pages \in Extractions, NEW n \in DOMAIN pages, Original(pages[n].elements),
         NEW found \in Seq(ItemType)
  PROVE  LET more == [pages EXCEPT ![n] = OcrPage(@, found)]
         IN  /\ more \in Extractions /\ Len(more) = Len(pages) /\ DOMAIN more = DOMAIN pages
             /\ \A p \in DOMAIN pages : p # n => more[p] = pages[p]
<1> DEFINE new == OcrPage(pages[n], found)
           more == [pages EXCEPT ![n] = new]
           m == Len(pages)
<1>1. /\ pages \in Seq(PageType(TableType)) /\ m \in Nat /\ DOMAIN pages = 1 .. m
      /\ \A p \in 1 .. m : pages[p] \in PageType(TableType) /\ InPlace(pages[p], p)
  BY DEF Extractions
<1>2. new \in PageType(TableType) /\ InPlace(new, n)
  <2>1. n \in Nat /\ pages[n] \in PageType(TableType) /\ InPlace(pages[n], n)
    BY <1>1
  <2> QED
    BY <2>1, OcrPageIs
<1> HIDE DEF new
<1>3. /\ more \in Seq(PageType(TableType)) /\ DOMAIN more = 1 .. m /\ Len(more) = m
      /\ more[n] = new /\ \A p \in 1 .. m : p # n => more[p] = pages[p]
  BY <1>1, <1>2
<1>4. [pages EXCEPT ![n] = OcrPage(@, found)] = more
  BY DEF new
<1> HIDE DEF more
<1>5. more \in Extractions
  BY <1>1, <1>2, <1>3 DEF Extractions
<1> HIDE DEF m
<1> QED
  BY <1>1, <1>3, <1>4, <1>5 DEF m

-----------------------------------------------------------------------------
(* The inductive invariant.                                                *)

\* Until the element stage the pages are as preprocessors and recognition make them, then
\* their tables are processed, and then no noise is left.
PagesInv ==
  /\ "pages" \in DOMAIN doc
  /\ stage \in {"parse", "ocr", "elements", "failed"} => doc.pages \in Extractions
  /\ stage = "clean" => doc.pages \in Processings
  /\ stage \in {"validate", "generate", "done"} => doc.pages \in Cleanings

\* Pages that are yet to be recognised have no elements from recognition.
OcrInv ==
  /\ "next" \in DOMAIN ocr /\ ocr.next \in Nat \ {0}
  /\ stage = "ocr" =>
       /\ file.pages \in Seq(PagesOf("pdf")) /\ Len(doc.pages) <= Len(file.pages)
       /\ \A p \in DOMAIN doc.pages : p >= ocr.next => Original(doc.pages[p].elements)

\* The verdict is about the document as it stays.
VerdictInv == passed => stage \in {"generate", "done"} /\ Passed(doc)

DocumentInv ==
  /\ file \in Files
  /\ stage \in {"parse", "ocr", "elements", "clean", "validate", "generate", "done", "failed"}
  /\ PagesInv /\ OcrInv /\ VerdictInv

\* A document begins empty.
LEMMA InvInit == Init => DocumentInv
<1> SUFFICES ASSUME Init
             PROVE  DocumentInv
  OBVIOUS
<1> DEFINE none == <<>>
<1>1. /\ file \in Files /\ passed = FALSE /\ stage = "parse"
      /\ ocr = [next |-> 1, read |-> {}, chars |-> 0, raised |-> FALSE]
      /\ doc = Document(none, none, 0)
  BY DEF Init
<1>2. VerdictInv
  BY <1>1 DEF VerdictInv
<1>3. "next" \in DOMAIN ocr /\ ocr.next \in Nat \ {0}
  BY <1>1
<1>4. none \in Originals
  BY NoPages
<1> HIDE DEF none
<1>5. Makes(doc, Originals)
  BY <1>1, <1>4, DocumentHas DEF Makes
<1> QED
  BY <1>1, <1>2, <1>3, <1>5 DEF DocumentInv, PagesInv, OcrInv, Makes, Originals

\* Parsing keeps it: the pages are in their places, as every preprocessor makes them.
LEMMA ParseKeeps ==
  ASSUME DocumentInv, Parse
  PROVE  DocumentInv'
<1>1. /\ stage = "parse" /\ file.format # NoFormat /\ doc' = Extract(file)
      /\ stage' = AfterParsing(doc') /\ UNCHANGED <<file, ocr, passed, out>>
  BY DEF Parse
<1>2. /\ file \in Files /\ ~passed
      /\ "next" \in DOMAIN ocr /\ ocr.next \in Nat \ {0}
  BY <1>1 DEF DocumentInv, VerdictInv, OcrInv
<1>3. /\ Makes(doc', Extractions)
      /\ file.format = "pdf" => /\ Makes(doc', Originals) /\ file.pages \in Seq(PagesOf("pdf"))
                                /\ Len(doc'.pages) <= Len(file.pages)
  BY <1>1, <1>2, ExtractIs
<1>4. stage' \in {"ocr", "elements"} /\ (stage' = "ocr" => file.format = "pdf")
  BY <1>1 DEF AfterParsing
<1>5. PagesInv'
  BY <1>3, <1>4 DEF PagesInv, Makes
<1>6. OcrInv'
  BY <1>1, <1>2, <1>3, <1>4 DEF OcrInv, Makes, Originals
<1> QED
  BY <1>1, <1>2, <1>4, <1>5, <1>6 DEF DocumentInv, VerdictInv

\* Recognition keeps it: what is put on a page is numbered behind elements that are not
\* from recognition.
LEMMA RecognisePageKeeps ==
  ASSUME DocumentInv, RecognisePage
  PROVE  DocumentInv'
<1>1. /\ stage = "ocr" /\ ocr.next <= Len(doc.pages) /\ UNCHANGED <<file, stage, passed, out>>
  BY DEF RecognisePage
<1>2. PICK found \in {<<>>, file.pages[ocr.next].ocr} :
        LET n == LengthOf(OcrText(found), 1)
        IN  /\ ocr' = [ocr EXCEPT !.next = @ + 1, !.chars = @ + n,
                                  !.read = IF found = <<>> THEN @ ELSE @ \cup {ocr.next}]
            /\ doc' = IF found = <<>> THEN doc
                      ELSE [CountedLater(doc, n) EXCEPT
                              !.pages[ocr.next] = OcrPage(@, found), !.hasOcr = TRUE]
  BY DEF RecognisePage
<1> DEFINE k == ocr.next
<1>3. /\ file \in Files /\ "pages" \in DOMAIN doc /\ doc.pages \in Extractions
      /\ "next" \in DOMAIN ocr /\ k \in Nat \ {0}
      /\ file.pages \in Seq(PagesOf("pdf")) /\ Len(doc.pages) <= Len(file.pages)
      /\ \A p \in DOMAIN doc.pages : p >= k => Original(doc.pages[p].elements)
      /\ ~passed
  BY <1>1 DEF DocumentInv, PagesInv, OcrInv, VerdictInv
<1>4. /\ Len(doc.pages) \in Nat /\ Len(file.pages) \in Nat /\ DOMAIN doc.pages = 1 .. Len(doc.pages)
  BY <1>3 DEF Extractions
<1>5. k \in DOMAIN doc.pages /\ file.pages[k] \in PagesOf("pdf")
  <2>1. k \in 1 .. Len(doc.pages) /\ k \in 1 .. Len(file.pages)
    BY <1>1, <1>3, <1>4
  <2> QED
    BY <1>3, <1>4, <2>1
<1>6. ocr'.next = k + 1 /\ "next" \in DOMAIN ocr'
  BY <1>2, <1>3
<1>7. CASE found = <<>>
  <2>1. doc' = doc
    BY <1>2, <1>7
  <2>2. \A p \in DOMAIN doc.pages : p >= k + 1 => Original(doc.pages[p].elements)
    BY <1>3, <1>4
  <2>3. PagesInv'
    BY <1>1, <1>3, <2>1 DEF PagesInv
  <2>4. OcrInv'
    BY <1>1, <1>3, <1>6, <2>1, <2>2 DEF OcrInv
  <2> QED
    BY <1>1, <1>3, <2>3, <2>4 DEF DocumentInv, VerdictInv
<1>8. CASE found # <<>>
  <2> DEFINE more == [doc.pages EXCEPT ![k] = OcrPage(@, found)]
  <2>1. found \in Seq(ItemType)
    <3>1. file.pages[k].ocr \in Seq(ItemType)
      BY <1>5 DEF PagesOf
    <3> QED
      BY <1>2, <1>8, <3>1
  <2>2. doc' = [doc EXCEPT !.pages[k] = OcrPage(@, found), !.hasOcr = TRUE]
    BY <1>2, <1>8 DEF CountedLater
  <2>3. doc'.pages = more /\ "pages" \in DOMAIN doc'
    BY <1>3, <2>2
  <2>4. Original(doc.pages[k].elements)
    BY <1>3, <1>5
  <2>5. /\ more \in Extractions /\ Len(more) = Len(doc.pages) /\ DOMAIN more = DOMAIN doc.pages
        /\ \A p \in DOMAIN doc.pages : p # k => more[p] = doc.pages[p]
    BY <1>3, <1>5, <2>1, <2>4, RecognisedPages
  <2> HIDE DEF more
  <2>6. \A p \in DOMAIN more : p >= k + 1 => Original(more[p].elements)
    BY <1>3, <1>4, <2>5
  <2>7. PagesInv'
    BY <1>1, <2>3, <2>5 DEF PagesInv
  <2>8. OcrInv'
    BY <1>1, <1>3, <1>6, <2>3, <2>5, <2>6 DEF OcrInv
  <2> QED
    BY <1>1, <1>3, <2>7, <2>8 DEF DocumentInv, VerdictInv
<1> QED
  BY <1>7, <1>8

\* Every step keeps the inductive invariant.
LEMMA InvNext == DocumentInv /\ [Next]_vars => DocumentInv'
<1> SUFFICES ASSUME DocumentInv, [Next]_vars
             PROVE  DocumentInv'
  OBVIOUS
<1> USE DEF DocumentInv
<1>1. CASE Parse
  BY <1>1, ParseKeeps
<1>2. CASE ParsingRaises
  BY <1>2 DEF ParsingRaises, PagesInv, OcrInv, VerdictInv
<1>3. CASE RecognisePage
  BY <1>3, RecognisePageKeeps
<1>4. CASE RecognitionDone
  <2>1. doc'.pages = doc.pages /\ "pages" \in DOMAIN doc'
    BY <1>4 DEF RecognitionDone, PagesInv
  <2> QED
    BY <1>4, <2>1 DEF RecognitionDone, PagesInv, OcrInv, VerdictInv
<1>5. CASE RecognitionRaises
  <2>1. ocr'.next = ocr.next /\ "next" \in DOMAIN ocr'
    BY <1>5 DEF RecognitionRaises, OcrInv
  <2> QED
    BY <1>5, <2>1 DEF RecognitionRaises, PagesInv, OcrInv, VerdictInv
<1>6. CASE ProcessElements
  <2>1. "pages" \in DOMAIN doc /\ ProcessedPages(doc.pages) \in Processings
    BY <1>6, ProcessedAre DEF ProcessElements, PagesInv
  <2>2. doc'.pages = ProcessedPages(doc.pages) /\ "pages" \in DOMAIN doc'
    BY <1>6, <2>1 DEF ProcessElements
  <2> QED
    BY <1>6, <2>1, <2>2 DEF ProcessElements, PagesInv, OcrInv, VerdictInv
<1>7. CASE Clean
  <2>1. PICK repeated \in SUBSET DOMAIN doc.pages :
          doc' = [doc EXCEPT !.pages = CleanedPages(@, repeated)]
    BY <1>7 DEF Clean
  <2>2. "pages" \in DOMAIN doc /\ CleanedPages(doc.pages, repeated) \in Cleanings
    BY <1>7, CleanedAre DEF Clean, PagesInv
  <2>3. doc'.pages = CleanedPages(doc.pages, repeated) /\ "pages" \in DOMAIN doc'
    BY <2>1, <2>2
  <2> QED
    BY <1>7, <2>2, <2>3 DEF Clean, PagesInv, OcrInv, VerdictInv
<1>8. CASE Validate
  BY <1>8 DEF Validate, PagesInv, OcrInv, VerdictInv
<1>9. CASE Generate
  BY <1>9 DEF Generate, PagesInv, OcrInv, VerdictInv
<1>10. CASE UNCHANGED vars
  BY <1>10 DEF vars, PagesInv, OcrInv, VerdictInv
<1> QED
  BY <1>1, <1>2, <1>3, <1>4, <1>5, <1>6, <1>7, <1>8, <1>9, <1>10 DEF Next

\* At every stage the pages are in their places with elements of their own (models/document.py),
\* without noise from the cleaners on
\* (pipeline.py); recognition has only pages ahead that it was not at; the verdict is about
\* the document that is generated.
THEOREM Invariance == Spec => []DocumentInv
BY InvInit, InvNext, PTL DEF Spec

-----------------------------------------------------------------------------
(* Identifiers.                                                            *)

\* Joining what stands on different pages keeps identifiers apart.
LEMMA DistinctPages ==
  ASSUME NEW E, NEW ss \in Seq(Seq(E)),
         \A p \in DOMAIN ss : OfPage(ss[p], p) /\ Distinct(ss[p])
  PROVE  Distinct(Flat(ss))
<1> DEFINE Fine(rr) == \A p \in DOMAIN rr : OfPage(rr[p], p) /\ Distinct(rr[p])
           Holds(rr) == /\ Distinct(Flat(rr))
                        /\ \A i \in DOMAIN Flat(rr) : Flat(rr)[i].id[2] \in DOMAIN rr
           Good == {rr \in Seq(Seq(E)) : Fine(rr) => Holds(rr)}
<1>1. <<>> \in Good
  <2>1. Flat(<<>>) = <<>>
    BY TheOthers, J!OfNothing
  <2> QED
    BY <2>1 DEF Distinct
<1>2. ASSUME NEW rr \in Good, NEW r \in Seq(E)
      PROVE  Append(rr, r) \in Good
  <2> DEFINE a == Append(rr, r)
             n == Len(rr) + 1
             f == Flat(rr)
  <2>1. /\ a \in Seq(Seq(E)) /\ n \in Nat /\ DOMAIN a = DOMAIN rr \cup {n} /\ n \notin DOMAIN rr
        /\ a[n] = r /\ \A p \in DOMAIN rr : a[p] = rr[p]
    OBVIOUS
  <2>2. Flat(a) = f \o r
    <3>1. J!Fold(<<>>, a) = J!Fold(<<>>, rr) \o r
      BY J!OfOneMore
    <3> QED
      BY <3>1, TheOthers
  <2>3. f \in Seq(E)
    BY FlatIs
  <2> HIDE DEF a, n, f
  <2> SUFFICES ASSUME Fine(a)
               PROVE  Holds(a)
    BY <2>1 DEF a
  <2>4. Fine(rr) /\ OfPage(r, n) /\ Distinct(r)
    BY <2>1
  <2>5. Distinct(f) /\ \A i \in DOMAIN f : f[i].id[2] \in DOMAIN rr
    BY <2>4 DEF f
  <2>6. \A i \in DOMAIN f, j \in DOMAIN r : f[i].id # r[j].id
    <3> SUFFICES ASSUME NEW i \in DOMAIN f, NEW j \in DOMAIN r
                 PROVE  f[i].id # r[j].id
      OBVIOUS
    <3>1. f[i].id[2] \in DOMAIN rr /\ r[j].id[2] = n
      BY <2>4, <2>5 DEF OfPage
    <3> HIDE DEF Fine, Holds, Good
    <3>2. f[i].id[2] # r[j].id[2]
      BY <2>1, <3>1
    <3> QED
      BY <3>2
  <2>7. Distinct(f \o r)
    BY <2>3, <2>4, <2>5, <2>6, DistinctTogether
  <2>8. \A k \in DOMAIN (f \o r) : (f \o r)[k].id[2] \in DOMAIN a
    <3>1. \A k \in DOMAIN (f \o r) : \/ k \in DOMAIN f /\ (f \o r)[k] = f[k]
                                     \/ k - Len(f) \in DOMAIN r /\ (f \o r)[k] = r[k - Len(f)]
      BY <2>3
    <3> QED
      BY <2>1, <2>4, <2>5, <3>1 DEF OfPage
  <2> QED
    BY <2>2, <2>7, <2>8
<1>3. Good = Seq(Seq(E))
  <2>1. Good \in SUBSET Seq(Seq(E))
    OBVIOUS
  <2> HIDE DEF Good
  <2> QED
    BY <1>1, <1>2, <2>1, AllSequences
<1> QED
  BY <1>3

\* The elements of the pages.
LEMMA ElementsOf ==
  ASSUME NEW Tabs, NEW pages \in Seq(PageType(Tabs))
  PROVE  LET ss == [p \in DOMAIN pages |-> pages[p].elements]
         IN  /\ ss \in Seq(Seq(Element(Tabs))) /\ DOMAIN ss = DOMAIN pages
             /\ \A p \in DOMAIN pages : ss[p] = pages[p].elements
<1> DEFINE ss == [p \in DOMAIN pages |-> pages[p].elements]
           m == Len(pages)
<1>1. m \in Nat /\ DOMAIN pages = 1 .. m /\ \A p \in DOMAIN pages : pages[p] \in PageType(Tabs)
  OBVIOUS
<1>2. \A p \in DOMAIN pages : pages[p].elements \in Seq(Element(Tabs))
  BY <1>1 DEF PageType
<1>3. ss \in [1 .. m -> Seq(Element(Tabs))]
  BY <1>1, <1>2
<1>4. DOMAIN ss = DOMAIN pages /\ \A p \in DOMAIN pages : ss[p] = pages[p].elements
  OBVIOUS
<1> HIDE DEF ss, m
<1>5. ss \in Seq(Seq(Element(Tabs)))
  BY <1>1, <1>3, AreSequences
<1> QED
  BY <1>4, <1>5 DEF ss

\* What the invariant says of the pages at any stage.
LEMMA PagesAlways ==
  ASSUME DocumentInv
  PROVE  \E Tabs : /\ doc.pages \in Seq(PageType(Tabs))
                   /\ \A p \in DOMAIN doc.pages : InPlace(doc.pages[p], p)
<1>1. CASE doc.pages \in Extractions
  BY <1>1 DEF Extractions
<1>2. CASE doc.pages \in Processings
  BY <1>2 DEF Processings
<1> QED
  BY <1>1, <1>2 DEF DocumentInv, PagesInv, Cleanings

\* No two elements of a document have the same identifier (document.py), whichever
\* preprocessor made them, wherever recognition adds (pipeline.py), whatever the cleaners
\* merge and leave out.
THEOREM IdentifiersAreUnique == Spec => []IdsUnique
<1>1. DocumentInv => IdsUnique
  <2> SUFFICES ASSUME DocumentInv
               PROVE  IdsUnique
    OBVIOUS
  <2> DEFINE ss == [p \in DOMAIN doc.pages |-> doc.pages[p].elements]
  <2>1. PICK Tabs : /\ doc.pages \in Seq(PageType(Tabs))
                    /\ \A p \in DOMAIN doc.pages : InPlace(doc.pages[p], p)
    BY PagesAlways
  <2>2. /\ ss \in Seq(Seq(Element(Tabs))) /\ DOMAIN ss = DOMAIN doc.pages
        /\ \A p \in DOMAIN doc.pages : ss[p] = doc.pages[p].elements
    BY <2>1, ElementsOf
  <2>3. AllElements(doc) = Flat(ss)
    BY DEF AllElements
  <2> HIDE DEF ss
  <2>4. \A p \in DOMAIN ss : OfPage(ss[p], p) /\ Distinct(ss[p])
    BY <2>1, <2>2 DEF InPlace
  <2>5. Distinct(AllElements(doc))
    BY <2>2, <2>3, <2>4, DistinctPages
  <2> QED
    BY <2>5 DEF IdsUnique, Distinct
<1> QED
  BY <1>1, Invariance, PTL

-----------------------------------------------------------------------------
(* Scores.                                                                 *)

\* The lesser and the greater of two numbers.
LEMMA TwoNumbers ==
  ASSUME NEW a \in Int, NEW b \in Int
  PROVE  /\ Min({a, b}) \in {a, b} /\ Min({a, b}) <= a /\ Min({a, b}) <= b
         /\ Max({a, b}) \in {a, b} /\ Max({a, b}) >= a /\ Max({a, b}) >= b
<1>1. \E x \in {a, b} : \A y \in {a, b} : x <= y
  <2>1. CASE a <= b
    BY <2>1
  <2>2. CASE b <= a
    BY <2>2
  <2> QED
    BY <2>1, <2>2
<1>2. \E x \in {a, b} : \A y \in {a, b} : x >= y
  <2>1. CASE a >= b
    BY <2>1
  <2>2. CASE b >= a
    BY <2>2
  <2> QED
    BY <2>1, <2>2
<1>3. Min({a, b}) \in {a, b} /\ \A y \in {a, b} : Min({a, b}) <= y
  BY <1>1 DEF Min
<1>4. Max({a, b}) \in {a, b} /\ \A y \in {a, b} : Max({a, b}) >= y
  BY <1>2 DEF Max
<1> QED
  BY <1>3, <1>4

Tenth  == Unit \div 10
Enough == 10000

\* The numbers the scores are made of.
LEMMA UnitIs ==
  /\ Tenth \in Nat /\ Tenth > 0 /\ Unit = 10 * Tenth /\ Unit \in Nat
  /\ Unit \div 10 = Tenth /\ Unit \div 5 = 2 * Tenth /\ Enough * 420 = 2 * Tenth
  /\ Enough \in Nat
BY SMT DEF Unit, Tenth, Enough

\* A score is at most one, and at most what it is made of unless that is negative.
LEMMA ClampedIs ==
  ASSUME NEW x \in Int
  PROVE  /\ Clamped(x) \in Int /\ Clamped(x) <= Unit
         /\ \A y \in Nat : x <= y => Clamped(x) <= y
<1>1. Unit \in Int /\ 0 <= Unit /\ 0 \in Int
  BY UnitIs
<1> DEFINE m == Min({Unit, x})
<1>2. m \in Int /\ m <= Unit /\ m <= x
  BY <1>1, TwoNumbers
<1>3. Clamped(x) = Max({0, m})
  BY DEF Clamped
<1> HIDE DEF m
<1>4. Max({0, m}) \in {0, m}
  BY <1>1, <1>2, TwoNumbers
<1> QED
  BY <1>1, <1>2, <1>3, <1>4

\* What a condition adds.
LEMMA PlusIs ==
  ASSUME NEW k \in Nat, NEW c
  PROVE  Plus(k, c) = (IF c THEN k * Tenth ELSE 0) /\ Plus(k, c) \in Nat
<1>1. Plus(k, c) = IF c THEN k * Tenth ELSE 0
  BY UnitIs DEF Plus
<1>2. k * Tenth \in Nat
  BY UnitIs
<1> QED
  BY <1>1, <1>2

\* Whole quotients.
LEMMA QuotientIs ==
  ASSUME NEW a \in Nat, NEW b \in Nat \ {0}
  PROVE  a \div b \in Nat /\ (a \div b) * b <= a
OBVIOUS

\* The lengths of the pages of a document.
LEMMA LengthsAre ==
  ASSUME NEW Tabs, NEW pages \in Seq(PageType(Tabs))
  PROVE  /\ Lengths(pages) \in Seq(Nat) /\ Lengths(pages) \in [1 .. Len(pages) -> Nat]
         /\ Len(Lengths(pages)) = Len(pages) /\ Total(Lengths(pages)) \in Nat
<1> DEFINE m == Len(pages)
<1>1. m \in Nat /\ DOMAIN pages = 1 .. m /\ \A p \in DOMAIN pages : pages[p] \in PageType(Tabs)
  OBVIOUS
<1>2. \A p \in DOMAIN pages : LengthOf(pages[p].text, pages[p].eol) \in Nat
  <2>1. \A page \in PageType(Tabs) : page.text \in Seq(Nat) /\ page.eol \in {1, 2}
    BY DEF PageType
  <2> QED
    BY <1>1, <2>1, LengthIs
<1>3. Lengths(pages) \in [1 .. m -> Nat]
  BY <1>1, <1>2 DEF Lengths
<1> HIDE DEF m
<1>4. Lengths(pages) \in Seq(Nat) /\ Len(Lengths(pages)) = m
  BY <1>1, <1>3, AreSequences
<1> QED
  BY <1>3, <1>4, TotalIs DEF m

\* A document of nothing has no length.
LEMMA LengthOfNothing ==
  ASSUME NEW pages, DOMAIN pages = {}
  PROVE  Total(Lengths(pages)) = 0
<1>1. Lengths(pages) = <<>>
  BY DEF Lengths
<1>2. Total(<<>>) = 0
  BY TheOthers, S!OfNothing
<1> QED
  BY <1>1, <1>2

\* The sentences of a document.
LEMMA SentencesAre ==
  ASSUME NEW Tabs, NEW d, d.pages \in Seq(PageType(Tabs))
  PROVE  Flat([p \in DOMAIN d.pages |-> Sentences(d.pages[p].text)]) \in Seq(Nat)
<1> DEFINE ss == [p \in DOMAIN d.pages |-> Sentences(d.pages[p].text)]
           m == Len(d.pages)
<1>1. /\ m \in Nat /\ DOMAIN d.pages = 1 .. m
      /\ \A p \in DOMAIN d.pages : d.pages[p] \in PageType(Tabs)
  OBVIOUS
<1>2. \A p \in DOMAIN d.pages : d.pages[p].text \in Seq(Nat)
  BY <1>1 DEF PageType
<1>3. \A text \in Seq(Nat) : Sentences(text) \in Seq(Nat)
  BY SelectedIs DEF Sentences
<1>4. ss \in [1 .. m -> Seq(Nat)]
  BY <1>1, <1>2, <1>3
<1> HIDE DEF ss, m
<1>5. ss \in Seq(Seq(Nat))
  BY <1>1, <1>4, AreSequences
<1>6. Flat(ss) \in Seq(Nat)
  BY <1>5, FlatIs
<1> QED
  BY <1>6 DEF ss

\* Below a fifth of what there should be, a fifth is granted.
LEMMA AtLeastAFifth ==
  ASSUME NEW n \in Nat, n < Enough
  PROVE  Max({Unit \div 5, Min({Unit, n * 420})}) = 2 * Tenth
<1>1. \A i, j \in Nat : i < j => i * 420 \in Int /\ i * 420 < j * 420
  BY SMT
<1>2. \E k \in Int : k = n * 420 /\ k < 2 * Tenth
  <2>1. n * 420 \in Int /\ n * 420 < Enough * 420
    BY <1>1, UnitIs, SMT
  <2> QED
    BY <2>1, UnitIs, SMT
<1>3. PICK k \in Int : k = n * 420 /\ k < 2 * Tenth
  BY <1>2
<1>4. \E u \in Int : u = 2 * Tenth /\ Unit \div 5 = u /\ u < Unit
  BY UnitIs
<1>5. PICK u \in Int : u = 2 * Tenth /\ Unit \div 5 = u /\ u < Unit
  BY <1>4
<1>6. Unit \in Int
  BY UnitIs
<1>7. \E x \in Int : x = Min({Unit, k}) /\ x < u
  <2>1. Min({Unit, k}) \in {Unit, k} /\ Min({Unit, k}) <= k
    BY <1>6, TwoNumbers
  <2>2. k < u
    BY <1>3, <1>5
  <2> QED
    BY <1>6, <2>1, <2>2
<1>8. PICK x \in Int : x = Min({Unit, k}) /\ x < u
  BY <1>7
<1>9. Max({u, x}) \in {u, x} /\ Max({u, x}) >= u
  BY <1>5, <1>8, TwoNumbers
<1>10. Max({u, x}) = u
  BY <1>8, <1>9
<1> QED
  BY <1>3, <1>5, <1>8, <1>10

\* How many of the first numbers.
LEMMA SomeOfThem ==
  ASSUME NEW m \in Nat, NEW Some \in SUBSET (1 .. m)
  PROVE  Cardinality(Some) \in Nat
<1>1. IsFiniteSet(1 .. m)
  BY FS_Interval
<1>2. IsFiniteSet(Some)
  BY <1>1, FS_Subset
<1> QED
  BY <1>2, FS_CardinalityType

\* A text of less than 10000 characters is a fifth of what there should be.
LEMMA ShortIsIncomplete ==
  ASSUME NEW Tabs, NEW d, d.pages \in Seq(PageType(Tabs)), TextLength(d) < Enough
  PROVE  Completeness(d) \in Int /\ Completeness(d) <= 2 * Tenth
<1>a. \A m \in Nat : \A Some \in SUBSET (1 .. m) : Cardinality(Some) \in Nat
  BY SomeOfThem
<1>b. \A n \in Nat : n < Enough => Max({Unit \div 5, Min({Unit, n * 420})}) = 2 * Tenth
  BY AtLeastAFifth
<1> DEFINE t == TextLength(d)
           empty == {p \in DOMAIN d.pages : Sentences(d.pages[p].text) = <<>>}
           most == Max({Unit \div 5, Min({Unit, t * 420})})
           less == (3 * Unit * Cardinality(empty)) \div (10 * Len(d.pages))
<1>0. d.pages = <<>> => t = 0
  <2>1. d.pages = <<>> => DOMAIN d.pages = {}
    OBVIOUS
  <2> QED
    BY <2>1, LengthOfNothing DEF TextLength
<1>1. t \in Nat /\ t < Enough
  BY LengthsAre DEF TextLength
<1>2. CASE t < 50
  BY <1>2, UnitIs DEF Completeness
<1>3. CASE ~(t < 50)
  <2>1. Len(d.pages) \in Nat \ {0}
    <3>1. d.pages # <<>>
      <4> HIDE DEF t
      <4> QED
        BY <1>0, <1>3
    <3> QED
      BY <3>1, EmptySeq
  <2>2. Cardinality(empty) \in Nat
    <3>1. empty \in SUBSET (1 .. Len(d.pages)) /\ Len(d.pages) \in Nat
      BY <2>1
    <3> HIDE DEF empty, t, most, less
    <3> QED
      BY <3>1, <1>a
  <2>3. less \in Nat
    <3> DEFINE a == 3 * Unit * Cardinality(empty)
               b == 10 * Len(d.pages)
    <3>1. a \in Nat /\ b \in Nat \ {0}
      BY <2>1, <2>2, UnitIs
    <3> HIDE DEF a, b
    <3>2. a \div b \in Nat
      BY <3>1, QuotientIs
    <3> QED
      BY <3>2 DEF a, b
  <2>4. most = 2 * Tenth
    <3> HIDE DEF t
    <3>1. Max({Unit \div 5, Min({Unit, t * 420})}) = 2 * Tenth
      BY <1>1, <1>b, Zenon
    <3> QED
      BY <3>1
  <2>5. Completeness(d) = Clamped(most - less)
    BY <1>3 DEF Completeness
  <2> HIDE DEF most, less
  <2>6. most - less \in Int /\ most - less <= 2 * Tenth /\ 2 * Tenth \in Nat
    BY <2>3, <2>4, UnitIs
  <2> QED
    BY <2>5, <2>6, ClampedIs
<1> QED
  BY <1>2, <1>3

\* Structure is at most one, and nothing without elements.
LEMMA StructureIs ==
  ASSUME NEW d
  PROVE  Structure(d) \in Int /\ Structure(d) <= Unit /\ (AllElements(d) = <<>> => Structure(d) = 0)
<1> DEFINE all      == AllElements(d)
           headings == Len(Selected(all, LAMBDA e : e.role = "heading"))
           types    == {IF IsText(all[i]) THEN "text" ELSE all[i].role : i \in DOMAIN all}
           p == 100 * headings >= 2 * Len(all) /\ 10 * headings <= 3 * Len(all)
           q == 100 * headings < Len(all)
           r == Cardinality(types) >= 3
           s == Cardinality(types) = 2
           x == Plus(5, TRUE) + Plus(3, p) - Plus(2, q) + Plus(2, r) + Plus(1, s)
<1>1. Structure(d) = IF all = <<>> THEN 0 ELSE Clamped(x)
  BY DEF Structure
<1> HIDE DEF p, q, r, s
<1>2. x \in Int
  <2> DEFINE x5 == Plus(5, TRUE)
             xp == Plus(3, p)
             xq == Plus(2, q)
             xr == Plus(2, r)
             xs == Plus(1, s)
  <2>1. x5 \in Nat /\ xp \in Nat /\ xq \in Nat /\ xr \in Nat /\ xs \in Nat
    BY PlusIs
  <2>2. x = x5 + xp - xq + xr + xs
    OBVIOUS
  <2> HIDE DEF x, x5, xp, xq, xr, xs
  <2> QED
    BY <2>1, <2>2
<1> HIDE DEF x
<1>3. Clamped(x) \in Int /\ Clamped(x) <= Unit /\ 0 <= Unit
  BY <1>2, ClampedIs, UnitIs
<1> QED
  BY <1>1, <1>3 DEF all

\* The two rewards for varied lengths exclude each other.
LEMMA CoherenceIs ==
  ASSUME NEW Tabs, NEW d, d.pages \in Seq(PageType(Tabs))
  PROVE  Coherence(d) \in Int /\ Coherence(d) <= 9 * Tenth
<1> DEFINE lengths == Flat([p \in DOMAIN d.pages |-> Sentences(d.pages[p].text)])
           n == Len(lengths)
           sum == Total(lengths)
           square == sum * sum
           squares == Total([i \in DOMAIN lengths |-> lengths[i] * lengths[i]])
           variance == n * squares - square
           a == sum >= 5 * n
           b == sum < 3 * n
           c == 100 * variance >= 9 * square /\ 4 * variance <= 9 * square
           e == 100 * variance < square
           f == n < 3
           x == Plus(5, TRUE) + Plus(2, a) - Plus(3, b) + Plus(2, c) + Plus(1, e) - Plus(2, f)
<1>1. lengths \in Seq(Nat)
  BY SentencesAre
<1>2. Coherence(d) = IF n = 0 THEN 3 * (Unit \div 10) ELSE Clamped(x)
  BY DEF Coherence
<1> HIDE DEF lengths
<1>8. n \in Nat /\ sum \in Nat
  BY <1>1, TotalIs
<1>3. squares \in Nat
  <2> DEFINE s == [i \in DOMAIN lengths |-> lengths[i] * lengths[i]]
  <2>1. n \in Nat /\ DOMAIN lengths = 1 .. n /\ \A i \in DOMAIN lengths : lengths[i] \in Nat
    BY <1>1, <1>8
  <2>2. \A k \in Nat : k * k \in Nat
    OBVIOUS
  <2>3. s \in [1 .. n -> Nat]
    BY <2>1, <2>2
  <2> HIDE DEF s
  <2>4. s \in Seq(Nat)
    BY <2>1, <2>3, AreSequences
  <2> QED
    BY <2>4, TotalIs DEF s
<1> HIDE DEF squares, n, sum
<1>4. square \in Nat /\ variance \in Int
  <2>1. \A k, l \in Nat : k * l \in Nat
    OBVIOUS
  <2> QED
    BY <1>3, <1>8, <2>1
<1> HIDE DEF square, variance
<1>5. ~(c /\ e)
  BY <1>4
<1> HIDE DEF a, b, c, e, f
<1>6. x \in Int /\ x <= 9 * Tenth
  <2> DEFINE x5 == Plus(5, TRUE)
             xa == Plus(2, a)
             xb == Plus(3, b)
             xc == Plus(2, c)
             xe == Plus(1, e)
             xf == Plus(2, f)
  <2>1. /\ x5 = 5 * Tenth
        /\ xa = (IF a THEN 2 * Tenth ELSE 0) /\ xb \in Nat
        /\ xc = (IF c THEN 2 * Tenth ELSE 0)
        /\ xe = (IF e THEN 1 * Tenth ELSE 0) /\ xf \in Nat
    BY PlusIs
  <2>2. x = x5 + xa - xb + xc + xe - xf
    OBVIOUS
  <2> HIDE DEF x, x5, xa, xb, xc, xe, xf
  <2>3. xa \in Nat /\ xa <= 2 * Tenth
    BY <2>1, UnitIs
  <2>4. xc \in Nat /\ xe \in Nat /\ xc + xe <= 2 * Tenth
    BY <1>5, <2>1, UnitIs
  <2> QED
    BY <2>1, <2>2, <2>3, <2>4, UnitIs
<1> HIDE DEF x
<1>7. Clamped(x) \in Int /\ Clamped(x) <= 9 * Tenth
  BY <1>6, ClampedIs, UnitIs
<1> QED
  BY <1>2, <1>7, UnitIs

\* What counts as clear is good text, if there is no noise.
LEMMA ClearIsGood ==
  ASSUME NEW E, NEW all \in Seq(E), \A e \in E : Kept(e)
  PROVE  /\ Len(Selected(all, HasText)) \in Nat
         /\ Len(Selected(all, LAMBDA e : IsText(e) /\ ~e.noise)) \in Nat
         /\ Len(Selected(all, HasText)) <= Len(Selected(all, LAMBDA e : IsText(e) /\ ~e.noise))
<1> DEFINE Fine(r) == /\ C!Fold(<<>>, r) \in Seq(E) /\ G!Fold(<<>>, r) \in Seq(E)
                      /\ Len(C!Fold(<<>>, r)) <= Len(G!Fold(<<>>, r))
           Good == {r \in Seq(E) : Fine(r)}
<1>1. <<>> \in Good
  <2>1. C!Fold(<<>>, <<>>) = <<>> /\ G!Fold(<<>>, <<>>) = <<>>
    BY C!OfNothing, G!OfNothing
  <2>2. <<>> \in Seq(E) /\ Len(<<>>) <= Len(<<>>)
    OBVIOUS
  <2>3. Fine(<<>>)
    BY <2>1, <2>2
  <2> HIDE DEF Fine
  <2> QED
    BY <2>2, <2>3
<1>2. ASSUME NEW r \in Good, NEW x \in E
      PROVE  Append(r, x) \in Good
  <2> DEFINE c == C!Fold(<<>>, r)
             g == G!Fold(<<>>, r)
  <2>1. /\ C!Fold(<<>>, Append(r, x)) = TakeHasText(c, x)
        /\ G!Fold(<<>>, Append(r, x)) = TakeGoodText(g, x)
    BY C!OfOneMore, G!OfOneMore
  <2>2. c \in Seq(E) /\ g \in Seq(E) /\ Len(c) <= Len(g) /\ Append(r, x) \in Seq(E)
    OBVIOUS
  <2> HIDE DEF c, g
  <2>3. HasText(x) => IsText(x) /\ ~x.noise
    BY DEF HasText, Kept
  <2>4. /\ TakeHasText(c, x) \in Seq(E) /\ TakeGoodText(g, x) \in Seq(E)
        /\ Len(TakeHasText(c, x)) <= Len(TakeGoodText(g, x))
    BY <2>2, <2>3 DEF TakeHasText, TakeGoodText
  <2> QED
    BY <2>1, <2>2, <2>4
<1>3. Good = Seq(E)
  <2>1. Good \in SUBSET Seq(E)
    OBVIOUS
  <2> HIDE DEF Good
  <2> QED
    BY <1>1, <1>2, <2>1, AllSequences
<1> DEFINE c == C!Fold(<<>>, all)
           g == G!Fold(<<>>, all)
<1>4. c \in Seq(E) /\ g \in Seq(E) /\ Len(c) <= Len(g)
  <2> HIDE DEF c, g
  <2>1. Fine(all)
    BY <1>3
  <2> QED
    BY <2>1 DEF c, g
<1>5. /\ Selected(all, HasText) = c
      /\ Selected(all, LAMBDA e : IsText(e) /\ ~e.noise) = g
  BY TheFilters
<1> HIDE DEF c, g
<1>6. Len(c) \in Nat /\ Len(g) \in Nat
  BY <1>4
<1> QED
  BY <1>4, <1>5, <1>6

\* Elements that ContentFilter keeps.
KeptOf(Tabs) == {e \in Element(Tabs) : Kept(e)}

\* What the cleaners kept is all that a document has.
LEMMA KeptElements ==
  ASSUME NEW Tabs, NEW d, d.pages \in Seq(PageType(Tabs)),
         \A p \in DOMAIN d.pages :
           \A i \in DOMAIN d.pages[p].elements : Kept(d.pages[p].elements[i])
  PROVE  AllElements(d) \in Seq(KeptOf(Tabs))
<1> DEFINE ss == [p \in DOMAIN d.pages |-> d.pages[p].elements]
<1>1. /\ ss \in Seq(Seq(Element(Tabs))) /\ DOMAIN ss = DOMAIN d.pages
      /\ \A p \in DOMAIN d.pages : ss[p] = d.pages[p].elements
  BY ElementsOf
<1>2. AllElements(d) = Flat(ss)
  BY DEF AllElements
<1> HIDE DEF ss
<1>3. \A p \in DOMAIN ss : ss[p] \in Seq(KeptOf(Tabs))
  <2> SUFFICES ASSUME NEW p \in DOMAIN ss
               PROVE  ss[p] \in Seq(KeptOf(Tabs))
    OBVIOUS
  <2> DEFINE s == ss[p]
             V == KeptOf(Tabs)
  <2>1. s \in Seq(Element(Tabs)) /\ \A i \in DOMAIN s : Kept(s[i])
    <3>1. p \in DOMAIN d.pages /\ s = d.pages[p].elements
      BY <1>1
    <3>2. s \in Seq(Element(Tabs))
      BY <1>1
    <3> HIDE DEF s
    <3> QED
      BY <3>1, <3>2
  <2> HIDE DEF s
  <2>2. Len(s) \in Nat /\ DOMAIN s = 1 .. Len(s) /\ s \in [1 .. Len(s) -> Element(Tabs)]
    BY <2>1
  <2>3. \A i \in DOMAIN s : s[i] \in V
    BY <2>1, <2>2 DEF KeptOf
  <2> HIDE DEF V
  <2>4. s \in [1 .. Len(s) -> V]
    BY <2>2, <2>3
  <2>5. s \in Seq(V)
    BY <2>2, <2>4, AreSequences
  <2> QED
    BY <2>5 DEF s, V
<1> DEFINE m == Len(ss)
           VV == Seq(KeptOf(Tabs))
<1>4. m \in Nat /\ DOMAIN ss = 1 .. m /\ ss \in [1 .. m -> VV]
  <2>1. m \in Nat /\ DOMAIN ss = 1 .. m /\ ss = [p \in 1 .. m |-> ss[p]]
    BY <1>1
  <2> HIDE DEF m, VV
  <2>2. \A p \in 1 .. m : ss[p] \in VV
    BY <1>3, <2>1 DEF VV
  <2> QED
    BY <2>1, <2>2
<1> HIDE DEF m, VV
<1>5. ss \in Seq(VV)
  BY <1>4, AreSequences
<1> QED
  BY <1>2, <1>5, FlatIs DEF VV

\* The elements of a short document that passes: their share of text outweighs the rest.
LEMMA MostlyText ==
  ASSUME NEW Tabs, NEW d, d.pages \in Seq(PageType(Tabs)), AllElements(d) \in Seq(KeptOf(Tabs)),
         TextLength(d) < Enough, Passed(d)
  PROVE  5 * Len(Selected(AllElements(d), LAMBDA e : IsText(e) /\ ~e.noise))
           > 2 * Len(AllElements(d))
<1> DEFINE all == AllElements(d)
           lc  == Len(Selected(all, HasText))
           lg  == Len(Selected(all, LAMBDA e : IsText(e) /\ ~e.noise))
           la  == Len(all)
           c   == Completeness(d)
           p   == Purity(d)
           s   == Structure(d)
           k   == Coherence(d)
<1>1. c \in Int /\ c <= 2 * Tenth
  BY ShortIsIncomplete
<1>2. k \in Int /\ k <= 9 * Tenth
  BY CoherenceIs
<1>3. s \in Int /\ s <= Unit /\ (all = <<>> => s = 0)
  BY StructureIs
<1>4. lc \in Nat /\ lg \in Nat /\ lc <= lg
  <2>1. \A e \in KeptOf(Tabs) : Kept(e)
    BY DEF KeptOf
  <2> HIDE DEF all
  <2>2. all \in Seq(KeptOf(Tabs))
    BY DEF all
  <2> QED
    BY <2>1, <2>2, ClearIsGood
<1>5. 6 * c + 5 * p + 5 * s + 4 * k >= 12 * Unit
  BY DEF Passed
<1>6. p = IF all = <<>> THEN 0 ELSE (Unit * lc) \div la
  BY DEF Purity
<1>7. la \in Nat /\ (all # <<>> => la \in Nat \ {0})
  <2>1. all \in Seq(KeptOf(Tabs))
    OBVIOUS
  <2> HIDE DEF all
  <2> QED
    BY <2>1, EmptySeq
<1> HIDE DEF all, lc, lg, la, c, p, s, k
<1>8. all # <<>>
  <2> SUFFICES ASSUME all = <<>>
               PROVE  FALSE
    OBVIOUS
  <2>1. p = 0 /\ s = 0
    BY <1>3, <1>6
  <2>2. 6 * c + 4 * k >= 12 * Unit
    BY <1>1, <1>2, <1>5, <2>1
  <2> QED
    BY <1>1, <1>2, <2>2, UnitIs
<1>9. p \in Nat /\ p * la <= Unit * lc
  <2> DEFINE w == Unit * lc
  <2>1. w \in Nat
    BY <1>4, UnitIs
  <2> HIDE DEF w
  <2>2. p = w \div la
    BY <1>6, <1>8 DEF w
  <2>3. p \in Nat /\ p * la <= w
    BY <1>7, <1>8, <2>1, <2>2, QuotientIs
  <2> QED
    BY <2>3 DEF w
<1>10. 5 * p >= 22 * Tenth
  BY <1>1, <1>2, <1>3, <1>5, <1>9, UnitIs
<1>11. 5 * (p * la) >= 22 * (Tenth * la)
  <2>1. \A x, y \in Int, z \in Nat : x >= y => x * z >= y * z
    OBVIOUS
  <2>2. 5 * p \in Int /\ 22 * Tenth \in Int
    BY <1>9, UnitIs
  <2>3. (5 * p) * la >= (22 * Tenth) * la
    BY <1>7, <1>10, <2>1, <2>2
  <2>4. (5 * p) * la = 5 * (p * la) /\ (22 * Tenth) * la = 22 * (Tenth * la)
    BY <1>7, <1>9, UnitIs
  <2> QED
    BY <2>3, <2>4
<1>12. Unit * lc = 10 * (Tenth * lc)
  BY <1>4, UnitIs
<1>13. 22 * (Tenth * la) <= 50 * (Tenth * lc)
  <2>1. p * la \in Int /\ Tenth * la \in Int /\ Tenth * lc \in Int
    BY <1>4, <1>7, <1>9, UnitIs
  <2> QED
    BY <1>9, <1>11, <1>12, <2>1
<1>14. 22 * la <= 50 * lc
  <2>1. \A x, y, z \in Nat : z > 0 /\ z * x <= z * y => x <= y
    OBVIOUS
  <2>2. Tenth * (22 * la) = 22 * (Tenth * la) /\ Tenth * (50 * lc) = 50 * (Tenth * lc)
    BY <1>4, <1>7, UnitIs
  <2>3. 22 * la \in Nat /\ 50 * lc \in Nat
    BY <1>4, <1>7
  <2> QED
    BY <1>13, <2>1, <2>2, <2>3, UnitIs
<1>15. 5 * lg > 2 * la
  BY <1>4, <1>7, <1>8, <1>14
<1> QED
  BY <1>15 DEF all, lg, la

\* A document of less than 10000 characters that passes holds kept texts for more than two
\* of five elements: tables, pictures and code count against purity (quality_validator.py),
\* and what structure and coherence may add is not enough to make up for that.
THEOREM PassedIsMostlyText == Spec => []PassIsMostlyText
<1>1. DocumentInv => PassIsMostlyText
  <2> DEFINE most == 5 * Len(Selected(AllElements(doc), LAMBDA e : IsText(e) /\ ~e.noise))
                       > 2 * Len(AllElements(doc))
  <2>1. (passed /\ TextLength(doc) < Enough => most) => PassIsMostlyText
    BY SMT DEF PassIsMostlyText, Enough
  <2> HIDE DEF most
  <2> SUFFICES ASSUME DocumentInv, passed, TextLength(doc) < Enough
               PROVE  most
    BY <2>1
  <2>2. Passed(doc) /\ doc.pages \in Cleanings
    BY DEF DocumentInv, VerdictInv, PagesInv
  <2>3. /\ doc.pages \in Seq(PageType(AnyTable))
        /\ \A p \in DOMAIN doc.pages :
             \A i \in DOMAIN doc.pages[p].elements : Kept(doc.pages[p].elements[i])
    BY <2>2 DEF Cleanings, Processings
  <2>4. AllElements(doc) \in Seq(KeptOf(AnyTable))
    BY <2>3, KeptElements
  <2> QED
    BY <2>2, <2>3, <2>4, MostlyText DEF most
<1> QED
  BY <1>1, Invariance, PTL

-----------------------------------------------------------------------------
(* Sums and counts.                                                        *)

\* A sum with one more number.
LEMMA TotalMore ==
  /\ Total(<<>>) = 0
  /\ \A s \in Seq(Nat), n \in Nat : Total(Append(s, n)) = Total(s) + n
<1>1. Total(<<>>) = 0
  BY TheOthers, S!OfNothing
<1>2. ASSUME NEW s \in Seq(Nat), NEW n \in Nat
      PROVE  Total(Append(s, n)) = Total(s) + n
  <2>1. S!Fold(0, Append(s, n)) = S!Fold(0, s) + n
    BY S!OfOneMore
  <2> QED
    BY <2>1, TheOthers
<1> QED
  BY <1>1, <1>2

\* The sum of two sequences.
LEMMA TotalBoth ==
  ASSUME NEW s \in Seq(Nat), NEW t \in Seq(Nat)
  PROVE  Total(s \o t) = Total(s) + Total(t)
<1> DEFINE Good == {r \in Seq(Nat) : Total(s \o r) = Total(s) + Total(r)}
<1>1. <<>> \in Good
  <2>1. s \o <<>> = s /\ Total(s) \in Nat
    BY TotalIs
  <2> QED
    BY <2>1, TotalMore
<1>2. ASSUME NEW r \in Good, NEW n \in Nat
      PROVE  Append(r, n) \in Good
  <2>1. s \o Append(r, n) = Append(s \o r, n) /\ s \o r \in Seq(Nat)
    OBVIOUS
  <2>2. Total(s) \in Nat /\ Total(r) \in Nat
    BY TotalIs
  <2>3. Total(s \o Append(r, n)) = Total(s \o r) + n
    BY <2>1, TotalMore
  <2>4. Total(Append(r, n)) = Total(r) + n
    BY TotalMore
  <2> QED
    BY <2>2, <2>3, <2>4
<1>3. Good = Seq(Nat)
  <2>1. Good \in SUBSET Seq(Nat)
    OBVIOUS
  <2> HIDE DEF Good
  <2> QED
    BY <1>1, <1>2, <2>1, AllSequences
<1> QED
  BY <1>3

\* Sequences joined, with one more.
LEMMA FlatMore ==
  /\ Flat(<<>>) = <<>>
  /\ \A E : \A ss \in Seq(Seq(E)), s \in Seq(E) : Flat(Append(ss, s)) = Flat(ss) \o s
<1>1. Flat(<<>>) = <<>>
  BY TheOthers, J!OfNothing
<1>2. ASSUME NEW E, NEW ss \in Seq(Seq(E)), NEW s \in Seq(E)
      PROVE  Flat(Append(ss, s)) = Flat(ss) \o s
  <2>1. J!Fold(<<>>, Append(ss, s)) = J!Fold(<<>>, ss) \o s
    BY J!OfOneMore
  <2> QED
    BY <2>1, TheOthers
<1> QED
  BY <1>1, <1>2

\* The places of a sequence with one more element.
LEMMA Places ==
  ASSUME NEW m \in Nat
  PROVE  /\ m + 1 \in 1 .. m + 1 /\ \A j \in 1 .. m : j \in 1 .. m + 1 /\ j # m + 1
         /\ \A j \in 1 .. m + 1 : j \in 1 .. m \/ j = m + 1
OBVIOUS

\* Sequences with the same elements are the same.
LEMMA SameSequence ==
  ASSUME NEW E, NEW s \in Seq(E), NEW t \in Seq(E), Len(s) = Len(t),
         \A i \in 1 .. Len(s) : s[i] = t[i]
  PROVE  s = t
OBVIOUS

\* The sum of one number.
LEMMA TotalOne ==
  ASSUME NEW n \in Nat
  PROVE  <<n>> \in Seq(Nat) /\ Total(<<n>>) = n
<1> DEFINE none == <<>>
<1>1. <<n>> = Append(none, n) /\ none \in Seq(Nat) /\ <<n>> \in Seq(Nat)
  OBVIOUS
<1>2. Total(none) = 0
  BY TotalMore
<1> HIDE DEF none
<1>3. Total(Append(none, n)) = Total(none) + n
  BY <1>1, TotalMore
<1>4. 0 + n = n
  OBVIOUS
<1> QED
  BY <1>1, <1>2, <1>3, <1>4

\* A sum of greater numbers is greater.
LEMMA TotalLess ==
  ASSUME NEW s \in Seq(Nat), NEW t \in Seq(Nat), Len(s) = Len(t),
         \A i \in DOMAIN s : s[i] <= t[i]
  PROVE  Total(s) <= Total(t)
<1> DEFINE Less(r, u) == Len(r) = Len(u) /\ \A i \in DOMAIN r : r[i] <= u[i]
           Good == {r \in Seq(Nat) : \A u \in Seq(Nat) : Less(r, u) => Total(r) <= Total(u)}
<1>1. <<>> \in Good
  BY TotalMore, TotalIs
<1>2. ASSUME NEW r \in Good, NEW n \in Nat
      PROVE  Append(r, n) \in Good
  <2> DEFINE a == Append(r, n)
             m == Len(r)
  <2>1. /\ a \in Seq(Nat) /\ m \in Nat /\ Len(a) = m + 1 /\ a[m + 1] = n
        /\ DOMAIN a = 1 .. m + 1 /\ DOMAIN r = 1 .. m
        /\ \A p \in 1 .. m : a[p] = r[p]
    OBVIOUS
  <2>2. r \in Seq(Nat) /\ \A u \in Seq(Nat) : Less(r, u) => Total(r) <= Total(u)
    OBVIOUS
  <2>3. ASSUME NEW u \in Seq(Nat), Less(a, u)
        PROVE  Total(a) <= Total(u)
    <3>1. Len(u) = m + 1
      BY <2>1, <2>3
    <3> DEFINE f == Front(u)
    <3>2. /\ f \in Seq(Nat) /\ Len(f) = m /\ u = Append(f, u[m + 1]) /\ u[m + 1] \in Nat
          /\ \A i \in 1 .. m : f[i] = u[i]
      <4>1. m \in Nat /\ Len(u) = m + 1
        BY <2>1, <3>1
      <4> HIDE DEF a, m
      <4> QED
        BY <4>1, LastNumber
    <3> HIDE DEF f
    <3>3. n <= u[m + 1] /\ Less(r, f)
      <4>1. \A i \in 1 .. m + 1 : a[i] <= u[i]
        BY <2>1, <2>3
      <4>2. m + 1 \in 1 .. m + 1 /\ \A i \in 1 .. m : i \in 1 .. m + 1
        BY <2>1
      <4> HIDE DEF a, m
      <4> QED
        BY <2>1, <3>2, <4>1, <4>2 DEF m
    <3>4. Total(r) <= Total(f)
      BY <2>2, <3>2, <3>3
    <3>5. Total(a) = Total(r) + n /\ Total(u) = Total(f) + u[m + 1]
      BY <2>2, <3>2, TotalMore
    <3>6. Total(r) \in Nat /\ Total(f) \in Nat
      BY <2>2, <3>2, TotalIs
    <3> HIDE DEF a, m
    <3> QED
      BY <3>2, <3>3, <3>4, <3>5, <3>6
  <2> QED
    BY <2>1, <2>3
<1>3. Good = Seq(Nat)
  <2>1. Good \in SUBSET Seq(Nat)
    OBVIOUS
  <2> HIDE DEF Good
  <2> QED
    BY <1>1, <1>2, <2>1, AllSequences
<1>4. s \in Good
  BY <1>3
<1> QED
  BY <1>4

\* A sum of numbers is nothing if all are.
LEMMA TotalPositive ==
  ASSUME NEW s \in Seq(Nat)
  PROVE  Total(s) > 0 <=> \E i \in DOMAIN s : s[i] > 0
<1> DEFINE Good == {r \in Seq(Nat) : Total(r) > 0 <=> \E i \in DOMAIN r : r[i] > 0}
<1>1. <<>> \in Good
  BY TotalMore
<1>2. ASSUME NEW r \in Good, NEW n \in Nat
      PROVE  Append(r, n) \in Good
  <2> DEFINE a == Append(r, n)
             m == Len(r)
  <2>1. /\ a \in Seq(Nat) /\ m \in Nat /\ a[m + 1] = n
        /\ DOMAIN a = DOMAIN r \cup {m + 1}
        /\ \A p \in DOMAIN r : a[p] = r[p]
    OBVIOUS
  <2>2. r \in Seq(Nat) /\ (Total(r) > 0 <=> \E i \in DOMAIN r : r[i] > 0)
    OBVIOUS
  <2>3. Total(a) = Total(r) + n /\ Total(r) \in Nat
    BY <2>2, TotalMore, TotalIs
  <2>4. \A i \in DOMAIN r : r[i] \in Nat
    OBVIOUS
  <2> HIDE DEF a, m
  <2>5. (\E i \in DOMAIN a : a[i] > 0) <=> (\E i \in DOMAIN r : r[i] > 0) \/ n > 0
    BY <2>1
  <2>6. Total(r) + n > 0 <=> Total(r) > 0 \/ n > 0
    BY <2>3
  <2>7. Total(a) > 0 <=> \E i \in DOMAIN a : a[i] > 0
    BY <2>2, <2>3, <2>5, <2>6
  <2> QED
    BY <2>1, <2>7 DEF a
<1>3. Good = Seq(Nat)
  <2>1. Good \in SUBSET Seq(Nat)
    OBVIOUS
  <2> HIDE DEF Good
  <2> QED
    BY <1>1, <1>2, <2>1, AllSequences
<1> QED
  BY <1>3

\* A sum of which one number is replaced by a greater one.
LEMMA TotalWith ==
  ASSUME NEW s \in Seq(Nat), NEW n \in DOMAIN s, NEW k \in Nat, NEW t \in Seq(Nat),
         Len(t) = Len(s), t[n] = s[n] + k, \A i \in DOMAIN s : i # n => t[i] = s[i]
  PROVE  Total(t) = Total(s) + k
<1> DEFINE With(r, u, i) == /\ Len(u) = Len(r) /\ u[i] = r[i] + k
                            /\ \A j \in DOMAIN r : j # i => u[j] = r[j]
           Good == {r \in Seq(Nat) : \A u \in Seq(Nat) : \A i \in DOMAIN r :
                      With(r, u, i) => Total(u) = Total(r) + k}
<1>1. <<>> \in Good
  OBVIOUS
<1>2. ASSUME NEW r \in Good, NEW e \in Nat
      PROVE  Append(r, e) \in Good
  <2> DEFINE a == Append(r, e)
             m == Len(r)
  <2>1. /\ a \in Seq(Nat) /\ m \in Nat /\ Len(a) = m + 1 /\ a[m + 1] = e
        /\ DOMAIN a = 1 .. m + 1 /\ DOMAIN r = 1 .. m
        /\ \A p \in 1 .. m : a[p] = r[p]
    OBVIOUS
  <2>2. r \in Seq(Nat) /\ \A u \in Seq(Nat) : \A i \in DOMAIN r :
                            With(r, u, i) => Total(u) = Total(r) + k
    OBVIOUS
  <2>3. ASSUME NEW u \in Seq(Nat), NEW i \in DOMAIN a, With(a, u, i)
        PROVE  Total(u) = Total(a) + k
    <3>1. /\ Len(u) = m + 1 /\ i \in 1 .. m + 1 /\ u[i] = a[i] + k
          /\ \A j \in 1 .. m + 1 : j # i => u[j] = a[j]
      BY <2>1, <2>3
    <3> DEFINE f == Front(u)
    <3>2. /\ f \in Seq(Nat) /\ Len(f) = m /\ u = Append(f, u[m + 1]) /\ u[m + 1] \in Nat
          /\ \A j \in 1 .. m : f[j] = u[j]
      <4>1. m \in Nat /\ Len(u) = m + 1
        BY <2>1, <3>1
      <4> HIDE DEF a, m, Good, With
      <4> QED
        BY <4>1, LastNumber
    <3> HIDE DEF f
    <3>3. Total(a) = Total(r) + e /\ Total(u) = Total(f) + u[m + 1]
      BY <2>2, <3>2, TotalMore
    <3>4. Total(r) \in Nat /\ Total(f) \in Nat
      BY <2>2, <3>2, TotalIs
    <3> HIDE DEF a, Good
    <3>5. CASE i = m + 1
      <4>1. \A j \in 1 .. m : f[j] = r[j]
        BY <2>1, <3>1, <3>2, <3>5, Places
      <4>2. f = r
        BY <2>2, <3>2, <4>1, SameSequence
      <4>3. u[m + 1] = e + k
        BY <2>1, <3>1, <3>5
      <4> HIDE DEF m
      <4> QED
        BY <3>3, <3>4, <4>2, <4>3
    <3>6. CASE i # m + 1
      <4>1. i \in 1 .. m /\ m + 1 \in 1 .. m + 1 /\ \A j \in 1 .. m : j \in 1 .. m + 1 /\ j # m + 1
        BY <2>1, <3>1, <3>6, Places
      <4>2. With(r, f, i) /\ i \in DOMAIN r
        <5> HIDE DEF m
        <5> QED
          BY <2>1, <3>1, <3>2, <4>1 DEF m
      <4>3. Total(f) = Total(r) + k
        BY <2>2, <3>2, <4>2
      <4>4. u[m + 1] = e
        BY <2>1, <3>1, <3>6, <4>1
      <4> HIDE DEF m
      <4> QED
        BY <3>3, <3>4, <4>3, <4>4
    <3> QED
      BY <3>5, <3>6
  <2> QED
    BY <2>1, <2>3
<1>3. Good = Seq(Nat)
  <2>1. Good \in SUBSET Seq(Nat)
    OBVIOUS
  <2> HIDE DEF Good
  <2> QED
    BY <1>1, <1>2, <2>1, AllSequences
<1>4. s \in Good
  BY <1>3
<1> QED
  BY <1>4

\* The length of a text that is not empty.
LEMMA LengthApart ==
  ASSUME NEW text \in Seq(Nat), NEW n \in Nat, Len(text) = n + 1
  PROVE  LengthOf(text, 1) = Total(text) + n
<1>1. text # <<>>
  BY EmptySeq
<1>2. n + 1 - 1 = n /\ 1 * n = n
  OBVIOUS
<1>3. LengthOf(text, 1) = Total(text) + 1 * (n + 1 - 1)
  BY <1>1 DEF LengthOf
<1> QED
  BY <1>2, <1>3

\* One sequence behind another.
LEMMA BothLong ==
  ASSUME NEW s \in Seq(Nat), NEW t \in Seq(Nat)
  PROVE  s \o t \in Seq(Nat) /\ Len(s \o t) = Len(s) + Len(t)
<1>1. s \o t \in Seq(Nat)
  OBVIOUS
<1>2. Len(s \o t) = Len(s) + Len(t)
  OBVIOUS
<1> QED
  BY <1>1, <1>2

\* What is put right behind a text counts.
LEMMA LengthOcr ==
  ASSUME NEW s \in Seq(Nat), NEW t \in Seq(Nat)
  PROVE  LengthOf(TextAndOcr(s, t), 1) = LengthOf(s, 1) + LengthOf(t, 1)
<1>1. CASE s = <<>>
  <2>1. TextAndOcr(s, t) = t /\ LengthOf(s, 1) = 0 /\ LengthOf(t, 1) \in Nat
    BY <1>1, LengthIs DEF TextAndOcr, LengthOf
  <2> QED
    BY <2>1
<1>2. CASE t = <<>>
  <2>1. TextAndOcr(s, t) = s /\ LengthOf(t, 1) = 0 /\ LengthOf(s, 1) \in Nat
    BY <1>2, LengthIs DEF TextAndOcr, LengthOf
  <2> QED
    BY <2>1
<1>3. CASE s # <<>> /\ t # <<>>
  <2>1. PICK m \in Nat : Len(s) = m + 1
    <3>1. Len(s) \in Nat /\ Len(s) # 0
      BY <1>3, EmptySeq
    <3>2. Len(s) - 1 \in Nat /\ Len(s) = (Len(s) - 1) + 1
      BY <3>1
    <3> QED
      BY <3>2
  <2> DEFINE f == Front(s)
  <2>2. f \in Seq(Nat) /\ Len(f) = m /\ s = Append(f, s[m + 1]) /\ s[m + 1] \in Nat
    BY <2>1, LastNumber
  <2>3. PICK x \in Nat, u \in Seq(Nat) : t = <<x>> \o u /\ Head(t) = x /\ Tail(t) = u
    <3>1. Head(t) \in Nat /\ Tail(t) \in Seq(Nat) /\ t = <<Head(t)>> \o Tail(t)
      BY <1>3
    <3> QED
      BY <3>1, Zenon
  <2> DEFINE y == s[m + 1]
             k == Len(u)
  <2>4. k \in Nat /\ Len(t) = k + 1
    BY <2>3
  <2>5. Last(s) = y
    BY <2>1 DEF Last
  <2>6. TextAndOcr(s, t) = (f \o <<y + x>>) \o u
    BY <1>3, <2>3, <2>5 DEF TextAndOcr
  <2>7. \A n \in Nat : Total(<<n>>) = n /\ <<n>> \in Seq(Nat)
    BY TotalOne
  <2>8. y \in Nat /\ Total(s) = Total(f) + y
    BY <2>2, TotalMore
  <2> HIDE DEF f, y, k
  <2>9. Total(t) = x + Total(u)
    <3> DEFINE one == <<x>>
    <3>1. one \in Seq(Nat) /\ Total(one) = x /\ t = one \o u
      BY <2>3, <2>7
    <3> HIDE DEF one
    <3> QED
      BY <3>1, TotalBoth
  <2> DEFINE all == (f \o <<y + x>>) \o u
  <2>10. /\ all \in Seq(Nat) /\ Len(all) = (m + k) + 1
         /\ Total(all) = (Total(f) + (y + x)) + Total(u)
    <3> DEFINE z == y + x
    <3>1. z \in Nat
      BY <2>8
    <3> HIDE DEF z
    <3> DEFINE one == <<z>>
    <3>2. one \in Seq(Nat) /\ Total(one) = z /\ Len(one) = 1
      BY <2>7, <3>1
    <3> HIDE DEF one
    <3> DEFINE g == f \o one
    <3>9. f \in Seq(Nat) /\ Len(f) = m
      BY <2>2
    <3>10. g \in Seq(Nat) /\ Len(g) = Len(f) + Len(one)
      BY <3>2, <3>9, BothLong
    <3> HIDE DEF g
    <3>3. g \in Seq(Nat) /\ Len(g) = m + 1
      BY <3>2, <3>9, <3>10
    <3>7. Total(g) = Total(f) + Total(one)
      BY <3>2, <3>9, TotalBoth DEF g
    <3>8. all = g \o u
      BY DEF z, one, g
    <3> HIDE DEF all
    <3>4. Total(g \o u) = Total(g) + Total(u)
      BY <2>3, <3>3, TotalBoth
    <3>5. g \o u \in Seq(Nat) /\ Len(g \o u) = (m + 1) + k
      BY <2>3, <3>3, BothLong DEF k
    <3>6. (m + 1) + k = (m + k) + 1
      BY <2>4
    <3> QED
      BY <3>2, <3>4, <3>5, <3>6, <3>7, <3>8 DEF z
  <2>11. Total(f) \in Nat /\ Total(u) \in Nat
    BY <2>2, TotalIs
  <2> HIDE DEF all
  <2>12. LengthOf(all, 1) = Total(all) + (m + k)
    BY <2>4, <2>10, LengthApart
  <2>13. LengthOf(s, 1) = Total(s) + m /\ LengthOf(t, 1) = Total(t) + k
    BY <2>1, <2>4, LengthApart
  <2>14. TextAndOcr(s, t) = all
    BY <2>6 DEF all
  <2> QED
    BY <2>4, <2>8, <2>9, <2>10, <2>11, <2>12, <2>13, <2>14
<1> QED
  BY <1>1, <1>2, <1>3

\* How many of an empty sequence have a role, and of one with one more element.
LEMMA CountMore ==
  ASSUME NEW role
  PROVE  /\ Count(<<>>, role) = 0
         /\ \A E : \A s \in Seq(E), e \in E :
              /\ Count(s, role) \in Nat
              /\ Count(Append(s, e), role) = Count(s, role) + IF e.role = role THEN 1 ELSE 0
<1>1. Count(<<>>, role) = 0
  <2>1. {i \in DOMAIN <<>> : <<>>[i].role = role} = {}
    OBVIOUS
  <2> QED
    BY <2>1, FS_EmptySet DEF Count
<1>2. ASSUME NEW E, NEW s \in Seq(E), NEW e \in E
      PROVE  /\ Count(s, role) \in Nat
             /\ Count(Append(s, e), role) = Count(s, role) + IF e.role = role THEN 1 ELSE 0
  <2> DEFINE a == Append(s, e)
             n == Len(s) + 1
             Of(u) == {i \in DOMAIN u : u[i].role = role}
  <2>1. /\ DOMAIN a = DOMAIN s \cup {n} /\ n \notin DOMAIN s /\ a[n] = e
        /\ \A i \in DOMAIN s : a[i] = s[i]
    OBVIOUS
  <2>2. Count(s, role) = Cardinality(Of(s)) /\ Count(a, role) = Cardinality(Of(a))
    BY DEF Count
  <2>3. Of(a) = IF e.role = role THEN Of(s) \cup {n} ELSE Of(s)
    <3> HIDE DEF a, n
    <3> QED
      BY <2>1
  <2>4. n \notin Of(s)
    BY <2>1
  <2>5. IsFiniteSet(Of(s))
    <3>1. IsFiniteSet(1 .. Len(s)) /\ Of(s) \subseteq 1 .. Len(s)
      BY FS_Interval
    <3> HIDE DEF Of
    <3> QED
      BY <3>1, FS_Subset
  <2> HIDE DEF a, n, Of
  <2>6. Cardinality(Of(s)) \in Nat
    BY <2>5, FS_CardinalityType
  <2>7. Cardinality(Of(s) \cup {n}) = Cardinality(Of(s)) + 1
    BY <2>4, <2>5, FS_AddElement
  <2> QED
    BY <2>2, <2>3, <2>6, <2>7 DEF a
<1> QED
  BY <1>1, <1>2

\* Some have a role if their number is not zero.
LEMMA CountIs ==
  ASSUME NEW role, NEW E, NEW s \in Seq(E)
  PROVE  Count(s, role) \in Nat /\ (Count(s, role) > 0 <=> \E i \in DOMAIN s : s[i].role = role)
<1> DEFINE Of == {i \in DOMAIN s : s[i].role = role}
<1>1. Count(s, role) = Cardinality(Of)
  BY DEF Count
<1>2. IsFiniteSet(Of)
  <2>1. IsFiniteSet(1 .. Len(s)) /\ Of \subseteq 1 .. Len(s)
    BY FS_Interval
  <2> HIDE DEF Of
  <2> QED
    BY <2>1, FS_Subset
<1>3. Of # {} <=> \E i \in DOMAIN s : s[i].role = role
  OBVIOUS
<1> HIDE DEF Of
<1>4. Cardinality(Of) \in Nat /\ (Cardinality(Of) = 0 <=> Of = {})
  BY <1>2, FS_CardinalityType, FS_EmptySet
<1> QED
  BY <1>1, <1>3, <1>4

\* How many in two sequences.
LEMMA CountBoth ==
  ASSUME NEW role, NEW E, NEW s \in Seq(E), NEW t \in Seq(E)
  PROVE  Count(s \o t, role) = Count(s, role) + Count(t, role)
<1> DEFINE Good == {r \in Seq(E) : Count(s \o r, role) = Count(s, role) + Count(r, role)}
<1>1. <<>> \in Good
  <2>1. s \o <<>> = s /\ Count(s, role) \in Nat
    BY CountIs
  <2> QED
    BY <2>1, CountMore
<1>2. ASSUME NEW r \in Good, NEW e \in E
      PROVE  Append(r, e) \in Good
  <2> DEFINE k == IF e.role = role THEN 1 ELSE 0
  <2>1. s \o Append(r, e) = Append(s \o r, e) /\ s \o r \in Seq(E) /\ Append(r, e) \in Seq(E)
    OBVIOUS
  <2>2. Count(s, role) \in Nat /\ Count(r, role) \in Nat /\ k \in Nat
    BY CountIs
  <2>3. Count(s \o Append(r, e), role) = Count(s \o r, role) + k
    <3> DEFINE u == s \o r
    <3>1. u \in Seq(E) /\ s \o Append(r, e) = Append(u, e)
      BY <2>1
    <3> HIDE DEF u
    <3>2. Count(Append(u, e), role) = Count(u, role) + k
      BY <3>1, CountMore
    <3> QED
      BY <3>1, <3>2 DEF u
  <2>4. Count(Append(r, e), role) = Count(r, role) + k
    BY CountMore
  <2>5. Count(s \o r, role) = Count(s, role) + Count(r, role)
    OBVIOUS
  <2> HIDE DEF k
  <2>6. Count(s \o Append(r, e), role) = Count(s, role) + Count(Append(r, e), role)
    BY <2>2, <2>3, <2>4, <2>5
  <2> QED
    BY <2>1, <2>6
<1>3. Good = Seq(E)
  <2>1. Good \in SUBSET Seq(E)
    OBVIOUS
  <2> HIDE DEF Good
  <2> QED
    BY <1>1, <1>2, <2>1, AllSequences
<1> QED
  BY <1>3

Counts(ss, role) == [p \in DOMAIN ss |-> Count(ss[p], role)]

\* How many in each of several sequences.
LEMMA CountsAre ==
  ASSUME NEW role, NEW E, NEW ss \in Seq(Seq(E))
  PROVE  /\ Counts(ss, role) \in Seq(Nat) /\ Counts(ss, role) \in [1 .. Len(ss) -> Nat]
         /\ Len(Counts(ss, role)) = Len(ss)
<1> DEFINE m == Len(ss)
<1>1. m \in Nat /\ DOMAIN ss = 1 .. m /\ \A p \in DOMAIN ss : ss[p] \in Seq(E)
  OBVIOUS
<1>2. Counts(ss, role) \in [1 .. m -> Nat]
  BY <1>1, CountIs DEF Counts
<1> HIDE DEF m
<1>3. Counts(ss, role) \in Seq(Nat) /\ Len(Counts(ss, role)) = m
  BY <1>1, <1>2, AreSequences
<1> QED
  BY <1>2, <1>3 DEF m

\* As many have a role in sequences joined as in all of them together.
LEMMA CountOfAll ==
  ASSUME NEW role, NEW E, NEW ss \in Seq(Seq(E))
  PROVE  Count(Flat(ss), role) = Total(Counts(ss, role))
<1> DEFINE Good == {rr \in Seq(Seq(E)) : Count(Flat(rr), role) = Total(Counts(rr, role))}
<1>1. <<>> \in Good
  <2>1. Counts(<<>>, role) = <<>> /\ <<>> \in Seq(Seq(E))
    BY DEF Counts
  <2> QED
    BY <2>1, FlatMore, TotalMore, CountMore
<1>2. ASSUME NEW rr \in Good, NEW r \in Seq(E)
      PROVE  Append(rr, r) \in Good
  <2> DEFINE a == Append(rr, r)
             m == Len(rr)
  <2>1. /\ a \in Seq(Seq(E)) /\ m \in Nat /\ Len(a) = m + 1 /\ a[m + 1] = r
        /\ DOMAIN a = 1 .. m + 1 /\ DOMAIN rr = 1 .. m
        /\ \A p \in 1 .. m : a[p] = rr[p]
    OBVIOUS
  <2>2. rr \in Seq(Seq(E)) /\ Count(Flat(rr), role) = Total(Counts(rr, role))
    OBVIOUS
  <2>3. Flat(a) = Flat(rr) \o r /\ Flat(rr) \in Seq(E)
    BY <2>2, FlatMore, FlatIs
  <2> HIDE DEF a, m, Good
  <2>4. /\ Counts(a, role) \in [1 .. m + 1 -> Nat] /\ Counts(rr, role) \in [1 .. m -> Nat]
        /\ Counts(rr, role) \in Seq(Nat)
    BY <2>1, <2>2, CountsAre DEF m
  <2>5. /\ Counts(a, role)[m + 1] = Count(r, role)
        /\ \A p \in 1 .. m : Counts(a, role)[p] = Counts(rr, role)[p]
    BY <2>1, Places DEF Counts
  <2>6. Counts(a, role) = Append(Counts(rr, role), Count(r, role))
    BY <2>1, <2>4, <2>5, OneMoreIs
  <2>7. Total(Counts(a, role)) = Total(Counts(rr, role)) + Count(r, role)
    BY <2>4, <2>6, CountIs, TotalMore
  <2>8. Count(Flat(a), role) = Count(Flat(rr), role) + Count(r, role)
    BY <2>3, CountBoth
  <2> QED
    BY <2>1, <2>2, <2>7, <2>8 DEF Good, a
<1>3. Good = Seq(Seq(E))
  <2>1. Good \in SUBSET Seq(Seq(E))
    OBVIOUS
  <2> HIDE DEF Good
  <2> QED
    BY <1>1, <1>2, <2>1, AllSequences
<1> QED
  BY <1>3

TakeShown(kept, e) == IF HasMarkdown(e) THEN Append(kept, e) ELSE kept

Shows == INSTANCE Folding WITH Step <- TakeShown

\* What the generator leaves out are tables.
LEMMA CountShown ==
  ASSUME NEW role, NEW E, NEW s \in Seq(E)
  PROVE  /\ Selected(s, HasMarkdown) \in Seq(E)
         /\ Count(Selected(s, HasMarkdown), role) <= Count(s, role)
         /\ role # "table" => Count(Selected(s, HasMarkdown), role) = Count(s, role)
<1> DEFINE Left(r) == Selected(r, HasMarkdown)
           Fine(r) == /\ Left(r) \in Seq(E) /\ Count(Left(r), role) <= Count(r, role)
                      /\ role # "table" => Count(Left(r), role) = Count(r, role)
           Good == {r \in Seq(E) : Fine(r)}
<1>1. \A r : Left(r) = Shows!Fold(<<>>, r)
  BY DEF Selected, Shows!Fold, TakeShown, FoldLeft, MapThenFoldSet, Shows!MapThenFoldSet,
        Max, Shows!GreatestOf
<1> HIDE DEF Left
<1>2. <<>> \in Good
  <2>1. Left(<<>>) = <<>>
    BY <1>1, Shows!OfNothing
  <2>2. Count(<<>>, role) = 0 /\ <<>> \in Seq(E) /\ 0 <= 0
    BY CountMore
  <2> HIDE DEF Left
  <2> QED
    BY <2>1, <2>2
<1>3. ASSUME NEW r \in Good, NEW e \in E
      PROVE  Append(r, e) \in Good
  <2> DEFINE u == Left(r)
             a == Append(r, e)
             k == IF e.role = role THEN 1 ELSE 0
  <2>1. /\ r \in Seq(E) /\ u \in Seq(E) /\ Count(u, role) <= Count(r, role)
        /\ role # "table" => Count(u, role) = Count(r, role)
    OBVIOUS
  <2>2. Left(a) = IF HasMarkdown(e) THEN Append(u, e) ELSE u
    BY <1>1, <2>1, Shows!OfOneMore DEF TakeShown
  <2>3. /\ Count(u, role) \in Nat /\ Count(r, role) \in Nat /\ k \in Nat
        /\ Count(a, role) = Count(r, role) + k /\ Count(Append(u, e), role) = Count(u, role) + k
    BY <2>1, CountIs, CountMore
  <2>4. ~HasMarkdown(e) /\ role # "table" => k = 0
    BY DEF HasMarkdown
  <2>5. a \in Seq(E) /\ Append(u, e) \in Seq(E)
    BY <2>1
  <2> HIDE DEF u, a, k
  <2>6. Fine(a)
    BY <2>1, <2>2, <2>3, <2>4, <2>5
  <2> QED
    BY <2>5, <2>6 DEF a
<1>4. Good = Seq(E)
  <2>1. Good \in SUBSET Seq(E)
    OBVIOUS
  <2> HIDE DEF Good
  <2> QED
    BY <1>2, <1>3, <2>1, AllSequences
<1>5. Fine(s)
  BY <1>4
<1> QED
  BY <1>5 DEF Left

-----------------------------------------------------------------------------
(* What a document tells of itself.                                        *)

\* The characters of the pages.
SumOf(pages) == Total(Lengths(pages))

Fields == {"title", "pages", "pageCount", "chars", "hasTables", "hasImages", "hasOcr", "scanned"}

Told(d) ==
  /\ Fields \subseteq DOMAIN d
  /\ d.pageCount \in {0, Len(d.pages)}
  /\ d.hasTables <=> HasRole(d.pages, "table")
  /\ d.hasImages <=> HasRole(d.pages, "image")
  /\ \A p \in DOMAIN d.pages : d.pages[p].scanned => d.scanned

\* The characters of its pages are counted.
Counted(d) == d.chars \in Nat /\ d.chars = SumOf(d.pages)

\* A document tells the truth of the pages it is made with, and so it does when it is said to
\* be scanned, or when characters are counted another way.
LEMMA DocumentTells ==
  ASSUME NEW Tabs, NEW pages \in Seq(PageType(Tabs)), NEW title, NEW n \in {0, Len(pages)},
         NEW x, \A p \in DOMAIN pages : pages[p].scanned => x
  PROVE  LET d == Document(title, pages, n)
         IN  /\ Counted(d) /\ Counted([d EXCEPT !.scanned = x])
             /\ Told([d EXCEPT !.scanned = x])
             /\ (\A p \in DOMAIN pages : ~pages[p].scanned) =>
                  Told(d) /\ \A k : Told([d EXCEPT !.chars = k])
<1> DEFINE d == Document(title, pages, n)
           e == [d EXCEPT !.scanned = x]
           sum == Total(Lengths(pages))
           tables == HasRole(pages, "table")
           images == HasRole(pages, "image")
           no == FALSE
<1>1. d = [title |-> title, pages |-> pages, pageCount |-> n, chars |-> sum, hasTables |-> tables,
           hasImages |-> images, hasOcr |-> no, scanned |-> no]
  BY DEF Document
<1>2. sum \in Nat /\ sum = SumOf(pages)
  BY LengthsAre DEF SumOf
<1> HIDE DEF d, sum, tables, images, no
<1>3. /\ DOMAIN d = Fields /\ d.pages = pages /\ d.pageCount = n /\ d.chars = sum
      /\ d.hasTables = tables /\ d.hasImages = images /\ d.scanned = no
  BY <1>1 DEF Fields
<1>4. ASSUME \A p \in DOMAIN pages : ~pages[p].scanned
      PROVE  Told(d) /\ \A k : Told([d EXCEPT !.chars = k])
  <2>1. Told(d)
    BY <1>3, <1>4 DEF Told, tables, images
  <2>2. ASSUME NEW k
        PROVE  Told([d EXCEPT !.chars = k])
    <3> DEFINE c == [d EXCEPT !.chars = k]
    <3>1. /\ DOMAIN c = Fields /\ c.pages = pages /\ c.pageCount = n
          /\ c.hasTables = tables /\ c.hasImages = images /\ c.scanned = no
      BY <1>3 DEF Fields
    <3> HIDE DEF c
    <3>2. Told(c)
      BY <1>4, <3>1 DEF Told, tables, images
    <3> QED
      BY <3>2 DEF c
  <2> QED
    BY <2>1, <2>2
<1>5. /\ DOMAIN e = Fields /\ e.pages = pages /\ e.pageCount = n /\ e.chars = sum
      /\ e.hasTables = tables /\ e.hasImages = images /\ e.scanned = x
  BY <1>3 DEF Fields
<1> HIDE DEF e
<1>6. Told(e)
  BY <1>5 DEF Told, tables, images
<1>7. Counted(d) /\ Counted(e)
  BY <1>2, <1>3, <1>5 DEF Counted
<1> QED
  BY <1>4, <1>6, <1>7 DEF d, e

\* A page is not scanned when it is put together.
LEMMA NotScanned ==
  /\ \A n, elements, text : ~Page(n, elements, text).scanned
  /\ \A n, elements, text, eol : ~[Page(n, elements, text) EXCEPT !.eol = eol].scanned
  /\ \A n, slide : ~Slide(n, slide).scanned
  /\ \A n, sheet : ~Sheet(n, sheet).scanned
  /\ \A n, page : ~PdfPage(n, page).scanned
<1>1. \A n, elements, text : ~Page(n, elements, text).scanned
  BY DEF Page
<1>5. \A n, elements, text, eol : ~[Page(n, elements, text) EXCEPT !.eol = eol].scanned
  BY DEF Page
<1>2. \A n, slide : ~Slide(n, slide).scanned
  BY <1>1 DEF Slide
<1>3. \A n, sheet : ~Sheet(n, sheet).scanned
  BY <1>1 DEF Sheet
<1>4. \A n, page : ~PdfPage(n, page).scanned
  BY <1>1 DEF PdfPage
<1> QED
  BY <1>1, <1>2, <1>3, <1>4, <1>5

\* A document of several pages that are not scanned.
LEMMA PagesTell ==
  ASSUME NEW title, NEW pages, NEW n \in {0, Len(pages)}, NEW d, Makes(d, Extractions),
         \A p \in DOMAIN pages : ~pages[p].scanned
  PROVE  /\ d = Document(title, pages, n) => Told(d) /\ Counted(d)
         /\ (\E x : d = [Document(title, pages, n) EXCEPT !.scanned = x]) => Told(d) /\ Counted(d)
         /\ (\E k : d = [Document(title, pages, n) EXCEPT !.chars = k]) => Told(d)
<1>1. ASSUME d.pages = pages
      PROVE  pages \in Seq(PageType(TableType))
  BY <1>1 DEF Makes, Extractions
<1>2. ASSUME d = Document(title, pages, n)
      PROVE  Told(d) /\ Counted(d)
  <2>1. pages \in Seq(PageType(TableType))
    BY <1>1, <1>2, DocumentHas
  <2> QED
    BY <1>2, <2>1, DocumentTells
<1>3. ASSUME NEW x, d = [Document(title, pages, n) EXCEPT !.scanned = x]
      PROVE  Told(d) /\ Counted(d)
  <2>1. pages \in Seq(PageType(TableType))
    BY <1>1, <1>3, DocumentHas
  <2>2. \A p \in DOMAIN pages : pages[p].scanned => x
    OBVIOUS
  <2> QED
    BY <1>3, <2>1, <2>2, DocumentTells
<1>4. ASSUME NEW k, d = [Document(title, pages, n) EXCEPT !.chars = k]
      PROVE  Told(d)
  <2>1. pages \in Seq(PageType(TableType))
    BY <1>1, <1>4, DocumentHas
  <2>2. \A p \in DOMAIN pages : pages[p].scanned => FALSE
    OBVIOUS
  <2> QED
    BY <1>4, <2>1, <2>2, DocumentTells
<1> QED
  BY <1>2, <1>3, <1>4

\* A document of one page that is not scanned.
LEMMA OnePageTells ==
  ASSUME NEW title, NEW page, ~page.scanned, Makes(Document(title, <<page>>, 0), Extractions)
  PROVE  Told(Document(title, <<page>>, 0)) /\ Counted(Document(title, <<page>>, 0))
<1> DEFINE pages == <<page>>
<1>1. \A p \in DOMAIN pages : ~pages[p].scanned
  OBVIOUS
<1> HIDE DEF pages
<1> DEFINE d == Document(title, pages, 0)
<1>2. Makes(d, Extractions)
  BY DEF pages
<1> HIDE DEF d
<1>3. d = Document(title, pages, 0) => Told(d) /\ Counted(d)
  BY <1>1, <1>2, PagesTell
<1> QED
  BY <1>3 DEF d, pages

\* Text and Markdown files.
LEMMA LineFilesTell ==
  ASSUME NEW f, f.lines \in Seq(DOMAIN LineSize)
  PROVE  /\ Told(ExtractMarkdown(f)) /\ Counted(ExtractMarkdown(f))
         /\ Told(ExtractTxt(f)) /\ Counted(ExtractTxt(f))
<1>1. Makes(ExtractMarkdown(f), Extractions) /\ Makes(ExtractTxt(f), Extractions)
  BY MarkdownIs, TxtIs DEF Makes, Originals
<1>2. ASSUME NEW items, NEW eol, NEW title,
             Makes(LineDocument(f, items, eol, title), Extractions)
      PROVE  /\ Told(LineDocument(f, items, eol, title))
             /\ Counted(LineDocument(f, items, eol, title))
  <2> DEFINE page == [Page(1, Numbered(1, items, 0), LineSizes(LinesOf(f))) EXCEPT !.eol = eol]
  <2>1. LineDocument(f, items, eol, title) = Document(title, <<page>>, 0)
    BY DEF LineDocument
  <2>2. ~page.scanned
    BY NotScanned
  <2> HIDE DEF page
  <2> QED
    BY <1>2, <2>1, <2>2, OnePageTells
<1>3. /\ \E items, eol, title : ExtractMarkdown(f) = LineDocument(f, items, eol, title)
      /\ \E items, eol, title : ExtractTxt(f) = LineDocument(f, items, eol, title)
  BY DEF ExtractMarkdown, ExtractTxt
<1> QED
  BY <1>1, <1>2, <1>3

\* Office files.  The characters of sheets are counted another way.
LEMMA OfficeFilesTell ==
  /\ \A f : f.pages \in Seq(PagesOf("docx")) /\ Len(f.pages) = 1 =>
       Told(ExtractDocx(f)) /\ Counted(ExtractDocx(f))
  /\ \A f : f.pages \in Seq(PagesOf("pptx")) => Told(ExtractPptx(f)) /\ Counted(ExtractPptx(f))
  /\ \A f : f.pages \in Seq(PagesOf("xlsx")) => Told(ExtractXlsx(f))
<1>1. ASSUME NEW f, f.pages \in Seq(PagesOf("docx")), Len(f.pages) = 1
      PROVE  Told(ExtractDocx(f)) /\ Counted(ExtractDocx(f))
  <2>1. Makes(ExtractDocx(f), Extractions)
    BY <1>1, DocxIs DEF Makes, Originals
  <2>2. \E title, elements, text :
          ExtractDocx(f) = Document(title, <<Page(1, elements, text)>>, 0)
    BY DEF ExtractDocx
  <2> QED
    BY <2>1, <2>2, OnePageTells, NotScanned
<1>2. ASSUME NEW f, f.pages \in Seq(PagesOf("pptx"))
      PROVE  Told(ExtractPptx(f)) /\ Counted(ExtractPptx(f))
  <2> DEFINE pages == [n \in DOMAIN f.pages |-> Slide(n, f.pages[n])]
             m == Len(f.pages)
             d == ExtractPptx(f)
  <2>1. Makes(d, Extractions)
    BY <1>2, PptxIs DEF Makes, Originals
  <2>2. d = Document(TitleOf(f), pages, m)
    BY DEF ExtractPptx
  <2>3. \A p \in DOMAIN pages : ~pages[p].scanned
    BY NotScanned
  <2>4. DOMAIN pages = 1 .. m /\ m \in Nat
    BY <1>2
  <2> HIDE DEF pages, m, d
  <2>5. pages \in Seq(PageType(TableType))
    BY <2>1, <2>2, DocumentHas DEF Makes, Extractions
  <2>6. m = Len(pages)
    BY <2>4, <2>5
  <2> QED
    BY <2>1, <2>2, <2>3, <2>6, PagesTell DEF d
<1>3. ASSUME NEW f, f.pages \in Seq(PagesOf("xlsx"))
      PROVE  Told(ExtractXlsx(f))
  <2> DEFINE pages == [n \in DOMAIN f.pages |-> Sheet(n, f.pages[n])]
             m == Len(f.pages)
             k == Total([n \in DOMAIN f.pages |-> CellChars(f.pages[n])])
             d == ExtractXlsx(f)
  <2>1. Makes(d, Extractions)
    BY <1>3, XlsxIs DEF Makes, Originals
  <2>2. d = [Document(TitleOf(f), pages, m) EXCEPT !.chars = k]
    BY DEF ExtractXlsx
  <2>3. \A p \in DOMAIN pages : ~pages[p].scanned
    BY NotScanned
  <2>4. DOMAIN pages = 1 .. m /\ m \in Nat
    BY <1>3
  <2> HIDE DEF pages, m, d, k
  <2>5. pages \in Seq(PageType(TableType))
    BY <2>1, <2>2, DocumentHas DEF Makes, Extractions
  <2>6. m = Len(pages)
    BY <2>4, <2>5
  <2> QED
    BY <2>1, <2>2, <2>3, <2>6, PagesTell DEF d
<1> QED
  BY <1>1, <1>2, <1>3

\* A PDF before recognition.
LEMMA PdfTells ==
  ASSUME NEW f, f.pages \in Seq(PagesOf("pdf"))
  PROVE  /\ Told(ExtractPdf(f)) /\ Counted(ExtractPdf(f))
         /\ \A p \in DOMAIN ExtractPdf(f).pages : ExtractPdf(f).pages[p].eol = 1
<1> DEFINE m == Min({Len(f.pages), MaxPages})
           pages == [n \in 1 .. m |-> PdfPage(n, f.pages[n])]
           x == f.sample < 50
           d == ExtractPdf(f)
<1>1. Makes(d, Extractions)
  BY PdfIs DEF Makes, Originals
<1>2. d = [Document(TitleOf(f), pages, m) EXCEPT !.scanned = x]
  BY DEF ExtractPdf
<1>3. \A p \in DOMAIN pages : ~pages[p].scanned
  BY NotScanned
<1>8. \A p \in DOMAIN pages : pages[p].eol = 1
  <2>1. \A n, elements, text : Page(n, elements, text).eol = 1
    BY DEF Page
  <2>2. \A n, page : PdfPage(n, page).eol = 1
    BY <2>1 DEF PdfPage
  <2> QED
    BY <2>2
<1>4. m \in Nat
  BY LesserIs, LimitsAssumption
<1>5. DOMAIN pages = 1 .. m
  OBVIOUS
<1> HIDE DEF pages, m, d, x
<1>6. d.pages = pages /\ pages \in Seq(PageType(TableType))
  BY <1>1, <1>2, DocumentHas DEF Makes, Extractions
<1>7. m = Len(pages)
  BY <1>4, <1>5, <1>6
<1>9. Told(d) /\ Counted(d)
  BY <1>1, <1>2, <1>3, <1>7, PagesTell
<1> QED
  BY <1>6, <1>8, <1>9 DEF d

\* An image: its page and the document are both scanned.
LEMMA ImageTells ==
  ASSUME NEW f, f.pages \in Seq(PagesOf("image")), Len(f.pages) = 1
  PROVE  Told(ExtractImage(f)) /\ Counted(ExtractImage(f))
<1> DEFINE found == f.pages[1].ocr
           page == [Page(1, OcrElements(1, found, 0), OcrText(found)) EXCEPT !.scanned = TRUE]
           pages == <<page>>
           yes == TRUE
           no == <<>>
           d == ExtractImage(f)
<1>1. Makes(d, Extractions)
  BY ImageIs
<1>2. d = [Document(no, pages, 1) EXCEPT !.scanned = yes]
  BY DEF ExtractImage
<1>3. \A p \in DOMAIN pages : pages[p].scanned => yes
  OBVIOUS
<1>4. Len(pages) = 1
  OBVIOUS
<1> HIDE DEF pages, d, yes, no
<1>5. pages \in Seq(PageType(TableType))
  BY <1>1, <1>2, DocumentHas DEF Makes, Extractions
<1>6. LET e == [Document(no, pages, 1) EXCEPT !.scanned = yes] IN Told(e) /\ Counted(e)
  BY <1>3, <1>4, <1>5, DocumentTells
<1> QED
  BY <1>2, <1>6 DEF d

\* What every preprocessor tells of a file is true of what it made.
LEMMA ExtractTells ==
  ASSUME NEW f \in Files, f.format # NoFormat
  PROVE  /\ Told(Extract(f)) /\ (f.format # "xlsx" => Counted(Extract(f)))
         /\ f.format = "pdf" => \A p \in DOMAIN Extract(f).pages : Extract(f).pages[p].eol = 1
<1>1. \/ f.format \in LineFormats /\ f.lines \in Seq(DOMAIN LineSize)
      \/ /\ f.format \in PageFormats /\ f.pages \in Seq(PagesOf(f.format))
         /\ f.format \in {"docx", "image"} => Len(f.pages) = 1
  BY AFile
<1>2. CASE f.format = "md"
  <2>1. f.lines \in Seq(DOMAIN LineSize) /\ Extract(f) = ExtractMarkdown(f)
    BY <1>1, <1>2 DEF PageFormats, Extract
  <2> QED
    BY <1>2, <2>1, LineFilesTell
<1>3. CASE f.format = "txt"
  <2>1. f.lines \in Seq(DOMAIN LineSize) /\ Extract(f) = ExtractTxt(f)
    BY <1>1, <1>3 DEF PageFormats, Extract
  <2> QED
    BY <1>3, <2>1, LineFilesTell
<1>4. CASE f.format = "docx"
  <2>1. f.pages \in Seq(PagesOf("docx")) /\ Len(f.pages) = 1 /\ Extract(f) = ExtractDocx(f)
    BY <1>1, <1>4 DEF LineFormats, Extract
  <2> QED
    BY <1>4, <2>1, OfficeFilesTell
<1>5. CASE f.format = "pptx"
  <2>1. f.pages \in Seq(PagesOf("pptx")) /\ Extract(f) = ExtractPptx(f)
    BY <1>1, <1>5 DEF LineFormats, Extract
  <2> QED
    BY <1>5, <2>1, OfficeFilesTell
<1>6. CASE f.format = "xlsx"
  <2>1. f.pages \in Seq(PagesOf("xlsx")) /\ Extract(f) = ExtractXlsx(f)
    BY <1>1, <1>6 DEF LineFormats, Extract
  <2> QED
    BY <1>6, <2>1, OfficeFilesTell
<1>7. CASE f.format = "pdf"
  <2>1. f.pages \in Seq(PagesOf("pdf")) /\ Extract(f) = ExtractPdf(f)
    BY <1>1, <1>7 DEF LineFormats, Extract
  <2> QED
    BY <1>7, <2>1, PdfTells
<1>8. CASE f.format = "image"
  <2>1. f.pages \in Seq(PagesOf("image")) /\ Len(f.pages) = 1 /\ Extract(f) = ExtractImage(f)
    BY <1>1, <1>8 DEF LineFormats, Extract
  <2> QED
    BY <1>8, <2>1, ImageTells
<1> QED
  BY <1>1, <1>2, <1>3, <1>4, <1>5, <1>6, <1>7, <1>8 DEF LineFormats, PageFormats

-----------------------------------------------------------------------------
(* The stages keep what a document tells true.                             *)

Some(s, role) == \E i \in DOMAIN s : s[i].role = role

\* One more element.
LEMMA SomeMore ==
  ASSUME NEW E, NEW s \in Seq(E), NEW e \in E, NEW role
  PROVE  Some(Append(s, e), role) <=> Some(s, role) \/ e.role = role
<1> DEFINE a == Append(s, e)
           n == Len(s) + 1
<1>1. DOMAIN a = DOMAIN s \cup {n} /\ a[n] = e /\ \A i \in DOMAIN s : a[i] = s[i]
  OBVIOUS
<1> HIDE DEF a, n
<1>2. Some(a, role) <=> Some(s, role) \/ e.role = role
  BY <1>1 DEF Some
<1> QED
  BY <1>2 DEF a

\* Two sequences joined.
LEMMA SomeBoth ==
  ASSUME NEW E, NEW s \in Seq(E), NEW t \in Seq(E), NEW role
  PROVE  Some(s \o t, role) <=> Some(s, role) \/ Some(t, role)
<1>1. Count(s \o t, role) = Count(s, role) + Count(t, role)
  BY CountBoth
<1>2. s \o t \in Seq(E)
  OBVIOUS
<1>3. \A r \in Seq(E) : Count(r, role) \in Nat /\ (Count(r, role) > 0 <=> Some(r, role))
  BY CountIs DEF Some
<1> DEFINE u == s \o t
<1> HIDE DEF u
<1>4. /\ Count(u, role) > 0 <=> Some(u, role)
      /\ Count(s, role) > 0 <=> Some(s, role)
      /\ Count(t, role) > 0 <=> Some(t, role)
      /\ Count(s, role) \in Nat /\ Count(t, role) \in Nat
      /\ Count(u, role) = Count(s, role) + Count(t, role)
  BY <1>1, <1>2, <1>3 DEF u
<1> QED
  BY <1>4 DEF u

\* What is no text is taken for an object, and ContentFilter keeps it.
LEMMA ObjectsStay ==
  ASSUME NEW E, NEW s \in Seq(E), NEW role, role \notin TextRoles, Some(s, role)
  PROVE  Some(Objects(s), role) /\ Some(ContentFilter(s), role)
<1> DEFINE Good == {r \in Seq(E) : Some(r, role) =>
                      Some(Objects(r), role) /\ Some(ContentFilter(r), role)}
<1>1. <<>> \in Good
  BY DEF Some
<1>2. ASSUME NEW r \in Good, NEW e \in E
      PROVE  Append(r, e) \in Good
  <2> DEFINE a == Append(r, e)
             o == Objects(r)
             c == ContentFilter(r)
  <2>1. r \in Seq(E) /\ a \in Seq(E) /\ (Some(r, role) => Some(o, role) /\ Some(c, role))
    OBVIOUS
  <2>2. o \in Seq(E) /\ c \in Seq(E)
    <3>1. o \in Seq({x \in E : IsObject(x)}) /\ c \in Seq({x \in E : Kept(x)})
      BY <2>1, Filtered
    <3> HIDE DEF o, c
    <3> QED
      BY <3>1
  <2>3. /\ Objects(a) = IF IsObject(e) THEN Append(o, e) ELSE o
        /\ ContentFilter(a) = IF Kept(e) THEN Append(c, e) ELSE c
    <3>1. Objects(a) = IF IsObject(e) THEN Append(o, e) ELSE o
      BY <2>1, TheSelections, O!OfOneMore DEF TakeObject
    <3>2. ContentFilter(a) = IF Kept(e) THEN Append(c, e) ELSE c
      BY <2>1, TheSelections, K!OfOneMore DEF TakeKept
    <3> QED
      BY <3>1, <3>2
  <2> HIDE DEF o, c, Good
  <2>4. /\ Some(a, role) <=> Some(r, role) \/ e.role = role
        /\ Some(Append(o, e), role) <=> Some(o, role) \/ e.role = role
        /\ Some(Append(c, e), role) <=> Some(c, role) \/ e.role = role
    BY <2>1, <2>2, SomeMore
  <2> HIDE DEF a
  <2>5. e.role = role => IsObject(e) /\ Kept(e)
    BY DEF IsObject, Kept, IsText
  <2>6. Some(a, role) => Some(Objects(a), role) /\ Some(ContentFilter(a), role)
    BY <2>1, <2>3, <2>4, <2>5
  <2> QED
    BY <2>1, <2>6 DEF Good, a
<1>3. Good = Seq(E)
  <2>1. Good \in SUBSET Seq(E)
    OBVIOUS
  <2> HIDE DEF Good
  <2> QED
    BY <1>1, <1>2, <2>1, AllSequences
<1> QED
  BY <1>3

\* A cleaned page has a table, or an image, if it had one.
LEMMA CleanedHas ==
  ASSUME NEW Tabs, NEW s \in Seq(Element(Tabs)), NEW role, role \notin TextRoles
  PROVE  Some(Cleaned(s), role) <=> Some(s, role)
<1> DEFINE E == Element(Tabs)
           c == ContentFilter(s)
           o == Objects(c)
           d == Cleaned(s)
<1>1. Stays(d, s)
  BY CleanedIs
<1>2. PICK n \in Seq(E) : d = n \o o
  BY CleanedIs
<1>3. c \in Seq(E)
  <2>1. c \in Seq({e \in E : Kept(e)})
    BY Filtered
  <2> HIDE DEF c, E
  <2> QED
    BY <2>1
<1>4. o \in Seq(E)
  <2>1. o \in Seq({e \in E : IsObject(e)})
    BY <1>3, Filtered
  <2> HIDE DEF o, E
  <2> QED
    BY <2>1
<1> HIDE DEF d, E
<1>5. Some(d, role) => Some(s, role)
  BY <1>1 DEF Some, Stays, From, Kin
<1>6. ASSUME Some(s, role)
      PROVE  Some(d, role)
  <2>1. Some(c, role)
    BY <1>6, ObjectsStay
  <2> HIDE DEF c
  <2>2. Some(o, role)
    BY <1>3, <2>1, ObjectsStay
  <2> HIDE DEF o
  <2> QED
    BY <1>2, <1>4, <2>2, SomeBoth
<1> QED
  BY <1>5, <1>6 DEF d

\* Pages like those they come from, as far as the metadata tells.
Alike(pages, old) ==
  /\ DOMAIN pages = DOMAIN old
  /\ Len(pages) = Len(old)
  /\ \A p \in DOMAIN pages :
       /\ pages[p].scanned = old[p].scanned
       /\ \A role \in {"table", "image"} :
            Some(pages[p].elements, role) <=> Some(old[p].elements, role)

\* New elements on the pages, with tables and images where there were some.
LEMMA StillTold ==
  ASSUME NEW d, Told(d), NEW pages, NEW e, e = [d EXCEPT !.pages = pages], Alike(pages, d.pages)
  PROVE  Told(e) /\ e.chars = d.chars /\ e.pages = pages
<1>1. Fields \subseteq DOMAIN d
  BY DEF Told
<1>2. /\ Fields \subseteq DOMAIN e /\ e.pages = pages /\ e.chars = d.chars /\ e.scanned = d.scanned
      /\ e.pageCount = d.pageCount /\ e.hasTables = d.hasTables /\ e.hasImages = d.hasImages
  BY <1>1 DEF Fields
<1>3. HasRole(pages, "table") <=> HasRole(d.pages, "table")
  BY DEF HasRole, Some, Alike
<1>4. HasRole(pages, "image") <=> HasRole(d.pages, "image")
  BY DEF HasRole, Some, Alike
<1>5. Told(e)
  BY <1>2, <1>3, <1>4 DEF Told, Alike
<1> QED
  BY <1>2, <1>5

\* The element stage.
LEMMA ProcessedTells ==
  ASSUME NEW d, Told(d), d.pages \in Extractions, NEW e,
         e = [d EXCEPT !.pages = ProcessedPages(@)]
  PROVE  Told(e) /\ e.chars = d.chars /\ SumOf(e.pages) = SumOf(d.pages)
<1> DEFINE old == d.pages
           Do(page) == [page EXCEPT !.elements = Processed(@)]
           pages == ProcessedPages(old)
           m == Len(old)
<1>1. /\ old \in Seq(PageType(TableType)) /\ m \in Nat /\ DOMAIN old = 1 .. m
      /\ \A p \in 1 .. m : old[p] \in PageType(TableType)
  BY DEF Extractions
<1>2. e = [d EXCEPT !.pages = pages]
  OBVIOUS
<1>3. ASSUME NEW p \in 1 .. m
      PROVE  LET new == Do(old[p])
             IN  /\ new.text = old[p].text /\ new.eol = old[p].eol
                 /\ new.scanned = old[p].scanned
                 /\ \A role : Some(new.elements, role) <=> Some(old[p].elements, role)
  <2> DEFINE page == old[p]
             s == page.elements
             t == Processed(s)
  <2>1. page \in PageType(TableType)
    BY <1>1
  <2> HIDE DEF page
  <2>2. s \in Seq(ItemType)
    BY <2>1 DEF PageType, ItemType
  <2>3. Do(page) = [page EXCEPT !.elements = t]
    OBVIOUS
  <2> HIDE DEF s
  <2>4. DOMAIN t = DOMAIN s /\ \A i \in DOMAIN s : t[i].role = s[i].role
    BY <2>2, ProcessedElements
  <2> HIDE DEF t, Do
  <2>5. /\ Do(page).text = page.text /\ Do(page).scanned = page.scanned
        /\ Do(page).eol = page.eol /\ Do(page).elements = t
    BY <2>1, <2>3 DEF PageType
  <2>6. \A role : Some(t, role) <=> Some(s, role)
    BY <2>4 DEF Some
  <2> QED
    BY <2>5, <2>6 DEF page, s
<1>4. pages = [p \in 1 .. m |-> Do(old[p])]
  BY <1>1 DEF ProcessedPages
<1>5. pages \in Processings
  BY ProcessedAre
<1> HIDE DEF pages, Do, m
<1>6. DOMAIN pages = 1 .. m /\ \A p \in 1 .. m : pages[p] = Do(old[p])
  BY <1>4
<1>7. Len(pages) = Len(old)
  BY <1>1, <1>5, <1>6 DEF Processings, m
<1>8. Told(e) /\ e.chars = d.chars /\ e.pages = pages
  <2>1. Alike(pages, old)
    BY <1>1, <1>3, <1>6, <1>7 DEF Alike
  <2> QED
    BY <1>2, <2>1, StillTold
<1>9. Lengths(pages) = Lengths(old)
  BY <1>1, <1>3, <1>6 DEF Lengths
<1> QED
  BY <1>8, <1>9 DEF SumOf

\* The cleaners.
LEMMA CleanedTells ==
  ASSUME NEW d, Told(d), d.pages \in Processings, NEW repeated, NEW e,
         e = [d EXCEPT !.pages = CleanedPages(@, repeated)]
  PROVE  Told(e)
<1> DEFINE old == d.pages
           pages == CleanedPages(old, repeated)
           m == Len(old)
<1>1. /\ old \in Seq(PageType(AnyTable)) /\ m \in Nat /\ DOMAIN old = 1 .. m
      /\ \A p \in 1 .. m : old[p] \in PageType(AnyTable) /\ InPlace(old[p], p)
  BY DEF Processings
<1>2. e = [d EXCEPT !.pages = pages]
  OBVIOUS
<1>3. pages = [p \in 1 .. m |-> CleanedPage(old[p], p \in repeated)]
  BY <1>1 DEF CleanedPages
<1>4. pages \in Cleanings
  BY CleanedAre
<1> HIDE DEF pages, m
<1>5. DOMAIN pages = 1 .. m /\ \A p \in 1 .. m : pages[p] = CleanedPage(old[p], p \in repeated)
  BY <1>3
<1>6. Len(pages) = Len(old)
  BY <1>1, <1>4, <1>5 DEF Cleanings, Processings, m
<1>7. ASSUME NEW p \in 1 .. m, NEW role \in {"table", "image"}
      PROVE  /\ pages[p].scanned = old[p].scanned
             /\ Some(pages[p].elements, role) <=> Some(old[p].elements, role)
  <2> DEFINE s == old[p].elements
  <2>1. old[p] \in PageType(AnyTable) /\ InPlace(old[p], p)
    BY <1>1
  <2>2. pages[p].elements = Cleaned(s) /\ pages[p].scanned = old[p].scanned
    BY <1>5, <2>1, CleanedPageIs
  <2>3. s \in Seq(Element(AnyTable)) /\ role \notin TextRoles
    BY <2>1 DEF PageType, TextRoles
  <2> HIDE DEF s
  <2>4. Some(Cleaned(s), role) <=> Some(s, role)
    BY <2>3, CleanedHas
  <2> QED
    BY <2>2, <2>4 DEF s
<1>8. Alike(pages, old)
  BY <1>1, <1>5, <1>6, <1>7 DEF Alike
<1> QED
  BY <1>2, <1>8, StillTold

\* What recognition finds is paragraphs.
LEMMA FoundAreParagraphs ==
  ASSUME NEW s \in Seq(ItemType), NEW p, NEW first, NEW role, role # "paragraph"
  PROVE  ~Some(OcrElements(p, s, first), role)
<1> DEFINE n == OcrElements(p, s, first)
<1>1. \A i \in DOMAIN s : s[i] \in ItemType
  OBVIOUS
<1>2. DOMAIN n = DOMAIN s
  BY DEF OcrElements
<1>3. ASSUME NEW i \in DOMAIN s
      PROVE  n[i].role = "paragraph"
  <2> DEFINE x == <<"ocr", p, first + i - 1>>
             e == s[i]
  <2>1. n[i] = OcrElement(e, x)
    BY DEF OcrElements, OcrElement
  <2>2. e \in ItemType
    BY <1>1
  <2> HIDE DEF n, x, e
  <2>3. OcrElement(e, x).role = "paragraph"
    BY <2>2 DEF OcrElement, ItemType, Element
  <2> QED
    BY <2>1, <2>3
<1> HIDE DEF n
<1>4. ~Some(n, role)
  BY <1>2, <1>3 DEF Some
<1> QED
  BY <1>4 DEF n

\* A page on which something was found has that much more text, and no table and no image
\* that it had not.
LEMMA OcrPageTells ==
  ASSUME NEW page \in PageType(TableType), page.number \in Nat, NEW found \in Seq(ItemType)
  PROVE  LET new == OcrPage(page, found)
         IN  /\ page.eol = 1 =>
                  /\ new.eol = 1
                  /\ LengthOf(new.text, 1) = LengthOf(page.text, 1) + LengthOf(OcrText(found), 1)
             /\ \A role \in {"table", "image"} : Some(new.elements, role) <=> Some(page.elements, role)
<1> DEFINE s == page.elements
           t == OcrElements(page.number, found, Len(s))
           both == s \o t
           text == TextAndOcr(page.text, OcrText(found))
           yes == TRUE
           new == OcrPage(page, found)
<1>1. s \in Seq(ItemType) /\ page.text \in Seq(Nat)
  BY DEF PageType, ItemType
<1>2. new = [page EXCEPT !.scanned = yes, !.elements = both, !.text = text]
  BY DEF OcrPage
<1>3. t \in Seq(ItemType)
  <2>1. Len(s) \in Nat
    BY <1>1
  <2> HIDE DEF s
  <2> QED
    BY <2>1, OcrElementsAre
<1>4. /\ text \in Seq(Nat)
      /\ LengthOf(text, 1) = LengthOf(page.text, 1) + LengthOf(OcrText(found), 1)
  BY <1>1, OcrTextIs, TextAndOcrIs, LengthOcr
<1>5. \A role \in {"table", "image"} : ~Some(t, role)
  BY FoundAreParagraphs
<1> HIDE DEF s, t, text, yes
<1>6. \A role \in {"table", "image"} : Some(both, role) <=> Some(s, role)
  BY <1>1, <1>3, <1>5, SomeBoth
<1> HIDE DEF both, new
<1>7. new.text = text /\ new.elements = both /\ new.eol = page.eol
  BY <1>2 DEF PageType
<1> QED
  BY <1>4, <1>6, <1>7 DEF new, s

\* The text of one page grows.
LEMMA SumMore ==
  ASSUME NEW Tabs, NEW pages \in Seq(PageType(Tabs)), NEW more \in Seq(PageType(Tabs)),
         Len(more) = Len(pages), NEW k \in 1 .. Len(pages), NEW x \in Nat,
         LengthOf(more[k].text, more[k].eol) = LengthOf(pages[k].text, pages[k].eol) + x,
         \A p \in 1 .. Len(pages) : p # k => more[p] = pages[p]
  PROVE  SumOf(more) = SumOf(pages) + x
<1> DEFINE old == Lengths(pages)
           now == Lengths(more)
           m == Len(pages)
<1>1. /\ m \in Nat /\ DOMAIN pages = 1 .. m /\ DOMAIN more = 1 .. m
  OBVIOUS
<1>2. /\ old \in Seq(Nat) /\ now \in Seq(Nat) /\ Len(old) = m /\ Len(now) = m
      /\ DOMAIN old = 1 .. m
  BY LengthsAre
<1>3. \A p \in 1 .. m : /\ old[p] = LengthOf(pages[p].text, pages[p].eol)
                        /\ now[p] = LengthOf(more[p].text, more[p].eol)
  BY <1>1 DEF Lengths
<1>4. now[k] = old[k] + x /\ \A i \in 1 .. m : i # k => now[i] = old[i]
  BY <1>3
<1> HIDE DEF old, now, m
<1>5. k \in DOMAIN old /\ Len(now) = Len(old) /\ \A i \in DOMAIN old : i # k => now[i] = old[i]
  BY <1>2, <1>4 DEF m
<1>6. Total(now) = Total(old) + x
  BY <1>2, <1>4, <1>5, TotalWith
<1> QED
  BY <1>6 DEF SumOf, old, now

\* What a document tells of its pages.
SameBut(d, e) ==
  /\ e.chars = d.chars /\ e.scanned = d.scanned /\ e.pageCount = d.pageCount
  /\ e.hasTables = d.hasTables /\ e.hasImages = d.hasImages

\* The pages with what was found on one.
Recognised(pages, k, found) == [pages EXCEPT ![k] = OcrPage(@, found)]

\* Recognition of a page of a scanned document.
LEMMA RecognisedTells ==
  ASSUME NEW d, Told(d), d.scanned, d.pages \in Extractions, NEW k \in DOMAIN d.pages,
         Original(d.pages[k].elements), NEW found \in Seq(ItemType),
         \A p \in DOMAIN d.pages : d.pages[p].eol = 1,
         NEW e, Fields \subseteq DOMAIN e, e.pages = Recognised(d.pages, k, found),
         SameBut(d, e)
  PROVE  /\ Told(e) /\ e.chars = d.chars /\ e.scanned
         /\ SumOf(e.pages) = SumOf(d.pages) + LengthOf(OcrText(found), 1)
         /\ \A p \in DOMAIN e.pages : e.pages[p].eol = 1
<1> DEFINE new == OcrPage(d.pages[k], found)
           pages == d.pages
           more == [pages EXCEPT ![k] = OcrPage(@, found)]
           m == Len(pages)
           x == LengthOf(OcrText(found), 1)
<1>1. /\ pages \in Seq(PageType(TableType)) /\ m \in Nat /\ DOMAIN pages = 1 .. m
      /\ \A p \in 1 .. m : pages[p] \in PageType(TableType) /\ pages[p].number \in Nat
  <2>1. /\ pages \in Seq(PageType(TableType)) /\ m \in Nat /\ DOMAIN pages = 1 .. m
        /\ \A p \in 1 .. m : pages[p] \in PageType(TableType)
    BY DEF Extractions
  <2>2. \A page \in PageType(TableType) : page.number \in Nat
    BY DEF PageType
  <2> QED
    BY <2>1, <2>2
<1>2. more \in Extractions /\ Len(more) = m /\ DOMAIN more = 1 .. m
      /\ \A p \in 1 .. m : p # k => more[p] = pages[p]
  <2>1. pages \in Extractions /\ k \in DOMAIN pages /\ Original(pages[k].elements)
    OBVIOUS
  <2> HIDE DEF pages
  <2>2. /\ more \in Extractions /\ Len(more) = Len(pages) /\ DOMAIN more = DOMAIN pages
        /\ \A p \in DOMAIN pages : p # k => more[p] = pages[p]
    BY <2>1, RecognisedPages
  <2> HIDE DEF more
  <2> QED
    BY <1>1, <2>2
<1>3. more[k] = new
  BY <1>1
<1>4. /\ new.eol = 1 /\ LengthOf(new.text, 1) = LengthOf(pages[k].text, 1) + x
      /\ \A role \in {"table", "image"} : Some(new.elements, role) <=> Some(pages[k].elements, role)
  <2>1. pages[k] \in PageType(TableType) /\ pages[k].number \in Nat /\ pages[k].eol = 1
    BY <1>1
  <2> QED
    BY <2>1, OcrPageTells
<1>5. e.pages = more
  BY DEF Recognised
<1> HIDE DEF new, more, x
<1>6. /\ Fields \subseteq DOMAIN e /\ e.pages = more /\ e.chars = d.chars /\ e.scanned = d.scanned
      /\ e.pageCount = d.pageCount /\ e.hasTables = d.hasTables /\ e.hasImages = d.hasImages
  BY <1>5 DEF SameBut
<1>7. \A role \in {"table", "image"} : \A p \in 1 .. m :
        Some(more[p].elements, role) <=> Some(pages[p].elements, role)
  BY <1>2, <1>3, <1>4
<1>8. \A role \in {"table", "image"} : HasRole(more, role) <=> HasRole(pages, role)
  BY <1>1, <1>2, <1>7 DEF HasRole, Some
<1>9. more \in Seq(PageType(TableType))
  BY <1>2 DEF Extractions
<1>10. x \in Nat
  BY OcrTextIs, LengthIs DEF x
<1>11. /\ k \in 1 .. m
       /\ LengthOf(more[k].text, more[k].eol) = LengthOf(pages[k].text, pages[k].eol) + x
  BY <1>1, <1>3, <1>4
<1>12. SumOf(more) = SumOf(pages) + x
  <2> HIDE DEF pages
  <2>1. k \in 1 .. Len(pages) /\ Len(more) = Len(pages)
    BY <1>2, <1>11 DEF m
  <2>2. \A p \in 1 .. Len(pages) : p # k => more[p] = pages[p]
    BY <1>2 DEF m
  <2> QED
    BY <1>1, <1>9, <1>10, <1>11, <2>1, <2>2, SumMore
<1>13. Told(e)
  BY <1>2, <1>6, <1>8 DEF Told
<1>14. \A p \in 1 .. m : more[p].eol = 1
  BY <1>1, <1>2, <1>3, <1>4
<1> QED
  BY <1>2, <1>6, <1>12, <1>13, <1>14 DEF x

\* Until the cleaners the characters of the document are those of its pages; recognition has
\* counted what it has put on them, which is added when it has read all, and never if it was
\* cut short.
CharsInv ==
  stage \in {"ocr", "elements", "clean"} /\ file.format # "xlsx" =>
    /\ doc.chars \in Nat
    /\ IF stage = "ocr" THEN doc.chars + ocr.chars = SumOf(doc.pages)
       ELSE IF ocr.raised THEN doc.chars <= SumOf(doc.pages)
       ELSE doc.chars = SumOf(doc.pages)

\* What the document tells of its pages is true at every stage.
TruthInv ==
  /\ Told(doc) /\ CharsInv
  /\ {"next", "read", "chars", "raised"} \subseteq DOMAIN ocr /\ ocr.chars \in Nat
  /\ stage \in {"parse", "ocr"} => ~ocr.raised
  /\ stage = "ocr" => /\ file.format = "pdf" /\ doc.scanned
                     /\ \A p \in DOMAIN doc.pages : doc.pages[p].eol = 1
  /\ stage = "parse" => ocr.chars = 0
  /\ stage = "done" => out = [markdown |-> Markdown(doc), metadata |-> Metadata(doc)]

\* An empty document tells the truth.
LEMMA TruthInit == Init => TruthInv
<1> SUFFICES ASSUME Init
             PROVE  TruthInv
  OBVIOUS
<1> DEFINE none == <<>>
           no == FALSE
<1>1. /\ ocr = [next |-> 1, read |-> {}, chars |-> 0, raised |-> FALSE]
      /\ stage = "parse" /\ doc = Document(none, none, 0)
  BY DEF Init
<1>2. {"next", "read", "chars", "raised"} \subseteq DOMAIN ocr /\ ocr.chars = 0 /\ ~ocr.raised
  BY <1>1
<1>3. /\ none \in Seq(PageType(TableType)) /\ 0 \in {0, Len(none)}
      /\ \A p \in DOMAIN none : ~none[p].scanned /\ (none[p].scanned => no)
  OBVIOUS
<1> HIDE DEF none, no
<1>4. Told(doc)
  BY <1>1, <1>3, DocumentTells
<1> QED
  BY <1>1, <1>2, <1>4 DEF TruthInv, CharsInv

\* Recognition of a page: the characters found are in ocr.chars when they are on the page.
LEMMA RecognisePageTells ==
  ASSUME DocumentInv, TruthInv, RecognisePage
  PROVE  TruthInv'
<1>1. /\ stage = "ocr" /\ ocr.next <= Len(doc.pages) /\ UNCHANGED <<file, stage, passed, out>>
  BY DEF RecognisePage
<1>2. PICK found \in {<<>>, file.pages[ocr.next].ocr} :
        LET n == LengthOf(OcrText(found), 1)
        IN  /\ ocr' = [ocr EXCEPT !.next = @ + 1, !.chars = @ + n,
                                  !.read = IF found = <<>> THEN @ ELSE @ \cup {ocr.next}]
            /\ doc' = IF found = <<>> THEN doc
                      ELSE [CountedLater(doc, n) EXCEPT
                              !.pages[ocr.next] = OcrPage(@, found), !.hasOcr = TRUE]
  BY DEF RecognisePage
<1> DEFINE k == ocr.next
           n == LengthOf(OcrText(found), 1)
<1>3. /\ doc.pages \in Extractions /\ k \in Nat \ {0}
      /\ file.pages \in Seq(PagesOf("pdf")) /\ Len(doc.pages) <= Len(file.pages)
      /\ \A p \in DOMAIN doc.pages : p >= k => Original(doc.pages[p].elements)
  BY <1>1 DEF DocumentInv, PagesInv, OcrInv
<1>4. k \in DOMAIN doc.pages /\ file.pages[k] \in PagesOf("pdf")
  <2>1. Len(doc.pages) \in Nat /\ Len(file.pages) \in Nat /\ DOMAIN doc.pages = 1 .. Len(doc.pages)
    BY <1>3 DEF Extractions
  <2>2. k \in 1 .. Len(doc.pages) /\ k \in 1 .. Len(file.pages)
    BY <1>1, <1>3, <2>1
  <2> QED
    BY <1>3, <2>1, <2>2
<1>5. found \in Seq(ItemType)
  <2>1. file.pages[k].ocr \in Seq(ItemType)
    BY <1>4 DEF PagesOf
  <2>2. found = <<>> \/ found = file.pages[k].ocr
    OBVIOUS
  <2>3. CASE found = <<>>
    BY <2>3
  <2>4. CASE found = file.pages[k].ocr
    BY <2>1, <2>4
  <2> QED
    BY <2>2, <2>3, <2>4
<1>6. n \in Nat
  BY <1>5, OcrTextIs, LengthIs
<1>7. /\ Told(doc) /\ doc.scanned /\ doc.chars \in Nat /\ ocr.chars \in Nat /\ ~ocr.raised
      /\ {"next", "read", "chars", "raised"} \subseteq DOMAIN ocr
      /\ doc.chars + ocr.chars = SumOf(doc.pages) /\ file.format = "pdf"
      /\ \A p \in DOMAIN doc.pages : doc.pages[p].eol = 1
  BY <1>1 DEF TruthInv, CharsInv
<1>8. /\ {"next", "read", "chars", "raised"} \subseteq DOMAIN ocr'
      /\ ocr'.chars = ocr.chars + n /\ ocr'.raised = ocr.raised
  <2> DEFINE read == IF found = <<>> THEN ocr.read ELSE ocr.read \cup {ocr.next}
  <2>1. ocr' = [ocr EXCEPT !.next = @ + 1, !.chars = @ + n, !.read = read]
    BY <1>2
  <2> HIDE DEF read, n
  <2> QED
    BY <1>7, <2>1
<1>9. /\ Told(doc') /\ doc'.scanned /\ doc'.chars = doc.chars
      /\ SumOf(doc'.pages) = SumOf(doc.pages) + n
      /\ \A p \in DOMAIN doc'.pages : doc'.pages[p].eol = 1
  <2>1. CASE found = <<>>
    <3>1. OcrText(found) = <<>>
      BY <2>1, FlatMore DEF OcrText, Apart
    <3>2. n = 0
      BY <3>1 DEF LengthOf
    <3>3. doc' = doc
      BY <1>2, <2>1
    <3>4. SumOf(doc.pages) \in Nat
      BY <1>7
    <3> QED
      BY <1>7, <3>2, <3>3, <3>4
  <2>2. CASE found # <<>>
    <3>1. doc' = [doc EXCEPT !.pages[k] = OcrPage(@, found), !.hasOcr = TRUE]
      BY <1>2, <2>2 DEF CountedLater
    <3>2. Original(doc.pages[k].elements)
      BY <1>3, <1>4
    <3> HIDE DEF k
    <3> DEFINE e == doc'
               d == doc
    <3>3. /\ Told(d) /\ d.scanned /\ d.pages \in Extractions /\ k \in DOMAIN d.pages
          /\ Original(d.pages[k].elements) /\ \A p \in DOMAIN d.pages : d.pages[p].eol = 1
      BY <1>3, <1>4, <1>7, <3>2
    <3>4. Fields \subseteq DOMAIN e
      BY <3>1, <3>3 DEF Told, Fields
    <3>5. SameBut(d, e)
      BY <3>1, <3>3 DEF Told, Fields, SameBut
    <3>6. e.pages = Recognised(d.pages, k, found)
      BY <3>1, <3>3 DEF Told, Fields, Recognised
    <3> HIDE DEF e, d
    <3>7. /\ Told(e) /\ e.chars = d.chars /\ e.scanned
          /\ SumOf(e.pages) = SumOf(d.pages) + LengthOf(OcrText(found), 1)
          /\ \A p \in DOMAIN e.pages : e.pages[p].eol = 1
      BY <1>5, <3>3, <3>4, <3>5, <3>6, RecognisedTells
    <3> QED
      BY <3>7 DEF e, d
  <2> QED
    BY <2>1, <2>2
<1> HIDE DEF n, k
<1> QED
  BY <1>1, <1>6, <1>7, <1>8, <1>9 DEF TruthInv, CharsInv

\* The characters that recognition has found are added.
LEMMA RecognitionDoneTells ==
  ASSUME DocumentInv, TruthInv, RecognitionDone
  PROVE  TruthInv'
<1>1. /\ stage = "ocr" /\ stage' = "elements" /\ doc' = [doc EXCEPT !.chars = @ + ocr.chars]
      /\ ocr' = ocr
  BY DEF RecognitionDone
<1>2. /\ Told(doc) /\ doc.chars \in Nat /\ ocr.chars \in Nat /\ ~ocr.raised
      /\ {"next", "read", "chars", "raised"} \subseteq DOMAIN ocr /\ file.format = "pdf"
      /\ doc.chars + ocr.chars = SumOf(doc.pages) /\ Fields \subseteq DOMAIN doc
  BY <1>1 DEF TruthInv, CharsInv, Told
<1>3. /\ Fields \subseteq DOMAIN doc' /\ doc'.pages = doc.pages /\ doc'.chars = doc.chars + ocr.chars
      /\ doc'.scanned = doc.scanned /\ doc'.pageCount = doc.pageCount
      /\ doc'.hasTables = doc.hasTables /\ doc'.hasImages = doc.hasImages
  BY <1>1, <1>2 DEF Fields
<1>4. Told(doc')
  BY <1>2, <1>3 DEF Told
<1> QED
  BY <1>1, <1>2, <1>3, <1>4 DEF TruthInv, CharsInv

\* Every step keeps what the document tells true.
LEMMA TruthNext == DocumentInv /\ TruthInv /\ [Next]_vars => TruthInv'
<1> SUFFICES ASSUME DocumentInv, TruthInv, [Next]_vars
             PROVE  TruthInv'
  OBVIOUS
<1>1. CASE Parse
  <2>1. /\ stage = "parse" /\ file.format # NoFormat /\ doc' = Extract(file)
        /\ stage' = AfterParsing(doc') /\ UNCHANGED <<file, ocr, passed, out>>
    BY <1>1 DEF Parse
  <2>2. file \in Files
    BY <2>1 DEF DocumentInv
  <2>3. /\ Told(doc') /\ (file.format # "xlsx" => Counted(doc'))
        /\ file.format = "pdf" => \A p \in DOMAIN doc'.pages : doc'.pages[p].eol = 1
    BY <2>1, <2>2, ExtractTells
  <2>4. stage' \in {"ocr", "elements"} /\ (stage' = "ocr" => file.format = "pdf" /\ doc'.scanned)
    BY <2>1 DEF AfterParsing
  <2>5. /\ {"next", "read", "chars", "raised"} \subseteq DOMAIN ocr /\ ocr.chars = 0 /\ ~ocr.raised
    BY <2>1 DEF TruthInv
  <2>6. Counted(doc') => doc'.chars \in Nat /\ doc'.chars + 0 = SumOf(doc'.pages)
                         /\ doc'.chars = SumOf(doc'.pages)
    BY DEF Counted
  <2> QED
    BY <2>1, <2>3, <2>4, <2>5, <2>6 DEF TruthInv, CharsInv
<1>2. CASE ParsingRaises
  BY <1>2 DEF ParsingRaises, TruthInv, CharsInv
<1>3. CASE RecognisePage
  BY <1>3, RecognisePageTells
<1>4. CASE RecognitionDone
  BY <1>4, RecognitionDoneTells
<1>5. CASE RecognitionRaises
  <2>1. /\ stage = "ocr" /\ stage' = "elements" /\ doc' = doc
        /\ ocr' = [ocr EXCEPT !.raised = TRUE]
    BY <1>5 DEF RecognitionRaises
  <2>2. /\ Told(doc) /\ doc.chars \in Nat /\ ocr.chars \in Nat /\ file.format = "pdf"
        /\ {"next", "read", "chars", "raised"} \subseteq DOMAIN ocr
        /\ doc.chars + ocr.chars = SumOf(doc.pages)
    BY <2>1 DEF TruthInv, CharsInv, Told
  <2>3. /\ {"next", "read", "chars", "raised"} \subseteq DOMAIN ocr' /\ ocr'.raised
        /\ ocr'.chars = ocr.chars
    BY <2>1, <2>2
  <2>4. doc.chars <= SumOf(doc.pages)
    BY <2>2
  <2> QED
    BY <2>1, <2>2, <2>3, <2>4 DEF TruthInv, CharsInv
<1>6. CASE ProcessElements
  <2>1. /\ stage = "elements" /\ stage' = "clean" /\ ocr' = ocr /\ file' = file
        /\ doc' = [doc EXCEPT !.pages = ProcessedPages(@)]
    BY <1>6 DEF ProcessElements
  <2>2. Told(doc) /\ doc.pages \in Extractions
    BY <2>1 DEF TruthInv, DocumentInv, PagesInv
  <2>3. Told(doc') /\ doc'.chars = doc.chars /\ SumOf(doc'.pages) = SumOf(doc.pages)
    BY <2>1, <2>2, ProcessedTells
  <2> QED
    BY <2>1, <2>3 DEF TruthInv, CharsInv
<1>7. CASE Clean
  <2>1. /\ stage = "clean" /\ stage' = "validate" /\ ocr' = ocr /\ file' = file
    BY <1>7 DEF Clean
  <2>2. PICK repeated : doc' = [doc EXCEPT !.pages = CleanedPages(@, repeated)]
    BY <1>7 DEF Clean
  <2>3. Told(doc) /\ doc.pages \in Processings
    BY <2>1 DEF TruthInv, DocumentInv, PagesInv
  <2>4. Told(doc')
    BY <2>2, <2>3, CleanedTells
  <2> QED
    BY <2>1, <2>4 DEF TruthInv, CharsInv
<1>8. CASE Validate
  BY <1>8 DEF Validate, TruthInv, CharsInv
<1>9. CASE Generate
  BY <1>9 DEF Generate, TruthInv, CharsInv
<1>10. CASE UNCHANGED vars
  BY <1>10 DEF vars, TruthInv, CharsInv
<1> QED
  BY <1>1, <1>2, <1>3, <1>4, <1>5, <1>6, <1>7, <1>8, <1>9, <1>10 DEF Next

-----------------------------------------------------------------------------
(* What the Markdown shows of a role.                                      *)

\* Two sequences in which the same places have a role have as many.
LEMMA SameCount ==
  ASSUME NEW s, NEW t, NEW role, DOMAIN s = DOMAIN t,
         \A i \in DOMAIN s : s[i].role = role <=> t[i].role = role
  PROVE  Count(s, role) = Count(t, role)
<1>1. {i \in DOMAIN s : s[i].role = role} = {i \in DOMAIN t : t[i].role = role}
  OBVIOUS
<1> QED
  BY <1>1 DEF Count

\* What Markdown is made of.
Entries(Tabs, d) == {Entry(e) : e \in Element(Tabs)} \cup {PageComment, TitleLine(d)}

\* The elements of a page as entries.
EntriesOf(s) == [i \in DOMAIN s |-> Entry(s[i])]

\* Entries have the roles of their elements.
LEMMA EntriesAre ==
  ASSUME NEW Tabs, NEW d, NEW s \in Seq(Element(Tabs)), NEW role
  PROVE  EntriesOf(s) \in Seq(Entries(Tabs, d)) /\ Count(EntriesOf(s), role) = Count(s, role)
<1> DEFINE n == EntriesOf(s)
           m == Len(s)
<1>1. m \in Nat /\ DOMAIN s = 1 .. m /\ \A i \in 1 .. m : s[i] \in Element(Tabs)
  OBVIOUS
<1>2. DOMAIN n = DOMAIN s /\ \A i \in DOMAIN s : n[i] = Entry(s[i])
  BY DEF EntriesOf
<1>3. n = [i \in 1 .. m |-> n[i]]
  BY <1>1 DEF EntriesOf
<1> HIDE DEF n, m
<1>4. \A i \in 1 .. m : n[i] \in Entries(Tabs, d)
  BY <1>1, <1>2 DEF Entries
<1>5. n \in [1 .. m -> Entries(Tabs, d)]
  BY <1>3, <1>4
<1>6. n \in Seq(Entries(Tabs, d))
  BY <1>1, <1>5, AreSequences
<1>7. \A e : Entry(e).role = e.role
  BY DEF Entry
<1>8. \A i \in DOMAIN s : n[i].role = role <=> s[i].role = role
  BY <1>2, <1>7
<1>9. Count(n, role) = Count(s, role)
  BY <1>2, <1>8, SameCount
<1> QED
  BY <1>6, <1>9 DEF n

\* A line of its own is of no role that is counted.
LEMMA OwnLines ==
  ASSUME NEW Tabs, NEW d, NEW role, role \notin {"comment", "title"}
  PROVE  \A x \in {<<>>, <<PageComment>>, <<TitleLine(d)>>} :
           x \in Seq(Entries(Tabs, d)) /\ Count(x, role) = 0
<1>1. PageComment.role = "comment" /\ TitleLine(d).role = "title"
  BY DEF PageComment, TitleLine, Entry
<1>2. PageComment \in Entries(Tabs, d) /\ TitleLine(d) \in Entries(Tabs, d)
  BY DEF Entries
<1> DEFINE E == Entries(Tabs, d)
<1> HIDE DEF E
<1>3. ASSUME NEW e \in E, e.role # role
      PROVE  <<e>> \in Seq(E) /\ Count(<<e>>, role) = 0
  <2> DEFINE s == <<e>>
  <2>1. s \in Seq(E) /\ \A i \in DOMAIN s : s[i] = e
    OBVIOUS
  <2> HIDE DEF s
  <2>2. Count(s, role) \in Nat /\ (Count(s, role) > 0 <=> \E i \in DOMAIN s : s[i].role = role)
    BY <2>1, CountIs
  <2>3. Count(s, role) = 0
    BY <1>3, <2>1, <2>2
  <2> QED
    BY <2>1, <2>3 DEF s
<1>4. <<>> \in Seq(E) /\ Count(<<>>, role) = 0
  BY CountMore
<1>5. <<PageComment>> \in Seq(E) /\ Count(<<PageComment>>, role) = 0
  BY <1>1, <1>2, <1>3 DEF E
<1>6. <<TitleLine(d)>> \in Seq(E) /\ Count(<<TitleLine(d)>>, role) = 0
  BY <1>1, <1>2, <1>3 DEF E
<1> QED
  BY <1>4, <1>5, <1>6 DEF E

\* The Markdown of a page shows no more of a role than the page has, and all but tables.
LEMMA PageShows ==
  ASSUME NEW Tabs, NEW d, NEW s \in Seq(Element(Tabs)), NEW role,
         role \notin {"comment", "title"}, NEW c \in {<<>>, <<PageComment>>}
  PROVE  LET b == c \o Selected(EntriesOf(s), HasMarkdown)
         IN  /\ b \in Seq(Entries(Tabs, d))
             /\ Count(b, role) <= Count(s, role)
             /\ role # "table" => Count(b, role) = Count(s, role)
<1> DEFINE n == EntriesOf(s)
           w == Selected(n, HasMarkdown)
           E == Entries(Tabs, d)
<1>1. n \in Seq(E) /\ Count(n, role) = Count(s, role)
  BY EntriesAre
<1>2. c \in Seq(E) /\ Count(c, role) = 0
  BY OwnLines
<1> HIDE DEF n, E
<1>3. /\ w \in Seq(E) /\ Count(w, role) <= Count(n, role)
      /\ role # "table" => Count(w, role) = Count(n, role)
  BY <1>1, CountShown
<1> HIDE DEF w
<1>4. c \o w \in Seq(E)
  BY <1>2, <1>3
<1>5. Count(c \o w, role) = Count(c, role) + Count(w, role)
  BY <1>2, <1>3, CountBoth
<1>6. Count(w, role) \in Nat
  BY <1>3, CountIs
<1>7. Count(c \o w, role) = Count(w, role)
  BY <1>2, <1>5, <1>6
<1> QED
  BY <1>1, <1>3, <1>4, <1>7 DEF w, n, E

\* With no more of a role in each sequence there are no more in all of them joined.
LEMMA FewerInAll ==
  ASSUME NEW E, NEW D, NEW ss \in Seq(Seq(E)), NEW tt \in Seq(Seq(D)), NEW role,
         Len(ss) = Len(tt), \A p \in DOMAIN ss : Count(ss[p], role) <= Count(tt[p], role)
  PROVE  Count(Flat(ss), role) <= Count(Flat(tt), role)
<1> DEFINE a == Counts(ss, role)
           b == Counts(tt, role)
           m == Len(ss)
<1>1. /\ a \in Seq(Nat) /\ a \in [1 .. m -> Nat] /\ Len(a) = m
      /\ b \in Seq(Nat) /\ b \in [1 .. m -> Nat] /\ Len(b) = m
  BY CountsAre
<1>2. m \in Nat /\ DOMAIN ss = 1 .. m /\ DOMAIN tt = 1 .. m
  OBVIOUS
<1>3. \A p \in 1 .. m : a[p] <= b[p]
  BY <1>2 DEF Counts
<1>4. Count(Flat(ss), role) = Total(a) /\ Count(Flat(tt), role) = Total(b)
  BY CountOfAll
<1> HIDE DEF a, b, m
<1>5. \A p \in DOMAIN a : a[p] <= b[p]
  BY <1>1, <1>3
<1>6. Total(a) <= Total(b)
  BY <1>1, <1>5, TotalLess
<1> QED
  BY <1>4, <1>6

\* What all pages show.
Bodies(d, c) == [p \in DOMAIN d.pages |->
                 c \o Selected(EntriesOf(d.pages[p].elements), HasMarkdown)]

\* Markdown is the title and what all pages show.
LEMMA MarkdownIsBody ==
  ASSUME NEW d
  PROVE  \E c \in {<<>>, <<PageComment>>} : \E x \in {<<>>, <<TitleLine(d)>>} :
           Markdown(d) = x \o Flat(Bodies(d, c))
<1> DEFINE c == IF Len(d.pages) > 1 THEN <<PageComment>> ELSE <<>>
           x == IF d.title # <<>> THEN <<TitleLine(d)>> ELSE <<>>
<1>1. Markdown(d) = x \o Flat(Bodies(d, c))
  BY DEF Markdown, Bodies, EntriesOf
<1>2. c \in {<<>>, <<PageComment>>} /\ x \in {<<>>, <<TitleLine(d)>>}
  OBVIOUS
<1> QED
  BY <1>1, <1>2

\* Markdown shows no more of a role than the document has, and all but tables.
LEMMA MarkdownShows ==
  ASSUME NEW Tabs, NEW d, d.pages \in Seq(PageType(Tabs)),
         NEW role, role \notin {"comment", "title"}
  PROVE  /\ Count(Markdown(d), role) <= Count(AllElements(d), role)
         /\ role # "table" => Count(Markdown(d), role) = Count(AllElements(d), role)
<1> DEFINE pages == d.pages
           ss == [p \in DOMAIN pages |-> pages[p].elements]
           E == Element(Tabs)
           D == Entries(Tabs, d)
<1>1. PICK c \in {<<>>, <<PageComment>>} : \E x \in {<<>>, <<TitleLine(d)>>} :
        Markdown(d) = x \o Flat(Bodies(d, c))
  BY MarkdownIsBody
<1>2. PICK x \in {<<>>, <<TitleLine(d)>>} : Markdown(d) = x \o Flat(Bodies(d, c))
  BY <1>1
<1> DEFINE body == Bodies(d, c)
           m == Len(pages)
<1>3. ss \in Seq(Seq(E)) /\ DOMAIN ss = DOMAIN pages /\ \A p \in DOMAIN pages : ss[p] = pages[p].elements
  BY ElementsOf
<1>4. m \in Nat /\ DOMAIN pages = 1 .. m /\ \A p \in 1 .. m : pages[p] \in PageType(Tabs)
  OBVIOUS
<1>5. AllElements(d) = Flat(ss)
  BY DEF AllElements
<1> HIDE DEF ss, m
<1>6. /\ DOMAIN body = 1 .. m
      /\ \A p \in 1 .. m : body[p] = c \o Selected(EntriesOf(pages[p].elements), HasMarkdown)
  BY <1>4 DEF Bodies
<1>7. body = [p \in 1 .. m |-> body[p]]
  BY <1>4 DEF Bodies
<1> HIDE DEF body
<1>8. ASSUME NEW p \in 1 .. m
      PROVE  /\ body[p] \in Seq(D) /\ Count(body[p], role) <= Count(ss[p], role)
             /\ role # "table" => Count(body[p], role) = Count(ss[p], role)
  <2> DEFINE s == pages[p].elements
  <2>1. s \in Seq(Element(Tabs)) /\ ss[p] = s
    BY <1>3, <1>4 DEF PageType
  <2>2. body[p] = c \o Selected(EntriesOf(s), HasMarkdown)
    BY <1>6
  <2> HIDE DEF s
  <2> QED
    BY <2>1, <2>2, PageShows, Zenon
<1> HIDE DEF pages, E, D
<1>9. body \in Seq(Seq(D)) /\ Len(body) = m
  <2>1. body \in [1 .. m -> Seq(D)]
    BY <1>7, <1>8
  <2> QED
    BY <1>4, <2>1, AreSequences
<1>10. Len(ss) = m /\ DOMAIN ss = 1 .. m
  <2>1. DOMAIN ss = 1 .. m
    BY <1>3, <1>4
  <2> QED
    BY <1>3, <1>4, <2>1
<1>11. Count(Flat(body), role) <= Count(Flat(ss), role)
  BY <1>3, <1>6, <1>8, <1>9, <1>10, FewerInAll
<1>12. role # "table" => Count(Flat(ss), role) <= Count(Flat(body), role)
  <2> SUFFICES ASSUME role # "table"
               PROVE  Count(Flat(ss), role) <= Count(Flat(body), role)
    OBVIOUS
  <2>1. \A p \in 1 .. m : Count(body[p], role) \in Nat
    BY <1>8, CountIs
  <2>2. \A p \in DOMAIN ss : Count(ss[p], role) <= Count(body[p], role)
    BY <1>8, <1>10, <2>1
  <2> QED
    BY <1>3, <1>9, <1>10, <2>2, FewerInAll
<1>13. Flat(body) \in Seq(D) /\ Flat(ss) \in Seq(E)
  BY <1>3, <1>9, FlatIs
<1>14. Count(Flat(body), role) \in Nat /\ Count(Flat(ss), role) \in Nat
  BY <1>13, CountIs
<1>15. x \in Seq(D) /\ Count(x, role) = 0
  BY OwnLines DEF D
<1>16. Count(x \o Flat(body), role) = Count(x, role) + Count(Flat(body), role)
  BY <1>13, <1>15, CountBoth
<1>17. Count(Markdown(d), role) = Count(Flat(body), role)
  BY <1>2, <1>14, <1>15, <1>16 DEF body
<1> QED
  BY <1>5, <1>11, <1>12, <1>14, <1>17

\* An element of a role occurs on a page if there is any.
LEMMA RoleCounts ==
  ASSUME NEW Tabs, NEW d, d.pages \in Seq(PageType(Tabs)), NEW role
  PROVE  Count(AllElements(d), role) > 0 <=> HasRole(d.pages, role)
<1> DEFINE pages == d.pages
           ss == [p \in DOMAIN pages |-> pages[p].elements]
           E == Element(Tabs)
           a == Counts(ss, role)
<1>1. ss \in Seq(Seq(E)) /\ DOMAIN ss = DOMAIN pages /\ \A p \in DOMAIN pages : ss[p] = pages[p].elements
  BY ElementsOf
<1>2. AllElements(d) = Flat(ss)
  BY DEF AllElements
<1> HIDE DEF ss, E
<1>3. a \in Seq(Nat) /\ DOMAIN a = DOMAIN pages /\ \A p \in DOMAIN pages : a[p] = Count(ss[p], role)
  <2>1. a \in Seq(Nat)
    BY <1>1, CountsAre
  <2> QED
    BY <1>1, <2>1 DEF Counts
<1>4. Count(Flat(ss), role) = Total(a)
  BY <1>1, CountOfAll
<1> HIDE DEF a
<1>5. Total(a) > 0 <=> \E p \in DOMAIN a : a[p] > 0
  BY <1>3, TotalPositive
<1>6. \A p \in DOMAIN pages : ss[p] \in Seq(E)
  BY <1>1
<1>7. \A p \in DOMAIN pages : a[p] > 0 <=> \E i \in DOMAIN ss[p] : ss[p][i].role = role
  BY <1>3, <1>6, CountIs
<1>8. \A p \in DOMAIN pages : a[p] > 0 <=> \E i \in DOMAIN pages[p].elements : pages[p].elements[i].role = role
  BY <1>1, <1>7
<1> QED
  BY <1>2, <1>3, <1>4, <1>5, <1>8 DEF HasRole

\* Markdown and metadata of a document that tells the truth agree.
LEMMA MetadataOf ==
  ASSUME NEW Tabs, NEW d, Told(d), d.pages \in Seq(PageType(Tabs)),
         \A p \in DOMAIN d.pages : InPlace(d.pages[p], p)
  PROVE  LET data == Metadata(d)
         IN  /\ \A role \in DOMAIN data.elements :
                  /\ Count(Markdown(d), role) <= data.elements[role]
                  /\ role # "table" => Count(Markdown(d), role) = data.elements[role]
             /\ data.hasTables <=> data.elements["table"] > 0
             /\ data.hasImages <=> data.elements["image"] > 0
             /\ data.pageCount \in {0, Len(data.pages)}
             /\ \A p \in DOMAIN data.pages : /\ data.pages[p].number = p
                                             /\ data.pages[p].scanned => data.scanned
<1> DEFINE data == Metadata(d)
           told == [p \in DOMAIN d.pages |->
                      [number |-> d.pages[p].number, count |-> Len(d.pages[p].elements),
                       chars |-> Lengths(d.pages)[p], scanned |-> d.pages[p].scanned]]
           stats == ElementStats(d)
           roles == {"heading", "paragraph", "list_item", "quote", "table", "image", "code_block"}
           m == Len(d.pages)
<1>1. data = [pageCount |-> d.pageCount, chars |-> d.chars, hasTables |-> d.hasTables,
              hasImages |-> d.hasImages, scanned |-> d.scanned, elements |-> stats, pages |-> told]
  BY DEF Metadata
<1>2. stats = [role \in roles |-> Count(AllElements(d), role)]
  BY DEF ElementStats
<1>3. DOMAIN stats = roles /\ \A role \in roles : stats[role] = Count(AllElements(d), role)
  BY <1>2
<1>4. m \in Nat /\ DOMAIN d.pages = 1 .. m
  OBVIOUS
<1>5. /\ DOMAIN told = 1 .. m
      /\ \A p \in 1 .. m : /\ told[p].number = d.pages[p].number
                           /\ told[p].scanned = d.pages[p].scanned
  BY <1>4
<1>6. told \in Seq({told[p] : p \in 1 .. m}) /\ Len(told) = m
  <2>1. told = [p \in 1 .. m |-> told[p]]
    BY <1>4
  <2> HIDE DEF told, m
  <2>2. told \in [1 .. m -> {told[p] : p \in 1 .. m}]
    BY <2>1
  <2> QED
    BY <1>4, <2>2, AreSequences
<1> HIDE DEF stats, told, m, data
<1>7. /\ data.pageCount = d.pageCount /\ data.hasTables = d.hasTables
      /\ data.hasImages = d.hasImages /\ data.scanned = d.scanned /\ data.elements = stats
      /\ data.pages = told
  BY <1>1
<1>8. \A role \in roles :
        /\ Count(Markdown(d), role) <= stats[role]
        /\ role # "table" => Count(Markdown(d), role) = stats[role]
  BY <1>3, MarkdownShows
<1>9. \A role \in roles : stats[role] > 0 <=> HasRole(d.pages, role)
  BY <1>3, RoleCounts
<1>10. /\ stats["table"] > 0 <=> d.hasTables
       /\ stats["image"] > 0 <=> d.hasImages
  <2>1. "table" \in roles /\ "image" \in roles
    OBVIOUS
  <2> HIDE DEF roles
  <2> QED
    BY <1>9, <2>1 DEF Told
<1>11. d.pageCount \in {0, m} /\ \A p \in 1 .. m : d.pages[p].scanned => d.scanned
  BY <1>4 DEF Told, m
<1>12. \A p \in 1 .. m : d.pages[p].number = p
  BY <1>4 DEF InPlace
<1> HIDE DEF roles
<1>14. /\ \A role \in DOMAIN data.elements :
            /\ Count(Markdown(d), role) <= data.elements[role]
            /\ role # "table" => Count(Markdown(d), role) = data.elements[role]
       /\ data.hasTables <=> data.elements["table"] > 0
       /\ data.hasImages <=> data.elements["image"] > 0
  BY <1>3, <1>7, <1>8, <1>10
<1>15. /\ data.pageCount \in {0, Len(data.pages)}
       /\ \A p \in DOMAIN data.pages : /\ data.pages[p].number = p
                                       /\ data.pages[p].scanned => data.scanned
  BY <1>5, <1>6, <1>7, <1>11, <1>12
<1> QED
  BY <1>14, <1>15 DEF data

\* Files and their documents tell the truth at every stage.
THEOREM Truth == Spec => []TruthInv
BY TruthInit, TruthNext, Invariance, PTL DEF Spec

\* Until BasicCleaner rewrites the pages the total of characters is that of their texts, for
\* every format but sheets, with what recognition has found and not yet added (pipeline.py).
THEOREM TotalIsCounted == Spec => []TotalCounted
<1>1. TruthInv => TotalCounted
  <2> SUFFICES ASSUME TruthInv, stage \in {"ocr", "elements", "clean"}, file.format # "xlsx"
               PROVE  TotalCounted
    BY DEF TotalCounted
  <2>1. /\ doc.chars \in Nat
        /\ IF stage = "ocr" THEN doc.chars + ocr.chars = SumOf(doc.pages)
           ELSE IF ocr.raised THEN doc.chars <= SumOf(doc.pages)
           ELSE doc.chars = SumOf(doc.pages)
        /\ stage = "ocr" => ~ocr.raised
    BY DEF TruthInv, CharsInv
  <2>2. TextLength(doc) = SumOf(doc.pages)
    BY DEF TextLength, SumOf
  <2>3. CASE stage = "ocr"
    BY <2>1, <2>2, <2>3 DEF TotalCounted
  <2>4. CASE stage # "ocr"
    <3>1. doc.chars + 0 = doc.chars
      BY <2>1
    <3> QED
      BY <2>1, <2>2, <2>4, <3>1 DEF TotalCounted
  <2> QED
    BY <2>3, <2>4
<1> QED
  BY <1>1, Truth, PTL

\* The metadata tell the truth about the Markdown they are stored with (document.py,
\* markdown_generator.py, metadata_generator.py): flags, counts of elements, page count, page
\* numbers and what counts as scanned, whichever preprocessor made the document, whatever the
\* cleaners merge and leave out, and however far recognition came (pipeline.py).  Lengths of
\* texts are not part of it.
THEOREM MetadataIsTrue == Spec => []MetadataAgrees
<1>1. DocumentInv /\ TruthInv => MetadataAgrees
  <2> SUFFICES ASSUME DocumentInv, TruthInv, Done
               PROVE  MetadataAgrees
    BY DEF MetadataAgrees
  <2> DEFINE data == Metadata(doc)
  <2>1. stage = "done"
    BY DEF Done
  <2>2. PICK Tabs : /\ doc.pages \in Seq(PageType(Tabs))
                    /\ \A p \in DOMAIN doc.pages : InPlace(doc.pages[p], p)
    BY PagesAlways
  <2>3. Told(doc)
    BY DEF TruthInv
  <2>4. out = [markdown |-> Markdown(doc), metadata |-> data]
    BY <2>1 DEF TruthInv
  <2> HIDE DEF data
  <2>5. out.markdown = Markdown(doc) /\ out.metadata = data
    BY <2>4
  <2>6. /\ \A role \in DOMAIN data.elements :
             /\ Count(Markdown(doc), role) <= data.elements[role]
             /\ role # "table" => Count(Markdown(doc), role) = data.elements[role]
        /\ data.hasTables <=> data.elements["table"] > 0
        /\ data.hasImages <=> data.elements["image"] > 0
        /\ data.pageCount \in {0, Len(data.pages)}
        /\ \A p \in DOMAIN data.pages : /\ data.pages[p].number = p
                                        /\ data.pages[p].scanned => data.scanned
    BY <2>2, <2>3, MetadataOf DEF data
  <2> DEFINE count == [role \in DOMAIN data.elements |-> Count(Markdown(doc), role)]
  <2>8. /\ DOMAIN count = DOMAIN data.elements
        /\ \A role \in DOMAIN count : count[role] = Count(Markdown(doc), role)
    OBVIOUS
  <2> HIDE DEF count
  <2>10. /\ \A role \in DOMAIN count :
              count[role] <= data.elements[role] /\ (role # "table" => count[role] = data.elements[role])
         /\ data.hasTables <=> data.elements["table"] > 0
         /\ data.hasImages <=> data.elements["image"] > 0
         /\ data.pageCount \in {0, Len(data.pages)}
         /\ \A p \in DOMAIN data.pages : /\ data.pages[p].number = p
                                         /\ data.pages[p].scanned => data.scanned
    BY <2>6, <2>8
  <2> QED
    BY <2>5, <2>10 DEF MetadataAgrees, count
<1> QED
  BY <1>1, Truth, Invariance, PTL

=============================================================================
