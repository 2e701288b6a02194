-------------------------- MODULE PageCleaningProofs --------------------------
(***************************************************************************)
(* Theorems about the cleaners of a page, for pages of any length and any  *)
(* sizes and levels.  Each cleaner is a fold; what it computes is shown by *)
(* induction on the page, one element at a time (Folding).                 *)
(***************************************************************************)
EXTENDS PageCleaningProps, SequenceTheorems, TLAPS

-----------------------------------------------------------------------------
(* The folds of Cleaners and PageCleaningProps, each with its step.        *)

TakeText(kept, e) == IF IsText(e) THEN Append(kept, e) ELSE kept
TakeObject(kept, e) == IF IsObject(e) THEN Append(kept, e) ELSE kept
TakeKept(kept, e) == IF Kept(e) THEN Append(kept, e) ELSE kept
TakeGoodText(kept, e) == IF IsText(e) /\ Kept(e) THEN Append(kept, e) ELSE kept

GoodTexts(s) == Selected(s, LAMBDA e : IsText(e) /\ Kept(e))

NotReleveled == [done |-> <<>>, previous |-> 0]
NotNumbered  == [done |-> <<>>, idx |-> 0]

T == INSTANCE Folding WITH Step <- TakeText
O == INSTANCE Folding WITH Step <- TakeObject
K == INSTANCE Folding WITH Step <- TakeKept
G == INSTANCE Folding WITH Step <- TakeGoodText
B == INSTANCE Folding WITH Step <- OrContinued
M == INSTANCE Folding WITH Step <- OrMerged
H == INSTANCE Folding WITH Step <- Relevelled
N == INSTANCE Folding WITH Step <- Renumbered
P == INSTANCE Folding WITH Step <- AddParts
L == INSTANCE Folding WITH Step <- AddLevel

\* The selections of the model as folds.
LEMMA TheSelections ==
  ASSUME NEW s
  PROVE  /\ Texts(s) = T!Fold(<<>>, s) /\ Objects(s) = O!Fold(<<>>, s)
         /\ ContentFilter(s) = K!Fold(<<>>, s) /\ GoodTexts(s) = G!Fold(<<>>, s)
<1>1. Texts(s) = T!Fold(<<>>, s)
  BY DEF Texts, Selected, T!Fold, TakeText, FoldLeft, MapThenFoldSet, T!MapThenFoldSet,
        Max, T!GreatestOf
<1>2. Objects(s) = O!Fold(<<>>, s)
  BY DEF Objects, Selected, O!Fold, TakeObject, FoldLeft, MapThenFoldSet, O!MapThenFoldSet,
        Max, O!GreatestOf
<1>3. ContentFilter(s) = K!Fold(<<>>, s)
  BY DEF ContentFilter, Selected, K!Fold, TakeKept, FoldLeft, MapThenFoldSet, K!MapThenFoldSet,
        Max, K!GreatestOf
<1>4. GoodTexts(s) = G!Fold(<<>>, s)
  BY DEF GoodTexts, Selected, G!Fold, TakeGoodText, FoldLeft, MapThenFoldSet, G!MapThenFoldSet,
        Max, G!GreatestOf
<1> QED
  BY <1>1, <1>2, <1>3, <1>4

\* StructureFixer's passes and the parts of a page as folds.
LEMMA TheFolds ==
  ASSUME NEW s
  PROVE  /\ FixBrokenSentences(s) = B!Fold(<<>>, s) /\ FixSplitParagraphs(s) = M!Fold(<<>>, s)
         /\ FixHeadingHierarchy(s) = H!Fold(NotReleveled, s).done
         /\ NormalizeLists(s) = N!Fold(NotNumbered, s).done
         /\ Parts(s) = P!Fold(<<>>, s) /\ LevelsOf(s) = L!Fold(<<>>, s)
<1>1. FixBrokenSentences(s) = B!Fold(<<>>, s)
  BY DEF FixBrokenSentences, B!Fold, FoldLeft, MapThenFoldSet, B!MapThenFoldSet,
        Max, B!GreatestOf
<1>2. FixSplitParagraphs(s) = M!Fold(<<>>, s)
  BY DEF FixSplitParagraphs, M!Fold, FoldLeft, MapThenFoldSet, M!MapThenFoldSet,
        Max, M!GreatestOf
<1>3. FixHeadingHierarchy(s) = H!Fold(NotReleveled, s).done
  BY DEF FixHeadingHierarchy, NotReleveled, H!Fold, FoldLeft, MapThenFoldSet, H!MapThenFoldSet,
        Max, H!GreatestOf
<1>4. NormalizeLists(s) = N!Fold(NotNumbered, s).done
  BY DEF NormalizeLists, NotNumbered, N!Fold, FoldLeft, MapThenFoldSet, N!MapThenFoldSet,
        Max, N!GreatestOf
<1>5. Parts(s) = P!Fold(<<>>, s)
  BY DEF Parts, P!Fold, FoldLeft, MapThenFoldSet, P!MapThenFoldSet,
        Max, P!GreatestOf
<1>6. LevelsOf(s) = L!Fold(<<>>, s)
  BY DEF LevelsOf, L!Fold, FoldLeft, MapThenFoldSet, L!MapThenFoldSet,
        Max, L!GreatestOf
<1> QED
  BY <1>1, <1>2, <1>3, <1>4, <1>5, <1>6

\* A page of nothing is left as it is.
LEMMA OfNone ==
  /\ Texts(<<>>) = <<>> /\ Objects(<<>>) = <<>>
  /\ ContentFilter(<<>>) = <<>> /\ GoodTexts(<<>>) = <<>>
  /\ FixBrokenSentences(<<>>) = <<>> /\ FixSplitParagraphs(<<>>) = <<>>
  /\ H!Fold(NotReleveled, <<>>) = NotReleveled /\ N!Fold(NotNumbered, <<>>) = NotNumbered
  /\ Parts(<<>>) = <<>> /\ LevelsOf(<<>>) = <<>>
BY TheSelections, TheFolds, T!OfNothing, O!OfNothing, K!OfNothing, G!OfNothing,
   B!OfNothing, M!OfNothing, H!OfNothing, N!OfNothing, P!OfNothing, L!OfNothing

\* One element more is one step more of each.
LEMMA OfMore ==
  ASSUME NEW E, NEW s \in Seq(E), NEW e \in E
  PROVE  /\ Texts(Append(s, e)) = TakeText(Texts(s), e)
         /\ Objects(Append(s, e)) = TakeObject(Objects(s), e)
         /\ ContentFilter(Append(s, e)) = TakeKept(ContentFilter(s), e)
         /\ GoodTexts(Append(s, e)) = TakeGoodText(GoodTexts(s), e)
         /\ FixBrokenSentences(Append(s, e)) = OrContinued(FixBrokenSentences(s), e)
         /\ FixSplitParagraphs(Append(s, e)) = OrMerged(FixSplitParagraphs(s), e)
         /\ H!Fold(NotReleveled, Append(s, e)) = Relevelled(H!Fold(NotReleveled, s), e)
         /\ N!Fold(NotNumbered, Append(s, e)) = Renumbered(N!Fold(NotNumbered, s), e)
         /\ Parts(Append(s, e)) = Parts(s) \o e.parts
         /\ LevelsOf(Append(s, e)) = AddLevel(LevelsOf(s), e)
<1>1. /\ T!Fold(<<>>, Append(s, e)) = TakeText(T!Fold(<<>>, s), e)
      /\ O!Fold(<<>>, Append(s, e)) = TakeObject(O!Fold(<<>>, s), e)
      /\ K!Fold(<<>>, Append(s, e)) = TakeKept(K!Fold(<<>>, s), e)
      /\ G!Fold(<<>>, Append(s, e)) = TakeGoodText(G!Fold(<<>>, s), e)
  BY T!OfOneMore, O!OfOneMore, K!OfOneMore, G!OfOneMore
<1>2. /\ B!Fold(<<>>, Append(s, e)) = OrContinued(B!Fold(<<>>, s), e)
      /\ M!Fold(<<>>, Append(s, e)) = OrMerged(M!Fold(<<>>, s), e)
      /\ H!Fold(NotReleveled, Append(s, e)) = Relevelled(H!Fold(NotReleveled, s), e)
      /\ N!Fold(NotNumbered, Append(s, e)) = Renumbered(N!Fold(NotNumbered, s), e)
  BY B!OfOneMore, M!OfOneMore, H!OfOneMore, N!OfOneMore
<1>3. /\ P!Fold(<<>>, Append(s, e)) = AddParts(P!Fold(<<>>, s), e)
      /\ L!Fold(<<>>, Append(s, e)) = AddLevel(L!Fold(<<>>, s), e)
  BY P!OfOneMore, L!OfOneMore
<1> QED
  BY <1>1, <1>2, <1>3, TheSelections, TheFolds DEF AddParts

\* Induction over sequences.
LEMMA AllSequences ==
  ASSUME NEW E, NEW S \in SUBSET Seq(E), <<>> \in S,
         \A s \in S : \A e \in E : Append(s, e) \in S
  PROVE  S = Seq(E)
BY K!Sequences

\* A sequence that is not empty is one with an element appended.
LEMMA Splits ==
  ASSUME NEW E, NEW s \in Seq(E), s # <<>>
  PROVE  /\ Front(s) \in Seq(E) /\ Last(s) \in E
         /\ s = Append(Front(s), Last(s))
         /\ Len(s) \in Nat /\ Len(s) > 0 /\ Len(Front(s)) = Len(s) - 1
         /\ \A i \in 1 .. Len(s) - 1 : Front(s)[i] = s[i]
<1>1. Len(s) \in Nat /\ Len(s) > 0
  <2>1. Len(s) \in Nat \ {0}
    BY EmptySeq
  <2> QED
    BY <2>1
<1>2. \A i \in 1 .. Len(s) : s[i] \in E
  BY ElementOfSeq
<1>3. /\ Front(s) \in Seq(E) /\ Len(Front(s)) = Len(s) - 1
      /\ \A i \in 1 .. Len(s) - 1 : Front(s)[i] = s[i]
  <2>1. 1 \in Int /\ Len(s) - 1 \in Int /\ \A i \in 1 .. Len(s) - 1 : s[i] \in E
    BY <1>1, <1>2
  <2>2. /\ SubSeq(s, 1, Len(s) - 1) \in Seq(E)
        /\ Len(SubSeq(s, 1, Len(s) - 1)) = IF 1 <= Len(s) - 1 THEN Len(s) - 1 - 1 + 1 ELSE 0
        /\ \A i \in 1 .. Len(s) - 1 - 1 + 1 : SubSeq(s, 1, Len(s) - 1)[i] = s[1 + i - 1]
    BY <2>1, SubSeqProperties
  <2>3. Len(s) - 1 - 1 + 1 = Len(s) - 1
    BY <1>1
  <2>4. Len(SubSeq(s, 1, Len(s) - 1)) = Len(s) - 1
    <3>1. \A n \in Nat : n > 0 => (IF 1 <= n - 1 THEN n - 1 - 1 + 1 ELSE 0) = n - 1
      OBVIOUS
    <3> QED
      BY <1>1, <2>2, <3>1
  <2>5. \A i \in 1 .. Len(s) - 1 : 1 + i - 1 = i
    BY <1>1
  <2> QED
    BY <2>2, <2>3, <2>4, <2>5 DEF Front
<1>4. Last(s) \in E
  BY <1>1, <1>2 DEF Last
<1>5. s = Append(Front(s), Last(s))
  <2>1. /\ Append(Front(s), Last(s)) \in Seq(E)
        /\ Len(Append(Front(s), Last(s))) = Len(s)
    BY <1>1, <1>3, <1>4
  <2>2. \A i \in 1 .. Len(s) : Append(Front(s), Last(s))[i] = s[i]
    BY <1>1, <1>3, <1>4 DEF Last
  <2> QED
    BY <2>1, <2>2, SeqEqual
<1> QED
  BY <1>1, <1>3, <1>4, <1>5

-----------------------------------------------------------------------------
(* Elements and sequences of them.                                         *)

Element ==
  [role : TextRoles \cup {"object"}, noise : BOOLEAN, size : Nat,
   starts : {"fresh", "continued"}, ends : {"open", "closed"}, level : Nat,
   marker : {"none", "numbered", "bulleted"}, number : Nat, parts : Seq(Nat)]

\* A text, and only list items have the marker of a numbered item.
TextElement == {e \in Element : IsText(e) /\ (e.marker = "numbered" => e.role = "list_item")}
ObjectElement == {e \in Element : IsObject(e) /\ Kept(e)}

\* What preprocessors make: noise is a paragraph.
SourceElement == {e \in Element : /\ e.noise => e.role = "paragraph"
                                  /\ e.marker = "numbered" => e.role = "list_item"}

\* An element of a file is a text or an object, and noise is a paragraph.
LEMMA Sorts ==
  ASSUME NEW e \in SourceElement
  PROVE  /\ IsText(e) => e \in TextElement
         /\ IsObject(e) => e \in ObjectElement
         /\ IsObject(e) <=> ~IsText(e)
         /\ ~Kept(e) => e.role = "paragraph" /\ IsText(e)
BY DEF SourceElement, TextElement, ObjectElement, IsText, IsObject, Kept, TextRoles

\* What two paragraphs are when joined.
LEMMA JoinedIs ==
  ASSUME NEW a \in TextElement, NEW b \in TextElement, BothParagraphs(a, b)
  PROVE  /\ Joined(a, b) \in TextElement
         /\ Joined(a, b).role = "paragraph" /\ Joined(a, b).starts = a.starts
         /\ Joined(a, b).ends = b.ends /\ Joined(a, b).size = a.size + 1 + b.size
         /\ Joined(a, b).parts = a.parts \o b.parts
         /\ Joined(a, b).level = a.level
<1>1. /\ a \in Element /\ b \in Element /\ a.role = "paragraph"
      /\ a.size \in Nat /\ b.size \in Nat /\ a.parts \in Seq(Nat) /\ b.parts \in Seq(Nat)
      /\ a.marker # "numbered" /\ b.ends \in {"open", "closed"}
  BY DEF TextElement, Element, BothParagraphs
<1>2. a.size + 1 + b.size \in Nat /\ a.parts \o b.parts \in Seq(Nat)
  BY <1>1
<1>3. /\ Joined(a, b).role = a.role /\ Joined(a, b).starts = a.starts
      /\ Joined(a, b).ends = b.ends /\ Joined(a, b).size = a.size + 1 + b.size
      /\ Joined(a, b).parts = a.parts \o b.parts /\ Joined(a, b).level = a.level
      /\ Joined(a, b).marker = a.marker
  BY <1>1 DEF Joined, Element
<1>4. Joined(a, b) \in Element
  BY <1>1, <1>2 DEF Joined, Element
<1> QED
  BY <1>1, <1>3, <1>4 DEF TextElement, IsText, TextRoles

\* The last text with the next one taken in.
LEMMA TakenInIs ==
  ASSUME NEW m \in Seq(TextElement), m # <<>>, NEW e \in TextElement,
         BothParagraphs(Last(m), e)
  PROVE  /\ Front(m) \in Seq(TextElement) /\ Last(m) \in TextElement
         /\ m = Append(Front(m), Last(m))
         /\ Joined(Last(m), e) \in TextElement
         /\ TakenIn(m, e) = Append(Front(m), Joined(Last(m), e))
         /\ TakenIn(m, e) \in Seq(TextElement)
<1>1. Front(m) \in Seq(TextElement) /\ Last(m) \in TextElement /\ m = Append(Front(m), Last(m))
  BY Splits
<1>2. Joined(Last(m), e) \in TextElement
  BY <1>1, JoinedIs
<1>3. Append(Front(m), Joined(Last(m), e)) \in Seq(TextElement)
  BY <1>1, <1>2
<1> QED
  BY <1>1, <1>2, <1>3 DEF TakenIn

\* What a cleaner of the pipeline works on is a sequence of elements.
LEMMA Selections ==
  ASSUME NEW s \in Seq(SourceElement)
  PROVE  /\ Texts(s) \in Seq(TextElement) /\ Objects(s) \in Seq(ObjectElement)
         /\ ContentFilter(s) \in Seq(SourceElement)
         /\ Texts(ContentFilter(s)) = GoodTexts(s)
         /\ Objects(ContentFilter(s)) = Objects(s)
         /\ LevelsOf(ContentFilter(s)) = LevelsOf(GoodTexts(s))
<1> DEFINE Good == {r \in Seq(SourceElement) :
                      /\ Texts(r) \in Seq(TextElement) /\ Objects(r) \in Seq(ObjectElement)
                      /\ ContentFilter(r) \in Seq(SourceElement)
                      /\ GoodTexts(r) \in Seq(TextElement)
                      /\ Texts(ContentFilter(r)) = GoodTexts(r)
                      /\ Objects(ContentFilter(r)) = Objects(r)
                      /\ LevelsOf(ContentFilter(r)) = LevelsOf(GoodTexts(r))}
<1>1. <<>> \in Good
  <2>1. <<>> \in Seq(TextElement) /\ <<>> \in Seq(ObjectElement) /\ <<>> \in Seq(SourceElement)
    OBVIOUS
  <2> QED
    BY <2>1, OfNone
<1>2. ASSUME NEW r \in Good, NEW e \in SourceElement
      PROVE  Append(r, e) \in Good
  <2> DEFINE c == ContentFilter(r)
  <2>1. /\ Texts(Append(r, e)) = TakeText(Texts(r), e)
        /\ Objects(Append(r, e)) = TakeObject(Objects(r), e)
        /\ ContentFilter(Append(r, e)) = TakeKept(c, e)
        /\ GoodTexts(Append(r, e)) = TakeGoodText(GoodTexts(r), e)
    BY OfMore
  <2>2. /\ Texts(Append(c, e)) = TakeText(Texts(c), e)
        /\ Objects(Append(c, e)) = TakeObject(Objects(c), e)
        /\ LevelsOf(Append(c, e)) = AddLevel(LevelsOf(c), e)
    BY OfMore
  <2>3. e \in TextElement =>
          LevelsOf(Append(GoodTexts(r), e)) = AddLevel(LevelsOf(GoodTexts(r)), e)
    BY OfMore
  <2>4. IsObject(e) => AddLevel(LevelsOf(c), e) = LevelsOf(c)
    BY DEF AddLevel, IsHeading, IsObject, TextRoles
  <2>5. Append(r, e) \in Seq(SourceElement) /\ Append(c, e) \in Seq(SourceElement)
    OBVIOUS
  <2>6. /\ r \in Seq(SourceElement) /\ c \in Seq(SourceElement)
        /\ Texts(r) \in Seq(TextElement) /\ Objects(r) \in Seq(ObjectElement)
        /\ GoodTexts(r) \in Seq(TextElement) /\ Texts(c) = GoodTexts(r)
        /\ Objects(c) = Objects(r) /\ LevelsOf(c) = LevelsOf(GoodTexts(r))
    OBVIOUS
  <2> HIDE DEF c
  <2>7. Texts(Append(r, e)) \in Seq(TextElement) /\ Objects(Append(r, e)) \in Seq(ObjectElement)
    <3>1. TakeText(Texts(r), e) \in Seq(TextElement)
      <4>1. IsText(e) => e \in TextElement
        BY Sorts
      <4> QED
        BY <2>6, <4>1 DEF TakeText
    <3>2. TakeObject(Objects(r), e) \in Seq(ObjectElement)
      <4>1. IsObject(e) => e \in ObjectElement
        BY Sorts
      <4> QED
        BY <2>6, <4>1 DEF TakeObject
    <3> QED
      BY <2>1, <3>1, <3>2
  <2>8. TakeKept(c, e) \in Seq(SourceElement)
    BY <2>5, <2>6 DEF TakeKept
  <2>9. TakeGoodText(GoodTexts(r), e) \in Seq(TextElement)
    <3>1. IsText(e) => e \in TextElement
      BY Sorts
    <3> QED
      BY <2>6, <3>1 DEF TakeGoodText
  <2>10. /\ Texts(TakeKept(c, e)) = TakeGoodText(GoodTexts(r), e)
         /\ Objects(TakeKept(c, e)) = TakeObject(Objects(r), e)
         /\ LevelsOf(TakeKept(c, e)) = LevelsOf(TakeGoodText(GoodTexts(r), e))
    <3>1. CASE ~Kept(e)
      <4>1. ~IsObject(e)
        BY <3>1, Sorts
      <4> QED
        BY <2>6, <3>1, <4>1 DEF TakeObject, TakeKept, TakeGoodText
    <3>2. CASE Kept(e) /\ IsText(e)
      <4>1. ~IsObject(e) /\ e \in TextElement
        BY <3>2, Sorts
      <4>2. TakeKept(c, e) = Append(c, e) /\ TakeGoodText(GoodTexts(r), e) = Append(GoodTexts(r), e)
        BY <3>2 DEF TakeKept, TakeGoodText
      <4> QED
        BY <2>2, <2>3, <2>6, <3>2, <4>1, <4>2 DEF TakeText, TakeObject
    <3>3. CASE Kept(e) /\ IsObject(e)
      <4>1. ~IsText(e)
        BY <3>3, Sorts
      <4>2. TakeKept(c, e) = Append(c, e) /\ TakeGoodText(GoodTexts(r), e) = GoodTexts(r)
        BY <3>3, <4>1 DEF TakeKept, TakeGoodText
      <4> QED
        BY <2>2, <2>4, <2>6, <3>3, <4>1, <4>2 DEF TakeText, TakeObject
    <3> QED
      BY <3>1, <3>2, <3>3, Sorts
  <2> QED
    BY <2>1, <2>5, <2>7, <2>8, <2>9, <2>10 DEF c
<1>3. Good = Seq(SourceElement)
  <2>1. Good \in SUBSET Seq(SourceElement)
    OBVIOUS
  <2> HIDE DEF Good
  <2> QED
    BY <1>1, <1>2, <2>1, AllSequences
<1> QED
  BY <1>3

-----------------------------------------------------------------------------
(* What merging keeps.                                                     *)

Merging == [was : Seq(TextElement), is : Seq(TextElement)]

Into(s, m) == [was |-> s, is |-> m]

\* Pages before and behind a merge.
LEMMA IntoIs ==
  ASSUME NEW s \in Seq(TextElement), NEW m \in Seq(TextElement)
  PROVE  /\ Into(s, m) \in Merging /\ Into(s, m).was = s /\ Into(s, m).is = m
         /\ <<>> \in Seq(TextElement)
         /\ \A e \in TextElement : /\ Append(s, e) \in Seq(TextElement)
                                   /\ Append(m, e) \in Seq(TextElement)
BY DEF Into, Merging

\* A relation that every appended or absorbed paragraph keeps holds of a page and what
\* either repair makes of it.
LEMMA Merges ==
  ASSUME NEW R \in SUBSET Merging,
         Into(<<>>, <<>>) \in R,
         \A s, m \in Seq(TextElement) : \A e \in TextElement : Into(s, m) \in R =>
           /\ Into(Append(s, e), Append(m, e)) \in R
           /\ m # <<>> /\ BothParagraphs(Last(m), e) => Into(Append(s, e), TakenIn(m, e)) \in R,
         NEW t \in Seq(TextElement)
  PROVE  Into(t, FixBrokenSentences(t)) \in R /\ Into(t, FixSplitParagraphs(t)) \in R
<1> DEFINE Good == {s \in Seq(TextElement) :
                      Into(s, FixBrokenSentences(s)) \in R /\ Into(s, FixSplitParagraphs(s)) \in R}
<1>1. <<>> \in Good
  <2>1. <<>> \in Seq(TextElement)
    OBVIOUS
  <2> QED
    BY <2>1, OfNone
<1>2. ASSUME NEW s \in Good, NEW e \in TextElement
      PROVE  Append(s, e) \in Good
  <2>1. /\ s \in Seq(TextElement) /\ Append(s, e) \in Seq(TextElement)
        /\ Into(s, FixBrokenSentences(s)) \in R /\ Into(s, FixSplitParagraphs(s)) \in R
    OBVIOUS
  <2>2. FixBrokenSentences(s) \in Seq(TextElement) /\ FixSplitParagraphs(s) \in Seq(TextElement)
    <3>1. Into(s, FixBrokenSentences(s)) \in Merging /\ Into(s, FixSplitParagraphs(s)) \in Merging
      BY <2>1
    <3> QED
      BY <3>1 DEF Into, Merging
  <2>3. Into(Append(s, e), OrContinued(FixBrokenSentences(s), e)) \in R
    BY <2>1, <2>2 DEF OrContinued, SentenceGoesOn
  <2>4. Into(Append(s, e), OrMerged(FixSplitParagraphs(s), e)) \in R
    BY <2>1, <2>2 DEF OrMerged, BothShort
  <2> QED
    BY <2>1, <2>3, <2>4, OfMore
<1>3. Good = Seq(TextElement)
  <2>1. Good \in SUBSET Seq(TextElement)
    OBVIOUS
  <2> HIDE DEF Good
  <2> QED
    BY <1>1, <1>2, <2>1, AllSequences
<1> QED
  BY <1>3

\* Merges make texts of texts.
LEMMA MergedTexts ==
  ASSUME NEW t \in Seq(TextElement)
  PROVE  FixBrokenSentences(t) \in Seq(TextElement) /\ FixSplitParagraphs(t) \in Seq(TextElement)
<1>1. Into(<<>>, <<>>) \in Merging
  <2>1. <<>> \in Seq(TextElement)
    OBVIOUS
  <2> QED
    BY <2>1, IntoIs
<1>2. ASSUME NEW s \in Seq(TextElement), NEW m \in Seq(TextElement), NEW e \in TextElement
      PROVE  /\ Into(Append(s, e), Append(m, e)) \in Merging
             /\ m # <<>> /\ BothParagraphs(Last(m), e)
                  => Into(Append(s, e), TakenIn(m, e)) \in Merging
  <2>1. Append(s, e) \in Seq(TextElement) /\ Append(m, e) \in Seq(TextElement)
    OBVIOUS
  <2>2. m # <<>> /\ BothParagraphs(Last(m), e) => TakenIn(m, e) \in Seq(TextElement)
    BY TakenInIs
  <2> QED
    BY <2>1, <2>2, IntoIs
<1>3. Into(t, FixBrokenSentences(t)) \in Merging /\ Into(t, FixSplitParagraphs(t)) \in Merging
  BY <1>1, <1>2, Merges
<1> QED
  BY <1>3 DEF Into, Merging

\* The parts of a page are numbers.
LEMMA PartsType ==
  ASSUME NEW s \in Seq(Element)
  PROVE  Parts(s) \in Seq(Nat)
<1>1. <<>> \in Seq(Nat)
  OBVIOUS
<1>2. ASSUME NEW p \in Seq(Nat), NEW e \in Element
      PROVE  AddParts(p, e) \in Seq(Nat)
  <2>1. e.parts \in Seq(Nat)
    BY DEF Element
  <2> QED
    BY <2>1 DEF AddParts
<1>3. P!Fold(<<>>, s) \in Seq(Nat)
  BY <1>1, <1>2, P!OfType
<1> QED
  BY <1>3, TheFolds

\* Joining parts in either order.
LEMMA Associative ==
  ASSUME NEW p \in Seq(Nat), NEW q \in Seq(Nat), NEW r \in Seq(Nat)
  PROVE  p \o (q \o r) = (p \o q) \o r
<1> DEFINE E == Nat
<1>1. p \in Seq(E) /\ q \in Seq(E) /\ r \in Seq(E)
  OBVIOUS
<1> HIDE DEF E
<1> QED
  BY <1>1, ConcatAssociative

\* Merging keeps what a page is made of, and its headings.
LEMMA MergingKeeps ==
  ASSUME NEW t \in Seq(TextElement)
  PROVE  /\ Parts(FixBrokenSentences(t)) = Parts(t)
         /\ Parts(FixSplitParagraphs(t)) = Parts(t)
         /\ LevelsOf(FixBrokenSentences(t)) = LevelsOf(t)
         /\ LevelsOf(FixSplitParagraphs(t)) = LevelsOf(t)
<1> DEFINE R == {p \in Merging :
                   Parts(p.is) = Parts(p.was) /\ LevelsOf(p.is) = LevelsOf(p.was)}
<1>0. \A s, m \in Seq(TextElement) :
        Into(s, m) \in R <=> Parts(m) = Parts(s) /\ LevelsOf(m) = LevelsOf(s)
  BY IntoIs
<1>1. R \in SUBSET Merging /\ Into(<<>>, <<>>) \in R
  <2>1. <<>> \in Seq(TextElement)
    OBVIOUS
  <2> QED
    BY <1>0, <2>1
<1> HIDE DEF R
<1>2. ASSUME NEW s \in Seq(TextElement), NEW m \in Seq(TextElement), NEW e \in TextElement,
             Into(s, m) \in R
      PROVE  /\ Into(Append(s, e), Append(m, e)) \in R
             /\ m # <<>> /\ BothParagraphs(Last(m), e) => Into(Append(s, e), TakenIn(m, e)) \in R
  <2>1. Parts(m) = Parts(s) /\ LevelsOf(m) = LevelsOf(s)
    BY <1>0, <1>2
  <2>2. /\ Parts(Append(s, e)) = Parts(s) \o e.parts
        /\ Parts(Append(m, e)) = Parts(m) \o e.parts
        /\ LevelsOf(Append(s, e)) = AddLevel(LevelsOf(s), e)
        /\ LevelsOf(Append(m, e)) = AddLevel(LevelsOf(m), e)
    BY OfMore
  <2>3. Append(s, e) \in Seq(TextElement) /\ Append(m, e) \in Seq(TextElement)
    OBVIOUS
  <2>4. Into(Append(s, e), Append(m, e)) \in R
    BY <1>0, <2>1, <2>2, <2>3
  <2>5. ASSUME m # <<>>, BothParagraphs(Last(m), e)
        PROVE  Into(Append(s, e), TakenIn(m, e)) \in R
    <3> DEFINE f == Front(m)
               l == Last(m)
               j == Joined(l, e)
    <3>1. /\ f \in Seq(TextElement) /\ l \in TextElement /\ j \in TextElement
          /\ m = Append(f, l) /\ TakenIn(m, e) = Append(f, j)
          /\ TakenIn(m, e) \in Seq(TextElement)
      BY <2>5, TakenInIs
    <3>2. j.parts = l.parts \o e.parts /\ j.role = "paragraph"
      BY <2>5, <3>1, JoinedIs
    <3>3. l.role = "paragraph" /\ e.role = "paragraph"
      BY <2>5 DEF BothParagraphs
    <3> HIDE DEF f, l, j
    <3>4. /\ Parts(m) = Parts(f) \o l.parts /\ LevelsOf(m) = AddLevel(LevelsOf(f), l)
          /\ Parts(TakenIn(m, e)) = Parts(f) \o j.parts
          /\ LevelsOf(TakenIn(m, e)) = AddLevel(LevelsOf(f), j)
      BY <3>1, OfMore
    <3>5. /\ LevelsOf(m) = LevelsOf(f) /\ LevelsOf(TakenIn(m, e)) = LevelsOf(f)
          /\ LevelsOf(Append(s, e)) = LevelsOf(s)
      BY <2>2, <3>2, <3>3, <3>4 DEF AddLevel, IsHeading
    <3>6. Parts(f) \in Seq(Nat) /\ l.parts \in Seq(Nat) /\ e.parts \in Seq(Nat)
      <4>1. f \in Seq(Element)
        BY <3>1 DEF TextElement
      <4> QED
        BY <3>1, <4>1, PartsType DEF TextElement, Element
    <3>7. Parts(f) \o (l.parts \o e.parts) = (Parts(f) \o l.parts) \o e.parts
      BY <3>6, Associative
    <3>8. Parts(TakenIn(m, e)) = Parts(Append(s, e))
      BY <2>1, <2>2, <3>2, <3>4, <3>7
    <3> QED
      BY <1>0, <2>1, <2>3, <3>1, <3>5, <3>8
  <2> QED
    BY <2>4, <2>5
<1>3. Into(t, FixBrokenSentences(t)) \in R /\ Into(t, FixSplitParagraphs(t)) \in R
  BY <1>1, <1>2, Merges
<1>4. FixBrokenSentences(t) \in Seq(TextElement) /\ FixSplitParagraphs(t) \in Seq(TextElement)
  BY MergedTexts
<1> QED
  BY <1>0, <1>3, <1>4

-----------------------------------------------------------------------------
(* What is left to merge.                                                  *)

NoneGoesOn(s) == \A i \in 1 .. Len(s) - 1 : ~SentenceGoesOn(s[i], s[i + 1])
NoneShort(s) == \A i \in 1 .. Len(s) - 1 : ~BothShort(s[i], s[i + 1])

\* A sequence with one more element.
LEMMA AppendedIs ==
  ASSUME NEW E, NEW s \in Seq(E), NEW e \in E
  PROVE  /\ Append(s, e) \in Seq(E) /\ Append(s, e) # <<>> /\ Last(Append(s, e)) = e
         /\ Len(s) \in Nat /\ Len(Append(s, e)) = Len(s) + 1
         /\ Append(s, e)[Len(s) + 1] = e
         /\ \A i \in 1 .. Len(s) : Append(s, e)[i] = s[i]
         /\ s # <<>> => Last(s) = s[Len(s)] /\ Len(s) > 0 /\ Last(s) \in E
<1>1. s # <<>> => Len(s) > 0 /\ Last(s) \in E
  BY Splits
<1>2. /\ Append(s, e) \in Seq(E) /\ Append(s, e) # <<>>
      /\ Len(s) \in Nat /\ Len(Append(s, e)) = Len(s) + 1
      /\ Append(s, e)[Len(s) + 1] = e
      /\ \A i \in 1 .. Len(s) : Append(s, e)[i] = s[i]
  OBVIOUS
<1> QED
  BY <1>1, <1>2 DEF Last

\* Only the last two elements of a longer page are new neighbours.
LEMMA OneMoreNeighbour ==
  ASSUME NEW s \in Seq(TextElement), NEW e \in TextElement
  PROVE  /\ NoneGoesOn(Append(s, e)) <=>
              NoneGoesOn(s) /\ (s # <<>> => ~SentenceGoesOn(Last(s), e))
         /\ NoneShort(Append(s, e)) <=>
              NoneShort(s) /\ (s # <<>> => ~BothShort(Last(s), e))
<1> DEFINE t == Append(s, e)
           n == Len(s)
<1>1. /\ n \in Nat /\ Len(t) = n + 1 /\ t[n + 1] = e
      /\ \A i \in 1 .. n : t[i] = s[i]
      /\ s # <<>> <=> n > 0
      /\ n > 0 => Last(s) = s[n]
  <2>1. s = <<>> => Len(s) = 0
    OBVIOUS
  <2> QED
    BY <2>1, AppendedIs
<1> HIDE DEF t, n
<1>2. /\ \A i \in 1 .. n - 1 : i \in 1 .. n /\ i + 1 \in 1 .. n
      /\ \A i \in 1 .. n + 1 - 1 : i \in 1 .. n - 1 \/ (i = n /\ n > 0)
      /\ n > 0 => n \in 1 .. n + 1 - 1 /\ n \in 1 .. n
      /\ \A i \in 1 .. n - 1 : i \in 1 .. n + 1 - 1
  BY <1>1
<1>3. NoneGoesOn(t) <=> NoneGoesOn(s) /\ (n > 0 => ~SentenceGoesOn(s[n], e))
  BY <1>1, <1>2 DEF NoneGoesOn, n
<1>4. NoneShort(t) <=> NoneShort(s) /\ (n > 0 => ~BothShort(s[n], e))
  BY <1>1, <1>2 DEF NoneShort, n
<1> QED
  BY <1>1, <1>3, <1>4 DEF t

\* What is merged takes the place of its first element.
LEMMA JoinedNeighbours ==
  ASSUME NEW m \in Seq(TextElement), m # <<>>, NEW e \in TextElement,
         BothParagraphs(Last(m), e)
  PROVE  /\ NoneGoesOn(m) => NoneGoesOn(TakenIn(m, e))
         /\ NoneShort(m) => NoneShort(TakenIn(m, e))
         /\ Last(TakenIn(m, e)).role = e.role /\ Last(TakenIn(m, e)).ends = e.ends
         /\ TakenIn(m, e) # <<>>
<1> DEFINE f == Front(m)
           l == Last(m)
           j == Joined(l, e)
<1>1. /\ f \in Seq(TextElement) /\ l \in TextElement /\ j \in TextElement
      /\ m = Append(f, l) /\ TakenIn(m, e) = Append(f, j)
  BY TakenInIs
<1>2. /\ j.role = "paragraph" /\ j.starts = l.starts /\ j.ends = e.ends
      /\ j.size = l.size + 1 + e.size
      /\ l.role = "paragraph" /\ e.role = "paragraph"
  BY <1>1, JoinedIs DEF BothParagraphs
<1>3. l.size \in Nat /\ e.size \in Nat /\ j.size \in Nat
  BY <1>1 DEF TextElement, Element
<1> HIDE DEF f, l, j
<1>4. f # <<>> => Last(f) \in TextElement
  BY <1>1, AppendedIs
<1>5. NoneGoesOn(Append(f, l)) => NoneGoesOn(Append(f, j))
  <2>1. ~SentenceGoesOn(Last(f), l) => ~SentenceGoesOn(Last(f), j)
    BY <1>2 DEF SentenceGoesOn, BothParagraphs
  <2> QED
    BY <1>1, <2>1, OneMoreNeighbour
<1>6. NoneShort(Append(f, l)) => NoneShort(Append(f, j))
  <2>1. ~BothShort(Last(f), l) => ~BothShort(Last(f), j)
    BY <1>2, <1>3 DEF BothShort, BothParagraphs
  <2> QED
    BY <1>1, <2>1, OneMoreNeighbour
<1>7. Last(Append(f, j)) = j /\ Append(f, j) # <<>>
  BY <1>1, AppendedIs
<1> QED
  BY <1>1, <1>2, <1>5, <1>6, <1>7

\* The first repair leaves no sentence in two pieces, the second no short paragraphs
\* side by side.
LEMMA NothingLeft ==
  ASSUME NEW t \in Seq(TextElement)
  PROVE  NoneGoesOn(FixBrokenSentences(t)) /\ NoneShort(FixSplitParagraphs(t))
<1> DEFINE Good == {s \in Seq(TextElement) :
                      NoneGoesOn(FixBrokenSentences(s)) /\ NoneShort(FixSplitParagraphs(s))}
<1>1. <<>> \in Good
  <2>1. <<>> \in Seq(TextElement) /\ NoneGoesOn(<<>>) /\ NoneShort(<<>>)
    BY DEF NoneGoesOn, NoneShort
  <2> QED
    BY <2>1, OfNone
<1>2. ASSUME NEW s \in Good, NEW e \in TextElement
      PROVE  Append(s, e) \in Good
  <2> DEFINE b == FixBrokenSentences(s)
             m == FixSplitParagraphs(s)
  <2>1. /\ s \in Seq(TextElement) /\ Append(s, e) \in Seq(TextElement)
        /\ NoneGoesOn(b) /\ NoneShort(m)
        /\ b \in Seq(TextElement) /\ m \in Seq(TextElement)
    BY MergedTexts
  <2>2. /\ FixBrokenSentences(Append(s, e)) = OrContinued(b, e)
        /\ FixSplitParagraphs(Append(s, e)) = OrMerged(m, e)
    BY <2>1, OfMore
  <2> HIDE DEF b, m
  <2>3. NoneGoesOn(OrContinued(b, e))
    <3>1. CASE b # <<>> /\ SentenceGoesOn(Last(b), e)
      <4>1. BothParagraphs(Last(b), e)
        BY <3>1 DEF SentenceGoesOn
      <4> QED
        BY <2>1, <3>1, <4>1, JoinedNeighbours DEF OrContinued
    <3>2. CASE ~(b # <<>> /\ SentenceGoesOn(Last(b), e))
      BY <2>1, <3>2, OneMoreNeighbour DEF OrContinued
    <3> QED
      BY <3>1, <3>2
  <2>4. NoneShort(OrMerged(m, e))
    <3>1. CASE m # <<>> /\ BothShort(Last(m), e)
      <4>1. BothParagraphs(Last(m), e)
        BY <3>1 DEF BothShort
      <4> QED
        BY <2>1, <3>1, <4>1, JoinedNeighbours DEF OrMerged
    <3>2. CASE ~(m # <<>> /\ BothShort(Last(m), e))
      BY <2>1, <3>2, OneMoreNeighbour DEF OrMerged
    <3> QED
      BY <3>1, <3>2
  <2> QED
    BY <2>1, <2>2, <2>3, <2>4
<1>3. Good = Seq(TextElement)
  <2>1. Good \in SUBSET Seq(TextElement)
    OBVIOUS
  <2> HIDE DEF Good
  <2> QED
    BY <1>1, <1>2, <2>1, AllSequences
<1> QED
  BY <1>3

\* The second repair opens no sentence that the first has closed.
LEMMA StaysClosed ==
  ASSUME NEW t \in Seq(TextElement), NoneGoesOn(t)
  PROVE  NoneGoesOn(FixSplitParagraphs(t))
<1> DEFINE Ok(s, m) == NoneGoesOn(s) =>
                         /\ NoneGoesOn(m)
                         /\ s # <<>> => /\ m # <<>> /\ Last(m).role = Last(s).role
                                        /\ Last(m).ends = Last(s).ends
                         /\ s = <<>> => m = <<>>
           R == {p \in Merging : Ok(p.was, p.is)}
<1>0. \A s, m \in Seq(TextElement) : Into(s, m) \in R <=> Ok(s, m)
  <2> HIDE DEF Ok
  <2> QED
    BY IntoIs
<1>1. R \in SUBSET Merging /\ Into(<<>>, <<>>) \in R
  <2>1. <<>> \in Seq(TextElement) /\ Ok(<<>>, <<>>)
    OBVIOUS
  <2> QED
    BY <1>0, <2>1
<1> HIDE DEF R
<1>2. ASSUME NEW s \in Seq(TextElement), NEW m \in Seq(TextElement), NEW e \in TextElement,
             Into(s, m) \in R
      PROVE  /\ Into(Append(s, e), Append(m, e)) \in R
             /\ m # <<>> /\ BothParagraphs(Last(m), e) => Into(Append(s, e), TakenIn(m, e)) \in R
  <2>1. Ok(s, m) /\ Append(s, e) \in Seq(TextElement) /\ Append(m, e) \in Seq(TextElement)
    BY <1>0, <1>2
  <2>2. /\ Append(s, e) # <<>> /\ Last(Append(s, e)) = e
        /\ Append(m, e) # <<>> /\ Last(Append(m, e)) = e
    BY AppendedIs
  <2>3. Ok(Append(s, e), Append(m, e))
    <3>1. s # <<>> /\ m # <<>> /\ Last(m).role = Last(s).role /\ Last(m).ends = Last(s).ends
            => (SentenceGoesOn(Last(m), e) <=> SentenceGoesOn(Last(s), e))
      BY DEF SentenceGoesOn, BothParagraphs
    <3> QED
      BY <2>1, <2>2, <3>1, OneMoreNeighbour
  <2>4. ASSUME m # <<>>, BothParagraphs(Last(m), e)
        PROVE  TakenIn(m, e) \in Seq(TextElement) /\ Ok(Append(s, e), TakenIn(m, e))
    <3>1. TakenIn(m, e) \in Seq(TextElement)
      BY <2>4, TakenInIs
    <3> QED
      BY <2>1, <2>2, <2>4, <3>1, OneMoreNeighbour, JoinedNeighbours
  <2> HIDE DEF Ok
  <2> QED
    BY <1>0, <2>1, <2>3, <2>4
<1>3. Into(t, FixSplitParagraphs(t)) \in R
  BY <1>1, <1>2, Merges
<1>4. FixSplitParagraphs(t) \in Seq(TextElement)
  BY MergedTexts
<1> QED
  BY <1>0, <1>3, <1>4

-----------------------------------------------------------------------------
(* What a merged text is made of: a stretch of paragraphs.                 *)

\* The elements of page src from a to b can be merged: objects are not in the way.
Covered(src, a, b) == \A i \in a .. b : src[i].role \in {"paragraph", "object"}

Whole(src, e) ==
  /\ e.parts # <<>>
  /\ e.role = "paragraph" => Covered(src, Head(e.parts), Last(e.parts))
  /\ e.role # "paragraph" => Len(e.parts) = 1

Gap(src, a, b) == Covered(src, Last(a.parts) + 1, Head(b.parts) - 1)

\* Texts made of stretches, with only what can be merged between them.
Fine(src, s) ==
  /\ \A i \in 1 .. Len(s) : Whole(src, s[i])
  /\ \A i \in 1 .. Len(s) - 1 : Gap(src, s[i], s[i + 1])

\* The same for the parts: a longer page adds a text and the gap in front of it.
LEMMA FineMore ==
  ASSUME NEW src, NEW s \in Seq(TextElement), NEW e \in TextElement
  PROVE  Fine(src, Append(s, e)) <=>
           Fine(src, s) /\ Whole(src, e) /\ (s # <<>> => Gap(src, Last(s), e))
<1> DEFINE t == Append(s, e)
           n == Len(s)
<1>1. /\ n \in Nat /\ Len(t) = n + 1 /\ t[n + 1] = e
      /\ \A i \in 1 .. n : t[i] = s[i]
      /\ s # <<>> <=> n > 0
      /\ n > 0 => Last(s) = s[n]
  <2>1. s = <<>> => Len(s) = 0
    OBVIOUS
  <2> QED
    BY <2>1, AppendedIs
<1> HIDE DEF t, n
<1>2. /\ \A i \in 1 .. n - 1 : i \in 1 .. n /\ i + 1 \in 1 .. n
      /\ \A i \in 1 .. n + 1 - 1 : i \in 1 .. n - 1 \/ (i = n /\ n > 0)
      /\ n > 0 => n \in 1 .. n + 1 - 1 /\ n \in 1 .. n
      /\ \A i \in 1 .. n - 1 : i \in 1 .. n + 1 - 1
      /\ \A i \in 1 .. n + 1 : i \in 1 .. n \/ i = n + 1
      /\ \A i \in 1 .. n : i \in 1 .. n + 1
      /\ n + 1 \in 1 .. n + 1
  BY <1>1
<1>3. (\A i \in 1 .. Len(t) : Whole(src, t[i])) <=>
        (\A i \in 1 .. n : Whole(src, s[i])) /\ Whole(src, e)
  BY <1>1, <1>2
<1>4. (\A i \in 1 .. Len(t) - 1 : Gap(src, t[i], t[i + 1])) <=>
        (\A i \in 1 .. n - 1 : Gap(src, s[i], s[i + 1])) /\ (n > 0 => Gap(src, s[n], e))
  BY <1>1, <1>2
<1> QED
  BY <1>1, <1>3, <1>4 DEF t, n, Fine

\* A text put together from two stretches with a gap between them is a stretch.
LEMMA JoinedWhole ==
  ASSUME NEW src, NEW l \in TextElement, NEW e \in TextElement, BothParagraphs(l, e),
         Whole(src, l), Whole(src, e), Gap(src, l, e)
  PROVE  /\ Whole(src, Joined(l, e))
         /\ Head(Joined(l, e).parts) = Head(l.parts)
         /\ Last(Joined(l, e).parts) = Last(e.parts)
<1> DEFINE p == l.parts
           q == e.parts
           r == p \o q
<1>1. /\ Joined(l, e).parts = r /\ Joined(l, e).role = "paragraph"
      /\ l.role = "paragraph" /\ e.role = "paragraph"
  BY JoinedIs DEF BothParagraphs
<1>2. p \in Seq(Nat) /\ q \in Seq(Nat) /\ p # <<>> /\ q # <<>>
  BY DEF TextElement, Element, Whole
<1> HIDE DEF p, q
<1>3. /\ Len(p) \in Nat /\ Len(p) > 0 /\ Len(q) \in Nat /\ Len(q) > 0
      /\ Last(p) \in Nat /\ Last(q) \in Nat
  BY <1>2, Splits
<1>4. /\ r \in Seq(Nat) /\ Len(r) = Len(p) + Len(q)
      /\ r[1] = p[1] /\ r[Len(p) + Len(q)] = q[Len(q)]
  BY <1>2, <1>3
<1>5. Head(r) = Head(p) /\ Last(r) = Last(q) /\ r # <<>> /\ Head(p) \in Nat /\ Head(q) \in Nat
  <2>1. r # <<>>
    BY <1>3, <1>4
  <2>2. Head(r) = r[1] /\ Head(p) = p[1] /\ p[1] \in Nat /\ Head(q) = q[1] /\ q[1] \in Nat
    BY <1>2, <1>3
  <2> QED
    BY <1>4, <2>1, <2>2 DEF Last
<1> HIDE DEF r
<1>6. /\ Covered(src, Head(p), Last(p)) /\ Covered(src, Head(q), Last(q))
      /\ Covered(src, Last(p) + 1, Head(q) - 1)
  BY <1>1 DEF Whole, Gap, p, q
<1>7. Covered(src, Head(p), Last(q))
  <2> SUFFICES ASSUME NEW i \in Head(p) .. Last(q)
               PROVE  src[i].role \in {"paragraph", "object"}
    BY DEF Covered
  <2>1. \/ i \in Head(p) .. Last(p) \/ i \in Last(p) + 1 .. Head(q) - 1
        \/ i \in Head(q) .. Last(q)
    BY <1>3, <1>5
  <2> QED
    BY <1>6, <2>1 DEF Covered
<1> QED
  BY <1>1, <1>5, <1>7 DEF Whole, p, q

\* Merges keep every text whole and nothing but noise between texts.
LEMMA StaysFine ==
  ASSUME NEW src, NEW t \in Seq(TextElement), Fine(src, t)
  PROVE  Fine(src, FixBrokenSentences(t)) /\ Fine(src, FixSplitParagraphs(t))
<1> DEFINE Ok(s, m) == Fine(src, s) =>
                         /\ Fine(src, m)
                         /\ s # <<>> => m # <<>> /\ Last(Last(m).parts) = Last(Last(s).parts)
                         /\ s = <<>> => m = <<>>
           R == {p \in Merging : Ok(p.was, p.is)}
<1>0. \A s, m \in Seq(TextElement) : Into(s, m) \in R <=> Ok(s, m)
  <2> HIDE DEF Ok
  <2> QED
    BY IntoIs
<1>1. R \in SUBSET Merging /\ Into(<<>>, <<>>) \in R
  <2>1. <<>> \in Seq(TextElement) /\ Ok(<<>>, <<>>)
    OBVIOUS
  <2> QED
    BY <1>0, <2>1
<1> HIDE DEF R
<1>2. ASSUME NEW s \in Seq(TextElement), NEW m \in Seq(TextElement), NEW e \in TextElement,
             Into(s, m) \in R
      PROVE  /\ Into(Append(s, e), Append(m, e)) \in R
             /\ m # <<>> /\ BothParagraphs(Last(m), e) => Into(Append(s, e), TakenIn(m, e)) \in R
  <2>1. Ok(s, m) /\ Append(s, e) \in Seq(TextElement) /\ Append(m, e) \in Seq(TextElement)
    BY <1>0, <1>2
  <2>2. /\ Append(s, e) # <<>> /\ Last(Append(s, e)) = e
        /\ Append(m, e) # <<>> /\ Last(Append(m, e)) = e
    BY AppendedIs
  <2>3. /\ Fine(src, Append(s, e)) <=>
             Fine(src, s) /\ Whole(src, e) /\ (s # <<>> => Gap(src, Last(s), e))
        /\ Fine(src, Append(m, e)) <=>
             Fine(src, m) /\ Whole(src, e) /\ (m # <<>> => Gap(src, Last(m), e))
    BY FineMore
  <2>4. Fine(src, Append(s, e)) => Fine(src, m) /\ Whole(src, e) /\ (m # <<>> => Gap(src, Last(m), e))
    BY <2>1, <2>3 DEF Gap
  <2>5. Ok(Append(s, e), Append(m, e))
    BY <2>2, <2>3, <2>4
  <2>6. ASSUME m # <<>>, BothParagraphs(Last(m), e)
        PROVE  TakenIn(m, e) \in Seq(TextElement) /\ Ok(Append(s, e), TakenIn(m, e))
    <3> DEFINE f == Front(m)
               l == Last(m)
               j == Joined(l, e)
    <3>1. /\ f \in Seq(TextElement) /\ l \in TextElement /\ j \in TextElement
          /\ m = Append(f, l) /\ TakenIn(m, e) = Append(f, j)
          /\ TakenIn(m, e) \in Seq(TextElement)
      BY <2>6, TakenInIs
    <3>2. Last(Append(f, j)) = j /\ Append(f, j) # <<>>
      <4> HIDE DEF f, j
      <4> QED
        BY <3>1, AppendedIs
    <3>3. ASSUME Fine(src, Append(s, e))
          PROVE  Fine(src, Append(f, j)) /\ Last(j.parts) = Last(e.parts)
      <4>1. Fine(src, m) /\ Whole(src, e) /\ Gap(src, l, e)
        BY <2>4, <2>6, <3>3
      <4>2. BothParagraphs(l, e)
        BY <2>6
      <4> HIDE DEF f, l
      <4>3. Fine(src, f) /\ Whole(src, l) /\ (f # <<>> => Gap(src, Last(f), l))
        BY <3>1, <4>1, FineMore
      <4>4. /\ Whole(src, j) /\ Head(j.parts) = Head(l.parts) /\ Last(j.parts) = Last(e.parts)
        BY <3>1, <4>1, <4>2, <4>3, JoinedWhole
      <4> HIDE DEF j
      <4>5. f # <<>> => Gap(src, Last(f), j)
        BY <4>3, <4>4 DEF Gap
      <4> QED
        BY <3>1, <4>3, <4>4, <4>5, FineMore
    <3> HIDE DEF f, l, j
    <3> QED
      BY <2>2, <3>1, <3>2, <3>3
  <2> HIDE DEF Ok
  <2> QED
    BY <1>0, <2>1, <2>5, <2>6
<1>3. Into(t, FixBrokenSentences(t)) \in R /\ Into(t, FixSplitParagraphs(t)) \in R
  BY <1>1, <1>2, Merges
<1>4. FixBrokenSentences(t) \in Seq(TextElement) /\ FixSplitParagraphs(t) \in Seq(TextElement)
  BY MergedTexts
<1> QED
  BY <1>0, <1>3, <1>4

\* The elements of a page as its parts say.
Numbered(src) == \A i \in 1 .. Len(src) : src[i].parts = <<i>>

\* The texts that are kept of a page are fine: what is between them is noise or an object.
LEMMA SourceFine ==
  ASSUME NEW src \in Seq(SourceElement), Numbered(src)
  PROVE  Fine(src, GoodTexts(src))
<1> DEFINE pre(n) == SubSeq(src, 1, n)
           g(n) == GoodTexts(pre(n))
           Good == {n \in Nat : n <= Len(src) =>
                      /\ pre(n) \in Seq(SourceElement) /\ g(n) \in Seq(TextElement)
                      /\ Fine(src, g(n))
                      /\ g(n) # <<>> => /\ Last(Last(g(n)).parts) \in Nat
                                        /\ Covered(src, Last(Last(g(n)).parts) + 1, n)}
<1>1. 0 \in Good
  <2>1. pre(0) = <<>> /\ <<>> \in Seq(SourceElement) /\ <<>> \in Seq(TextElement)
    OBVIOUS
  <2>2. Fine(src, <<>>)
    BY DEF Fine
  <2> QED
    BY <2>1, <2>2, OfNone
<1>2. ASSUME NEW n \in Good
      PROVE  n + 1 \in Good
  <2> DEFINE e == src[n + 1]
  <2> SUFFICES ASSUME n + 1 <= Len(src)
               PROVE  /\ pre(n + 1) \in Seq(SourceElement) /\ g(n + 1) \in Seq(TextElement)
                      /\ Fine(src, g(n + 1))
                      /\ g(n + 1) # <<>> => /\ Last(Last(g(n + 1)).parts) \in Nat
                                            /\ Covered(src, Last(Last(g(n + 1)).parts) + 1, n + 1)
    OBVIOUS
  <2>1. /\ n \in Nat /\ n <= Len(src) /\ Len(src) \in Nat /\ n + 1 \in 1 .. Len(src)
        /\ e \in SourceElement /\ e.parts = <<n + 1>>
    BY DEF Numbered
  <2>2. /\ pre(n) \in Seq(SourceElement) /\ g(n) \in Seq(TextElement)
        /\ Fine(src, g(n))
        /\ g(n) # <<>> => /\ Last(Last(g(n)).parts) \in Nat
                          /\ Covered(src, Last(Last(g(n)).parts) + 1, n)
    BY <2>1
  <2>3. pre(n + 1) = Append(pre(n), e) /\ pre(n + 1) \in Seq(SourceElement)
    BY <2>1
  <2>4. g(n + 1) = TakeGoodText(g(n), e)
    BY <2>1, <2>2, <2>3, OfMore
  <2> DEFINE gn == g(n)
  <2> HIDE DEF pre, g, e
  <2>5. CASE IsText(e) /\ Kept(e)
    <3>1. g(n + 1) = Append(gn, e) /\ e \in TextElement
      BY <2>1, <2>4, <2>5, Sorts DEF TakeGoodText
    <3>2. e.parts # <<>> /\ Head(e.parts) = n + 1 /\ Last(e.parts) = n + 1 /\ Len(e.parts) = 1
      BY <2>1 DEF Last
    <3>3. Whole(src, e)
      <4>1. \A i \in n + 1 .. n + 1 : i = n + 1
        BY <2>1
      <4> QED
        BY <3>2, <4>1 DEF Whole, Covered, e
    <3>4. gn # <<>> => Gap(src, Last(gn), e)
      <4>1. n + 1 - 1 = n
        BY <2>1
      <4>2. gn # <<>> => Covered(src, Last(Last(gn).parts) + 1, n)
        BY <2>2
      <4> HIDE DEF gn
      <4>3. Head(e.parts) - 1 = n
        BY <3>2, <4>1
      <4> QED
        BY <4>2, <4>3 DEF Gap
    <3>5. Fine(src, Append(gn, e)) /\ Append(gn, e) \in Seq(TextElement)
      <4> HIDE DEF gn
      <4>1. gn \in Seq(TextElement) /\ Fine(src, gn)
        BY <2>2 DEF gn
      <4> QED
        BY <3>1, <3>3, <3>4, <4>1, FineMore
    <3>6. Last(Append(gn, e)) = e
      BY <2>2, <3>1, AppendedIs
    <3>7. Covered(src, n + 1 + 1, n + 1)
      <4>1. \A i \in n + 1 + 1 .. n + 1 : FALSE
        BY <2>1
      <4> QED
        BY <4>1 DEF Covered
    <3> DEFINE gm == g(n + 1)
    <3>8. gm = Append(gn, e) /\ n + 1 \in Nat
      BY <2>1, <3>1
    <3> HIDE DEF gm, gn
    <3>9. /\ gm \in Seq(TextElement) /\ Fine(src, gm)
          /\ Last(Last(gm).parts) = n + 1
      BY <3>2, <3>5, <3>6, <3>8
    <3>10. Last(Last(gm).parts) \in Nat /\ Covered(src, Last(Last(gm).parts) + 1, n + 1)
      BY <3>7, <3>8, <3>9
    <3> QED
      BY <2>3, <3>9, <3>10 DEF gm
  <2>6. CASE ~(IsText(e) /\ Kept(e))
    <3>1. g(n + 1) = gn
      BY <2>4, <2>6 DEF TakeGoodText
    <3>2. e.role \in {"paragraph", "object"}
      BY <2>1, <2>6, Sorts DEF SourceElement, Element, IsText
    <3>3. ASSUME NEW a \in Nat, Covered(src, a + 1, n)
          PROVE  Covered(src, a + 1, n + 1)
      <4>1. \A i \in a + 1 .. n + 1 : i \in a + 1 .. n \/ i = n + 1
        BY <2>1
      <4> QED
        BY <3>2, <3>3, <4>1 DEF Covered, e
    <3> QED
      BY <2>2, <2>3, <3>1, <3>3
  <2> QED
    BY <2>5, <2>6
<1>3. Good = Nat
  <2>1. Good \in SUBSET Nat
    OBVIOUS
  <2> HIDE DEF Good
  <2> QED
    BY <1>1, <1>2, <2>1, K!Numbers
<1>4. Len(src) \in Nat /\ Len(src) \in Good
  BY <1>3
<1>5. pre(Len(src)) = src
  OBVIOUS
<1>6. Fine(src, g(Len(src)))
  BY <1>4
<1> QED
  BY <1>5, <1>6

-----------------------------------------------------------------------------
(* Repaired levels and numbers.                                            *)

\* The same but for level and number.
Alike(a, b) ==
  /\ b.role = a.role /\ b.starts = a.starts /\ b.ends = a.ends
  /\ b.size = a.size /\ b.parts = a.parts /\ b.marker = a.marker

AllAlike(s, t) == Len(t) = Len(s) /\ \A i \in 1 .. Len(s) : Alike(s[i], t[i])

\* Pages of texts alike, one longer.
LEMMA MoreAlike ==
  ASSUME NEW s \in Seq(TextElement), NEW t \in Seq(TextElement),
         NEW e \in TextElement, NEW f \in TextElement, AllAlike(s, t), Alike(e, f)
  PROVE  AllAlike(Append(s, e), Append(t, f))
<1> DEFINE n == Len(s)
           u == Append(s, e)
           v == Append(t, f)
<1>1. /\ n \in Nat /\ Len(u) = n + 1 /\ Len(v) = n + 1 /\ u[n + 1] = e /\ v[n + 1] = f
      /\ \A i \in 1 .. n : u[i] = s[i] /\ v[i] = t[i]
  BY AppendedIs DEF AllAlike
<1>2. \A i \in 1 .. n + 1 : i \in 1 .. n \/ i = n + 1
  BY <1>1
<1>3. \A i \in 1 .. n : Alike(s[i], t[i])
  BY DEF AllAlike
<1> HIDE DEF n, u, v
<1>4. \A i \in 1 .. n + 1 : Alike(u[i], v[i])
  BY <1>1, <1>2, <1>3
<1> QED
  BY <1>1, <1>4 DEF AllAlike, u, v

\* What is alike is made of the same stretches, and as little is left to merge.
LEMMA AlikeKeeps ==
  ASSUME NEW src, NEW s \in Seq(TextElement), NEW t \in Seq(TextElement), AllAlike(s, t)
  PROVE  /\ Fine(src, s) => Fine(src, t)
         /\ NoneGoesOn(s) => NoneGoesOn(t)
         /\ NoneShort(s) => NoneShort(t)
<1> DEFINE n == Len(s)
<1>1. n \in Nat /\ Len(t) = n /\ \A i \in 1 .. n : Alike(s[i], t[i])
  BY DEF AllAlike
<1> HIDE DEF n
<1>2. \A i \in 1 .. n - 1 : i \in 1 .. n /\ i + 1 \in 1 .. n
  BY <1>1
<1>3. ASSUME Fine(src, s)
      PROVE  Fine(src, t)
  <2>1. \A i \in 1 .. n : Whole(src, s[i]) => Whole(src, t[i])
    BY <1>1 DEF Alike, Whole
  <2>2. \A i \in 1 .. n - 1 : Gap(src, s[i], s[i + 1]) => Gap(src, t[i], t[i + 1])
    BY <1>1, <1>2 DEF Alike, Gap
  <2> QED
    BY <1>1, <1>3, <2>1, <2>2 DEF Fine, n
<1>4. ASSUME NoneGoesOn(s)
      PROVE  NoneGoesOn(t)
  <2>1. \A i \in 1 .. n - 1 : SentenceGoesOn(t[i], t[i + 1]) => SentenceGoesOn(s[i], s[i + 1])
    BY <1>1, <1>2 DEF Alike, SentenceGoesOn, BothParagraphs
  <2> QED
    BY <1>1, <1>4, <2>1 DEF NoneGoesOn, n
<1>5. ASSUME NoneShort(s)
      PROVE  NoneShort(t)
  <2>1. \A i \in 1 .. n - 1 : BothShort(t[i], t[i + 1]) => BothShort(s[i], s[i + 1])
    BY <1>1, <1>2 DEF Alike, BothShort, BothParagraphs
  <2> QED
    BY <1>1, <1>5, <2>1 DEF NoneShort, n
<1> QED
  BY <1>3, <1>4, <1>5

\* One pass after the other.
LEMMA AlikeTwice ==
  ASSUME NEW s, NEW t, NEW u, AllAlike(s, t), AllAlike(t, u)
  PROVE  AllAlike(s, u)
BY DEF AllAlike, Alike

\* The levels of a page are numbers.
LEMMA LevelsType ==
  ASSUME NEW s \in Seq(Element)
  PROVE  LevelsOf(s) \in Seq(Nat)
<1>1. <<>> \in Seq(Nat)
  OBVIOUS
<1>2. ASSUME NEW p \in Seq(Nat), NEW e \in Element
      PROVE  AddLevel(p, e) \in Seq(Nat)
  <2>1. e.level \in Nat
    BY DEF Element
  <2> QED
    BY <2>1 DEF AddLevel
<1>3. L!Fold(<<>>, s) \in Seq(Nat)
  BY <1>1, <1>2, L!OfType
<1> QED
  BY <1>3, TheFolds

\* No heading is more than a level below the one before it.
NoSkip(b) == \A i \in 1 .. Len(b) : b[i] <= 1 + IF i = 1 THEN 0 ELSE b[i - 1]

Risen(a, b) ==
  /\ Len(a) = Len(b)
  /\ \A i \in 1 .. Len(b) : a[i] \in 1 .. b[i]
  /\ NoSkip(b) => a = b

\* A new level is at most the old one, and the same if it goes on from the heading before.
LEMMA OneMoreLevel ==
  ASSUME NEW a \in Seq(Nat), NEW b \in Seq(Nat), Risen(a, b), NEW l \in Nat, l # 0,
         NEW previous \in Nat, previous = IF b = <<>> THEN 0 ELSE Last(b)
  PROVE  /\ NewLevel(l, previous) \in 1 .. l
         /\ Risen(Append(a, NewLevel(l, previous)), Append(b, l))
<1> DEFINE k == NewLevel(l, previous)
           n == Len(b)
           c == Append(a, k)
           d == Append(b, l)
<1>1. k \in 1 .. l /\ k \in Nat /\ (l <= previous + 1 => k = l)
  BY DEF NewLevel
<1> HIDE DEF k
<1>2. /\ n \in Nat /\ Len(a) = n /\ Len(c) = n + 1 /\ Len(d) = n + 1
      /\ c[n + 1] = k /\ d[n + 1] = l /\ \A i \in 1 .. n : c[i] = a[i] /\ d[i] = b[i]
  BY <1>1, AppendedIs DEF Risen
<1>3. n > 0 => previous = b[n]
  BY DEF Last
<1>4. n = 0 => previous = 0
  BY EmptySeq
<1>5. \A i \in 1 .. n : a[i] \in 1 .. b[i]
  BY DEF Risen
<1> HIDE DEF c, d
<1>6. \A i \in 1 .. n + 1 : i \in 1 .. n \/ i = n + 1
  BY <1>2
<1>7. \A i \in 1 .. Len(d) : c[i] \in 1 .. d[i]
  <2> HIDE DEF n
  <2> QED
    BY <1>1, <1>2, <1>5, <1>6
<1>8. ASSUME NoSkip(d)
      PROVE  c = d
  <2>1. NoSkip(b)
    <3> SUFFICES ASSUME NEW i \in 1 .. n
                 PROVE  b[i] <= 1 + IF i = 1 THEN 0 ELSE b[i - 1]
      BY DEF NoSkip
    <3>1. i \in 1 .. Len(d) /\ d[i] = b[i] /\ (i # 1 => i - 1 \in 1 .. n)
      BY <1>2
    <3>2. i # 1 => d[i - 1] = b[i - 1]
      BY <1>2, <3>1
    <3> QED
      BY <1>8, <3>1, <3>2 DEF NoSkip
  <2>2. a = b
    BY <2>1 DEF Risen
  <2>3. l <= previous + 1
    <3>1. n + 1 \in 1 .. Len(d) /\ n + 1 - 1 = n /\ (n + 1 = 1 <=> n = 0)
      BY <1>2
    <3>2. l <= 1 + IF n = 0 THEN 0 ELSE d[n]
      BY <1>2, <1>8, <3>1 DEF NoSkip
    <3>3. n # 0 => d[n] = b[n] /\ n > 0
      BY <1>2
    <3> QED
      BY <1>3, <1>4, <3>2, <3>3
  <2> QED
    BY <1>1, <2>2, <2>3 DEF c, d
<1> QED
  BY <1>1, <1>2, <1>7, <1>8 DEF Risen, c, d, k

Relevelling == [done : Seq(TextElement), previous : Nat]

\* The repair of levels: the texts are alike, and headings only rise.
LEMMA Levelled ==
  ASSUME NEW t \in Seq(TextElement)
  PROVE  /\ FixHeadingHierarchy(t) \in Seq(TextElement)
         /\ AllAlike(t, FixHeadingHierarchy(t))
         /\ Parts(FixHeadingHierarchy(t)) = Parts(t)
         /\ Risen(LevelsOf(FixHeadingHierarchy(t)), LevelsOf(t))
<1> DEFINE Ok(s, acc) ==
             /\ acc \in Relevelling /\ AllAlike(s, acc.done)
             /\ Parts(acc.done) = Parts(s)
             /\ acc.previous = IF LevelsOf(s) = <<>> THEN 0 ELSE Last(LevelsOf(s))
             /\ Risen(LevelsOf(acc.done), LevelsOf(s))
           Good == {s \in Seq(TextElement) : Ok(s, H!Fold(NotReleveled, s))}
<1>1. <<>> \in Good
  <2>1. <<>> \in Seq(TextElement) /\ NotReleveled \in Relevelling
    BY DEF NotReleveled, Relevelling
  <2>2. NotReleveled.done = <<>> /\ NotReleveled.previous = 0
    BY DEF NotReleveled
  <2>3. AllAlike(<<>>, <<>>) /\ Risen(<<>>, <<>>)
    BY DEF AllAlike, Risen
  <2> QED
    BY <2>1, <2>2, <2>3, OfNone
<1>2. ASSUME NEW s \in Good, NEW e \in TextElement
      PROVE  Append(s, e) \in Good
  <2> DEFINE acc == H!Fold(NotReleveled, s)
  <2>1. s \in Seq(TextElement) /\ Ok(s, acc) /\ H!Fold(NotReleveled, Append(s, e)) = Relevelled(acc, e)
    BY OfMore
  <2> HIDE DEF acc
  <2> DEFINE d == acc.done
             p == acc.previous
  <2>2. d \in Seq(TextElement) /\ p \in Nat /\ acc = [done |-> d, previous |-> p]
    BY <2>1 DEF Relevelling
  <2>3. /\ LevelsOf(Append(s, e)) = AddLevel(LevelsOf(s), e)
        /\ Parts(Append(s, e)) = Parts(s) \o e.parts
    BY <2>1, OfMore
  <2>4. LevelsOf(s) \in Seq(Nat) /\ LevelsOf(d) \in Seq(Nat)
    <3>1. s \in Seq(Element) /\ d \in Seq(Element)
      BY <2>1, <2>2 DEF TextElement
    <3> QED
      BY <3>1, LevelsType
  <2>5. CASE e.role = "heading" /\ e.level # 0
    <3> DEFINE k == NewLevel(e.level, p)
               f == [e EXCEPT !.level = k]
    <3>1. e.level \in Nat
      BY DEF TextElement, Element
    <3>2. k \in 1 .. e.level /\ Risen(Append(LevelsOf(d), k), Append(LevelsOf(s), e.level))
      <4> HIDE DEF d, p
      <4> QED
        BY <2>1, <2>2, <2>4, <2>5, <3>1, OneMoreLevel DEF d, p
    <3> HIDE DEF k
    <3>3. f \in TextElement /\ Alike(e, f) /\ IsHeading(f) /\ f.level = k /\ f.parts = e.parts
      <4>1. k \in Nat /\ k # 0
        BY <3>1, <3>2
      <4>2. f \in Element
        BY <4>1 DEF TextElement, Element
      <4>3. /\ f.role = e.role /\ f.starts = e.starts /\ f.ends = e.ends /\ f.size = e.size
            /\ f.parts = e.parts /\ f.marker = e.marker /\ f.level = k
        BY DEF TextElement, Element
      <4> HIDE DEF f
      <4> QED
        BY <2>5, <4>1, <4>2, <4>3 DEF Alike, IsHeading, TextElement, IsText
    <3>4. Relevelled(acc, e) = [done |-> Append(d, f), previous |-> e.level]
      BY <2>5, <2>2 DEF Relevelled, k
    <3> HIDE DEF f, d
    <3>5. /\ LevelsOf(Append(d, f)) = Append(LevelsOf(d), k)
          /\ LevelsOf(Append(s, e)) = Append(LevelsOf(s), e.level)
          /\ Parts(Append(d, f)) = Parts(d) \o f.parts
      BY <2>2, <2>3, <2>5, <3>3, OfMore DEF AddLevel, IsHeading
    <3>6. AllAlike(Append(s, e), Append(d, f)) /\ Append(d, f) \in Seq(TextElement)
      BY <2>1, <2>2, <3>3, MoreAlike DEF d
    <3>7. Append(LevelsOf(s), e.level) # <<>> /\ Last(Append(LevelsOf(s), e.level)) = e.level
      BY <2>4, <3>1, AppendedIs
    <3>8. Ok(Append(s, e), Relevelled(acc, e))
      <4>1. Relevelled(acc, e) \in Relevelling
        BY <3>1, <3>4, <3>6 DEF Relevelling
      <4>2. Relevelled(acc, e).done = Append(d, f) /\ Relevelled(acc, e).previous = e.level
        BY <3>4
      <4>3. Parts(Append(d, f)) = Parts(Append(s, e))
        BY <2>1, <2>3, <3>3, <3>5 DEF d
      <4> QED
        BY <3>2, <3>5, <3>6, <3>7, <4>1, <4>2, <4>3
    <3> QED
      BY <2>1, <3>8
  <2>6. CASE ~(e.role = "heading" /\ e.level # 0)
    <3>1. Relevelled(acc, e) = [done |-> Append(d, e), previous |-> p]
      <4> HIDE DEF d, p
      <4> QED
        BY <2>2, <2>6 DEF Relevelled
    <3> HIDE DEF d, p
    <3>2. /\ LevelsOf(Append(d, e)) = LevelsOf(d) /\ LevelsOf(Append(s, e)) = LevelsOf(s)
          /\ Parts(Append(d, e)) = Parts(d) \o e.parts
      BY <2>2, <2>3, <2>6, OfMore DEF AddLevel, IsHeading
    <3>3. Alike(e, e)
      BY DEF Alike
    <3>4. AllAlike(Append(s, e), Append(d, e)) /\ Append(d, e) \in Seq(TextElement)
      BY <2>1, <2>2, <3>3, MoreAlike DEF d
    <3>5. Ok(Append(s, e), Relevelled(acc, e))
      <4>1. Relevelled(acc, e) \in Relevelling
        <5>1. p \in Nat
          BY <2>2
        <5> QED
          BY <3>1, <3>4, <5>1 DEF Relevelling
      <4>2. Relevelled(acc, e).done = Append(d, e) /\ Relevelled(acc, e).previous = p
        BY <3>1
      <4>3. Parts(Append(d, e)) = Parts(Append(s, e))
        BY <2>1, <2>3, <3>2 DEF d
      <4> QED
        BY <2>1, <3>2, <3>4, <4>1, <4>2, <4>3 DEF d, p
    <3> QED
      BY <2>1, <3>5
  <2> QED
    BY <2>5, <2>6
<1>3. Good = Seq(TextElement)
  <2>1. Good \in SUBSET Seq(TextElement)
    OBVIOUS
  <2> HIDE DEF Good
  <2> QED
    BY <1>1, <1>2, <2>1, AllSequences
<1>4. Ok(t, H!Fold(NotReleveled, t))
  BY <1>3
<1> QED
  BY <1>4, TheFolds DEF Relevelling

InList(t, j, i) == \A k \in j .. i : t[k].role = "list_item"

\* The numbered items that the item at i of t comes after in its list, and those that one
\* more item would come after.
Before(t, i) == {j \in 1 .. i - 1 : t[j].marker = "numbered" /\ InList(t, j, i)}
Pending(t) == {j \in 1 .. Len(t) : t[j].marker = "numbered" /\ InList(t, j, Len(t))}

\* n is the number of the last of them, if any.
Reached(t, Js, n) ==
  IF Js = {} THEN n = 0 ELSE \E m \in Js : t[m].number = n /\ \A j \in Js : j <= m

Counted(t) ==
  \A i \in 1 .. Len(t) : t[i].marker = "numbered" =>
    \E n \in Nat : Reached(t, Before(t, i), n) /\ t[i].number = n + 1

\* A longer list: what stood before an item stays, and what is pending goes on or ends.
LEMMA BeforeMore ==
  ASSUME NEW t \in Seq(TextElement), NEW f \in TextElement
  PROVE  LET u == Append(t, f)
         IN  /\ \A i \in 1 .. Len(t) : Before(u, i) = Before(t, i)
             /\ f.role = "list_item" => Before(u, Len(t) + 1) = Pending(t)
             /\ f.role # "list_item" => Pending(u) = {}
             /\ f.role = "list_item" =>
                  Pending(u) = Pending(t) \cup {j \in {Len(t) + 1} : f.marker = "numbered"}
<1> DEFINE n == Len(t)
           u == Append(t, f)
<1>1. /\ n \in Nat /\ Len(u) = n + 1 /\ u[n + 1] = f
      /\ \A i \in 1 .. n : u[i] = t[i]
  BY AppendedIs
<1> HIDE DEF u, n
<1>2. ASSUME NEW i \in 1 .. n, NEW j \in 1 .. i
      PROVE  InList(u, j, i) <=> InList(t, j, i)
  <2>1. \A k \in j .. i : k \in 1 .. n
    BY <1>1
  <2> QED
    BY <1>1, <2>1 DEF InList
<1>3. ASSUME NEW i \in 1 .. n
      PROVE  Before(u, i) = Before(t, i)
  <2>1. \A j \in 1 .. i - 1 : j \in 1 .. i /\ u[j] = t[j]
    BY <1>1
  <2> QED
    BY <1>2, <2>1 DEF Before
<1>4. ASSUME NEW j \in 1 .. n
      PROVE  InList(u, j, n + 1) <=> InList(t, j, n) /\ f.role = "list_item"
  <2>1. /\ \A k \in j .. n + 1 : k \in j .. n \/ k = n + 1
        /\ \A k \in j .. n : k \in j .. n + 1 /\ k \in 1 .. n
        /\ n + 1 \in j .. n + 1
    BY <1>1
  <2> QED
    BY <1>1, <2>1 DEF InList
<1>5. InList(u, n + 1, n + 1) <=> f.role = "list_item"
  <2>1. n + 1 \in n + 1 .. n + 1 /\ \A k \in n + 1 .. n + 1 : k = n + 1
    BY <1>1
  <2> QED
    BY <1>1, <2>1 DEF InList
<1>6. n + 1 - 1 = n /\ \A j \in 1 .. n + 1 : j \in 1 .. n \/ j = n + 1
  BY <1>1
<1>7. f.role = "list_item" => Before(u, n + 1) = Pending(t)
  BY <1>1, <1>4, <1>6 DEF Before, Pending, n
<1>8. f.role # "list_item" => Pending(u) = {}
  BY <1>1, <1>4, <1>5, <1>6 DEF Pending
<1>9. ASSUME f.role = "list_item"
      PROVE  Pending(u) = Pending(t) \cup {j \in {n + 1} : f.marker = "numbered"}
  <2>1. \A j \in 1 .. n : j \in Pending(u) <=> j \in Pending(t)
    <3>1. \A j \in 1 .. n : j \in 1 .. n + 1
      BY <1>1
    <3> QED
      BY <1>1, <1>4, <1>9, <3>1 DEF Pending, n
  <2>2. n + 1 \in Pending(u) <=> f.marker = "numbered"
    <3>1. n + 1 \in 1 .. n + 1
      BY <1>1
    <3> QED
      BY <1>1, <1>5, <1>9, <3>1 DEF Pending
  <2>3. Pending(u) \subseteq 1 .. n + 1 /\ Pending(t) \subseteq 1 .. n /\ n + 1 \notin 1 .. n
    BY <1>1 DEF Pending, n
  <2> QED
    BY <1>6, <2>1, <2>2, <2>3
<1> QED
  BY <1>3, <1>7, <1>8, <1>9 DEF u, n

\* Numbers reached stay reached when one more element is appended.
LEMMA ReachedMore ==
  ASSUME NEW t \in Seq(TextElement), NEW f \in TextElement,
         NEW Js \in SUBSET (1 .. Len(t)), NEW n
  PROVE  Reached(Append(t, f), Js, n) <=> Reached(t, Js, n)
<1> DEFINE u == Append(t, f)
<1>1. \A i \in 1 .. Len(t) : u[i] = t[i]
  BY AppendedIs
<1> HIDE DEF u
<1>2. Reached(u, Js, n) <=> Reached(t, Js, n)
  BY <1>1 DEF Reached
<1> QED
  BY <1>2 DEF u

Renumbering == [done : Seq(TextElement), idx : Nat]

\* The numbering of lists: the texts are alike, with the levels they had, and every
\* list counts.
LEMMA NumberedLists ==
  ASSUME NEW t \in Seq(TextElement)
  PROVE  /\ NormalizeLists(t) \in Seq(TextElement)
         /\ AllAlike(t, NormalizeLists(t))
         /\ Parts(NormalizeLists(t)) = Parts(t)
         /\ LevelsOf(NormalizeLists(t)) = LevelsOf(t)
         /\ Counted(NormalizeLists(t))
<1> DEFINE Ok(s, acc) ==
             /\ acc \in Renumbering /\ AllAlike(s, acc.done)
             /\ Parts(acc.done) = Parts(s)
             /\ LevelsOf(acc.done) = LevelsOf(s)
             /\ Counted(acc.done)
             /\ Reached(acc.done, Pending(acc.done), acc.idx)
           Good == {s \in Seq(TextElement) : Ok(s, N!Fold(NotNumbered, s))}
<1>1. <<>> \in Good
  <2>1. <<>> \in Seq(TextElement) /\ NotNumbered \in Renumbering
    BY DEF NotNumbered, Renumbering
  <2>2. NotNumbered.done = <<>> /\ NotNumbered.idx = 0
    BY DEF NotNumbered
  <2>3. AllAlike(<<>>, <<>>) /\ Counted(<<>>)
    BY DEF AllAlike, Counted
  <2>4. Reached(<<>>, Pending(<<>>), 0)
    <3>1. Pending(<<>>) = {}
      BY DEF Pending
    <3> QED
      BY <3>1 DEF Reached
  <2> QED
    BY <2>1, <2>2, <2>3, <2>4, OfNone
<1>2. ASSUME NEW s \in Good, NEW e \in TextElement
      PROVE  Append(s, e) \in Good
  <2> DEFINE acc == N!Fold(NotNumbered, s)
  <2>1. s \in Seq(TextElement) /\ Ok(s, acc) /\ N!Fold(NotNumbered, Append(s, e)) = Renumbered(acc, e)
    BY OfMore
  <2> HIDE DEF acc
  <2> DEFINE d == acc.done
             x == acc.idx
             f == IF e.role = "list_item" /\ e.marker = "numbered"
                  THEN [e EXCEPT !.number = x + 1] ELSE e
             y == IF e.role # "list_item" THEN 0
                  ELSE IF e.marker = "numbered" THEN x + 1 ELSE x
             u == Append(d, f)
  <2>2. d \in Seq(TextElement) /\ x \in Nat /\ acc = [done |-> d, idx |-> x]
    BY <2>1 DEF Renumbering
  <2>3. Renumbered(acc, e) = [done |-> u, idx |-> y]
    <3> HIDE DEF d, x
    <3> QED
      BY <2>2 DEF Renumbered, NoNumber
  <2>4. /\ f \in TextElement /\ Alike(e, f) /\ f.level = e.level
        /\ e.role = "list_item" /\ e.marker = "numbered" => f.number = x + 1
    <3>1. x + 1 \in Nat
      BY <2>2
    <3> HIDE DEF x
    <3>2. CASE e.role = "list_item" /\ e.marker = "numbered"
      <4>1. f = [e EXCEPT !.number = x + 1]
        BY <3>2
      <4>2. f \in Element
        BY <3>1, <4>1 DEF TextElement, Element
      <4>3. /\ f.role = e.role /\ f.starts = e.starts /\ f.ends = e.ends /\ f.size = e.size
            /\ f.parts = e.parts /\ f.marker = e.marker /\ f.level = e.level /\ f.number = x + 1
        BY <4>1 DEF TextElement, Element
      <4> HIDE DEF f
      <4> QED
        BY <4>2, <4>3 DEF Alike, TextElement, IsText
    <3>3. CASE ~(e.role = "list_item" /\ e.marker = "numbered")
      BY <3>3 DEF Alike
    <3> QED
      BY <3>2, <3>3
  <2>5. y \in Nat
    BY <2>2
  <2> DEFINE n == Len(d)
  <2>6. /\ f.role = e.role /\ f.marker = e.marker /\ f.parts = e.parts
        /\ e.marker = "numbered" => e.role = "list_item"
    BY <2>4 DEF Alike, TextElement
  <2>7. Counted(d) /\ Reached(d, Pending(d), x)
    BY <2>1
  <2> HIDE DEF d, x, f, u
  <2>8. /\ n \in Nat /\ Len(u) = n + 1 /\ u[n + 1] = f /\ u \in Seq(TextElement)
        /\ \A i \in 1 .. n : u[i] = d[i]
    BY <2>2, <2>4, AppendedIs DEF u
  <2>9. /\ \A i \in 1 .. n : Before(u, i) = Before(d, i)
        /\ f.role = "list_item" => Before(u, n + 1) = Pending(d)
        /\ f.role # "list_item" => Pending(u) = {}
        /\ f.role = "list_item" =>
             Pending(u) = Pending(d) \cup {j \in {n + 1} : f.marker = "numbered"}
    BY <2>2, <2>4, BeforeMore DEF u
  <2>10. \A Js \in SUBSET (1 .. n) : \A k : Reached(u, Js, k) <=> Reached(d, Js, k)
    BY <2>2, <2>4, ReachedMore DEF u
  <2>11. /\ Pending(d) \in SUBSET (1 .. n)
         /\ \A i \in 1 .. n : Before(d, i) \in SUBSET (1 .. n)
    <3>1. \A i \in 1 .. n : \A j \in 1 .. i - 1 : j \in 1 .. n
      BY <2>8
    <3> QED
      BY <3>1 DEF Pending, Before
  <2> HIDE DEF n
  <2>12. Counted(u)
    <3> SUFFICES ASSUME NEW i \in 1 .. n + 1, u[i].marker = "numbered"
                 PROVE  \E k \in Nat : Reached(u, Before(u, i), k) /\ u[i].number = k + 1
      BY <2>8 DEF Counted
    <3>1. CASE i \in 1 .. n
      <4>1. PICK k \in Nat : Reached(d, Before(d, i), k) /\ d[i].number = k + 1
        BY <2>7, <2>8, <3>1 DEF Counted, n
      <4> QED
        BY <2>8, <2>9, <2>10, <2>11, <3>1, <4>1
    <3>2. CASE i = n + 1
      <4>1. f.role = "list_item" /\ f.number = x + 1
        BY <2>4, <2>6, <2>8, <3>2
      <4>2. Reached(u, Before(u, n + 1), x)
        BY <2>7, <2>9, <2>10, <2>11, <4>1
      <4> QED
        BY <2>2, <2>8, <3>2, <4>1, <4>2
    <3> QED
      BY <2>8, <3>1, <3>2
  <2>13. Reached(u, Pending(u), y)
    <3>1. CASE e.role # "list_item"
      BY <2>6, <2>9, <3>1 DEF Reached
    <3>2. CASE e.role = "list_item" /\ e.marker = "numbered"
      <4>1. Pending(u) = Pending(d) \cup {n + 1} /\ u[n + 1].number = x + 1 /\ y = x + 1
        BY <2>4, <2>6, <2>8, <2>9, <3>2
      <4>2. \A j \in Pending(u) : j <= n + 1
        BY <2>8, <2>11, <4>1
      <4> HIDE DEF y
      <4> QED
        BY <4>1, <4>2 DEF Reached
    <3>3. CASE e.role = "list_item" /\ e.marker # "numbered"
      <4>1. Pending(u) = Pending(d) /\ y = x
        BY <2>6, <2>9, <3>3
      <4> HIDE DEF y
      <4> QED
        BY <2>7, <2>10, <2>11, <4>1
    <3> QED
      BY <3>1, <3>2, <3>3
  <2> HIDE DEF y
  <2>14. /\ Parts(Append(s, e)) = Parts(s) \o e.parts
         /\ Parts(u) = Parts(d) \o f.parts
         /\ LevelsOf(Append(s, e)) = AddLevel(LevelsOf(s), e)
         /\ LevelsOf(u) = AddLevel(LevelsOf(d), f)
    BY <2>1, <2>2, <2>4, OfMore DEF u
  <2>15. Parts(u) = Parts(Append(s, e)) /\ LevelsOf(u) = LevelsOf(Append(s, e))
    <3>1. Parts(d) = Parts(s) /\ LevelsOf(d) = LevelsOf(s)
      BY <2>1 DEF d
    <3>2. AddLevel(LevelsOf(s), f) = AddLevel(LevelsOf(s), e)
      BY <2>4, <2>6 DEF AddLevel, IsHeading
    <3> QED
      BY <2>6, <2>14, <3>1, <3>2
  <2>16. AllAlike(Append(s, e), u)
    BY <2>1, <2>2, <2>4, MoreAlike DEF u, d
  <2>17. /\ Renumbered(acc, e) \in Renumbering
         /\ Renumbered(acc, e).done = u /\ Renumbered(acc, e).idx = y
    BY <2>3, <2>5, <2>8 DEF Renumbering
  <2> QED
    BY <2>1, <2>12, <2>13, <2>15, <2>16, <2>17
<1>3. Good = Seq(TextElement)
  <2>1. Good \in SUBSET Seq(TextElement)
    OBVIOUS
  <2> HIDE DEF Good
  <2> QED
    BY <1>1, <1>2, <2>1, AllSequences
<1>4. Ok(t, N!Fold(NotNumbered, t))
  BY <1>3
<1> QED
  BY <1>4, TheFolds DEF Renumbering

-----------------------------------------------------------------------------
(* A page put together again.                                              *)

\* A page of texts with objects behind them, taken apart again.
LEMMA Together ==
  ASSUME NEW t \in Seq(TextElement), NEW o \in Seq(ObjectElement)
  PROVE  /\ Texts(t \o o) = t /\ Objects(t \o o) = o
         /\ LevelsOf(t \o o) = LevelsOf(t)
<1> DEFINE E == TextElement \cup ObjectElement
           Good == {s \in Seq(TextElement) : Texts(s) = s /\ Objects(s) = <<>>}
           More == {r \in Seq(ObjectElement) : /\ Texts(t \o r) = t /\ Objects(t \o r) = r
                                               /\ LevelsOf(t \o r) = LevelsOf(t)}
<1>1. Texts(t) = t /\ Objects(t) = <<>>
  <2>1. <<>> \in Good
    <3>1. <<>> \in Seq(TextElement)
      OBVIOUS
    <3> QED
      BY <3>1, OfNone
  <2>2. ASSUME NEW s \in Good, NEW e \in TextElement
        PROVE  Append(s, e) \in Good
    <3>1. /\ s \in Seq(TextElement) /\ Append(s, e) \in Seq(TextElement)
          /\ Texts(s) = s /\ Objects(s) = <<>>
      OBVIOUS
    <3>2. IsText(e) /\ ~IsObject(e)
      BY DEF TextElement, IsText, IsObject
    <3> QED
      BY <3>1, <3>2, OfMore DEF TakeText, TakeObject
  <2>3. Good = Seq(TextElement)
    <3>1. Good \in SUBSET Seq(TextElement)
      OBVIOUS
    <3> HIDE DEF Good
    <3> QED
      BY <2>1, <2>2, <3>1, AllSequences
  <2> QED
    BY <2>3
<1>2. <<>> \in More
  <2>1. <<>> \in Seq(ObjectElement) /\ t \o <<>> = t
    BY ConcatEmptySeq
  <2> QED
    BY <1>1, <2>1
<1>3. ASSUME NEW r \in More, NEW e \in ObjectElement
      PROVE  Append(r, e) \in More
  <2>1. /\ r \in Seq(ObjectElement) /\ Append(r, e) \in Seq(ObjectElement)
        /\ Texts(t \o r) = t /\ Objects(t \o r) = r /\ LevelsOf(t \o r) = LevelsOf(t)
    OBVIOUS
  <2>2. t \o r \in Seq(E) /\ e \in E
    <3>1. t \in Seq(E) /\ r \in Seq(E)
      BY <2>1
    <3> HIDE DEF E
    <3>2. t \o r \in Seq(E)
      BY <3>1
    <3> QED
      BY <3>2 DEF E
  <2>3. t \o Append(r, e) = Append(t \o r, e)
    <3>1. t \in Seq(E) /\ r \in Seq(E)
      BY <2>1
    <3>2. /\ Len(t \o Append(r, e)) = Len(Append(t \o r, e))
          /\ t \o Append(r, e) \in Seq(E) /\ Append(t \o r, e) \in Seq(E)
          /\ \A i \in 1 .. Len(t \o Append(r, e)) : (t \o Append(r, e))[i] = Append(t \o r, e)[i]
      <4> HIDE DEF E
      <4> QED
        BY <2>2, <3>1
    <3> HIDE DEF E
    <3> QED
      BY <3>2, SeqEqual
  <2>4. ~IsText(e) /\ IsObject(e) /\ ~IsHeading(e)
    BY DEF ObjectElement, IsText, IsObject, IsHeading, TextRoles
  <2>5. /\ Texts(Append(t \o r, e)) = TakeText(t, e)
        /\ Objects(Append(t \o r, e)) = TakeObject(r, e)
        /\ LevelsOf(Append(t \o r, e)) = AddLevel(LevelsOf(t), e)
    <3> HIDE DEF E
    <3> QED
      BY <2>1, <2>2, OfMore
  <2> QED
    BY <2>1, <2>3, <2>4, <2>5 DEF TakeText, TakeObject, AddLevel
<1>4. More = Seq(ObjectElement)
  <2>1. More \in SUBSET Seq(ObjectElement)
    OBVIOUS
  <2> HIDE DEF More
  <2> QED
    BY <1>2, <1>3, <2>1, AllSequences
<1> QED
  BY <1>4

\* Everything the cleaners make of a page, text by text.
LEMMA Repaired ==
  ASSUME NEW src \in Seq(SourceElement), Numbered(src)
  PROVE  LET p == StructureFixer(ContentFilter(src))
         IN  /\ Texts(p) \in Seq(TextElement)
             /\ p = Texts(p) \o Objects(src) /\ Objects(p) = Objects(src)
             /\ Parts(Texts(p)) = Parts(GoodTexts(src))
             /\ Fine(src, Texts(p))
             /\ NoneGoesOn(Texts(p)) /\ NoneShort(Texts(p))
             /\ Risen(LevelsOf(p), LevelsOf(ContentFilter(src)))
             /\ Counted(Texts(p))
<1> DEFINE c == ContentFilter(src)
           t0 == GoodTexts(src)
           t1 == FixBrokenSentences(t0)
           t2 == FixSplitParagraphs(t1)
           t3 == FixHeadingHierarchy(t2)
           t4 == NormalizeLists(t3)
           o == Objects(src)
<1>1. /\ Texts(c) = t0 /\ Objects(c) = o /\ LevelsOf(c) = LevelsOf(t0)
      /\ t0 \in Seq(TextElement) /\ o \in Seq(ObjectElement)
  <2>1. /\ Texts(c) = t0 /\ Objects(c) = o /\ LevelsOf(c) = LevelsOf(t0)
        /\ o \in Seq(ObjectElement) /\ c \in Seq(SourceElement)
    BY Selections
  <2>2. Texts(c) \in Seq(TextElement)
    <3> HIDE DEF c
    <3> QED
      BY <2>1, Selections
  <2> QED
    BY <2>1, <2>2
<1>2. StructureFixer(c) = t4 \o o
  BY <1>1 DEF StructureFixer, Interleaved
<1>3. Fine(src, t0)
  BY SourceFine
<1> HIDE DEF c, t0, o
<1>4. /\ t1 \in Seq(TextElement) /\ NoneGoesOn(t1) /\ Fine(src, t1)
      /\ Parts(t1) = Parts(t0) /\ LevelsOf(t1) = LevelsOf(t0)
  BY <1>1, <1>3, MergedTexts, NothingLeft, StaysFine, MergingKeeps
<1> HIDE DEF t1
<1>5. /\ t2 \in Seq(TextElement) /\ NoneGoesOn(t2) /\ NoneShort(t2) /\ Fine(src, t2)
      /\ Parts(t2) = Parts(t1) /\ LevelsOf(t2) = LevelsOf(t1)
  BY <1>4, MergedTexts, NothingLeft, StaysClosed, StaysFine, MergingKeeps
<1> HIDE DEF t2
<1>6. /\ t3 \in Seq(TextElement) /\ AllAlike(t2, t3) /\ Parts(t3) = Parts(t2)
      /\ Risen(LevelsOf(t3), LevelsOf(t2))
  BY <1>5, Levelled
<1> HIDE DEF t3
<1>7. /\ t4 \in Seq(TextElement) /\ AllAlike(t3, t4) /\ Parts(t4) = Parts(t3)
      /\ LevelsOf(t4) = LevelsOf(t3) /\ Counted(t4)
  BY <1>6, NumberedLists
<1> HIDE DEF t4
<1>8. Fine(src, t4) /\ NoneGoesOn(t4) /\ NoneShort(t4)
  <2>1. AllAlike(t2, t4)
    BY <1>6, <1>7, AlikeTwice
  <2> QED
    BY <1>5, <1>7, <2>1, AlikeKeeps
<1>9. Texts(t4 \o o) = t4 /\ Objects(t4 \o o) = o /\ LevelsOf(t4 \o o) = LevelsOf(t4)
  BY <1>1, <1>7, Together
<1> QED
  BY <1>1, <1>2, <1>4, <1>5, <1>6, <1>7, <1>8, <1>9 DEF c, t0, o

-----------------------------------------------------------------------------
(* The specification.                                                      *)

PageInv ==
  /\ source \in Seq(SourceElement) /\ Numbered(source)
  /\ \/ todo = CleanerList /\ page = source
     \/ todo = <<"structure_fixer">> /\ page = ContentFilter(source)
     \/ todo = <<>> /\ page = StructureFixer(ContentFilter(source))

\* The elements tried are elements of a file.
LEMMA ElementsAreTyped ==
  ASSUME NEW x \in Elements, NEW i \in Nat
  PROVE  [x EXCEPT !.parts = <<i>>] \in SourceElement /\ [x EXCEPT !.parts = <<i>>].parts = <<i>>
<1>1. /\ Sizes \subseteq Nat /\ Levels \subseteq Nat
  BY PageAssumption
<1>2. <<>> \in Seq(Nat) /\ <<i>> \in Seq(Nat)
  OBVIOUS
<1>3. Blank \in SourceElement
  BY <1>2 DEF Blank, SourceElement, Element, TextRoles
<1>4. Noise \in SourceElement
  BY <1>2 DEF Noise, Blank, SourceElement, Element, TextRoles
<1>5. \A n \in Sizes, s \in {"fresh", "continued"}, c \in {"open", "closed"} :
        Paragraph(n, s, c) \in SourceElement
  BY <1>1, <1>2 DEF Paragraph, Blank, SourceElement, Element, TextRoles
<1>6. ASSUME NEW l \in Levels
      PROVE  [Blank EXCEPT !.role = "heading", !.level = l] \in SourceElement
  <2>1. l \in Nat
    BY <1>1
  <2> QED
    BY <1>2, <2>1 DEF Blank, SourceElement, Element, TextRoles
<1>7. ASSUME NEW k \in {"numbered", "bulleted"}
      PROVE  [Blank EXCEPT !.role = "list_item", !.marker = k] \in SourceElement
  BY <1>2 DEF Blank, SourceElement, Element, TextRoles
<1>8. x \in SourceElement
  <2>1. CASE x \in Paragraphs
    BY <1>5, <2>1 DEF Paragraphs
  <2>2. CASE x \in Headings
    BY <1>6, <2>2 DEF Headings
  <2>3. CASE x \in ListItems
    BY <1>7, <2>3 DEF ListItems
  <2> QED
    BY <1>3, <1>4, <2>1, <2>2, <2>3 DEF Elements, Object
<1> QED
  BY <1>2, <1>8 DEF SourceElement, Element

\* Nothing is cleaned at first.
LEMMA InitPage == Init => PageInv
<1> SUFFICES ASSUME Init
             PROVE  PageInv
  OBVIOUS
<1>1. PICK s \in BoundedSeq(Elements, MaxElements) :
        source = [i \in DOMAIN s |-> [s[i] EXCEPT !.parts = <<i>>]]
  BY DEF Init
<1>2. PICK n \in Nat : s \in [1 .. n -> Elements]
  BY PageAssumption DEF BoundedSeq, SeqOf
<1>3. DOMAIN s = 1 .. n /\ \A i \in 1 .. n : s[i] \in Elements /\ i \in Nat
  BY <1>2
<1>4. \A i \in 1 .. n : /\ [s[i] EXCEPT !.parts = <<i>>] \in SourceElement
                        /\ [s[i] EXCEPT !.parts = <<i>>].parts = <<i>>
  BY <1>3, ElementsAreTyped
<1>5. /\ source \in [1 .. n -> SourceElement]
      /\ \A i \in 1 .. n : source[i].parts = <<i>>
  BY <1>1, <1>3, <1>4
<1>6. source \in Seq(SourceElement) /\ Numbered(source)
  BY <1>5 DEF Numbered
<1> QED
  BY <1>6 DEF Init, PageInv

\* The filter is first, StructureFixer second and last.
LEMMA TheCleaners ==
  LET first == "content_filter"
      then  == "structure_fixer"
  IN  /\ CleanerList # <<>> /\ Head(CleanerList) = first /\ Tail(CleanerList) = <<then>>
      /\ <<then>> # <<>> /\ Head(<<then>>) = then /\ Tail(<<then>>) = <<>>
      /\ first # then
<1>1. /\ CleanerList # <<>> /\ Head(CleanerList) = "content_filter"
      /\ Tail(CleanerList) = <<"structure_fixer">>
  BY DEF CleanerList
<1>2. /\ <<"structure_fixer">> # <<>> /\ Head(<<"structure_fixer">>) = "structure_fixer"
      /\ Tail(<<"structure_fixer">>) = <<>>
  OBVIOUS
<1> QED
  BY <1>1, <1>2

\* Each cleaner makes of the page what the invariant says.
LEMMA NextPage == PageInv /\ [Next]_vars => PageInv'
<1> SUFFICES ASSUME PageInv, [Next]_vars
             PROVE  PageInv'
  OBVIOUS
<1>1. CASE FilterContent
  <2>1. todo = CleanerList /\ page = source /\ todo' = <<"structure_fixer">>
    BY <1>1, TheCleaners DEF FilterContent, Run, PageInv
  <2> QED
    BY <1>1, <2>1 DEF FilterContent, Run, PageInv
<1>2. CASE FixStructure
  <2>1. todo = <<"structure_fixer">> /\ page = ContentFilter(source) /\ todo' = <<>>
    BY <1>2, TheCleaners DEF FixStructure, Run, PageInv
  <2> QED
    BY <1>2, <2>1 DEF FixStructure, Run, PageInv
<1>3. CASE UNCHANGED vars
  BY <1>3 DEF PageInv, vars
<1> QED
  BY <1>1, <1>2, <1>3 DEF Next

\* At every state the page is the source, filtered, or filtered and repaired.
THEOREM PageIs == Spec => []PageInv
BY InitPage, NextPage, PTL DEF Spec

\* A cleaned page is what both cleaners in their order make of the source.
LEMMA CleanedPage ==
  ASSUME PageInv, Cleaned
  PROVE  /\ source \in Seq(SourceElement) /\ Numbered(source)
         /\ page = StructureFixer(ContentFilter(source))
BY DEF PageInv, Cleaned, CleanerList

-----------------------------------------------------------------------------
(* What the cleaners of a page guarantee.                                  *)

\* No text that is not noise is lost, repeated or reordered, however merges chain, nor any
\* table, image or code block (ContentFilter, StructureFixer).
THEOREM NothingIsLost == Spec => []NothingLost
<1>1. PageInv => NothingLost
  <2> SUFFICES ASSUME PageInv, Cleaned
               PROVE  /\ Parts(Texts(page)) = Parts(GoodTexts(source))
                      /\ Parts(Objects(page)) = Parts(Objects(source))
    BY DEF NothingLost, GoodTexts
  <2> QED
    BY CleanedPage, Repaired
<1> QED
  BY <1>1, PageIs, PTL

Single == {e \in SourceElement : Len(e.parts) = 1}

\* What is merged is a stretch of paragraphs of the source: no heading or list item is
\* absorbed or reached over (_fix_broken_sentences, _fix_split_paragraphs).
THEOREM OnlyParagraphsAreMerged == Spec => []OnlyParagraphsMerge
<1>1. PageInv => OnlyParagraphsMerge
  <2> SUFFICES ASSUME PageInv, Cleaned, NEW i \in DOMAIN page, Len(page[i].parts) > 1
               PROVE  Covered(source, Head(page[i].parts), Last(page[i].parts))
    BY DEF OnlyParagraphsMerge, Covered
  <2> DEFINE t == Texts(page)
             o == Objects(source)
  <2>1. source \in Seq(SourceElement) /\ Numbered(source)
    BY CleanedPage
  <2>2. t \in Seq(TextElement) /\ page = t \o o /\ Fine(source, t)
    BY CleanedPage, Repaired
  <2>3. o \in Seq(Single)
    <3>1. source \in Seq(Single)
      <4>1. ASSUME NEW j \in 1 .. Len(source)
            PROVE  source[j] \in Single
        <5>1. source[j] \in SourceElement /\ source[j].parts = <<j>>
          BY <2>1 DEF Numbered
        <5>2. Len(<<j>>) = 1
          OBVIOUS
        <5> QED
          BY <5>1, <5>2 DEF Single
      <4> QED
        BY <2>1, <4>1
    <3>2. \A kept \in Seq(Single), e \in Single : TakeObject(kept, e) \in Seq(Single)
      BY DEF TakeObject
    <3>3. <<>> \in Seq(Single)
      OBVIOUS
    <3>4. O!Fold(<<>>, source) \in Seq(Single)
      BY <3>1, <3>2, <3>3, O!OfType
    <3> QED
      BY <3>4, TheSelections
  <2> HIDE DEF t, o
  <2>4. /\ Len(t) \in Nat /\ Len(o) \in Nat
        /\ DOMAIN page = 1 .. Len(t) + Len(o)
        /\ i \in 1 .. Len(t) => page[i] = t[i]
        /\ i \notin 1 .. Len(t) => page[i] \in Single
    <3> DEFINE E == TextElement \cup Single
    <3>1. t \in Seq(E) /\ o \in Seq(E)
      BY <2>2, <2>3
    <3>2. /\ Len(t) \in Nat /\ Len(o) \in Nat
          /\ DOMAIN page = 1 .. Len(t) + Len(o)
          /\ page[i] = IF i <= Len(t) THEN t[i] ELSE o[i - Len(t)]
      <4> HIDE DEF E
      <4> QED
        BY <2>2, <3>1
    <3>3. i \notin 1 .. Len(t) => i - Len(t) \in 1 .. Len(o) /\ ~(i <= Len(t))
      BY <3>2
    <3>4. i \notin 1 .. Len(t) => o[i - Len(t)] \in Single
      BY <2>3, <3>3
    <3> QED
      BY <3>2, <3>3, <3>4
  <2>5. i \in 1 .. Len(t) /\ page[i] = t[i]
    <3>1. ~(1 > 1)
      OBVIOUS
    <3>2. Len(page[i].parts) # 1
      BY <3>1, Zenon
    <3>3. page[i] \notin Single
      BY <3>2 DEF Single
    <3> QED
      BY <2>4, <3>3
  <2>6. Whole(source, t[i]) /\ Len(t[i].parts) # 1
    <3>1. ~(1 > 1)
      OBVIOUS
    <3>2. Len(page[i].parts) # 1
      BY <3>1, Zenon
    <3> QED
      BY <2>2, <2>5, <3>2 DEF Fine
  <2> QED
    BY <2>5, <2>6 DEF Whole
<1> QED
  BY <1>1, PageIs, PTL

\* One pass is enough: no sentence is left in two pieces, and no two short paragraphs side
\* by side, although each merge runs once (StructureFixer).
THEOREM NothingIsLeftToMerge == Spec => []NothingLeftToMerge
<1>1. PageInv => NothingLeftToMerge
  <2> DEFINE t == Texts(page)
  <2> SUFFICES ASSUME PageInv, Cleaned, NEW i \in 1 .. Len(t) - 1,
                      t[i].role = "paragraph", t[i + 1].role = "paragraph"
               PROVE  /\ ~(t[i].ends = "open" /\ t[i + 1].starts = "continued")
                      /\ t[i].size >= 100 \/ t[i + 1].size >= 100
    BY DEF NothingLeftToMerge, Neighbours
  <2>1. t \in Seq(TextElement) /\ NoneGoesOn(t) /\ NoneShort(t)
    BY CleanedPage, Repaired
  <2> HIDE DEF t
  <2>2. t[i].size \in Nat /\ t[i + 1].size \in Nat
    <3>1. t[i] \in TextElement /\ t[i + 1] \in TextElement
      BY <2>1
    <3> QED
      BY <3>1 DEF TextElement, Element
  <2>3. ~SentenceGoesOn(t[i], t[i + 1]) /\ ~BothShort(t[i], t[i + 1])
    BY <2>1 DEF NoneGoesOn, NoneShort
  <2> QED
    BY <2>2, <2>3 DEF SentenceGoesOn, BothShort, BothParagraphs
<1> QED
  BY <1>1, PageIs, PTL

\* The repair of levels changes nothing where none is skipped, never makes a heading
\* deeper and leaves no level below 1 (_fix_heading_hierarchy).
THEOREM HeadingsNeverSink == Spec => []HeadingsOnlyRise
<1>1. PageInv => HeadingsOnlyRise
  <2> SUFFICES ASSUME PageInv, Cleaned
               PROVE  LET before == LevelsOf(ContentFilter(source))
                          after  == LevelsOf(page)
                      IN  /\ Len(after) = Len(before)
                          /\ \A i \in DOMAIN after : after[i] \in 1 .. before[i]
                          /\ (\A i \in DOMAIN before :
                                before[i] <= 1 + IF i = 1 THEN 0 ELSE before[i - 1])
                             => after = before
    BY DEF HeadingsOnlyRise, ContentFilter
  <2> DEFINE before == LevelsOf(ContentFilter(source))
             after  == LevelsOf(page)
  <2>1. Risen(after, before)
    BY CleanedPage, Repaired
  <2>2. DOMAIN before = 1 .. Len(before) /\ DOMAIN after = 1 .. Len(after)
    <3>1. before \in Seq(Nat) /\ after \in Seq(Nat)
      <4>1. ContentFilter(source) \in Seq(SourceElement)
        BY CleanedPage, Selections
      <4>2. /\ Texts(page) \in Seq(TextElement) /\ Objects(source) \in Seq(ObjectElement)
            /\ page = Texts(page) \o Objects(source)
        BY CleanedPage, Selections, Repaired
      <4>3. ContentFilter(source) \in Seq(Element)
        BY <4>1 DEF SourceElement
      <4>4. Texts(page) \in Seq(Element) /\ Objects(source) \in Seq(Element)
        BY <4>2 DEF TextElement, ObjectElement
      <4>5. page \in Seq(Element)
        <5> DEFINE t == Texts(page)
                   o == Objects(source)
        <5> HIDE DEF t, o
        <5>1. t \o o \in Seq(Element)
          BY <4>4 DEF t, o
        <5> QED
          BY <4>2, <5>1 DEF t, o
      <4> QED
        BY <4>3, <4>5, LevelsType
    <3> HIDE DEF before, after
    <3> QED
      BY <3>1
  <2> HIDE DEF before, after
  <2>3. /\ Len(after) = Len(before)
        /\ \A i \in DOMAIN after : after[i] \in 1 .. before[i]
        /\ (\A i \in DOMAIN before : before[i] <= 1 + IF i = 1 THEN 0 ELSE before[i - 1])
             => after = before
    BY <2>1, <2>2 DEF Risen, NoSkip
  <2> QED
    BY <2>3 DEF before, after
<1> QED
  BY <1>1, PageIs, PTL

\* The numbered items of a list count 1, 2, 3 ..., and every list starts again
\* (_normalize_list_format).
THEOREM ListsAlwaysCount == Spec => []ListsCountFromOne
<1>1. PageInv => ListsCountFromOne
  <2> DEFINE t == Texts(page)
  <2> SUFFICES ASSUME PageInv, Cleaned, NEW i \in DOMAIN t, t[i].marker = "numbered"
               PROVE  IF Before(t, i) = {} THEN t[i].number = 1
                      ELSE t[i].number = t[Max(Before(t, i))].number + 1
    BY DEF ListsCountFromOne, Before, InList
  <2>1. t \in Seq(TextElement) /\ Counted(t)
    BY CleanedPage, Repaired
  <2> HIDE DEF t
  <2>2. i \in 1 .. Len(t)
    BY <2>1
  <2>3. PICK n \in Nat : Reached(t, Before(t, i), n) /\ t[i].number = n + 1
    BY <2>1, <2>2 DEF Counted
  <2>4. CASE Before(t, i) = {}
    BY <2>3, <2>4 DEF Reached
  <2>5. CASE Before(t, i) # {}
    <3>1. PICK m \in Before(t, i) : t[m].number = n /\ \A j \in Before(t, i) : j <= m
      BY <2>3, <2>5 DEF Reached
    <3>2. Before(t, i) \in SUBSET Nat
      BY <2>1, <2>2 DEF Before
    <3>3. K!GreatestOf(Before(t, i)) = m
      BY <3>1, <3>2, K!GreatestIs
    <3>4. Max(Before(t, i)) = m
      BY <3>3 DEF Max, K!GreatestOf
    <3> QED
      BY <2>3, <2>5, <3>1, <3>4
  <2> QED
    BY <2>4, <2>5
<1> QED
  BY <1>1, PageIs, PTL

=============================================================================
