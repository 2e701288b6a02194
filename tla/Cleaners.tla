------------------------------ MODULE Cleaners ------------------------------
(***************************************************************************)
(* The elements of a page and what the cleaners of the pipeline do to      *)
(* them, as opposed to the characters of their texts.  ContentFilter       *)
(* removes elements, StructureFixer merges, relevels and numbers them.     *)
(* BasicCleaner and SensitiveMasker, first and last in the list, rewrite   *)
(* texts and leave the elements as they are (TextCleaning); sizes and ends *)
(* of a text are those it has after BasicCleaner.                          *)
(***************************************************************************)
EXTENDS Naturals, Sequences, SequencesExt

-----------------------------------------------------------------------------
(* Elements.  "parts" says which elements of the source one is made of.    *)

Blank == [role |-> "object", noise |-> FALSE, size |-> 0, starts |-> "fresh",
          ends |-> "closed", level |-> 0, marker |-> "none", number |-> 0,
          parts |-> <<>>]

\* ContentFilter keeps nothing of a noise text: a page number, a watermark, a
\* running header, or a text that is empty without its notices.
Noise == [Blank EXCEPT !.role = "paragraph", !.noise = TRUE]

\* The roles that preprocessors give to a TextElement; tables, images and code
\* blocks have other roles.
TextRoles == {"paragraph", "heading", "list_item", "quote"}

IsText(e) == e.role \in TextRoles
IsObject(e) == e.role \notin TextRoles

\* The elements of s that pass a test, in their order: SelectSeq as a fold, which can be
\* reasoned about.
Selected(s, Test(_)) ==
  FoldLeft(LAMBDA kept, e : IF Test(e) THEN Append(kept, e) ELSE kept, <<>>, s)

Texts(s) == Selected(s, IsText)
Objects(s) == Selected(s, IsObject)

-----------------------------------------------------------------------------
(* ContentFilter.                                                          *)

\* Only texts are looked at.
Kept(e) == IsText(e) => ~e.noise

ContentFilter(s) == Selected(s, Kept)

-----------------------------------------------------------------------------
(* StructureFixer.                                                         *)

\* Wrong: only the role of the element that comes next is looked at.
NextIsParagraph(a, b) == b.role = "paragraph"

BothParagraphs(a, b) == a.role = "paragraph" /\ b.role = "paragraph"

\* _ends_open and _starts_continuation: b goes on with a sentence of a.
SentenceGoesOn(a, b) ==
  BothParagraphs(a, b) /\ a.ends = "open" /\ b.starts = "continued"

BothShort(a, b) == BothParagraphs(a, b) /\ a.size < 100 /\ b.size < 100

\* Wrong: the text of b is put in front.
JoinedBackwards(a, b) ==
  [a EXCEPT !.size = @ + 1 + b.size, !.ends = b.ends, !.parts = b.parts \o @]

\* The text of b is appended to that of a, with a blank or a newline between.
Joined(a, b) ==
  [a EXCEPT !.size = @ + 1 + b.size, !.ends = b.ends, !.parts = @ \o b.parts]

\* The last element so far takes in the next one.
TakenIn(merged, e) == Append(Front(merged), Joined(Last(merged), e))

OrContinued(merged, e) ==
  IF merged # <<>> /\ SentenceGoesOn(Last(merged), e)
  THEN TakenIn(merged, e) ELSE Append(merged, e)

FixBrokenSentences(s) == FoldLeft(OrContinued, <<>>, s)

OrMerged(merged, e) ==
  IF merged # <<>> /\ BothShort(Last(merged), e)
  THEN TakenIn(merged, e) ELSE Append(merged, e)

FixSplitParagraphs(s) == FoldLeft(OrMerged, <<>>, s)

\* Wrong: a heading after a gap gets the level of its predecessor.
LevelOfPredecessor(level, previous) ==
  IF level > previous + 1 THEN previous ELSE level

NewLevel(level, previous) == IF level > previous + 1 THEN previous + 1 ELSE level

\* What is remembered of a heading is the level it had before its own repair.
Relevelled(acc, e) ==
  IF e.role = "heading" /\ e.level # 0
  THEN [done |-> Append(acc.done, [e EXCEPT !.level = NewLevel(@, acc.previous)]),
        previous |-> e.level]
  ELSE [acc EXCEPT !.done = Append(@, e)]

FixHeadingHierarchy(s) == FoldLeft(Relevelled, [done |-> <<>>, previous |-> 0], s).done

\* Wrong: the numbers of a page run through all its lists.
NumberOutsideList(n) == n

\* The number reached when a text that is no list item has passed.
NoNumber(n) == 0

\* _normalize_list_format: numbered items count up until a text that is no list
\* item; other items get a dash.
Renumbered(acc, e) ==
  IF e.role # "list_item"
  THEN [done |-> Append(acc.done, e), idx |-> NoNumber(acc.idx)]
  ELSE IF e.marker = "numbered"
  THEN [done |-> Append(acc.done, [e EXCEPT !.number = acc.idx + 1]), idx |-> acc.idx + 1]
  ELSE [acc EXCEPT !.done = Append(@, e)]

NormalizeLists(s) == FoldLeft(Renumbered, [done |-> <<>>, idx |-> 0], s).done

\* Wrong: on a page with texts the other elements are forgotten.
TextsOnly(texts, objects) == IF texts # <<>> THEN texts ELSE objects

\* _interleave_elements: whatever its place was, an object comes after the texts.
Interleaved(texts, objects) == texts \o objects

StructureFixer(s) ==
  LET merged == FixSplitParagraphs(FixBrokenSentences(Texts(s)))
  IN  Interleaved(NormalizeLists(FixHeadingHierarchy(merged)), Objects(s))

=============================================================================
