-------------------------- MODULE PageCleaningProps --------------------------
(***************************************************************************)
(* What the cleaners of a page guarantee together.                         *)
(***************************************************************************)
EXTENDS PageCleaning

Cleaned == todo = <<>>

\* The elements of the source a sequence is made of, in order.
AddParts(parts, e) == parts \o e.parts

Parts(s) == FoldLeft(AddParts, <<>>, s)

\* Each element of a sequence with the one after it.
Neighbours(s) == {<<s[i], s[i + 1]>> : i \in 1 .. Len(s) - 1}

IsHeading(e) == e.role = "heading" /\ e.level # 0

\* The levels of the headings of s.
AddLevel(levels, e) == IF IsHeading(e) THEN Append(levels, e.level) ELSE levels

LevelsOf(s) == FoldLeft(AddLevel, <<>>, s)

\* No cleaner loses, repeats or reorders a text that is not noise, however
\* merges chain; nor any table, image or code block (structure_fixer).
NothingLost ==
  Cleaned => /\ Parts(Texts(page)) = Parts(Selected(source, LAMBDA e : IsText(e) /\ Kept(e)))
             /\ Parts(Objects(page)) = Parts(Objects(source))

\* A heading or list item is never absorbed by a paragraph, nor does a paragraph
\* reach over one: what is merged is a stretch of paragraphs of the source.
OnlyParagraphsMerge ==
  Cleaned => \A i \in DOMAIN page : Len(page[i].parts) > 1 =>
    LET first == Head(page[i].parts)
        last  == Last(page[i].parts)
    IN  \A j \in first .. last : source[j].role \in {"paragraph", "object"}

\* One pass is enough, although each merge runs once and the first does not know
\* the result of the second: no sentence is left in two pieces, and no two short
\* paragraphs are left side by side, not even where a page number stood between.
NothingLeftToMerge ==
  Cleaned => \A pair \in Neighbours(Texts(page)) :
    LET a == pair[1]
        b == pair[2]
    IN  a.role = "paragraph" /\ b.role = "paragraph" =>
          /\ ~(a.ends = "open" /\ b.starts = "continued")
          /\ a.size >= 100 \/ b.size >= 100

\* The repair of heading levels changes nothing where no level is skipped, never
\* makes a heading deeper, and leaves no level outside h1 to h6.
HeadingsOnlyRise ==
  Cleaned =>
    LET before == LevelsOf(Selected(source, Kept))
        after  == LevelsOf(page)
    IN  /\ Len(after) = Len(before)
        /\ \A i \in DOMAIN after : after[i] \in 1 .. before[i]
        /\ (\A i \in DOMAIN before :
              before[i] <= 1 + IF i = 1 THEN 0 ELSE before[i - 1]) => after = before

\* The numbered items of a list count 1, 2, 3 ..., bulleted ones between them or
\* not, and every list starts again.
ListsCountFromOne ==
  Cleaned =>
    LET texts == Texts(page)
        Numbered(i) == texts[i].marker = "numbered"
    IN  \A i \in DOMAIN texts : Numbered(i) =>
          LET before == {j \in 1 .. i - 1 : /\ Numbered(j)
                                            /\ \A k \in j .. i : texts[k].role = "list_item"}
          IN  IF before = {} THEN texts[i].number = 1
              ELSE texts[i].number = texts[Max(before)].number + 1

=============================================================================
