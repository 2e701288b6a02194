---------------------------- MODULE PageCleaning ----------------------------
(***************************************************************************)
(* The cleaners of the pipeline at work on one page, one after the other.  *)
(***************************************************************************)
EXTENDS Cleaners

CONSTANTS
  MaxElements,  \* bound on the elements of a page
  Sizes,        \* lengths of paragraphs
  Levels        \* levels of headings, 0 for a heading without one

ASSUME PageAssumption ==
  MaxElements \in Nat /\ Sizes \subseteq Nat \ {0} /\ Levels \subseteq 0 .. 6

VARIABLES
  source,  \* the page as the preprocessor leaves it
  page,    \* the page now
  todo     \* the cleaners still to run

vars == <<source, page, todo>>

-----------------------------------------------------------------------------
(* The elements of a page.                                                 *)

Paragraph(n, s, e) ==
  [Blank EXCEPT !.role = "paragraph", !.size = n, !.starts = s, !.ends = e]

Paragraphs == {Paragraph(n, s, e) :
                 n \in Sizes, s \in {"fresh", "continued"}, e \in {"open", "closed"}}

\* Level 0 stands for texts of the other roles too (quotes, captions).
Headings == {[Blank EXCEPT !.role = "heading", !.level = l] : l \in Levels}

\* As preprocessors make them; the marker is still part of the text.
ListItems == {[Blank EXCEPT !.role = "list_item", !.marker = k] :
                k \in {"numbered", "bulleted"}}

\* All elements that are not a TextElement: tables, images, formulas, code.
Object == Blank

Elements == Paragraphs \cup Headings \cup ListItems \cup {Noise, Object}

-----------------------------------------------------------------------------
(* Pipeline._stage_clean.                                                  *)

\* Wrong: texts are merged while page numbers still stand between them.
FixerFirst == <<"structure_fixer", "content_filter">>

CleanerList == <<"content_filter", "structure_fixer">>

Init ==
  /\ \E s \in BoundedSeq(Elements, MaxElements) :
       source = [i \in DOMAIN s |-> [s[i] EXCEPT !.parts = <<i>>]]
  /\ page = source /\ todo = CleanerList

Run(cleaner) ==
  /\ todo # <<>> /\ Head(todo) = cleaner
  /\ todo' = Tail(todo)
  /\ UNCHANGED source

FilterContent == Run("content_filter") /\ page' = ContentFilter(page)

FixStructure == Run("structure_fixer") /\ page' = StructureFixer(page)

Next == FilterContent \/ FixStructure

Spec == Init /\ [][Next]_vars

=============================================================================
