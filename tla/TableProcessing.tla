-------------------------- MODULE TableProcessing --------------------------
(***************************************************************************)
(* TableProcessor.execute on one table: merged cells, contents, header and *)
(* quality, step by step on the same object, and the Markdown made of it.  *)
(* No preprocessor reports merged cells; callers that put a table together *)
(* themselves do.                                                          *)
(***************************************************************************)
EXTENDS Tables

CONSTANT Given  \* the tables tried

VARIABLES
  given,  \* the table as it was put together
  table,  \* the table worked on
  step,   \* what is done next
  lines   \* the lines of its Markdown

vars == <<given, table, step, lines>>

Init ==
  /\ given \in Given /\ table = given
  /\ step = "expand" /\ lines = <<>>

Expand ==
  /\ step = "expand" /\ ~(HasMerged(table) /\ OutOfGrid(table))
  /\ table' = IF HasMerged(table) THEN ExpandMergedCells(table) ELSE table
  /\ step' = "normalize"
  /\ UNCHANGED <<given, lines>>

\* The exception is logged, and the table as it was goes to the generator.
ExpandRaises ==
  /\ step = "expand" /\ HasMerged(table) /\ OutOfGrid(table)
  /\ step' = "render"
  /\ UNCHANGED <<given, table, lines>>

Normalize ==
  /\ step = "normalize"
  /\ table' = NormalizeHeaders(NormalizeCells(table))
  /\ step' = "score"
  /\ UNCHANGED <<given, lines>>

Score ==
  /\ step = "score"
  /\ table' = [table EXCEPT !.score = TableScore(table)]
  /\ step' = "render"
  /\ UNCHANGED <<given, lines>>

Render ==
  /\ step = "render"
  /\ lines' = TableLines(table)
  /\ step' = "done"
  /\ UNCHANGED <<given, table>>

Next == Expand \/ ExpandRaises \/ Normalize \/ Score \/ Render

Spec == Init /\ [][Next]_vars

-----------------------------------------------------------------------------
(* What is promised.                                                       *)

\* The cell that covers a place, by where it begins and what it spans.
Covering(t, p) ==
  LET Covers(cell) ==
        \A d \in {1, 2} : p[d] - cell.origin[d] \in 0 .. (IF d = 1 THEN cell.rs ELSE cell.cs) - 1
      covers == {cell \in UNION {ToSet(t.rows[r]) : r \in DOMAIN t.rows} : Covers(cell)}
  IN  IF covers = {} THEN Cell ELSE CHOOSE cell \in covers : TRUE

\* A table of merged cells shows in each place of its grid the cell that covers the place:
\* cells that begin further right because of spans from above, spans that reach over an
\* edge, cells too many in a row, a number of columns that is not given or rows that are
\* not counted move no other cell and leave no place with another text.  (One that raises
\* is shown as it was given.)
MergedCellsInPlace ==
  step = "done" /\ given.merged /\ ~OutOfGrid(given) =>
    lines = [r \in 1 .. given.count |->
               [c \in 1 .. Columns(given) |-> Covering(given, <<r, c>>).origin]]

=============================================================================
