------------------------------- MODULE Tables -------------------------------
(***************************************************************************)
(* TableProcessor: merged cells, cell contents, the header row, the        *)
(* quality of a table, and its Markdown.  The code has it twice, in        *)
(* elements/processors for the element stage and in elements for the       *)
(* Markdown generator; the two differ in how they are registered only.     *)
(*                                                                         *)
(* A cell shows the source cell its text comes from (origin), the length   *)
(* of that text without surrounding blanks, and the rows and columns it    *)
(* spans.                                                                  *)
(***************************************************************************)
EXTENDS Integers, Sequences, SequencesExt

Cell == [origin |-> <<0, 0>>, size |-> 0, rs |-> 1, cs |-> 1, header |-> FALSE]

\* Cells and tables as the preprocessors find them, which report no merged cells.
CellType ==
  [origin : Nat \X Nat, size : Nat, rs : Nat, cs : Nat, header : BOOLEAN]

TableType ==
  [rows : Seq(Seq(CellType)), headers : {<<>>}, count : Nat, merged : {FALSE}, score : Nat,
   cols : Nat]

Table(rows) ==
  [rows |-> rows, headers |-> <<>>, count |-> Len(rows), merged |-> FALSE, score |-> 10,
   cols |-> IF rows = <<>> THEN 0 ELSE Max({Len(rows[r]) : r \in DOMAIN rows})]

-----------------------------------------------------------------------------
(* _expand_merged_cells.                                                   *)

\* A place of the grid that no cell has taken.
Free == [Cell EXCEPT !.rs = 0]

\* Wrong: only the row of the cell itself is filled.
FilledAcross(r, c, cell) == {<<r, j>> : j \in c .. c + cell.cs - 1}

\* The places a cell at <<r, c>> covers, some of them outside the grid.
Covered(r, c, cell) == (r .. r + cell.rs - 1) \X (c .. c + cell.cs - 1)

\* The cell in its place, and a copy of its text in the others.
Placed(grid, r, c, cell) ==
  [p \in DOMAIN grid |->
     IF p = <<r, c>> THEN cell
     ELSE IF p \in Covered(r, c, cell)
     THEN [Cell EXCEPT !.origin = cell.origin, !.size = cell.size] ELSE grid[p]]

\* The next cell of a row goes to the next free place; without one it is dropped.
PlaceNext(acc, cell) ==
  LET free == {j \in acc.col .. acc.cols : acc.grid[<<acc.row, j>>] = Free}
  IN  IF free = {} THEN [acc EXCEPT !.col = acc.cols + 1]
      ELSE [acc EXCEPT !.grid = Placed(@, acc.row, Min(free), cell), !.col = Min(free) + cell.cs]

PlaceRow(acc, row) ==
  [FoldLeft(PlaceNext, [acc EXCEPT !.col = 1], row) EXCEPT !.row = @ + 1]

\* The number of columns, or the length of the longest row if that is not given.
Columns(t) ==
  IF t.cols # 0 THEN t.cols ELSE Max({0} \cup {Len(t.rows[r]) : r \in DOMAIN t.rows})

\* Nothing is placed yet.
Unplaced(t) ==
  [grid |-> [p \in (1 .. t.count) \X (1 .. Columns(t)) |-> Free], row |-> 1, col |-> 1,
   cols |-> Columns(t)]

ExpandMergedCells(t) ==
  LET grid == FoldLeft(PlaceRow, Unplaced(t), t.rows).grid
      CellAt(p) == IF grid[p] = Free THEN Cell ELSE grid[p]
  IN  [t EXCEPT !.merged = FALSE, !.cols = Columns(t),
                !.rows = [r \in 1 .. t.count |-> [c \in 1 .. Columns(t) |-> CellAt(<<r, c>>)]]]

\* A row with cells beyond the number of rows is out of the grid.
OutOfGrid(t) == \E r \in DOMAIN t.rows : r > t.count /\ t.rows[r] # <<>>

-----------------------------------------------------------------------------
(* _normalize_cells, _normalize_headers and quality_score.                 *)

\* A text that is too long is cut and gets three dots.
NormalizeCells(t) ==
  LET Cut(row) == [c \in DOMAIN row |->
                     [row[c] EXCEPT !.size = IF @ > 5000 THEN 5003 ELSE @]]
  IN  [t EXCEPT !.rows    = [r \in DOMAIN @ |-> Cut(@[r])],
                !.headers = [r \in DOMAIN @ |-> Cut(@[r])]]

\* The first of several rows is a header if all its cells are short and none is empty.
FirstRowIsHeader(t) ==
  /\ t.headers = <<>> /\ Len(t.rows) > 1
  /\ \A c \in DOMAIN t.rows[1] : t.rows[1][c].size \in 1 .. 49

NormalizeHeaders(t) ==
  LET first == Head(t.rows)
  IN  IF ~FirstRowIsHeader(t) THEN t
      ELSE [t EXCEPT !.headers = <<[c \in DOMAIN first |-> [first[c] EXCEPT !.header = TRUE]]>>,
                     !.rows = Tail(@), !.count = Len(t.rows) - 1]

\* In tenths.  The cells of a header count as filled, their row not as a row.
TableScore(t) ==
  LET all    == t.headers \o t.rows
      filled == {p \in (DOMAIN all) \X (1 .. t.cols) :
                   p[2] \in DOMAIN all[p[1]] /\ all[p[1]][p[2]].size > 0}
      long   == {r \in DOMAIN t.rows : \E c \in DOMAIN t.rows[r] : t.rows[r][c].size > 1000}
      Minus(n, condition) == IF condition THEN n ELSE 0
  IN  IF t.count = 0 \/ t.cols = 0 THEN 0
      ELSE Max({0, 10 - Minus(3, 2 * Cardinality(filled) < t.count * t.cols)
                      - Minus(2, t.count = 1) - Minus(2, t.cols < 2) - Cardinality(long)})

\* Whether merged cells are to be expanded.
HasMerged(t) == t.merged /\ t.rows # <<>>

\* A table that raises is left as it is: the element stage goes on with the next.
ProcessTable(t) ==
  LET expanded == IF HasMerged(t) THEN ExpandMergedCells(t) ELSE t
      done     == NormalizeHeaders(NormalizeCells(expanded))
  IN  IF HasMerged(t) /\ OutOfGrid(t) THEN t ELSE [done EXCEPT !.score = TableScore(done)]

-----------------------------------------------------------------------------
(* to_markdown.                                                            *)

\* Wrong: the header is forgotten.
RowLines(t) == [r \in DOMAIN t.rows |-> [c \in DOMAIN t.rows[r] |-> t.rows[r][c].origin]]

\* The lines of the table without their bars: the origins of the texts of a
\* row.  The separator that follows the header, or else the first row, is left
\* out.  A table without rows has no Markdown.
TableLines(t) ==
  IF t.rows = <<>> THEN <<>>
  ELSE LET all == t.headers \o t.rows
       IN  [r \in DOMAIN all |-> [c \in DOMAIN all[r] |-> all[r][c].origin]]

=============================================================================
