--------------------------- MODULE MCPageContents ---------------------------
(***************************************************************************)
(* The three models of what a page holds, for checking side by side: the   *)
(* elements of a page and its cleaners (PageCleaning), the characters of   *)
(* one text (TextCleaning), and one table (TableProcessing).  They share   *)
(* no data and each is sequential, so in a behaviour one of them is at     *)
(* work and the two others have nothing to do.                             *)
(***************************************************************************)
EXTENDS PageCleaningProps

CONSTANT MaxLength  \* bound on the tokens of a text

VARIABLES
  original, text, left,         \* of TextCleaning: its source, text and todo
  given, table, step, lines     \* of TableProcessing

textVars  == <<original, text, left>>
tableVars == <<given, table, step, lines>>

-----------------------------------------------------------------------------
(* Pages: paragraphs that are long by themselves, in pairs, and only three *)
(* or four together.                                                       *)

MCSizes == {30, 60, 120}

-----------------------------------------------------------------------------
(* Texts: all short ones of tokens that have to do with lines, with        *)
(* numbers, and with what the filter removes.                              *)

LineTokens == {"blank", "lf", "cr", "ctl", "moji1", "moji2", "bang", "word"}
NumberTokens == {"blank", "ctl", "word", "forbidden", "notice", "three", "eight", "id", "host"}
FilterTokens == {"blank", "lf", "word", "page", "draft", "confidential", "unlicensed",
                 "forbidden", "notice", "three"}

MCTexts ==
  BoundedSeq(LineTokens, MaxLength)
    \cup {t \in BoundedSeq(NumberTokens, MaxLength - 1) :
            Cardinality({i \in DOMAIN t : t[i] = "host"}) <= 1}
    \cup BoundedSeq(FilterTokens, MaxLength - 1)

Text == INSTANCE TextCleaningProps WITH TextSet <- MCTexts, source <- original, todo <- left

-----------------------------------------------------------------------------
(* Tables: every way to divide a small grid into cells, with cells too     *)
(* many, spans over the edges, and numbers of rows and columns that do not *)
(* fit.                                                                    *)

\* Ways to divide a grid into cells: each place knows the first place of its cell.
Tilings(rows, cols) ==
  LET places == (1 .. rows) \X (1 .. cols)
  IN  {f \in [places -> places] :
         \A p, q \in places :
           /\ f[p][1] <= p[1] /\ f[p][2] <= p[2] /\ f[f[p]] = f[p]
           /\ f[p] = f[q] => \A x \in (f[p][1] .. p[1]) \X (f[p][2] .. q[2]) : f[x] = f[p]}

Tab == INSTANCE Tables

\* The rows of such a division, with the sizes of their cells.  Cells at the right and the
\* lower edge span so many places more, and each row has so many cells too many.
RowsOf(f, rows, cols, over, surplus) ==
  LET End(p, d) == Max({q[d] : q \in {x \in DOMAIN f : f[x] = p}})
      Span(p, d, size) == 1 + End(p, d) - p[d] + IF End(p, d) = size THEN over ELSE 0
      CellOf(p)  == [Tab!Cell EXCEPT !.origin = p, !.size = 8, !.rs = Span(p, 1, rows),
                                     !.cs = Span(p, 2, cols)]
      Row(r)     == SelectSeq([c \in 1 .. cols |-> <<r, c>>], LAMBDA p : f[p] = p)
      Extra(r)   == [i \in 1 .. surplus |->
                       [Tab!Cell EXCEPT !.origin = <<r, cols + i>>, !.size = 60]]
  IN  [r \in 1 .. rows |-> [i \in DOMAIN Row(r) |-> CellOf(Row(r)[i])] \o Extra(r)]

Merged(rows, cols) ==
  {[rows |-> RowsOf(f, rows, cols, over, surplus), headers |-> <<>>, count |-> count,
    merged |-> TRUE, score |-> 10, cols |-> known] :
     f \in Tilings(rows, cols), over \in {0, 1}, surplus \in {0, 1},
     count \in {rows - 1, rows, rows + 1}, known \in {0, cols}}

\* Cells too many are so only for a number of columns that is given.
MCGiven ==
  {t \in Merged(2, 3) \cup Merged(3, 2) :
     t.cols = 0 => \A r \in DOMAIN t.rows : \A i \in DOMAIN t.rows[r] : t.rows[r][i].size = 8}

Processor == INSTANCE TableProcessing WITH Given <- MCGiven

-----------------------------------------------------------------------------
(* One of the three at work.                                               *)

NoPage == source = <<>> /\ page = <<>> /\ todo = <<>>

NoText == original = <<>> /\ text = <<>> /\ left = <<>>

NoTable ==
  /\ given = [rows |-> <<>>, headers |-> <<>>, count |-> 0, merged |-> FALSE, score |-> 10,
              cols |-> 0]
  /\ table = given /\ step = "done" /\ lines = <<>>

MCInit ==
  \/ Init /\ NoText /\ NoTable
  \/ NoPage /\ Text!Init /\ NoTable
  \/ NoPage /\ NoText /\ Processor!Init

MCNext ==
  \/ Next /\ UNCHANGED <<textVars, tableVars>>
  \/ Text!Next /\ UNCHANGED <<vars, tableVars>>
  \/ Processor!Next /\ UNCHANGED <<vars, textVars>>

MCSpec == MCInit /\ [][MCNext]_<<vars, textVars, tableVars>>

\* Nothing sensitive is left in a cleaned text (TextCleaningProps).
NothingSensitiveLeft == Text!NothingSensitiveLeft

\* The text of a merged cell is at all its places (TableProcessing).
MergedCellsInPlace == Processor!MergedCellsInPlace

=============================================================================
