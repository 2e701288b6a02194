----------------------------- MODULE Extraction -----------------------------
(***************************************************************************)
(* The preprocessors: from a file of each format to pages of elements.     *)
(*                                                                         *)
(* A file is given by what its format's library finds in it.  What becomes *)
(* an element is a record like an element (Cleaners) with two more fields: *)
(* the table it holds, and whether it can be loaded.  Its "parts" say      *)
(* where in the file it stands.  The text of a page is the sequence of     *)
(* lengths of its lines, with the length of the ends between them; the     *)
(* text of an element is one line where a format does not say more.        *)
(***************************************************************************)
EXTENDS Cleaners, Tables, TLC

CONSTANTS
  MaxPages,   \* preprocessing.pdf.max_pages
  MaxRows,    \* preprocessing.xlsx.max_rows
  MaxColumns  \* preprocessing.xlsx.max_columns

ASSUME LimitsAssumption == {MaxPages, MaxRows, MaxColumns} \subseteq Nat

Item == [role |-> "object", noise |-> FALSE, size |-> 0, starts |-> "fresh",
         ends |-> "closed", level |-> 0, marker |-> "none", number |-> 0,
         parts |-> <<>>, table |-> Table(<<>>), loads |-> TRUE, id |-> <<"none", 0, 0>>]

Total(s) == FoldLeft(+, 0, s)

\* The sequences of s joined: FlattenSeq as a fold.
Flat(s) == FoldLeft(\o, <<>>, s)

Sizes(items) == [i \in DOMAIN items |-> items[i].size]

\* The number of characters of a text with line ends of a given length.
LengthOf(lines, eol) == IF lines = <<>> THEN 0 ELSE Total(lines) + eol * (Len(lines) - 1)

\* Texts with an empty line between them.
Apart(texts) == Flat([i \in DOMAIN texts |-> IF i = 1 THEN texts[i] ELSE <<0>> \o texts[i]])

-----------------------------------------------------------------------------
(* What the preprocessors have in common.                                  *)

Prefix(item) ==
  CASE IsText(item) -> "txt" [] item.role = "table" -> "tbl" [] item.role = "image" -> "img"
    [] OTHER -> "code"

\* Wrong: the index is not counted on after a picture or a table.
CountedByKind(page, items, first) ==
  [i \in DOMAIN items |->
     [items[i] EXCEPT !.id = <<Prefix(items[i]), page,
                               first + Len(Texts(SubSeq(items, 1, i - 1)))>>]]

\* Elements get their identifiers from the page, a prefix and a running index.
Numbered(page, items, first) ==
  [i \in DOMAIN items |->
     [items[i] EXCEPT !.id = <<Prefix(items[i]), page, first + i - 1>>]]

Page(number, elements, text) ==
  [number |-> number, elements |-> elements, text |-> text, eol |-> 1, scanned |-> FALSE]

\* len(text_content) of each page.
Lengths(pages) == [p \in DOMAIN pages |-> LengthOf(pages[p].text, pages[p].eol)]

\* Wrong: what the last page says stands for all.
LastPageHas(pages, role) ==
  pages # <<>> /\ \E i \in DOMAIN Last(pages).elements : Last(pages).elements[i].role = role

HasRole(pages, role) ==
  \E p \in DOMAIN pages : \E i \in DOMAIN pages[p].elements : pages[p].elements[i].role = role

\* The title is shown by its parts.
Document(title, pages, pageCount) ==
  [title |-> title, pages |-> pages, pageCount |-> pageCount, chars |-> Total(Lengths(pages)),
   hasTables |-> HasRole(pages, "table"), hasImages |-> HasRole(pages, "image"),
   hasOcr |-> FALSE, scanned |-> FALSE]

\* The title among the properties of a file.
TitleOf(file) == IF file.title THEN <<<<0, "title", 1>>>> ELSE <<>>

-----------------------------------------------------------------------------
(* Markdown and plain text: lines, each of a kind.                         *)

LineSize == [blank |-> 0, h1 |-> 8, h3 |-> 8, fence |-> 3, quote |-> 30, item |-> 20, plain |-> 30]

\* The lines of a file with their numbers.
LinesOf(file) == [i \in DOMAIN file.lines |-> [no |-> i, kind |-> file.lines[i]]]

IsFilled(line) == line.kind # "blank"
IsQuoted(line) == line.kind = "quote"

AddLine(acc, line) ==
  IF ~IsFilled(line) THEN [acc EXCEPT !.open = FALSE]
  ELSE IF acc.open THEN [acc EXCEPT !.done = Append(Front(@), Append(Last(@), line))]
  ELSE [done |-> Append(acc.done, <<line>>), open |-> TRUE]

\* Stretches of lines with no empty line between them.
Blocks(lines) == FoldLeft(AddLine, [done |-> <<>>, open |-> FALSE], lines).done

\* Empty lines are looked for as "\n\n": with CRLF line ends there are none and the file is
\* one block.
MdBlocks(lines, eol) ==
  LET filled == Selected(lines, IsFilled)
  IN  IF eol = "lf" THEN Blocks(lines)
      ELSE IF filled = <<>> THEN <<>> ELSE <<filled>>

LineSizes(b) == [i \in DOMAIN b |-> LineSize[b[i].kind]]

Lines(b) ==
  [Item EXCEPT !.parts = [i \in DOMAIN b |-> <<1, "item", b[i].no>>],
               !.size = LengthOf(LineSizes(b), 1)]

\* Its first line decides what a block is.
MdItem(eol, b) ==
  LET first  == Head(b).kind
      fences == {j \in 2 .. Len(b) : b[j].kind = "fence"}
  IN  CASE first \in {"h1", "h3"} ->
             [Lines(<<Head(b)>>) EXCEPT !.role = "heading", !.level = IF first = "h1" THEN 1 ELSE 3]
        [] first = "fence" /\ eol = "lf" /\ fences # {} ->
             [Lines(SubSeq(b, 2, Min(fences) - 1)) EXCEPT !.role = "code_block"]
        [] first = "quote" -> [Lines(Selected(b, IsQuoted)) EXCEPT !.role = "quote"]
        [] first = "item" -> [Lines(b) EXCEPT !.role = "list_item", !.marker = "bulleted"]
        [] OTHER -> [Lines(b) EXCEPT !.role = "paragraph"]

\* The text of the page is the whole file.
LineDocument(file, items, eol, title) ==
  LET page == Page(1, Numbered(1, items, 0), LineSizes(LinesOf(file)))
  IN  Document(title, <<[page EXCEPT !.eol = eol]>>, 0)

\* The first heading of level 1 is the title as well.
ExtractMarkdown(file) ==
  LET blocks == MdBlocks(LinesOf(file), file.eol)
      items  == [i \in DOMAIN blocks |-> MdItem(file.eol, blocks[i])]
      H1s    == {i \in DOMAIN items : items[i].role = "heading" /\ items[i].level = 1}
  IN  LineDocument(file, items, IF file.eol = "lf" THEN 1 ELSE 2,
                   IF H1s = {} THEN <<>> ELSE items[Min(H1s)].parts)

\* Line ends are made equal first.
ExtractTxt(file) ==
  LET blocks == Blocks(LinesOf(file))
      Para(b) == [Lines(b) EXCEPT !.role = "paragraph"]
  IN  LineDocument(file, [i \in DOMAIN blocks |-> Para(blocks[i])], 1, <<>>)

-----------------------------------------------------------------------------
(* Office formats.                                                         *)

\* What becomes an element: no empty text, no picture that cannot be read, none
\* of the containers that are not looked into.
Extracted(item) ==
  item.loads /\ item.role # "container" /\ (IsText(item) => item.size > 0)

\* Each text ends its line.
TextOf(items) == Append(Sizes(Texts(items)), 0)

\* The body in its order.  No picture of the package becomes an element: each raises where
\* target_ext of its relationship is read, which python-docx does not have, and is passed
\* over.
ExtractDocx(file) ==
  LET items == Selected(file.pages[1].items, Extracted)
  IN  Document(TitleOf(file), <<Page(1, Numbered(1, items, 0), TextOf(items))>>, 0)

\* The shapes of a slide by z-order, then its notes as a quote.
Slide(number, slide) ==
  LET items == Selected(slide.items \o slide.notes, Extracted)
  IN  Page(number, Numbered(number, items, 0), TextOf(items))

ExtractPptx(file) ==
  Document(TitleOf(file), [n \in DOMAIN file.pages |-> Slide(n, file.pages[n])], Len(file.pages))

IsFilledRow(row) == \E c \in DOMAIN row : row[c].size > 0

\* The rows of a sheet up to the limits.
RowsRead(rows) ==
  [r \in 1 .. Min({Len(rows), MaxRows}) |-> SubSeq(rows[r], 1, Min({Len(rows[r]), MaxColumns}))]

\* Rows that are empty are left out.
SheetRows(rows) == Selected(RowsRead(rows), IsFilledRow)

\* The table is numbered first, and its heading put in front of it.  The text of the page
\* has a line for each cell that was read.
Sheet(number, sheet) ==
  LET table   == [Item EXCEPT !.role = "table", !.table = Table(SheetRows(sheet.rows)),
                              !.parts = <<<<number, "table", 1>>>>]
      heading == [Item EXCEPT !.role = "heading", !.size = 12,
                              !.parts = <<<<number, "name", 1>>>>]
  IN  Page(number, Numbered(number, <<heading>>, 1) \o Numbered(number, <<table>>, 0),
           Sizes(Flat(RowsRead(sheet.rows))))

\* The characters of the cells that were kept are counted, without line ends.
CellChars(sheet) == Total(Sizes(Flat(SheetRows(sheet.rows))))

ExtractXlsx(file) ==
  LET pages == [n \in DOMAIN file.pages |-> Sheet(n, file.pages[n])]
  IN  [Document(TitleOf(file), pages, Len(file.pages)) EXCEPT
         !.chars = Total([n \in DOMAIN file.pages |-> CellChars(file.pages[n])])]

-----------------------------------------------------------------------------
(* PDF and images.                                                         *)

\* A single line is a heading.
PdfBlock(block) ==
  LET size == LengthOf(block.lines, 1)
  IN  IF Len(block.lines) > 1 \/ size >= 120
      THEN [block.item EXCEPT !.role = "paragraph", !.size = size]
      ELSE [block.item EXCEPT !.role = "heading", !.size = size,
                              !.level = IF size < 60 THEN 2 ELSE 3]

HasRows(item) == item.table.rows # <<>>

\* Tables with rows, pictures, blocks of the text layer.
PdfPage(number, page) ==
  LET tables == Selected(page.tables, HasRows)
      texts  == [i \in DOMAIN page.blocks |-> PdfBlock(page.blocks[i])]
  IN  Page(number, Numbered(number, tables \o page.pictures \o texts, 0),
           Apart([i \in DOMAIN page.blocks |-> page.blocks[i].lines]))

\* Pages from MaxPages on are left out.  The file counts as scanned by what another
\* library finds on its first pages (file.sample characters).
ExtractPdf(file) ==
  LET total == Min({Len(file.pages), MaxPages})
  IN  [Document(TitleOf(file), [n \in 1 .. total |-> PdfPage(n, file.pages[n])], total) EXCEPT
         !.scanned = file.sample < 50]

\* Paragraphs that recognition finds on a page, numbered after what is there.
OcrElements(number, paragraphs, first) ==
  [i \in DOMAIN paragraphs |->
     [paragraphs[i] EXCEPT !.role = "paragraph", !.id = <<"ocr", number, first + i - 1>>]]

OcrText(paragraphs) == Apart([i \in DOMAIN paragraphs |-> <<paragraphs[i].size>>])

\* Their text is put right behind the text of the page.
TextAndOcr(text, ocr) ==
  IF text = <<>> \/ ocr = <<>> THEN text \o ocr
  ELSE Front(text) \o <<Last(text) + Head(ocr)>> \o Tail(ocr)

OcrPage(page, paragraphs) ==
  [page EXCEPT !.scanned = TRUE,
               !.elements = @ \o OcrElements(page.number, paragraphs, Len(@)),
               !.text = TextAndOcr(@, OcrText(paragraphs))]

\* An image is one page; one without text is an empty page.
ExtractImage(file) ==
  LET paragraphs == file.pages[1].ocr
      page == [Page(1, OcrElements(1, paragraphs, 0), OcrText(paragraphs)) EXCEPT !.scanned = TRUE]
  IN  [Document(<<>>, <<page>>, 1) EXCEPT !.scanned = TRUE]

-----------------------------------------------------------------------------
(* What the libraries may find in a file.                                  *)

Roles == TextRoles \cup {"table", "image", "code_block", "object", "container"}

Part == Nat \X {"title", "item", "name", "notes", "picture", "table", "block", "ocr"} \X Nat

Id == {"none", "txt", "tbl", "img", "code", "ocr"} \X Nat \X Nat

\* Elements whose tables are of a set.
Element(Tabs) ==
  [role : Roles, noise : BOOLEAN, size : Nat, starts : {"fresh", "continued"},
   ends : {"closed", "open"}, level : Nat, marker : {"none", "bulleted", "numbered"},
   number : Nat, parts : Seq(Part), table : Tabs, loads : BOOLEAN, id : Id]

ItemType == Element(TableType)

PagesOf(format) ==
  LET Items == Seq(ItemType)
  IN  CASE format = "docx"  -> [items : Items, pictures : Items]
        [] format = "pptx"  -> [items : Items, notes : Items]
        [] format = "xlsx"  -> [rows : Seq(Seq(CellType))]
        [] format = "pdf"   -> [tables : Items, pictures : Items, ocr : Items,
                                blocks : Seq([lines : Seq(Nat), item : ItemType])]
        [] format = "image" -> [ocr : Items]

LineFormats == {"md", "txt"}
PageFormats == {"docx", "pptx", "xlsx", "pdf", "image"}

IsFile(file) ==
  \/ file.format \in LineFormats /\ file.lines \in Seq(DOMAIN LineSize)
  \/ /\ file.format \in PageFormats /\ file.pages \in Seq(PagesOf(file.format))
     /\ file.format \in {"docx", "image"} => Len(file.pages) = 1

=============================================================================
