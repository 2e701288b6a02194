--------------------------- MODULE DocumentProps ---------------------------
(***************************************************************************)
(* What the pipeline promises of the Markdown and the metadata it makes of *)
(* a file.                                                                 *)
(***************************************************************************)
EXTENDS DocumentPipeline

Done == stage = "done"

\* The Markdown without the title line, which may show what a heading shows again.
Body == Selected(out.markdown, LAMBDA e : e.role # "title")

PartsOf(entries) == Flat([i \in DOMAIN entries |-> entries[i].parts])

\* The parts of the file that the Markdown shows, in its order.
Shown == PartsOf(Body)

\* What should be shown of an item: no noise, no empty text, no picture that does not
\* load, no table without rows, and nothing inside a container.
Wanted(items) ==
  UNION {ToSet(items[i].parts) : i \in {j \in DOMAIN items :
    /\ ~items[j].noise /\ items[j].loads /\ items[j].role # "container"
    /\ IsText(items[j]) => items[j].size > 0
    /\ items[j].role = "table" => items[j].table.rows # <<>>}}

PagesRead == 1 .. IF file.format = "pdf" THEN Min({MaxPages, Len(file.pages)}) ELSE Len(file.pages)

Inhabited(sheet) ==
  \E r \in DOMAIN sheet.rows : \E c \in DOMAIN sheet.rows[r] :
    r <= MaxRows /\ c <= MaxColumns /\ sheet.rows[r][c].size > 0

WantedOfPage(n) ==
  LET page == file.pages[n]
  IN  CASE file.format = "docx" -> Wanted(page.items)
        [] file.format = "pptx" -> Wanted(page.items \o page.notes)
        [] file.format = "xlsx" -> {<<n, "name", 1>>} \cup
                                   (IF Inhabited(page) THEN {<<n, "table", 1>>} ELSE {})
        [] file.format = "pdf"  ->
             Wanted(page.tables \o page.pictures
                      \o [i \in DOMAIN page.blocks |-> PdfBlock(page.blocks[i])]
                      \o IF n \in ocr.read THEN page.ocr ELSE <<>>)
        [] file.format = "image" -> Wanted(page.ocr)

HasLines == file.format \in {"md", "txt"}

FilledLines == {i \in DOMAIN file.lines : file.lines[i] # "blank"}

\* A line of a Markdown file may be left out behind a heading, a quote or a code fence of
\* the same block; with CRLF line ends the file is one block.
MayBeLeftOut(i) ==
  /\ file.format = "md"
  /\ \/ file.lines[i] = "fence"
     \/ \E j \in 1 .. i - 1 :
          /\ file.lines[j] \in {"h1", "h3", "quote", "fence"}
          /\ file.eol = "crlf" \/ \A k \in j .. i : file.lines[k] # "blank"

\* Everything of a file that is content is in the Markdown, whatever parser,
\* cleaners and generator have done to it: the rows of sheets up to the limit, the
\* pages of a PDF up to the limit, what recognition found on pages before it failed.
\* Lines of Markdown files are left out only as said above; noise always is, and so are
\* the pictures of a DOCX file, which no parser loads.
ContentShown ==
  Done =>
    IF HasLines
    THEN /\ ToSet(Shown) \subseteq {<<1, "item", i>> : i \in FilledLines}
         /\ \A i \in FilledLines : <<1, "item", i>> \in ToSet(Shown) \/ MayBeLeftOut(i)
    ELSE ToSet(Shown) = UNION {WantedOfPage(n) : n \in PagesRead}

\* A sequence of parts in which none comes twice and those of a kind are in order.
InOrder(s) ==
  \A i, j \in DOMAIN s : i < j =>
    /\ s[i] # s[j]
    /\ s[i][1] = s[j][1] /\ s[i][2] = s[j][2] => s[i][3] < s[j][3]

\* Behind the title line, pages keep their order.  The texts of the document are in the
\* order of the file, and none of them comes twice; the same holds of its other elements.
\* (A text layer may repeat what stands in the tables of its page, and the title line what
\* a heading says.)
OrderKept ==
  Done => /\ InOrder(PartsOf(Texts(Body))) /\ InOrder(PartsOf(Objects(Body)))
          /\ \A i, j \in DOMAIN Shown : i < j => Shown[i][1] <= Shown[j][1]
          /\ \A i \in DOMAIN out.markdown : out.markdown[i].role = "title" => i = 1

\* The tables of the file with the part they are known by.
SourceTables ==
  LET Of(items) == {[parts |-> items[i].parts, table |-> items[i].table] :
                      i \in {j \in DOMAIN items : items[j].role = "table"}}
  IN  CASE HasLines \/ file.format = "image" -> {}
        [] file.format = "xlsx" -> {[parts |-> <<<<n, "table", 1>>>>,
                                     table |-> Table(SheetRows(file.pages[n].rows))] :
                                      n \in DOMAIN file.pages}
        [] file.format = "pdf" -> UNION {Of(file.pages[n].tables) : n \in DOMAIN file.pages}
        [] OTHER -> UNION {Of(file.pages[n].items) : n \in DOMAIN file.pages}

\* The Markdown of a table shows every cell of the table in its row and column: taking the
\* first row for a header, cutting long cells and writing the lines lose and move none.
\* (MergedCellsInPlace is about tables with merged cells.)
TablesWhole ==
  Done => \A e \in ToSet(out.markdown) : \A source \in SourceTables :
    e.role = "table" /\ e.parts = source.parts =>
      LET rows == source.table.rows
      IN  e.rows = [r \in DOMAIN rows |-> [c \in DOMAIN rows[r] |-> rows[r][c].origin]]

\* No two elements of a document have the same identifier, also after recognition has
\* added to pages that had some.
IdsUnique ==
  LET all == AllElements(doc)
  IN  \A i, j \in DOMAIN all : all[i].id = all[j].id => i = j

\* The metadata tell the truth about the Markdown they are stored with: the flags say
\* what the counts say, and what is counted is shown, except for tables that have no rows;
\* pages are numbered as they come, and none counts as scanned in a document that does not.
\* Lengths are not compared: the pages' are of texts that BasicCleaner has rewritten, the
\* total is of those before (TotalCounted).
MetadataAgrees ==
  Done =>
    LET data  == out.metadata
        shown == [role \in DOMAIN data.elements |-> Count(out.markdown, role)]
    IN  /\ \A role \in DOMAIN shown :
             shown[role] <= data.elements[role] /\ (role # "table" => shown[role] = data.elements[role])
        /\ data.hasTables <=> data.elements["table"] > 0
        /\ data.hasImages <=> data.elements["image"] > 0
        /\ data.pageCount \in {0, Len(data.pages)}
        /\ \A p \in DOMAIN data.pages : /\ data.pages[p].number = p
                                        /\ data.pages[p].scanned => data.scanned

\* Until BasicCleaner rewrites the pages, the total of characters is that of their texts,
\* with what recognition has found so far and not yet added; recognition that was cut
\* short leaves text on its pages that is not in the total.  (Of a sheet only the cells of
\* rows that are not empty are counted, and no line ends.)
TotalCounted ==
  stage \in {"ocr", "elements", "clean"} /\ file.format # "xlsx" =>
    LET pending == IF stage = "ocr" THEN ocr.chars ELSE 0
    IN  IF ocr.raised THEN doc.chars <= TextLength(doc)
        ELSE doc.chars + pending = TextLength(doc)

\* A short document does not pass on its tables and pictures: more than two of five
\* elements of one that passes are texts that were kept.
PassIsMostlyText ==
  LET all == AllElements(doc)
  IN  passed /\ TextLength(doc) < 10000 =>
        5 * Len(Selected(all, LAMBDA e : IsText(e) /\ ~e.noise)) > 2 * Len(all)

=============================================================================
