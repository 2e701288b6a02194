-------------------------- MODULE DocumentPipeline --------------------------
(***************************************************************************)
(* Pipeline.run_and_generate for one file: parsing, with the pages of a    *)
(* scanned PDF recognised one by one, the element stage, the cleaners,     *)
(* validation, and the Markdown and metadata that come out.                *)
(***************************************************************************)
EXTENDS Quality

CONSTANT Files  \* the files tried

NoFormat == "none"

ASSUME FilesAssumption == \A f \in Files : f.format = NoFormat \/ IsFile(f)

VARIABLES
  file,   \* the file
  stage,  \* what is done next
  doc,    \* the Document
  ocr,    \* recognition of a scanned PDF: the next page, pages read, characters found
  passed, \* doc.quality.passed
  out     \* the generated Markdown and metadata

vars == <<file, stage, doc, ocr, passed, out>>

-----------------------------------------------------------------------------
(* Output.                                                                 *)

\* What the Markdown of an element shows; lines of a table are those of its rows.
Entry(e) ==
  [role |-> e.role, level |-> e.level, parts |-> e.parts, rows |-> TableLines(e.table)]

HasMarkdown(entry) == entry.role = "table" => entry.rows # <<>>

PageComment == [Entry(Item) EXCEPT !.role = "comment"]
TitleLine(d) == [Entry(Item) EXCEPT !.role = "title", !.parts = d.title]

\* Wrong: the elements are taken up by kind over the whole document.
MarkdownByKind(d) ==
  LET all == AllElements(d)
      In(s) == Selected([i \in DOMAIN s |-> Entry(s[i])], HasMarkdown)
  IN  In(Texts(all)) \o In(Objects(all))

\* The title, and each page with a comment if there are several.
Markdown(d) ==
  LET Body(page) == Selected([i \in DOMAIN page.elements |-> Entry(page.elements[i])], HasMarkdown)
      Comment    == IF Len(d.pages) > 1 THEN <<PageComment>> ELSE <<>>
  IN  (IF d.title # <<>> THEN <<TitleLine(d)>> ELSE <<>>)
        \o Flat([p \in DOMAIN d.pages |-> Comment \o Body(d.pages[p])])

\* How many in a sequence have a role.
Count(s, role) == Cardinality({i \in DOMAIN s : s[i].role = role})

\* get_element_count, by the roles that occur.
ElementStats(d) ==
  [role \in {"heading", "paragraph", "list_item", "quote", "table", "image", "code_block"} |->
     Count(AllElements(d), role)]

Metadata(d) ==
  [pageCount |-> d.pageCount, chars |-> d.chars, hasTables |-> d.hasTables,
   hasImages |-> d.hasImages, scanned |-> d.scanned, elements |-> ElementStats(d),
   pages |-> [p \in DOMAIN d.pages |->
                [number |-> d.pages[p].number, count |-> Len(d.pages[p].elements),
                 chars |-> Lengths(d.pages)[p], scanned |-> d.pages[p].scanned]]]

-----------------------------------------------------------------------------
(* The stages.                                                             *)

Init ==
  /\ file \in Files
  /\ stage = "parse" /\ doc = Document(<<>>, <<>>, 0)
  /\ ocr = [next |-> 1, read |-> {}, chars |-> 0, raised |-> FALSE]
  /\ passed = FALSE /\ out = [markdown |-> <<>>, metadata |-> Metadata(doc)]

\* The preprocessor is chosen by the extension.
Extract(f) ==
  CASE f.format = "md"    -> ExtractMarkdown(f)
    [] f.format = "txt"   -> ExtractTxt(f)
    [] f.format = "docx"  -> ExtractDocx(f)
    [] f.format = "pptx"  -> ExtractPptx(f)
    [] f.format = "xlsx"  -> ExtractXlsx(f)
    [] f.format = "pdf"   -> ExtractPdf(f)
    [] f.format = "image" -> ExtractImage(f)

\* Only a PDF that is scanned and has next to no text is recognised.
AfterParsing(d) ==
  IF file.format = "pdf" /\ d.scanned /\ d.chars < 50 THEN "ocr" ELSE "elements"

Parse ==
  /\ stage = "parse" /\ file.format # NoFormat
  /\ doc' = Extract(file) /\ stage' = AfterParsing(doc')
  /\ UNCHANGED <<file, ocr, passed, out>>

\* An unknown extension, or a library that raises on the file.  Text and images are
\* always read, the latter perhaps without any text.
ParsingRaises ==
  /\ stage = "parse" /\ file.format \notin {"md", "txt", "image"}
  /\ stage' = "failed"
  /\ UNCHANGED <<file, doc, ocr, passed, out>>

\* Wrong: the characters of a page count at once, not when all pages are read.
CountedAtOnce(d, n) == [d EXCEPT !.chars = @ + n]

CountedLater(d, n) == d

\* One page is recognised, or nothing is found on it.
RecognisePage ==
  /\ stage = "ocr" /\ ocr.next <= Len(doc.pages)
  /\ \E found \in {<<>>, file.pages[ocr.next].ocr} :
       LET n == LengthOf(OcrText(found), 1)
       IN  /\ ocr' = [ocr EXCEPT !.next = @ + 1, !.chars = @ + n,
                                 !.read = IF found = <<>> THEN @ ELSE @ \cup {ocr.next}]
           /\ doc' = IF found = <<>> THEN doc
                     ELSE [CountedLater(doc, n) EXCEPT
                             !.pages[ocr.next] = OcrPage(@, found), !.hasOcr = TRUE]
  /\ UNCHANGED <<file, stage, passed, out>>

RecognitionDone ==
  /\ stage = "ocr" /\ ocr.next > Len(doc.pages)
  /\ stage' = "elements"
  /\ doc' = [doc EXCEPT !.chars = @ + ocr.chars]
  /\ UNCHANGED <<file, ocr, passed, out>>

\* Rendering a page raises; the exception is caught, and the pages before it keep
\* what was found.
RecognitionRaises ==
  /\ stage = "ocr"
  /\ stage' = "elements" /\ ocr' = [ocr EXCEPT !.raised = TRUE]
  /\ UNCHANGED <<file, doc, passed, out>>

\* Every element goes through its processors; the one for tables changes what is
\* looked at here.
Processed(elements) ==
  [i \in DOMAIN elements |->
     IF elements[i].role = "table" THEN [elements[i] EXCEPT !.table = ProcessTable(@)]
     ELSE elements[i]]

ProcessedPages(pages) ==
  [p \in DOMAIN pages |-> [pages[p] EXCEPT !.elements = Processed(@)]]

ProcessElements ==
  /\ stage = "elements"
  /\ stage' = "clean"
  /\ doc' = [doc EXCEPT !.pages = ProcessedPages(@)]
  /\ UNCHANGED <<file, ocr, passed, out>>

Cleaned(elements) == StructureFixer(ContentFilter(elements))

\* A line is dropped if it is empty and there is none before it, or if it repeats the one
\* before.  Lines of the same length do that, or else none but empty ones.
OrRepeated(kept, line) ==
  IF (kept = <<>> /\ line = 0) \/ (kept # <<>> /\ Last(kept) = line) THEN kept
  ELSE Append(kept, line)

OrEmpty(kept, line) ==
  IF line = 0 /\ (kept = <<>> \/ Last(kept) = 0) THEN kept ELSE Append(kept, line)

WithoutRepeats(text, repeated) ==
  IF repeated THEN FoldLeft(OrRepeated, <<>>, text) ELSE FoldLeft(OrEmpty, <<>>, text)

\* BasicCleaner on the text of a page: no repeated lines, no empty ones at the ends.
Rewritten(text, repeated) ==
  LET lines == WithoutRepeats(text, repeated)
  IN  IF lines # <<>> /\ Last(lines) = 0 THEN Front(lines) ELSE lines

CleanedPage(page, repeated) ==
  [page EXCEPT !.elements = Cleaned(@), !.text = Rewritten(@, repeated), !.eol = 1]

CleanedPages(pages, repeated) ==
  [p \in DOMAIN pages |-> CleanedPage(pages[p], p \in repeated)]

\* The text of a page keeps what is filtered out of its elements.  What else BasicCleaner
\* and SensitiveMasker do within a text is the subject of TextCleaning; the lines here
\* leave them nothing to do.
Clean ==
  /\ stage = "clean"
  /\ \E repeated \in SUBSET DOMAIN doc.pages :
       doc' = [doc EXCEPT !.pages = CleanedPages(@, repeated)]
  /\ stage' = "validate"
  /\ UNCHANGED <<file, ocr, passed, out>>

Validate ==
  /\ stage = "validate"
  /\ stage' = "generate" /\ passed' = Passed(doc)
  /\ UNCHANGED <<file, doc, ocr, out>>

Generate ==
  /\ stage = "generate"
  /\ stage' = "done" /\ out' = [markdown |-> Markdown(doc), metadata |-> Metadata(doc)]
  /\ UNCHANGED <<file, doc, ocr, passed>>

Next ==
  \/ Parse \/ ParsingRaises
  \/ RecognisePage \/ RecognitionDone \/ RecognitionRaises
  \/ ProcessElements \/ Clean \/ Validate \/ Generate

Spec == Init /\ [][Next]_vars

=============================================================================
