----------------------------- MODULE MCDocument -----------------------------
(***************************************************************************)
(* Constants for checking DocumentPipeline: small files of every format,   *)
(* made of a few kinds of items.                                           *)
(***************************************************************************)
EXTENDS DocumentProps

CONSTANTS MaxLines, MaxItems

Of(role, n) == [Item EXCEPT !.role = role, !.size = n]
Text(n)     == Of("paragraph", n)
Heading(l)  == [Of("heading", 8) EXCEPT !.level = l]
PageNumber  == [Text(5) EXCEPT !.noise = TRUE]
Picture     == Of("image", 0)
Broken      == [Picture EXCEPT !.loads = FALSE]
Container   == Of("container", 60)

\* A table with cells of given lengths.
Cells(sizes) ==
  [r \in DOMAIN sizes |-> [c \in DOMAIN sizes[r] |->
     [Cell EXCEPT !.origin = <<r, c>>, !.size = sizes[r][c]]]]
TableOf(sizes) == [Of("table", 0) EXCEPT !.table = Table(Cells(sizes))]
WithHeader == TableOf(<<<<8, 8>>, <<6000, 0>>, <<0, 0>>>>)
NoHeader   == TableOf(<<<<8, 0>>, <<0, 1200>>>>)
NoRows     == TableOf(<<>>)

\* Items in their places.
Put(page, slot, items) ==
  [i \in DOMAIN items |-> [items[i] EXCEPT !.parts = <<<<page, slot, i>>>>]]

LineFiles ==
  [format : {"md"}, eol : {"lf", "crlf"}, lines : BoundedSeq(DOMAIN LineSize, MaxLines)]
    \cup [format : {"txt"}, lines : BoundedSeq({"plain", "blank"}, MaxLines)]

DocxItems == {Text(70), Text(130), PageNumber, Heading(1), Heading(0), Text(0),
              WithHeader, Container}

DocxFiles ==
  {[format |-> "docx", title |-> TRUE,
    pages |-> <<[items |-> Put(1, "item", s), pictures |-> Put(1, "picture", p)]>>] :
     s \in BoundedSeq(DocxItems, MaxItems), p \in {<<>>, <<Picture>>, <<Broken, Picture>>}}

Slides(n) ==
  {[items |-> Put(n, "item", s), notes |-> Put(n, "notes", m)] :
     s \in BoundedSeq({Heading(0), Text(130), NoHeader, Picture, Broken, Container}, 2),
     m \in {<<>>, <<Of("quote", 40)>>}}

Sheets(n) ==
  {[rows |-> Cells(s)] : s \in BoundedSeq({<<0, 0, 8>>, <<8, 0, 0>>, <<60, 8, 8>>}, 3)}

\* Blocks of the text layer, with lines of given lengths.
Block(lines, part) == [lines |-> lines, item |-> [Text(0) EXCEPT !.parts = <<part>>]]
NumberBlock(part)  == [Block(<<5>>, part) EXCEPT !.item.noise = TRUE]

\* One of them may repeat the text of a table.
PdfBlocks(n) ==
  {<<>>, <<Block(<<20>>, <<n, "block", 1>>)>>, <<NumberBlock(<<n, "block", 1>>)>>,
   <<Block(<<70>>, <<n, "block", 1>>), Block(<<60, 60, 10>>, <<n, "table", 2>>)>>}

PdfPages(n) ==
  {[tables |-> Put(n, "table", t), pictures |-> Put(n, "picture", p), ocr |-> Put(n, "ocr", o),
    blocks |-> b] :
     t \in {<<>>, <<NoRows, WithHeader, NoHeader>>}, p \in {<<>>, <<Picture>>}, b \in PdfBlocks(n),
     o \in {<<>>, <<Text(130), Text(30)>>}}

Paged(format, one, two) ==
  {[format |-> format, title |-> FALSE, pages |-> <<p>>] : p \in one}
    \cup {[format |-> format, title |-> TRUE, pages |-> <<p, q>>] : p \in one, q \in two}

\* What the other library finds on the first pages of a PDF.
Pdfs(files) == {[sample |-> n] @@ f : n \in {0, 60}, f \in files}

\* Files with a page more than is read.
LongPdfs ==
  {[format |-> "pdf", title |-> FALSE, pages |-> <<p, q, p>>] :
     p \in {x \in PdfPages(1) : x.blocks = <<>>}, q \in {x \in PdfPages(2) : x.tables = <<>>}}

Images == {[format |-> "image", title |-> FALSE, pages |-> <<[ocr |-> Put(1, "ocr", o)]>>] :
             o \in BoundedSeq({Text(70), Text(130), PageNumber}, 3)}

MCFiles ==
  LineFiles \cup DocxFiles \cup Images
    \cup Paged("pptx", Slides(1), Slides(2)) \cup Paged("xlsx", Sheets(1), Sheets(2))
    \cup Pdfs(LongPdfs \cup Paged("pdf", PdfPages(1), PdfPages(2))) \cup {[format |-> NoFormat]}

=============================================================================
