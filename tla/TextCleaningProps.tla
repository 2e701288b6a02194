-------------------------- MODULE TextCleaningProps --------------------------
(***************************************************************************)
(* What the cleaners of a text guarantee.                                  *)
(***************************************************************************)
EXTENDS TextCleaning

\* The words ContentFilter has a pattern for, besides that of page numbers.
Watched == {"draft", "confidential", "unlicensed"}

\* Whatever was removed between the parts of a number or an address on the way, none
\* that stands between word boundaries comes out; and in a text without addresses and
\* without the words of a watermark or a legal phrase every letter BasicCleaner left is
\* still there, but that of a page number.
NothingSensitiveLeft ==
  LET Words(t) == SelectSeq(t, LAMBDA c : c = "word")
  IN  todo = <<>> =>
        /\ Phones(text) \cup IdCards(text) \cup BankCards(text) \cup Emails(text) = {}
        /\ (Watched \cup {"host"}) \cap ToSet(source) = {} =>
             Words(text) = Words(CleanText(source))

=============================================================================
