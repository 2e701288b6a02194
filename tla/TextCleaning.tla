---------------------------- MODULE TextCleaning ----------------------------
(***************************************************************************)
(* What the cleaners do to the characters of one text: BasicCleaner,       *)
(* ContentFilter within a text, SensitiveMasker.  StructureFixer comes     *)
(* third and puts a blank or a line end between texts it joins, which      *)
(* nothing here looks across.                                              *)
(*                                                                         *)
(* A text is a sequence of tokens: characters, or stretches of characters  *)
(* that matter as a whole.                                                 *)
(*   blank, lf, cr, ctl     a blank, line feed, carriage return, control   *)
(*                          character                                      *)
(*   moji1, moji2           the two parts of an artefact of encoding       *)
(*   bang                   an exclamation mark                            *)
(*   word                   Latin letters                                  *)
(*   page, draft            the word of a page number; a watermark         *)
(*   confidential           a watermark that is a legal phrase as well     *)
(*   unlicensed, forbidden  the two parts of a legal phrase, in Han        *)
(*                          characters, with anything between them         *)
(*   notice                 a copyright sign                               *)
(*   three, eight, id       3 digits as a mobile number begins with, 8     *)
(*                          digits, the 18 of an identity card             *)
(*   host                   "@" with the name of a host, once in a text    *)
(*   mask                   a replacement                                  *)
(***************************************************************************)
EXTENDS Naturals, Sequences, SequencesExt

CONSTANT TextSet  \* the texts tried

VARIABLES source, text, todo

vars == <<source, text, todo>>

-----------------------------------------------------------------------------
(* re.sub and str.strip.                                                   *)

\* The stretches of t, none of them longer than it can be, that consist of tokens
\* in S: what a repeated class of characters matches.
Runs(t, S) ==
  {<<i, j>> \in (DOMAIN t) \X (DOMAIN t) :
     /\ i <= j /\ \A k \in i .. j : t[k] \in S
     /\ i = 1 \/ t[i - 1] \notin S
     /\ j = Len(t) \/ t[j + 1] \notin S}

Of(t, m) == SubSeq(t, m[1], m[2])

\* Every match replaced by new.
Sub(t, matches, new) ==
  FlattenSeq([k \in DOMAIN t |->
    IF \E m \in matches : m[1] = k THEN new
    ELSE IF \E m \in matches : m[1] < k /\ k <= m[2] THEN <<>> ELSE <<t[k]>>])

Space == {"blank", "lf", "cr"}

Strip(t) ==
  LET filled == {i \in DOMAIN t : t[i] \notin Space}
  IN  IF filled = {} THEN <<>> ELSE SubSeq(t, Min(filled), Max(filled))

-----------------------------------------------------------------------------
(* BasicCleaner.                                                           *)

\* Artefacts first, control characters after them.
FixEncoding(t) ==
  LET pairs == {<<i, i + 1>> : i \in {k \in 1 .. Len(t) - 1 : t[k] = "moji1" /\ t[k + 1] = "moji2"}}
  IN  SelectSeq(Sub(t, pairs, <<>>), LAMBDA c : c # "ctl")

NormalizePunct(t) == Sub(t, {m \in Runs(t, {"bang"}) : m[1] < m[2]}, <<"bang">>)

\* The lines of a text, which ends where a line feed would.
Lines(t) ==
  LET ends == SetToSortSeq({0, Len(t) + 1} \cup {i \in DOMAIN t : t[i] = "lf"}, <)
  IN  [n \in 1 .. Len(ends) - 1 |-> SubSeq(t, ends[n] + 1, ends[n + 1] - 1)]

SameLine(a, b) == Strip(a) = Strip(b)

\* Of equal lines in a row the first stays; a line is compared with the one before it,
\* left out or not.
RemoveDupLines(t) ==
  LET lines == Lines(t)
      new   == {n \in DOMAIN lines : n = 1 \/ ~SameLine(lines[n - 1], lines[n])}
  IN  FlattenSeq([n \in DOMAIN lines |->
        IF n \notin new THEN <<>> ELSE (IF n = 1 THEN <<>> ELSE <<"lf">>) \o lines[n]])

RemoveBlankLines(t) == Sub(t, {m \in Runs(t, {"lf"}) : m[2] - m[1] >= 2}, <<"lf", "lf">>)

\* Line ends are made line feeds, and blanks in front of them are left out.
NormalizeNl(t) ==
  LET crlf  == {<<i, i + 1>> : i \in {k \in 1 .. Len(t) - 1 : t[k] = "cr" /\ t[k + 1] = "lf"}}
      pairs == Sub(t, crlf, <<"lf">>)
      u     == [i \in DOMAIN pairs |-> IF pairs[i] = "cr" THEN "lf" ELSE pairs[i]]
  IN  Sub(u, {m \in Runs(u, {"blank"}) : m[2] = Len(u) \/ u[m[2] + 1] = "lf"}, <<>>)

CleanText(t) ==
  Strip(NormalizeNl(RemoveBlankLines(RemoveDupLines(NormalizePunct(FixEncoding(t))))))

-----------------------------------------------------------------------------
(* ContentFilter.                                                          *)

Digits  == {"three", "eight", "id"}
Letters == {"word", "page", "draft", "confidential"}
Han     == {"unlicensed", "forbidden"}

\* How many characters a token stands for.
Width == [c \in Letters \cup Han \cup Digits \cup {"host", "mask"} |->
            CASE c \in {"word", "confidential", "host", "mask"} -> 12
              [] c \in {"page", "unlicensed"} -> 4
              [] c = "draft" -> 5
              [] c = "forbidden" -> 2
              [] c = "three" -> 3 [] c = "eight" -> 8 [] c = "id" -> 18]

Length(s) ==
  FoldLeft(LAMBDA n, c : n + (IF c \in DOMAIN Width THEN Width[c] ELSE 1), 0, s)

\* "page" and a number.
IsPageNumber(t) ==
  \E i \in DOMAIN t : /\ t[1] = "page" /\ i > 1 /\ ToSet(SubSeq(t, 2, i - 1)) \subseteq Space
                     /\ ToSet(SubSeq(t, i, Len(t))) \subseteq Digits

\* A short text with one of the words in it.
IsWatermark(t) == ToSet(t) \cap {"draft", "confidential"} # {} /\ Length(t) < 30

\* An empty text, a page number, a watermark, or digits alone.
ShouldRemove(t) ==
  ToSet(t) \subseteq Digits \/ IsPageNumber(t) \/ IsWatermark(t)

\* The legal phrases, and with the one in two parts all from the first of the one to the
\* last of the other on the same line.
LegalPhrases(t) ==
  LET sameLine(i, j) == \A k \in i .. j : t[k] # "lf"
      first(i) == \A k \in 1 .. i - 1 : t[k] = "unlicensed" => ~sameLine(k, i)
      last(j)  == \A k \in j + 1 .. Len(t) : t[k] = "forbidden" => ~sameLine(j, k)
  IN  {<<k, k>> : k \in {i \in DOMAIN t : t[i] = "confidential"}}
        \cup {<<i, j>> \in (DOMAIN t) \X (DOMAIN t) :
                /\ i < j /\ t[i] = "unlicensed" /\ t[j] = "forbidden"
                /\ sameLine(i, j) /\ first(i) /\ last(j)}

\* Copyright signs first, legal phrases after them.
WithoutNotices(t) ==
  LET signed == SelectSeq(t, LAMBDA c : c # "notice")
  IN  Strip(Sub(signed, LegalPhrases(signed), <<>>))

\* A text that is removed, or of which nothing is left, has no tokens.
FilterText(t) == IF ShouldRemove(Strip(t)) THEN <<>> ELSE WithoutNotices(t)

-----------------------------------------------------------------------------
(* SensitiveMasker.                                                        *)

\* Stretches of digits between word boundaries.
Numbers(t) == {m \in Runs(t, Digits \cup Letters \cup Han) : ToSet(Of(t, m)) \subseteq Digits}

Phones(t) == {m \in Numbers(t) : Length(Of(t, m)) = 11 /\ t[m[1]] = "three"}
IdCards(t) == {m \in Numbers(t) : Of(t, m) = <<"id">>}
BankCards(t) == {m \in Numbers(t) : Length(Of(t, m)) \in 16 .. 19}

\* A name, a host, and the letters the name of the host goes on with, between word
\* boundaries: Han characters are of words, and not of names.
Emails(t) ==
  LET words == Runs(t, Digits \cup Letters \cup Han)
      After(h) == {n \in words : n[1] = h + 1}
  IN  {<<i, k>> \in (DOMAIN t) \X (DOMAIN t) : \E h \in DOMAIN t :
         /\ t[h] = "host"
         /\ <<i, h - 1>> \in words /\ ToSet(Of(t, <<i, h - 1>>)) \cap Han = {}
         /\ IF After(h) = {} THEN k = h
            ELSE <<h + 1, k>> \in words /\ ToSet(Of(t, <<h + 1, k>>)) \subseteq Letters}

\* The patterns in their order, each on what the ones before it left.
MaskText(t) ==
  LET Mask(u, matches) == Sub(u, matches, <<"mask">>)
      phones == Mask(t, Phones(t))
      ids    == Mask(phones, IdCards(phones))
      banks  == Mask(ids, BankCards(ids))
  IN  Mask(banks, Emails(banks))

-----------------------------------------------------------------------------
(* Pipeline._stage_clean, for one text.                                    *)

\* Wrong: texts are masked before notices are taken out of them.
MaskEarly == <<"basic_cleaner", "sensitive_masker", "content_filter">>

CleanerList == <<"basic_cleaner", "content_filter", "sensitive_masker">>

Init == source \in TextSet /\ text = source /\ todo = CleanerList

Run(cleaner, Op(_)) ==
  /\ todo # <<>> /\ Head(todo) = cleaner
  /\ todo' = Tail(todo) /\ text' = Op(text)
  /\ UNCHANGED source

Clean  == Run("basic_cleaner", CleanText)
Filter == Run("content_filter", FilterText)
Mask   == Run("sensitive_masker", MaskText)

Next == Clean \/ Filter \/ Mask

Spec == Init /\ [][Next]_vars

=============================================================================
