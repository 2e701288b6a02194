------------------------------ MODULE Quality ------------------------------
(***************************************************************************)
(* QualityValidator: the four scores of a document and whether it passes,  *)
(* with the weights of config/settings.yaml.  Scores are integers: the     *)
(* code's 1.0 is Unit, and divisions are exact for up to seven elements.   *)
(***************************************************************************)
EXTENDS Extraction

\* 50000 characters times the least common multiple of 1 to 7.
Unit == 50000 * 420

AllElements(doc) == Flat([p \in DOMAIN doc.pages |-> doc.pages[p].elements])
TextLength(doc) == Total(Lengths(doc.pages))

Clamped(score) == Max({0, Min({Unit, score})})

\* Tenths of a Unit that a condition adds.
Plus(tenths, condition) == IF condition THEN tenths * (Unit \div 10) ELSE 0

\* The lines that are not empty, each a sentence.
Sentences(text) == Selected(text, LAMBDA n : n > 0)

\* The length of the text, less what empty pages take away.
Completeness(doc) ==
  LET total == TextLength(doc)
      empty == {p \in DOMAIN doc.pages : Sentences(doc.pages[p].text) = <<>>}
  IN  IF total < 50 THEN 0
      ELSE Clamped(Max({Unit \div 5, Min({Unit, total * 420})})
                   - (3 * Unit * Cardinality(empty)) \div (10 * Len(doc.pages)))

\* Wrong: what is no text is not looked at.
NotEmpty(e) == IsText(e) => e.size > 0

\* Only texts have the attribute that is asked for.  (The texts of the model are letters;
\* one made of other characters by more than half is noise as well.)
HasText(e) == IsText(e) /\ e.size > 0

\* The share of elements that are not noise: tables, images and code count as noise.
Purity(doc) ==
  LET all   == AllElements(doc)
      clear == Selected(all, HasText)
  IN  IF all = <<>> THEN 0 ELSE (Unit * Len(clear)) \div Len(all)

\* Not too many headings and not too few, and elements of more than one type.
Structure(doc) ==
  LET all      == AllElements(doc)
      headings == Len(Selected(all, LAMBDA e : e.role = "heading"))
      types    == {IF IsText(all[i]) THEN "text" ELSE all[i].role : i \in DOMAIN all}
  IN  IF all = <<>> THEN 0
      ELSE Clamped(Plus(5, TRUE)
                   + Plus(3, 100 * headings >= 2 * Len(all) /\ 10 * headings <= 3 * Len(all))
                   - Plus(2, 100 * headings < Len(all))
                   + Plus(2, Cardinality(types) >= 3) + Plus(1, Cardinality(types) = 2))

\* The lengths of the sentences, their mean and how much they vary.
Coherence(doc) ==
  LET lengths  == Flat([p \in DOMAIN doc.pages |-> Sentences(doc.pages[p].text)])
      n        == Len(lengths)
      sum      == Total(lengths)
      square   == sum * sum
      variance == n * Total([i \in DOMAIN lengths |-> lengths[i] * lengths[i]]) - square
  IN  IF n = 0 THEN 3 * (Unit \div 10)
      ELSE Clamped(Plus(5, TRUE) + Plus(2, sum >= 5 * n) - Plus(3, sum < 3 * n)
                   + Plus(2, 100 * variance >= 9 * square /\ 4 * variance <= 9 * square)
                   + Plus(1, 100 * variance < square)
                   - Plus(2, n < 3))

\* Twenty times the weighted sum, and the threshold of 0.6.
Passed(doc) ==
  6 * Completeness(doc) + 5 * Purity(doc) + 5 * Structure(doc) + 4 * Coherence(doc) >= 12 * Unit

=============================================================================
