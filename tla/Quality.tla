------------------------------ MODULE Quality ------------------------------
(***************************************************************************)
(* The scores of the content extractors (internal/extractor/quality.go,    *)
(* plaintext.go, xml.go, extractor.go).  A text is a sequence of passages; *)
(* a passage repeats a line of one kind, and a score depends on the        *)
(* measures of its lines only.  Scores are in units of 1/Whole, rounded    *)
(* down: at most one summand is not exact, so a score passes a threshold   *)
(* that is a multiple of 1/Whole exactly when the rounded one does.        *)
(***************************************************************************)
EXTENDS SequenceTools

CONSTANTS
    Kind,           \* kinds of lines
    LineRunes,      \* the length of every line in characters
    Measure         \* per kind and line: bytes, words, stopwords among them, marks
                    \* (. ! ?), ends (runs of marks), pauses (. , !), legal phrases

Measures == {"bytes", "words", "stops", "marks", "ends", "pauses", "legal"}

ASSUME MeasureAssumption ==
    /\ LineRunes \in Nat \ {0}
    /\ Measure \in [Kind -> [Measures -> Nat]]
    /\ \A kind \in Kind : Measure[kind]["stops"] <= Measure[kind]["words"]

Whole == 12000
Percent(points) == (Whole \div 100) * points

AtMost(limit, value) == IF value < limit THEN value ELSE limit

Lines(text) == SumOf([i \in DOMAIN text |-> text[i].lines])
Total(measure, text) ==
    SumOf([i \in DOMAIN text |-> text[i].lines * Measure[text[i].kind][measure]])

\* truncateRunes, for a limit that falls between two lines.
Truncate(text, maxRunes) ==
    LET room(i) == maxRunes \div LineRunes - Lines(SubSeq(text, 1, i - 1))
        cut == [i \in DOMAIN text |-> [text[i] EXCEPT !.lines = AtMost(room(i), @)]]
    IN  IF maxRunes <= 0 THEN text ELSE Only(cut, {passage \in ToSet(cut) : passage.lines > 0})

-----------------------------------------------------------------------------
(* quality.go *)

\* With almost no function words a text is labels or navigation.
NoProse(words, stops) == 20 * stops <= words

\* 0.45 * proseScore, by the share of function words.
ProseScore(words, stops) ==
    CASE NoProse(words, stops) -> 0
      [] ~NoProse(words, stops) /\ 5 * stops < words ->
            (Percent(45) * (20 * stops - words)) \div (3 * words)
      [] 5 * stops >= words /\ 20 * stops <= 11 * words -> Percent(45)
      [] 20 * stops > 11 * words /\ 4 * stops < 3 * words ->
            (Percent(45) * (95 * words - 100 * stops)) \div (40 * words)
      [] OTHER -> Percent(45) \div 2

Structure(marks, paragraphs) ==
    (IF marks >= 2 THEN Percent(10) ELSE 0)
        + (IF paragraphs > 1 \/ marks >= 4 THEN Percent(10) ELSE 0)

UncappedScore(noProse, score) == AtMost(Whole, score)
CappedScore(noProse, score) == AtMost(IF noProse THEN Percent(20) ELSE Whole, score)

ScoreContentQuality(text, viaReadability, paragraphs, hasTitle) ==
    LET words == Total("words", text)
        stops == Total("stops", text)
        score == ProseScore(words, stops)
                    + Structure(Total("marks", text), paragraphs)
                    + AtMost(Percent(15), 15 * words)
                    + (IF viaReadability THEN Percent(12) ELSE 0)
                    + (IF hasTitle THEN Percent(8) ELSE 0)
    IN  IF words = 0 THEN 0 ELSE CappedScore(NoProse(words, stops), score)

-----------------------------------------------------------------------------
(* plaintext.go and xml.go *)

ScorePlainText(text, minLength, paragraphs) ==
    LET bytes == Total("bytes", text)
        words == Total("words", text)
        ends == Total("ends", text)
    IN  AtMost(Whole,
            (IF bytes >= minLength THEN AtMost(Percent(40), (24 * bytes) \div 5) ELSE 0)
          + (IF words > 20 THEN AtMost(Percent(30), 12 * words) ELSE 0)
          + (IF ends > 3 THEN Percent(10) ELSE 0)
          + (IF paragraphs > 1 THEN Percent(10) ELSE 0)
          + (IF ends > 0 /\ words \in 8 * ends .. 25 * ends THEN Percent(10) ELSE 0))

\* The title is worth points too, but the caller never passes one.
ScoreXML(text, minLength, paragraphs) ==
    LET bytes == Total("bytes", text)
        words == Total("words", text)
        half == Percent(25) \div 2
    IN  AtMost(Whole,
            (IF bytes >= minLength THEN AtMost(Percent(35), (14 * bytes) \div 5) ELSE 0)
          + (IF words > 15 THEN AtMost(Percent(25), 12 * words) ELSE 0)
          + (IF Total("ends", text) > 2 THEN half ELSE 0)
          + (IF paragraphs > 1 THEN half ELSE 0))

-----------------------------------------------------------------------------
(* extractor.go *)

\* ScoreContentByLength, of one area of a page against another, in thousandths.
ScoreContentByLength(text, minLength) ==
    LET bytes == Total("bytes", text)
        formula == IF Total("legal", text) > 0 THEN 4 ELSE 10
        sparse == IF 200 * Total("pauses", text) < bytes THEN 5 ELSE 10
        range == IF bytes \in 500..5000 THEN 15 ELSE 10
    IN  IF bytes < minLength THEN 0 ELSE bytes * formula * sparse * range
=============================================================================
