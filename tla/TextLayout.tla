------------------------------- MODULE TextLayout -------------------------------
(***************************************************************************)
(* layout() of font.rs: how a text is broken into lines for a cell of the  *)
(* panel.  A glyph is told apart by whether it is a blank and by how far   *)
(* it advances, kerning included; advances are integers, not f32.          *)
(* Positions count from 1 and a range ends before its `end`.  A text is at *)
(* most 48 bytes (DisplayString), so that none of the vectors of 64        *)
(* overflows.                                                              *)
(***************************************************************************)
EXTENDS Integers, Sequences, FiniteSetsExt

CONSTANTS
    Advances,      \* the advances of the font's glyphs
    BlankAdvance,  \* that of ' '
    max_width,     \* the width of the cell
    MaxText        \* bound on the length of a text

\* The cells of the dashboard are wider than any glyph they show.
ASSUME LayoutAssumption ==
    /\ max_width \in Nat /\ MaxText \in Nat
    /\ Advances \subseteq 1..max_width /\ BlankAdvance \in 1..max_width

VARIABLES
    glyphs,        \* the text
    at,            \* the glyph at which the loop over the words is
    word_end,      \* the end of the word that is being broken up; 0 if none is
    lines,         \* the finished lines, and of the line in progress
    range_start,   \*   where it starts,
    range_width,   \*   its width, and
    width_before_last_blank,
    finished

vars == <<glyphs, at, word_end, lines, range_start, range_width,
          width_before_last_blank, finished>>

-----------------------------------------------------------------------------

SourceGlyphs == [blank : {TRUE}, advance : {BlankAdvance}]
                  \cup [blank : {FALSE}, advance : Advances]

\* Where the pen is before each glyph of a text, and after the last one.
Pen(text) ==
    LET pen[i \in 1 .. Len(text) + 1] == IF i = 1 THEN 0 ELSE pen[i - 1] + text[i - 1].advance
    IN  pen

WidthOf(text, start, end) == Pen(text)[end] - Pen(text)[start]

\* A blank is a word of its own; other words reach to the next blank.
WordEnd(text, start) ==
    LET next == {i \in start + 1 .. Len(text) : text[start].blank \/ text[i].blank}
    IN  Min(next \cup {Len(text) + 1})

Word == [start |-> at, end |-> WordEnd(glyphs, at), blank |-> glyphs[at].blank,
         width |-> WidthOf(glyphs, at, WordEnd(glyphs, at))]

Line(end, width) == [start |-> range_start, end |-> end, width |-> width]

\* A blank may stick out of the cell.
FitsTight(word) == range_width + word.width < max_width
FitsAnyWord(word) == range_width <= max_width
Fits(word) ==
    \/ range_width + word.width <= max_width
    \/ word.blank /\ range_width <= max_width

\* The end and the width of a line that `word` does not join: without the
\* blank before the word.
EndedOldWidth(word) ==
    [end |-> IF word.start > 1 /\ glyphs[word.start - 1].blank
             THEN word.start - 1 ELSE word.start,
     width |-> range_width]
Ended(word) ==
    IF word.start > 1 /\ glyphs[word.start - 1].blank
    THEN [end |-> word.start - 1, width |-> width_before_last_blank]
    ELSE [end |-> word.start, width |-> range_width]

-----------------------------------------------------------------------------

Init ==
    /\ glyphs \in UNION {[1..n -> SourceGlyphs] : n \in 0..MaxText}
    /\ at = 1 /\ word_end = 0
    /\ lines = <<>> /\ range_start = 1 /\ range_width = 0
    /\ width_before_last_blank = 0
    /\ finished = FALSE

\* The loop over the words is at its next word.
AtWord == ~finished /\ word_end = 0 /\ at <= Len(glyphs)

Extend ==
    /\ AtWord /\ Fits(Word)
    /\ range_width' = range_width + Word.width
    /\ width_before_last_blank' =
          IF Word.blank THEN range_width ELSE width_before_last_blank
    /\ at' = Word.end
    /\ UNCHANGED <<glyphs, word_end, lines, range_start, finished>>

\* A word that no line can hold starts on a line of its own ...
BreakWord ==
    /\ AtWord /\ ~Fits(Word) /\ Word.width > max_width
    /\ word_end' = Word.end
    /\ IF range_width > 0
       THEN /\ lines' = Append(lines, Line(Word.start, range_width))
            /\ range_start' = Word.start
            /\ range_width' = 0
       ELSE UNCHANGED <<lines, range_start, range_width>>
    /\ UNCHANGED <<glyphs, at, width_before_last_blank, finished>>

\* ... and breaks between two glyphs.
BreakGlyph ==
    /\ word_end # 0
    /\ LET advance == glyphs[at].advance
       IN  IF range_width + advance <= max_width
           THEN /\ range_width' = range_width + advance
                /\ UNCHANGED <<lines, range_start>>
           ELSE /\ lines' = IF range_start < at
                            THEN Append(lines, Line(at, range_width)) ELSE lines
                /\ range_start' = at
                /\ range_width' = advance
    /\ at' = at + 1
    /\ word_end' = IF at + 1 = word_end THEN 0 ELSE word_end
    /\ UNCHANGED <<glyphs, width_before_last_blank, finished>>

NextLine ==
    /\ AtWord /\ ~Fits(Word) /\ Word.width <= max_width
    /\ lines' = IF range_width > 0 /\ range_start < Ended(Word).end
                THEN Append(lines, Line(Ended(Word).end, Ended(Word).width))
                ELSE lines
    /\ range_start' = Word.start
    /\ range_width' = IF Word.blank THEN 0 ELSE Word.width
    /\ at' = Word.end
    /\ UNCHANGED <<glyphs, word_end, width_before_last_blank, finished>>

WithoutLastLine == lines
WithLastLine ==
    IF range_start <= Len(glyphs) /\ range_width > 0
    THEN Append(lines, Line(Len(glyphs) + 1, range_width)) ELSE lines

Finish ==
    /\ ~finished /\ word_end = 0 /\ at > Len(glyphs)
    /\ finished' = TRUE
    /\ lines' = WithLastLine
    /\ UNCHANGED <<glyphs, at, word_end, range_start, range_width,
                   width_before_last_blank>>

Next == Extend \/ BreakWord \/ BreakGlyph \/ NextLine \/ Finish

Spec == Init /\ [][Next]_vars

-----------------------------------------------------------------------------
(* Properties. *)

\* Every letter of the text is drawn, once and in the order of the text: what
\* the branches of the loop leave out between two lines is blanks.
EveryLetterDrawn ==
    /\ \A k \in 1 .. Len(lines) - 1 : lines[k].end <= lines[k + 1].start
    /\ finished => \A i \in DOMAIN glyphs : ~glyphs[i].blank =>
           \E k \in DOMAIN lines : i \in lines[k].start .. lines[k].end - 1

\* The texts without two blanks in a row.  The second blank at the end of a
\* line starts the next one with a width of 0: that line is longer than the
\* code counts, by the blank.
BlanksApart ==
    \A i \in 1 .. Len(glyphs) - 1 : ~(glyphs[i].blank /\ glyphs[i + 1].blank)

\* Trailing blanks aside, a line fits the cell.
LinesFit ==
    BlanksApart =>
      \A k \in DOMAIN lines :
          LET letters == {i \in lines[k].start .. lines[k].end - 1 : ~glyphs[i].blank}
          IN  letters # {} => WidthOf(glyphs, lines[k].start, Max(letters) + 1) <= max_width

\* The width by which visit_layout centres or right-aligns a line is that of
\* the glyphs it draws.
WidthIsDrawn ==
    BlanksApart =>
      \A k \in DOMAIN lines :
          lines[k].width = WidthOf(glyphs, lines[k].start, lines[k].end)

\* A line ends only where the next word, or the next glyph of a word that is
\* wider than the cell, does not fit any more.
BreaksAreNeeded ==
    \A k \in 1 .. Len(lines) - 1 :
        LET next == lines[k + 1].start
            in_word == next > 1 /\ ~glyphs[next - 1].blank /\ ~glyphs[next].blank
        IN  WidthOf(glyphs, lines[k].start,
                    IF in_word THEN next + 1 ELSE WordEnd(glyphs, next)) > max_width

=============================================================================
