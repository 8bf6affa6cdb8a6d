----------------------------- MODULE MCRendering -----------------------------
(***************************************************************************)
(* What the renderer does with a status: a behaviour of this run lays out  *)
(* one text, or draws one frame.                                           *)
(***************************************************************************)
EXTENDS TextLayout, DashboardFrame

BarHours == {12, 23}

\* Around the limits of the scale and of its guides, and far beyond them.
Wh == {-3000, 0, 1, 999, 1500, 2001, 5500}

OfHours(first, last) == [h \in Hour |-> IF h = 12 THEN first ELSE last]

Days ==
    {[import |-> OfHours(i, 4100), export |-> OfHours(e, 0), solar |-> OfHours(s, 4100)] :
        i, e, s \in Wh}

NoFrame == row = "done" /\ painted = <<>> /\ energy = CHOOSE day \in Days : TRUE

NoText ==
    /\ glyphs = <<>> /\ at = 1 /\ word_end = 0
    /\ lines = <<>> /\ range_start = 1 /\ range_width = 0
    /\ width_before_last_blank = 0 /\ finished = TRUE

RenderingInit == (Init /\ NoFrame) \/ (NoText /\ FrameInit)

RenderingNext == (Next /\ UNCHANGED frameVars) \/ (FrameNext /\ UNCHANGED vars)

RenderingSpec == RenderingInit /\ [][RenderingNext]_<<vars, frameVars>>

=============================================================================
