------------------------------ MODULE EnergyGraph ------------------------------
(***************************************************************************)
(* The graph of the day (render_graph of renderer.rs): above an axis the   *)
(* energy that was exported and, on top of it, imported in each hour;      *)
(* below it the solar production.  The fullest hours of the two sides,     *)
(* but at least 1 kWh each, share the height of the graph between them.    *)
(*                                                                         *)
(* Energies are whole Wh, and quotients are exact before they are cut to   *)
(* pixels; the code divides f32 and f64.                                   *)
(***************************************************************************)
EXTENDS Integers, FiniteSetsExt

CONSTANT Hour      \* the hours that have a bar: 0..23

ASSUME GraphHourAssumption == Hour \subseteq 0..23

\* What is drawn, in the order of the calls: fills and lines of a colour, and the
\* cells of texts and icons.
Draw(kind, colour, x, y, width, height) ==
    [kind |-> kind, colour |-> colour, x |-> x, y |-> y, width |-> width, height |-> height]

Fill(colour, x, y, width, height) == Draw("fill", colour, x, y, width, height)

-----------------------------------------------------------------------------

\* The graph begins at pixel row 111 and has 88 of them, PADDING included.
GraphTop == 111 + 7
graph_height == 88 - 7 * 2

max_positive_separate(energy) ==
    Max({1000} \cup {energy.export[h] : h \in Hour} \cup {energy.import[h] : h \in Hour})
max_positive_of_peaks(energy) ==
    Max({1000} \cup {energy.export[h] : h \in Hour}) + Max({0} \cup {energy.import[h] : h \in Hour})
max_positive(energy) == Max({1000} \cup {energy.export[h] + energy.import[h] : h \in Hour})
max_negative(energy) == Max({1000} \cup {energy.solar[h] : h \in Hour})

positive_height(energy) ==
    (graph_height * max_positive(energy)) \div (max_positive(energy) + max_negative(energy))
negative_height_halved(energy) == graph_height \div 2
negative_height(energy) ==
    (graph_height * max_negative(energy)) \div (max_positive(energy) + max_negative(energy))

AxisY(energy) == GraphTop + positive_height(energy)

\* `as u32`: the pixels of a value, none for one below zero.
Pixels(value, max, height) == IF value > 0 THEN (value * height) \div max ELSE 0

SolarHeight(energy, h) == Pixels(energy.solar[h], max_negative(energy), negative_height(energy))
ExportHeight(energy, h) ==
    Pixels(energy.export[h], max_positive(energy), positive_height(energy))
ImportHeight(energy, h) ==
    Pixels(energy.import[h], max_positive(energy), positive_height(energy))

\* A dotted line for every 2 kWh, on both sides of the axis.
Guides(max) == {guide \in {2000 * n : n \in 1 .. max \div 2000} : guide < max}
GuideLines(energy) ==
    {Draw("line", "black", 1, y, 397, 1) : y \in
        {AxisY(energy) + Pixels(guide, max_negative(energy), negative_height(energy)) :
            guide \in Guides(max_negative(energy))}
          \cup
        {AxisY(energy) - Pixels(guide, max_positive(energy), positive_height(energy)) :
            guide \in Guides(max_positive(energy))}}

bar_width == (398 - 25) \div 24
BarX(h) == (398 - 25 - bar_width * 24) \div 2 + 1 + 2 + h * (bar_width + 1)

Bar(colour, h, y, height) ==
    IF height > 0 THEN {Fill(colour, BarX(h), y, bar_width, height)} ELSE {}
Bars(energy, h) ==
    Bar("black", h, AxisY(energy), SolarHeight(energy, h))
      \cup Bar("white", h, AxisY(energy) + 1 - ExportHeight(energy, h), ExportHeight(energy, h))
      \cup Bar("black", h, AxisY(energy) + 1 - (ImportHeight(energy, h) + ExportHeight(energy, h)),
               ImportHeight(energy, h))

Axis(energy) == Draw("line", "black", 1, AxisY(energy), 398, 1)
GraphDraws(energy) ==
    {Axis(energy)} \cup GuideLines(energy) \cup UNION {Bars(energy, h) : h \in Hour}

-----------------------------------------------------------------------------
(* Properties of the graph of one day. *)

NoneNegative(energy) ==
    \A h \in Hour : energy.export[h] >= 0 /\ energy.import[h] >= 0 /\ energy.solar[h] >= 0

InGraph(draw) == draw.y >= GraphTop /\ draw.y + draw.height <= GraphTop + graph_height + 1

Difference(m, n) == IF m > n THEN m - n ELSE n - m

=============================================================================
