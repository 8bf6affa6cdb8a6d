---------------------------- MODULE DashboardFrame ----------------------------
(***************************************************************************)
(* One frame of the dashboard (render() of renderer.rs): five rows, drawn  *)
(* one after the other onto a white panel of 400 by 300 pixels.  What is   *)
(* drawn later covers what was drawn before.                               *)
(***************************************************************************)
EXTENDS EnergyGraph, Sequences

CONSTANT Energies  \* the days whose graph is drawn

ASSUME EnergiesAssumption ==
    Energies \subseteq [{"import", "export", "solar"} -> [Hour -> Int]]

VARIABLES
    row,           \* the row that is drawn next
    painted,       \* what is drawn so far, in the order of the calls; the draws of the
                   \* graph, which has no text, are one batch
    energy         \* the hourly series of the status

frameVars == <<row, painted, energy>>

Rows == <<"energy", "battery", "graph", "status", "heatpump", "done">>

Text(colour, x, y, width, height) == Draw("text", colour, x, y, width, height)
Separator(y) == Draw("line", "black", 1, y, 398, 1)

\* An icon on a black square.
inverted_icon(x, y) == << Fill("black", x, y, 75, 75), Text("white", x, y, 75, 75) >>

\* A value and, below it, a smaller one.
text_with_subtext(colour, x, y, width, height) ==
    << Text(colour, x, y, width, 45), Text(colour, x, y + 44, width, height - 45) >>

FrameInit ==
    /\ row = "energy" /\ painted = <<>>
    /\ energy \in Energies

PaintBatches(here, next, batches) ==
    /\ row = here /\ row' = next
    /\ painted' = painted \o batches
    /\ UNCHANGED energy

\* One draw after the other.
InTurn(draws) == [n \in DOMAIN draws |-> {draws[n]}]

Paint(here, next, draws) == PaintBatches(here, next, InTurn(draws))

render_energy_row ==
    \E split_solar_production \in BOOLEAN :
        Paint("energy", "battery",
            inverted_icon(1, 1) \o text_with_subtext("black", 75, 1, 124, 75)
              \o inverted_icon(200, 1)
              \o (IF split_solar_production
                  THEN << Text("black", 277, 1, 62, 50), Text("black", 333, 1, 62, 50),
                          Text("black", 274, 50, 124, 25) >>
                  ELSE text_with_subtext("black", 274, 1, 124, 75))
              \o << Separator(75) >>)

\* An empty battery shows no segment, a full one four.
draw_battery_icon(segments) ==
    << Fill("black", 1, 75, 37, 37), Draw("line", "white", 7, 87, 23, 13),
       Fill("white", 30, 91, 3, 5) >>
      \o [n \in 1..segments |-> Fill("white", 10 + (n - 1) * 5, 90, 3, 7)]

render_battery_row ==
    \E segments \in 0..4 :
        Paint("battery", "graph",
            draw_battery_icon(segments)
              \o << Text("black", 37, 75, 120, 37), Text("black", 157, 75, 120, 37),
                    Text("black", 277, 75, 120, 37) >>
              \o << Separator(111) >>)

render_graph == PaintBatches("graph", "status", <<GraphDraws(energy)>>)

render_status_bar ==
    Paint("status", "heatpump",
        << Text("black", 8, 199, 384, 25), Text("black", 8, 199, 384, 25) >>)

\* The cell of a heat pump that recommends or forces is inverted.
Inverted(on, x) == IF on THEN << Fill("black", x, 223, 113, 75) >> ELSE <<>>
Foreground(on) == IF on THEN "white" ELSE "black"

outdoor_cell(recommend) ==
    Inverted(recommend, 1) \o text_with_subtext(Foreground(recommend), 1, 223, 113, 75)

heatpump_cell_filled_last(backup) ==
    << Text("white", 114, 223, 172, 38), Text("white", 114, 260, 172, 38) >>
      \o (IF backup THEN << Text("white", 114, 230, 32, 32) >> ELSE <<>>)
      \o << Fill("black", 114, 223, 172, 75) >>
heatpump_cell(backup) ==
    << Fill("black", 114, 223, 172, 75),
       Text("white", 114, 223, 172, 38), Text("white", 114, 260, 172, 38) >>
      \o (IF backup THEN << Text("white", 114, 230, 32, 32) >> ELSE <<>>)

indoor_cell(force) ==
    Inverted(force, 286)
      \o << Text(Foreground(force), 293, 223, 32, 38), Text(Foreground(force), 293, 260, 32, 38),
            Text(Foreground(force), 318, 223, 81, 38), Text(Foreground(force), 318, 260, 81, 38) >>

render_heatpump_row ==
    \E recommend, force, backup \in BOOLEAN :
        Paint("heatpump", "done",
            outdoor_cell(recommend) \o heatpump_cell(backup) \o indoor_cell(force)
              \o << Separator(223) >>)

FrameNext ==
    \/ render_energy_row \/ render_battery_row \/ render_graph
    \/ render_status_bar \/ render_heatpump_row

FrameSpec == FrameInit /\ [][FrameNext]_frameVars

-----------------------------------------------------------------------------
(* Properties. *)

OnPanel(draw) ==
    /\ draw.x >= 0 /\ draw.x + draw.width <= 400
    /\ draw.y >= 0 /\ draw.y + draw.height <= 300

\* Neighbouring cells share a row or a column of pixels: a text is looked for
\* inside the border of its cell.
Meets(draw, cell) ==
    /\ draw.x < cell.x + cell.width - 1 /\ cell.x + 1 < draw.x + draw.width
    /\ draw.y < cell.y + cell.height - 1 /\ cell.y + 1 < draw.y + draw.height

Covers(draw, cell) ==
    /\ draw.x <= cell.x + 1 /\ cell.x + cell.width - 1 <= draw.x + draw.width
    /\ draw.y <= cell.y + 1 /\ cell.y + cell.height - 1 <= draw.y + draw.height

\* The cells that the code lays over one another: of the two solar productions (6 pixels),
\* of date and time (all), of the icon of the backup heater and the two texts beside it,
\* and of the icons and the texts of the indoor cell.  Only how wide their contents are
\* and how they are aligned keeps these apart, which is not modelled.
LaidOver ==
    {{<<277, 1, 62, 50>>, <<333, 1, 62, 50>>},
     {<<8, 199, 384, 25>>},
     {<<114, 230, 32, 32>>, <<114, 223, 172, 38>>},
     {<<114, 230, 32, 32>>, <<114, 260, 172, 38>>},
     {<<293, 223, 32, 38>>, <<318, 223, 81, 38>>},
     {<<293, 260, 32, 38>>, <<318, 260, 81, 38>>}}

Place(draw) == <<draw.x, draw.y, draw.width, draw.height>>
AreLaidOver(draw, cell) == {Place(draw), Place(cell)} \in LaidOver

\* The text of a cell in the i-th batch: no fill or line is drawn over the cell, nor
\* another text into it unless the two are laid over one another on purpose; a black
\* text has no black below it, and a white one has black all over its cell.
IsReadable(batches, i, cell) ==
    /\ \A j \in DOMAIN batches : \A draw \in batches[j] : Meets(draw, cell) =>
          IF draw.kind = "text" THEN j # i => AreLaidOver(draw, cell)
                                ELSE j < i /\ draw.colour # cell.colour
    /\ cell.colour = "white" =>
          \E j \in 1 .. i - 1 : \E draw \in batches[j] :
              draw.kind = "fill" /\ Covers(draw, cell)

Readable(batches) ==
    \A i \in DOMAIN batches : \A cell \in batches[i] :
        cell.kind = "text" => IsReadable(batches, i, cell)

\* Whatever the status shows, every text is on the panel, has the background it is
\* read on, and has its cell to itself, but for the cells laid over one another.  Days
\* with a bucket below zero are excepted: the bar of the other direction then leaves
\* the graph, and crosses the rows above (renderer.rs:306-318).
TextsStayReadable ==
    NoneNegative(energy) =>
      /\ \A i \in DOMAIN painted : \A draw \in painted[i] : OnPanel(draw)
      /\ Readable(painted)

\* The bars of an hour are stacked: two separately cut heights never exceed the
\* height that the scale leaves, and all that is drawn stays within the padding.
GraphStaysInItsRow ==
    NoneNegative(energy) => \A draw \in GraphDraws(energy) : InGraph(draw)

\* Both sides of the axis have the same scale, to a pixel: their guides of the same
\* energy are as far from the axis, although each side is cut to pixels on its own.
SidesShareTheScale ==
    \A guide \in Guides(max_positive(energy)) \cap Guides(max_negative(energy)) :
        Difference(Pixels(guide, max_positive(energy), positive_height(energy)),
                   Pixels(guide, max_negative(energy), negative_height(energy))) <= 1

Fullest(series) ==
    {h \in Hour : series[h] >= 1000 /\ \A k \in Hour : series[k] <= series[h]}

\* The graph is no smaller than it needs to be: an hour of at least 1 kWh that no
\* other exceeds has a bar as long as its side, but for the pixel that cutting two
\* stacked bars may cost.
FullestHoursFillTheGraph ==
    /\ \A h \in Fullest([k \in Hour |-> energy.export[k] + energy.import[k]]) :
           ExportHeight(energy, h) + ImportHeight(energy, h) >= positive_height(energy) - 1
    /\ \A h \in Fullest(energy.solar) : SolarHeight(energy, h) = negative_height(energy)

=============================================================================
