---------------------------- MODULE RenderingProofs ----------------------------
(***************************************************************************)
(* What a frame shows, for every day, and how a text is broken into lines, *)
(* for every font, cell and text.  The installed provers cannot            *)
(* instantiate a theorem of induction; where the proofs need one, they     *)
(* form the set of the counterexamples and take the least of them.         *)
(***************************************************************************)
EXTENDS DashboardFrame, TextLayout, SequenceTheorems, WellFoundedInduction, TLAPS

\* A set of naturals that is not empty has a least element.
LEMMA LeastExists ==
    ASSUME NEW S \in SUBSET Nat, S # {}
    PROVE  \E m \in S : \A k \in S : m <= k
<1>1. IsWellFoundedOn(OpToRel(<, Nat), Nat)
    BY NatLessThanWellFounded, Zenon
<1>2. PICK m \in S : \A k \in S : ~(<<k, m>> \in OpToRel(<, Nat))
    BY <1>1, WFMin, Zenon
<1>3. \A k \in S : ~(k < m)
    BY <1>2 DEF OpToRel
<1> QED
    BY <1>3

\* Max of a set of bars is one of them, and none exceeds it.
LEMMA MaxOfHours ==
    ASSUME NEW f \in [Hour -> Int], NEW b \in Int, NEW Values,
           \A v : v \in Values <=> v = b \/ \E h \in Hour : v = f[h]
    PROVE  /\ Max(Values) \in Int /\ b <= Max(Values)
           /\ \A h \in Hour : f[h] <= Max(Values)
           /\ Max(Values) = b \/ \E h \in Hour : Max(Values) = f[h]
<1> DEFINE UpTo(n) == {b} \cup {f[h] : h \in {k \in Hour : k < n}}
           HasMax(n) == \E m \in UpTo(n) : \A v \in UpTo(n) : m >= v
           S == {n \in Nat : ~HasMax(n)}
<1>1. S = {}
  <2> SUFFICES ASSUME S # {} PROVE FALSE
    OBVIOUS
  <2>1. PICK n \in S : \A k \in S : n <= k
    BY LeastExists
  <2>2. n \in Nat /\ ~HasMax(n)
    OBVIOUS
  <2>3. n # 0
    <3>1. \A k \in Hour : ~(k < 0)
      BY GraphHourAssumption
    <3>2. {k \in Hour : k < 0} = {}
      BY <3>1
    <3>3. HasMax(0)
      BY <3>2
    <3> QED
      BY <2>2, <3>3
  <2>4. n - 1 \in Nat /\ n - 1 \notin S
    BY <2>1, <2>2, <2>3, SMTT(30)
  <2>5. PICK m \in UpTo(n - 1) : \A v \in UpTo(n - 1) : m >= v
    BY <2>4
  <2>6. m \in Int
    OBVIOUS
  <2>7. \A k \in Hour : k < n <=> k < n - 1 \/ k = n - 1
    BY <2>2, GraphHourAssumption
  <2>8. UpTo(n) = UpTo(n - 1) \cup {f[h] : h \in Hour \cap {n - 1}}
    BY <2>7
  <2>9. CASE n - 1 \in Hour /\ f[n - 1] > m
    <3>1. UpTo(n) = UpTo(n - 1) \cup {f[n - 1]}
      BY <2>8, <2>9
    <3>2. \A v \in UpTo(n) : f[n - 1] >= v
      <4>1. f[n - 1] \in Int /\ \A v \in UpTo(n - 1) : v \in Int
        BY <2>9
      <4> HIDE DEF UpTo
      <4> QED
        BY <2>5, <2>6, <2>9, <3>1, <4>1
    <3> QED
      BY <2>2, <3>1, <3>2
  <2>10. CASE ~(n - 1 \in Hour /\ f[n - 1] > m)
    <3>1. \A v \in UpTo(n) : v \in UpTo(n - 1) \/ (n - 1 \in Hour /\ v = f[n - 1])
      BY <2>8
    <3>2. m \in UpTo(n)
      BY <2>5, <2>8
    <3> HIDE DEF UpTo
    <3>3. \A v \in UpTo(n) : m >= v
      BY <2>5, <2>6, <2>10, <3>1
    <3> QED
      BY <2>2, <3>2, <3>3
  <2> QED
    BY <2>9, <2>10
<1>2. HasMax(24)
  BY <1>1
<1>3. UpTo(24) = Values
  <2>1. \A k \in Hour : k < 24
    BY GraphHourAssumption
  <2> QED
    BY <2>1
<1>4. \E m \in Values : \A v \in Values : m >= v
  BY <1>2, <1>3
<1>5. Max(Values) \in Values /\ \A v \in Values : Max(Values) >= v
  BY <1>4 DEF Max
<1>6. /\ b \in Values /\ \A h \in Hour : f[h] \in Values
      /\ \A v \in Values : v \in Int
  OBVIOUS
<1> QED
  BY <1>5, <1>6

-----------------------------------------------------------------------------
(* Quotients that are cut to pixels. *)

\* What a quotient says about its product.
LEMMA Quotient ==
    ASSUME NEW a \in Int, NEW b \in Int, b > 0
    PROVE  /\ a \div b \in Int
           /\ b * (a \div b) <= a /\ a < b * (a \div b) + b
OBVIOUS

\* The facts about products that the scale of the graph needs.
LEMMA Products ==
    ASSUME NEW a \in Int, NEW b \in Int, NEW c \in Int, c > 0
    PROVE  /\ a <= b => a * c <= b * c /\ c * a <= c * b
           /\ a < b => a * c < b * c /\ c * a < c * b
           /\ a * c <= b * c => a <= b
           /\ a * c < b * c => a < b
           /\ a * c \in Int
<1>1. a <= b => a * c <= b * c
  OBVIOUS
<1>2. a < b => a * c < b * c
  OBVIOUS
<1> QED
  BY <1>1, <1>2

\* A quotient is at least, or less than, what its product is.
LEMMA QuotientBounds ==
    ASSUME NEW a \in Int, NEW b \in Int, b > 0, NEW q \in Int
    PROVE  /\ b * q <= a => q <= a \div b
           /\ a < b * q => a \div b < q
<1>1. PICK r \in Int : r = a \div b /\ b * r <= a /\ a < b * (r + 1)
  BY Quotient
<1>2. ASSUME b * q <= a PROVE q <= r
  <2>1. b * q < b * (r + 1)
    BY <1>1, <1>2
  <2>2. q < r + 1
    BY <2>1, Products
  <2> QED
    BY <2>2
<1>3. ASSUME a < b * q PROVE r < q
  <2>1. b * r < b * q
    BY <1>1, <1>3
  <2> QED
    BY <2>1, Products
<1> QED
  BY <1>1, <1>2, <1>3

\* A value that the maximum of its side bounds has a bar that its height bounds.
LEMMA PixelsInSide ==
    ASSUME NEW value \in Int, NEW max \in Int, max > 0, NEW height \in Nat
    PROVE  /\ Pixels(value, max, height) \in Nat
           /\ value <= max => Pixels(value, max, height) <= height
           /\ value >= max => Pixels(value, max, height) >= height
<1>1. CASE value > 0
  <2>1. PICK product \in Int : product = value * height
    OBVIOUS
  <2>2. Pixels(value, max, height) = product \div max
    BY <1>1, <2>1 DEF Pixels
  <2>3. product >= 0 /\ product \div max \in Int
    BY <1>1, <2>1, Quotient
  <2>4. product \div max >= 0
    <3>1. max * 0 <= product
      BY <2>3
    <3> QED
      BY <2>1, <3>1, QuotientBounds
  <2>5. ASSUME value <= max PROVE product \div max <= height
    <3>1. product <= max * height
      BY <2>1, <2>5
    <3>2. max * height < max * (height + 1)
      OBVIOUS
    <3>3. product < max * (height + 1)
      <4>1. max * height \in Int /\ max * (height + 1) \in Int
        OBVIOUS
      <4> QED
        BY <3>1, <3>2, <4>1
    <3>4. product \div max < height + 1
      BY <3>3, QuotientBounds
    <3> QED
      BY <2>3, <3>4
  <2>6. ASSUME value >= max PROVE product \div max >= height
    <3>1. max * height <= product
      BY <2>1, <2>6
    <3> QED
      BY <3>1, QuotientBounds
  <2> QED
    BY <2>2, <2>3, <2>4, <2>5, <2>6
<1>2. CASE ~(value > 0)
  BY <1>2 DEF Pixels
<1> QED
  BY <1>1, <1>2

\* Two stacked bars are no higher than their sum allows, and at most a pixel lower.
LEMMA StackedPixels ==
    ASSUME NEW v \in Int, NEW w \in Int, NEW max \in Int, max > 0, NEW height \in Nat
    PROVE  /\ v >= 0 /\ w >= 0 /\ v + w <= max =>
                Pixels(v, max, height) + Pixels(w, max, height) <= height
           /\ v + w = max =>
                Pixels(v, max, height) + Pixels(w, max, height) >= height - 1
<1>1. PICK p \in Nat, q \in Nat : /\ p = Pixels(v, max, height)
                                 /\ q = Pixels(w, max, height)
  BY PixelsInSide
<1>2. CASE v > 0 /\ w > 0
  <2>1. /\ max * p <= v * height /\ v * height < max * p + max
        /\ max * q <= w * height /\ w * height < max * q + max
    <3>1. v * height \in Int /\ w * height \in Int
      OBVIOUS
    <3> QED
      BY <1>1, <1>2, <3>1, Quotient DEF Pixels
  <2>2. max * (p + q) = max * p + max * q /\ (v + w) * height = v * height + w * height
    OBVIOUS
  <2>3. ASSUME v + w <= max PROVE p + q <= height
    <3>1. (v + w) * height <= max * height
      BY <2>3
    <3>2. max * (p + q) <= max * height
      BY <2>1, <2>2, <3>1
    <3> QED
      BY <3>2, Products
  <2>4. ASSUME v + w = max PROVE p + q >= height - 1
    <3>1. max * height < max * p + max * q + max + max
      BY <2>1, <2>2, <2>4
    <3>2. max * (p + q + 2) = max * p + max * q + max + max
      OBVIOUS
    <3>3. max * height < max * (p + q + 2)
      BY <3>1, <3>2
    <3>4. height < p + q + 2
      BY <3>3, Products
    <3> QED
      BY <3>4
  <2> QED
    BY <1>1, <2>3, <2>4
<1>3. CASE ~(v > 0)
  BY <1>1, <1>3, PixelsInSide DEF Pixels
<1>4. CASE ~(w > 0)
  BY <1>1, <1>4, PixelsInSide DEF Pixels
<1> QED
  BY <1>2, <1>3, <1>4

-----------------------------------------------------------------------------
(* The graph of a day. *)

Day == [{"import", "export", "solar"} -> [Hour -> Int]]

\* The two maxima are those of the day, and at least 1 kWh.
LEMMA Maxima ==
    ASSUME NEW day \in Day
    PROVE  /\ max_positive(day) \in Int /\ max_positive(day) >= 1000
           /\ max_negative(day) \in Int /\ max_negative(day) >= 1000
           /\ \A h \in Hour : /\ day.import[h] \in Int /\ day.export[h] \in Int
                             /\ day.solar[h] \in Int
                             /\ day.export[h] + day.import[h] <= max_positive(day)
                             /\ day.solar[h] <= max_negative(day)
           /\ \/ max_positive(day) = 1000
              \/ \E h \in Hour : max_positive(day) = day.export[h] + day.import[h]
           /\ \/ max_negative(day) = 1000
              \/ \E h \in Hour : max_negative(day) = day.solar[h]
<1>1. /\ day.import \in [Hour -> Int] /\ day.export \in [Hour -> Int]
      /\ day.solar \in [Hour -> Int]
  BY DEF Day
<1>2. PICK both \in [Hour -> Int] : both = [h \in Hour |-> day.export[h] + day.import[h]]
  <2>1. [h \in Hour |-> day.export[h] + day.import[h]] \in [Hour -> Int]
    BY <1>1
  <2> QED
    BY <2>1
<1>3. \A h \in Hour : both[h] = day.export[h] + day.import[h]
  BY <1>2
<1> DEFINE Positive == {1000} \cup {day.export[h] + day.import[h] : h \in Hour}
           Negative == {1000} \cup {day.solar[h] : h \in Hour}
<1>4. /\ max_positive(day) = Max(Positive) /\ max_negative(day) = Max(Negative)
      /\ \A v : v \in Positive <=> v = 1000 \/ \E h \in Hour : v = both[h]
      /\ \A v : v \in Negative <=> v = 1000 \/ \E h \in Hour : v = day.solar[h]
      /\ 1000 \in Int
  BY <1>3 DEF max_positive, max_negative
<1> HIDE DEF Positive, Negative
<1>5. /\ Max(Positive) \in Int /\ 1000 <= Max(Positive)
      /\ \A h \in Hour : both[h] <= Max(Positive)
      /\ Max(Positive) = 1000 \/ \E h \in Hour : Max(Positive) = both[h]
  BY <1>4, MaxOfHours
<1>6. /\ Max(Negative) \in Int /\ 1000 <= Max(Negative)
      /\ \A h \in Hour : day.solar[h] <= Max(Negative)
      /\ Max(Negative) = 1000 \/ \E h \in Hour : Max(Negative) = day.solar[h]
  BY <1>1, <1>4, MaxOfHours
<1> QED
  BY <1>1, <1>3, <1>4, <1>5, <1>6

\* The two sides share the 74 pixels in proportion, and lose less than a pixel each.
LEMMA Scale ==
    ASSUME NEW day \in Day, NEW total \in Int, total = max_positive(day) + max_negative(day)
    PROVE  /\ positive_height(day) \in Nat /\ negative_height(day) \in Nat
           /\ total * positive_height(day) <= 74 * max_positive(day)
           /\ 74 * max_positive(day) < total * positive_height(day) + total
           /\ total * negative_height(day) <= 74 * max_negative(day)
           /\ 74 * max_negative(day) < total * negative_height(day) + total
           /\ positive_height(day) + negative_height(day) <= 74
<1>1. PICK p \in Int, n \in Int : /\ p = max_positive(day) /\ p >= 1000
                                /\ n = max_negative(day) /\ n >= 1000
  BY Maxima
<1>2. total > 0 /\ total = p + n /\ 74 * p \in Int /\ 74 * n \in Int /\ 0 \in Int
  BY <1>1
<1>3. /\ positive_height(day) = (74 * p) \div total
      /\ negative_height(day) = (74 * n) \div total
  BY <1>1, <1>2 DEF positive_height, negative_height, graph_height
<1>4. PICK ph \in Int, nh \in Int :
        /\ ph = (74 * p) \div total /\ total * ph <= 74 * p /\ 74 * p < total * ph + total
        /\ nh = (74 * n) \div total /\ total * nh <= 74 * n /\ 74 * n < total * nh + total
  BY <1>2, Quotient
<1>5. ph >= 0 /\ nh >= 0
  <2>1. total * 0 <= 74 * p /\ total * 0 <= 74 * n
    BY <1>1
  <2> QED
    BY <1>2, <1>4, <2>1, QuotientBounds
<1>6. ph + nh <= 74
  <2>1. /\ total * (ph + nh) = total * ph + total * nh
        /\ total * 74 = 74 * p + 74 * n
        /\ total * ph \in Int /\ total * nh \in Int
    BY <1>2
  <2>2. total * (ph + nh) <= total * 74
    BY <1>2, <1>4, <2>1
  <2> QED
    BY <1>2, <2>2, Products
<1> QED
  BY <1>1, <1>3, <1>4, <1>5, <1>6

\* The guides lie strictly between the axis and the largest energy.
LEMMA GuidesBelow ==
    ASSUME NEW max \in Int, max >= 1000
    PROVE  \A guide \in Guides(max) : guide \in Int /\ 0 < guide /\ guide < max
<1>1. PICK last \in Int : last = max \div 2000
  BY Quotient
<1> QED
  BY <1>1 DEF Guides

\* Each draw of the graph is a part of one of these kinds.
LEMMA GraphParts ==
    ASSUME NEW day \in Day, NEW draw \in GraphDraws(day)
    PROVE  \/ draw = Axis(day)
           \/ \E guide \in Guides(max_negative(day)) :
                draw = Draw("line", "black", 1,
                            AxisY(day) + Pixels(guide, max_negative(day), negative_height(day)),
                            397, 1)
           \/ \E guide \in Guides(max_positive(day)) :
                draw = Draw("line", "black", 1,
                            AxisY(day) - Pixels(guide, max_positive(day), positive_height(day)),
                            397, 1)
           \/ \E h \in Hour :
                \/ /\ SolarHeight(day, h) > 0
                   /\ draw = Fill("black", BarX(h), AxisY(day), bar_width, SolarHeight(day, h))
                \/ /\ ExportHeight(day, h) > 0
                   /\ draw = Fill("white", BarX(h), AxisY(day) + 1 - ExportHeight(day, h),
                                  bar_width, ExportHeight(day, h))
                \/ /\ ImportHeight(day, h) > 0
                   /\ draw = Fill("black", BarX(h),
                                  AxisY(day) + 1 - (ImportHeight(day, h) + ExportHeight(day, h)),
                                  bar_width, ImportHeight(day, h))
<1>1. CASE draw = Axis(day)
  BY <1>1
<1>2. CASE draw \in GuideLines(day)
  BY <1>2 DEF GuideLines
<1>3. CASE \E h \in Hour : draw \in Bars(day, h)
  BY <1>3 DEF Bars, Bar
<1> QED
  BY <1>1, <1>2, <1>3 DEF GraphDraws

Draws == [kind : {"text", "fill", "line"}, colour : {"black", "white"},
          x : Int, y : Int, width : Int, height : Int]

\* What a day without a negative bucket draws stays between the paddings, and on
\* the panel.
LEMMA GraphWithin ==
    ASSUME NEW day \in Day, NoneNegative(day), NEW draw \in GraphDraws(day)
    PROVE  draw \in Draws /\ draw.kind # "text" /\ InGraph(draw) /\ OnPanel(draw)
<1>1. PICK p \in Int, n \in Int : /\ p = max_positive(day) /\ p >= 1000
                                /\ n = max_negative(day) /\ n >= 1000
  BY Maxima
<1>2. PICK ph \in Nat, nh \in Nat :
        ph = positive_height(day) /\ nh = negative_height(day) /\ ph + nh <= 74
  <2>1. p + n \in Int
    OBVIOUS
  <2> QED
    BY <1>1, <2>1, Scale
<1>3. GraphTop = 118 /\ graph_height = 74 /\ AxisY(day) = 118 + ph
  BY <1>2 DEF GraphTop, graph_height, AxisY
<1>4. CASE draw = Axis(day)
  BY <1>2, <1>3, <1>4 DEF Axis, Draw, Draws, InGraph, OnPanel
<1>5. ASSUME NEW guide \in Guides(n),
             draw = Draw("line", "black", 1, AxisY(day) + Pixels(guide, n, nh), 397, 1)
      PROVE  draw \in Draws /\ draw.kind # "text" /\ InGraph(draw) /\ OnPanel(draw)
  <2>0. guide \in Int /\ guide <= n /\ n > 0
    BY <1>1, GuidesBelow
  <2>1. PICK y \in Nat : y = Pixels(guide, n, nh) /\ y <= nh
    BY <2>0, PixelsInSide
  <2> QED
    BY <1>2, <1>3, <1>5, <2>1 DEF Draw, Draws, InGraph, OnPanel
<1>6. ASSUME NEW guide \in Guides(p),
             draw = Draw("line", "black", 1, AxisY(day) - Pixels(guide, p, ph), 397, 1)
      PROVE  draw \in Draws /\ draw.kind # "text" /\ InGraph(draw) /\ OnPanel(draw)
  <2>0. guide \in Int /\ guide <= p /\ p > 0
    BY <1>1, GuidesBelow
  <2>1. PICK y \in Nat : y = Pixels(guide, p, ph) /\ y <= ph
    BY <2>0, PixelsInSide
  <2> QED
    BY <1>2, <1>3, <1>6, <2>1 DEF Draw, Draws, InGraph, OnPanel
<1>7. ASSUME NEW h \in Hour
      PROVE  /\ bar_width = 15 /\ BarX(h) \in 9..377
             /\ SolarHeight(day, h) \in 0..nh
             /\ ExportHeight(day, h) \in Nat /\ ImportHeight(day, h) \in Nat
             /\ ImportHeight(day, h) + ExportHeight(day, h) <= ph
  <2>1. PICK i \in Int, e \in Int, s \in Int :
          /\ i = day.import[h] /\ e = day.export[h] /\ s = day.solar[h]
          /\ e + i <= p /\ s <= n /\ e >= 0 /\ i >= 0
    BY <1>1, Maxima DEF NoneNegative
  <2>2. bar_width = 15 /\ BarX(h) = 9 + h * 16 /\ h \in 0..23
    BY GraphHourAssumption DEF bar_width, BarX
  <2>3. /\ SolarHeight(day, h) = Pixels(s, n, nh)
        /\ ExportHeight(day, h) = Pixels(e, p, ph)
        /\ ImportHeight(day, h) = Pixels(i, p, ph)
    BY <1>1, <1>2, <2>1 DEF SolarHeight, ExportHeight, ImportHeight
  <2>4. n > 0 /\ p > 0
    BY <1>1
  <2>5. Pixels(s, n, nh) \in Nat /\ Pixels(s, n, nh) <= nh
    BY <2>1, <2>4, PixelsInSide
  <2>6. Pixels(e, p, ph) \in Nat /\ Pixels(i, p, ph) \in Nat
    BY <2>4, PixelsInSide
  <2>7. Pixels(e, p, ph) + Pixels(i, p, ph) <= ph
    BY <2>1, <2>4, StackedPixels
  <2> QED
    BY <2>2, <2>3, <2>5, <2>6, <2>7
<1>8. ASSUME NEW h \in Hour, SolarHeight(day, h) > 0,
             draw = Fill("black", BarX(h), AxisY(day), bar_width, SolarHeight(day, h))
      PROVE  draw \in Draws /\ draw.kind # "text" /\ InGraph(draw) /\ OnPanel(draw)
  BY <1>2, <1>3, <1>7, <1>8 DEF Fill, Draw, Draws, InGraph, OnPanel
<1>9. ASSUME NEW h \in Hour,
             draw = Fill("white", BarX(h), AxisY(day) + 1 - ExportHeight(day, h),
                         bar_width, ExportHeight(day, h))
      PROVE  draw \in Draws /\ draw.kind # "text" /\ InGraph(draw) /\ OnPanel(draw)
  BY <1>2, <1>3, <1>7, <1>9 DEF Fill, Draw, Draws, InGraph, OnPanel
<1>10. ASSUME NEW h \in Hour,
              draw = Fill("black", BarX(h),
                          AxisY(day) + 1 - (ImportHeight(day, h) + ExportHeight(day, h)),
                          bar_width, ImportHeight(day, h))
       PROVE  draw \in Draws /\ draw.kind # "text" /\ InGraph(draw) /\ OnPanel(draw)
  BY <1>2, <1>3, <1>7, <1>10 DEF Fill, Draw, Draws, InGraph, OnPanel
<1> QED
  BY <1>1, <1>2, <1>4, <1>5, <1>6, <1>8, <1>9, <1>10, GraphParts

\* Each height is cut twice, by the scale of its side and by the guide: together
\* that costs less than two pixels.
LEMMA GuidesAgree ==
    ASSUME NEW day \in Day,
           NEW guide \in Guides(max_positive(day)) \cap Guides(max_negative(day))
    PROVE  Difference(Pixels(guide, max_positive(day), positive_height(day)),
                      Pixels(guide, max_negative(day), negative_height(day))) <= 1
<1>1. PICK p \in Int, n \in Int : /\ p = max_positive(day) /\ p >= 1000
                                /\ n = max_negative(day) /\ n >= 1000
  BY Maxima
<1>2. PICK total \in Int : total = p + n
  OBVIOUS
<1>3. PICK ph \in Nat, nh \in Nat :
        /\ ph = positive_height(day) /\ total * ph <= 74 * p /\ 74 * p < total * ph + total
        /\ nh = negative_height(day) /\ total * nh <= 74 * n /\ 74 * n < total * nh + total
  BY <1>1, <1>2, Scale
<1>4. guide \in Int /\ 0 < guide /\ guide < p /\ guide < n
  BY <1>1, GuidesBelow
\* The shared scale puts the guide between two pixels of either side.
<1>5. ASSUME NEW max \in Int, max > 0, guide < max, NEW height \in Nat,
             total * height <= 74 * max, 74 * max < total * height + total,
             NEW pixel \in Int, pixel = Pixels(guide, max, height)
      PROVE  total * pixel <= 74 * guide /\ 74 * guide < total * (pixel + 2)
  <2>0. /\ guide \in Int /\ guide > 0 /\ total \in Int /\ total > 0
        /\ max \in Int /\ max > 0 /\ guide < max
    BY <1>1, <1>2, <1>4, <1>5
  <2>1. max * pixel <= guide * height /\ guide * height < max * pixel + max
    <3>1. guide * height \in Int
      BY <2>0
    <3> QED
      BY <2>0, <1>5, <3>1, Quotient DEF Pixels
  <2>2. PICK gh \in Int, mp \in Int, th \in Int :
          gh = guide * height /\ mp = max * pixel /\ th = total * height
    BY <2>0
  <2>3. /\ mp <= gh /\ gh < mp + max
        /\ th <= 74 * max /\ 74 * max < th + total
    BY <1>5, <2>1, <2>2
  <2>4. guide * th = total * gh /\ total * mp = max * (total * pixel)
    BY <2>0, <2>2
  <2>5. total * pixel <= 74 * guide
    <3>1. total * mp <= total * gh
      BY <2>0, <2>3
    <3>2. guide * th <= guide * (74 * max)
      BY <2>0, <2>3
    <3>3. guide * (74 * max) = max * (74 * guide)
      BY <2>0
    <3>4. max * (total * pixel) <= max * (74 * guide)
      BY <2>0, <2>4, <3>1, <3>2, <3>3
    <3>5. total * pixel \in Int /\ 74 * guide \in Int
      BY <2>0
    <3> QED
      BY <2>0, <3>4, <3>5, Products
  <2>6. 74 * guide < total * (pixel + 2)
    <3>1. guide * (74 * max) < guide * (th + total)
      BY <2>0, <2>3
    <3>2. guide * (th + total) = total * gh + total * guide
      BY <2>0, <2>2
    <3>3. total * gh < total * (mp + max)
      BY <2>0, <2>3
    <3>4. total * guide < total * max
      BY <2>0
    <3>5. total * (mp + max) + total * max = max * (total * (pixel + 2))
      BY <2>0, <2>2
    <3>6. guide * (74 * max) = max * (74 * guide)
      BY <2>0
    <3>7. /\ guide * (74 * max) \in Int /\ total * gh \in Int /\ total * guide \in Int
          /\ total * (mp + max) \in Int /\ total * max \in Int
          /\ total * (pixel + 2) \in Int /\ 74 * guide \in Int
      BY <2>0
    <3>8. max * (74 * guide) < max * (total * (pixel + 2))
      BY <3>1, <3>2, <3>3, <3>4, <3>5, <3>6, <3>7
    <3> QED
      BY <2>0, <3>7, <3>8, Products
  <2> QED
    BY <2>5, <2>6
<1>6. PICK a \in Nat, b \in Nat : a = Pixels(guide, p, ph) /\ b = Pixels(guide, n, nh)
  <2>1. p > 0 /\ n > 0 /\ guide \in Int
    BY <1>1, <1>4
  <2> QED
    BY <2>1, PixelsInSide
<1>7. total * a < total * (b + 2) /\ total * b < total * (a + 2)
  <2>0. p > 0 /\ n > 0
    BY <1>1
  <2>1. total * a <= 74 * guide /\ 74 * guide < total * (a + 2)
    BY <2>0, <1>3, <1>4, <1>5, <1>6
  <2>2. total * b <= 74 * guide /\ 74 * guide < total * (b + 2)
    BY <2>0, <1>3, <1>4, <1>5, <1>6
  <2>3. /\ total * a \in Int /\ total * b \in Int /\ total * (a + 2) \in Int
        /\ total * (b + 2) \in Int /\ 74 * guide \in Int
    BY <1>4
  <2> QED
    BY <2>1, <2>2, <2>3
<1>8. a < b + 2 /\ b < a + 2
  <2>1. total > 0 /\ a + 2 \in Int /\ b + 2 \in Int
    BY <1>1, <1>2
  <2> QED
    BY <1>7, <2>1, Products
<1> QED
  BY <1>1, <1>3, <1>6, <1>8 DEF Difference

\* The fullest hour of a side is its maximum.
LEMMA FullestReach ==
    ASSUME NEW day \in Day
    PROVE  /\ \A h \in Fullest([k \in Hour |-> day.export[k] + day.import[k]]) :
                ExportHeight(day, h) + ImportHeight(day, h) >= positive_height(day) - 1
           /\ \A h \in Fullest(day.solar) : SolarHeight(day, h) = negative_height(day)
<1>1. PICK p \in Int, n \in Int : /\ p = max_positive(day) /\ p >= 1000
                                /\ n = max_negative(day) /\ n >= 1000
  BY Maxima
<1>2. PICK ph \in Nat, nh \in Nat : ph = positive_height(day) /\ nh = negative_height(day)
  <2>1. p + n \in Int
    OBVIOUS
  <2> QED
    BY <1>1, <2>1, Scale
<1>3. \A h \in Hour : day.import[h] \in Int /\ day.export[h] \in Int /\ day.solar[h] \in Int
  BY Maxima
<1>4. ASSUME NEW h \in Fullest([k \in Hour |-> day.export[k] + day.import[k]])
      PROVE  ExportHeight(day, h) + ImportHeight(day, h) >= ph - 1
  <2>1. /\ h \in Hour /\ day.export[h] + day.import[h] >= 1000
        /\ \A k \in Hour : day.export[k] + day.import[k] <= day.export[h] + day.import[h]
    BY <1>4 DEF Fullest
  <2>2. PICK i \in Int, e \in Int : i = day.import[h] /\ e = day.export[h]
    BY <1>3, <2>1
  <2>3. e + i = p
    BY <1>1, <1>3, <2>1, <2>2, Maxima
  <2>4. Pixels(e, p, ph) + Pixels(i, p, ph) >= ph - 1
    BY <1>1, <2>3, StackedPixels
  <2> QED
    BY <1>1, <1>2, <2>2, <2>4 DEF ExportHeight, ImportHeight
<1>5. ASSUME NEW h \in Fullest(day.solar)
      PROVE  SolarHeight(day, h) = nh
  <2>1. /\ h \in Hour /\ day.solar[h] >= 1000
        /\ \A k \in Hour : day.solar[k] <= day.solar[h]
    BY <1>5 DEF Fullest
  <2>2. PICK s \in Int : s = day.solar[h]
    BY <1>3, <2>1
  <2>3. s = n
    BY <1>1, <1>3, <2>1, <2>2, Maxima
  <2>4. Pixels(n, n, nh) \in Nat /\ Pixels(n, n, nh) <= nh /\ Pixels(n, n, nh) >= nh
    <3>1. n \in Int /\ n > 0 /\ n <= n /\ n >= n
      BY <1>1
    <3> QED
      BY <3>1, PixelsInSide
  <2> QED
    BY <1>1, <1>2, <2>2, <2>3, <2>4 DEF SolarHeight
<1> QED
  BY <1>2, <1>4, <1>5

-----------------------------------------------------------------------------
(* The frame: the rows lie one below the other, so that a text can only meet   *)
(* what its own row draws.                                                     *)

Batches == Seq(SUBSET Draws)

\* Nothing of one batch can disturb a text of another.
Apart(s, t) ==
    \A i \in DOMAIN s, j \in DOMAIN t : \A draw \in s[i], cell \in t[j] :
        ~Meets(draw, cell) /\ ~Meets(cell, draw)

\* Two sequences of draws that do not meet are readable one after the other if each is.
LEMMA ReadableTogether ==
    ASSUME NEW s \in Batches, NEW t \in Batches, Apart(s, t), Readable(s), Readable(t)
    PROVE  Readable(s \o t)
<1> DEFINE u == s \o t
<1>1. PICK m \in Nat, n \in Nat : m = Len(s) /\ n = Len(t)
  BY DEF Batches
<1>2. /\ DOMAIN s = 1..m /\ DOMAIN t = 1..n /\ DOMAIN u = 1..(m + n)
      /\ \A k \in 1..m : u[k] = s[k]
      /\ \A k \in 1..n : u[m + k] = t[k]
  BY <1>1 DEF Batches
<1>3. \A k \in 1..(m + n) : k \in 1..m \/ (k - m \in 1..n /\ u[k] = t[k - m])
  BY <1>1, <1>2
<1> SUFFICES ASSUME NEW i \in 1..(m + n), NEW cell \in u[i], cell.kind = "text"
             PROVE  IsReadable(u, i, cell)
  BY <1>2 DEF Readable
<1> HIDE DEF u
<1>4. CASE i \in 1..m
  <2>1. IsReadable(s, i, cell)
    BY <1>2, <1>4 DEF Readable
  <2>2. ASSUME NEW j \in 1..(m + n), NEW draw \in u[j], Meets(draw, cell)
        PROVE  IF draw.kind = "text" THEN j # i => AreLaidOver(draw, cell)
                                     ELSE j < i /\ draw.colour # cell.colour
    <3>1. CASE j \in 1..m
      BY <1>2, <2>1, <2>2, <3>1 DEF IsReadable
    <3>2. CASE j - m \in 1..n /\ u[j] = t[j - m]
      BY <1>2, <1>4, <2>2, <3>2 DEF Apart
    <3> QED
      BY <1>3, <3>1, <3>2
  <2>3. \A j \in 1 .. i - 1 : j \in 1..m
    BY <1>4
  <2> QED
    BY <1>2, <2>1, <2>2, <2>3 DEF IsReadable
<1>5. CASE i - m \in 1..n /\ u[i] = t[i - m]
  <2>1. IsReadable(t, i - m, cell)
    BY <1>2, <1>5 DEF Readable
  <2>2. ASSUME NEW j \in 1..(m + n), NEW draw \in u[j], Meets(draw, cell)
        PROVE  IF draw.kind = "text" THEN j # i => AreLaidOver(draw, cell)
                                     ELSE j < i /\ draw.colour # cell.colour
    <3>1. CASE j \in 1..m
      BY <1>2, <1>5, <2>2, <3>1 DEF Apart
    <3>2. CASE j - m \in 1..n /\ u[j] = t[j - m]
      <4>1. IF draw.kind = "text" THEN j - m # i - m => AreLaidOver(draw, cell)
                                  ELSE j - m < i - m /\ draw.colour # cell.colour
        BY <1>2, <2>1, <2>2, <3>2 DEF IsReadable
      <4> QED
        BY <4>1
    <3> QED
      BY <1>3, <3>1, <3>2
  <2>3. ASSUME cell.colour = "white"
        PROVE  \E j \in 1 .. i - 1 : \E draw \in u[j] : draw.kind = "fill" /\ Covers(draw, cell)
    <3>1. PICK k \in 1 .. i - m - 1 : \E draw \in t[k] : draw.kind = "fill" /\ Covers(draw, cell)
      BY <2>1, <2>3 DEF IsReadable
    <3>2. m + k \in 1 .. i - 1 /\ k \in 1..n
      BY <1>5
    <3> QED
      BY <1>2, <3>1, <3>2
  <2> QED
    BY <1>2, <2>2, <2>3 DEF IsReadable
<1> QED
  BY <1>3, <1>4, <1>5

\* The boxes by which cells and rows keep apart: neighbours share one pixel.
Boxes == [left : Int, top : Int, right : Int, bottom : Int]

Box(left, top, right, bottom) ==
    [left |-> left, top |-> top, right |-> right, bottom |-> bottom]

Inside(draw, box) ==
    /\ box.left <= draw.x /\ draw.x + draw.width <= box.right
    /\ box.top <= draw.y /\ draw.y + draw.height <= box.bottom

Neighbours(a, b) ==
    \/ a.right <= b.left + 1 \/ b.right <= a.left + 1
    \/ a.bottom <= b.top + 1 \/ b.bottom <= a.top + 1

Encloses(outer, box) ==
    /\ outer.left <= box.left /\ box.right <= outer.right
    /\ outer.top <= box.top /\ box.bottom <= outer.bottom

\* Part of a row: where it draws, and that its texts are readable.
Part(draws, box) ==
    /\ draws \in Seq(Draws)
    /\ \A n \in DOMAIN draws : Inside(draws[n], box)
    /\ Readable(InTurn(draws))

\* Neighbouring cells share a row or a column of pixels at most, which is the border
\* that Meets leaves out.
LEMMA NeighboursDontMeet ==
    ASSUME NEW a \in Boxes, NEW b \in Boxes, Neighbours(a, b),
           NEW draw \in Draws, NEW cell \in Draws, Inside(draw, a), Inside(cell, b)
    PROVE  ~Meets(draw, cell) /\ ~Meets(cell, draw)
BY DEF Boxes, Neighbours, Draws, Inside, Meets

\* What all elements of a sequence have in common.
LEMMA Elements ==
    ASSUME NEW D, NEW S \in SUBSET D
    PROVE  /\ \A s \in Seq(D) : (\A k \in DOMAIN s : s[k] \in S) => s \in Seq(S)
           /\ \A s \in Seq(S) : s \in Seq(D) /\ \A k \in DOMAIN s : s[k] \in S
<1>1. ASSUME NEW s \in Seq(D), \A k \in DOMAIN s : s[k] \in S
      PROVE  s \in Seq(S)
  <2>1. PICK n \in Nat : n = Len(s) /\ DOMAIN s = 1..n
    OBVIOUS
  <2>2. s \in [1..n -> S]
    BY <1>1, <2>1
  <2> QED
    BY <2>2
<1>2. ASSUME NEW s \in Seq(S)
      PROVE  s \in Seq(D) /\ \A k \in DOMAIN s : s[k] \in S
  <2>1. PICK n \in Nat : n = Len(s) /\ DOMAIN s = 1..n
    OBVIOUS
  <2>2. s \in [1..n -> S]
    BY <2>1
  <2>3. s \in [1..n -> D]
    BY <2>2
  <2> QED
    BY <2>1, <2>2, <2>3
<1> QED
  BY <1>1, <1>2

\* A sequence of three and a fourth element, without a case split over its positions.
LEMMA FourElements ==
    ASSUME NEW D, NEW a \in D, NEW b \in D, NEW c \in D, NEW d \in D
    PROVE  \E u \in Seq(D) : /\ u = <<a, b, c>> \o <<d>> /\ Len(u) = 4
                            /\ u[1] = a /\ u[2] = b /\ u[3] = c /\ u[4] = d
<1> DEFINE s == <<a, b, c>>
           t == <<d>>
           u == s \o t
<1>1. s \in Seq(D) /\ Len(s) = 3 /\ s[1] = a /\ s[2] = b /\ s[3] = c
  OBVIOUS
<1>2. t \in Seq(D) /\ Len(t) = 1 /\ t[1] = d
  OBVIOUS
<1> HIDE DEF s, t
<1>3. u \in Seq(D) /\ Len(u) = 4 /\ (\A k \in 1..3 : u[k] = s[k]) /\ u[4] = t[1]
  <2>1. /\ u \in Seq(D) /\ Len(u) = Len(s) + Len(t)
        /\ \A k \in 1 .. Len(s) + Len(t) :
             u[k] = IF k <= Len(s) THEN s[k] ELSE t[k - Len(s)]
    BY <1>1, <1>2, ConcatProperties
  <2> HIDE DEF u
  <2> QED
    BY <1>1, <1>2, <2>1
<1> HIDE DEF u
<1>4. u[1] = a /\ u[2] = b /\ u[3] = c /\ u[4] = d
  BY <1>1, <1>2, <1>3
<1>5. u = <<a, b, c>> \o <<d>>
  BY DEF u, s, t
<1> QED
  BY <1>3, <1>4, <1>5

\* One element in front of others.
LEMMA InFront ==
    ASSUME NEW S, NEW first \in S, NEW t \in Seq(S)
    PROVE  /\ <<first>> \o t \in Seq(S)
           /\ Len(<<first>> \o t) = Len(t) + 1
           /\ (<<first>> \o t)[1] = first
           /\ \A k \in 2 .. Len(<<first>> \o t) :
                k - 1 \in DOMAIN t /\ (<<first>> \o t)[k] = t[k - 1]
OBVIOUS

\* Draws made in turn are batches of one.
LEMMA InTurnBatches ==
    ASSUME NEW draws \in Seq(Draws)
    PROVE  /\ InTurn(draws) \in Batches
           /\ DOMAIN InTurn(draws) = DOMAIN draws
           /\ Len(InTurn(draws)) = Len(draws)
           /\ \A n \in DOMAIN draws : InTurn(draws)[n] = {draws[n]}
<1>1. PICK m \in Nat : m = Len(draws) /\ DOMAIN draws = 1..m
  OBVIOUS
<1>2. InTurn(draws) \in [1..m -> SUBSET Draws]
  BY <1>1 DEF InTurn
<1> QED
  BY <1>1, <1>2 DEF InTurn, Batches

\* InTurn distributes over concatenation: the parts of a row can be judged one by one.
LEMMA InTurnTogether ==
    ASSUME NEW s \in Seq(Draws), NEW t \in Seq(Draws)
    PROVE  InTurn(s \o t) = InTurn(s) \o InTurn(t)
<1>1. PICK m \in Nat, n \in Nat : m = Len(s) /\ n = Len(t)
  OBVIOUS
<1>2. /\ s \o t \in Seq(Draws) /\ DOMAIN s = 1..m /\ DOMAIN t = 1..n
      /\ DOMAIN (s \o t) = 1..(m + n) /\ Len(s \o t) = m + n
      /\ \A k \in 1..m : (s \o t)[k] = s[k]
      /\ \A k \in (m + 1)..(m + n) : (s \o t)[k] = t[k - m]
  BY <1>1
<1>3. PICK S \in Batches, T \in Batches, u \in Batches :
        S = InTurn(s) /\ T = InTurn(t) /\ u = InTurn(s \o t)
  BY <1>2, InTurnBatches
<1>4. /\ Len(S) = m /\ Len(T) = n /\ Len(u) = m + n
      /\ \A k \in 1..m : S[k] = {s[k]}
      /\ \A k \in 1..n : T[k] = {t[k]}
      /\ \A k \in 1..(m + n) : u[k] = {(s \o t)[k]}
  <2>1. Len(S) = m /\ \A k \in 1..m : S[k] = {s[k]}
    BY <1>1, <1>2, <1>3, InTurnBatches
  <2>2. Len(T) = n /\ \A k \in 1..n : T[k] = {t[k]}
    BY <1>1, <1>2, <1>3, InTurnBatches
  <2>3. Len(u) = m + n /\ \A k \in 1..(m + n) : u[k] = {(s \o t)[k]}
    BY <1>2, <1>3, InTurnBatches
  <2> QED
    BY <2>1, <2>2, <2>3
<1> DEFINE v == S \o T
<1>5. /\ v \in Batches /\ Len(v) = m + n
      /\ \A k \in 1..m : v[k] = {s[k]}
      /\ \A k \in (m + 1)..(m + n) : v[k] = {t[k - m]}
  <2>1. \A k \in (m + 1)..(m + n) : k - m \in 1..n
    BY <1>1
  <2>2. /\ v \in Batches /\ Len(v) = Len(S) + Len(T)
        /\ \A k \in 1 .. Len(S) : v[k] = S[k]
        /\ \A k \in (Len(S) + 1)..(Len(S) + Len(T)) : v[k] = T[k - Len(S)]
    BY ConcatProperties DEF Batches
  <2> HIDE DEF v
  <2>3. Len(v) = m + n /\ \A k \in 1..m : v[k] = S[k]
    BY <1>1, <1>4, <2>2
  <2>4. \A k \in (m + 1)..(m + n) : v[k] = T[k - m]
    BY <1>1, <1>4, <2>2
  <2>5. \A k \in 1..m : v[k] = {s[k]}
    BY <1>4, <2>3
  <2>6. \A k \in (m + 1)..(m + n) : v[k] = {t[k - m]}
    BY <1>4, <2>1, <2>4
  <2> QED
    BY <2>2, <2>3, <2>5, <2>6
<1> HIDE DEF v
<1>6. \A k \in 1..(m + n) : k \in 1..m \/ k \in (m + 1)..(m + n)
  BY <1>1
<1>7. ASSUME NEW k \in 1..(m + n) PROVE u[k] = v[k]
  <2>1. u[k] = {(s \o t)[k]}
    BY <1>4
  <2>2. CASE k \in 1..m
    BY <1>2, <1>5, <2>1, <2>2
  <2>3. CASE k \in (m + 1)..(m + n)
    BY <1>2, <1>5, <2>1, <2>3
  <2> QED
    BY <1>6, <2>2, <2>3
<1>8. u = v
  <2>1. u = [k \in 1..(m + n) |-> u[k]] /\ v = [k \in 1..(m + n) |-> v[k]]
    BY <1>4, <1>5 DEF Batches
  <2> QED
    BY <1>7, <2>1, Zenon
<1> QED
  BY <1>3, <1>8 DEF v

\* Two neighbouring parts make one part.
LEMMA Join ==
    ASSUME NEW s, NEW t, NEW a \in Boxes, NEW b \in Boxes, NEW outer \in Boxes,
           Part(s, a), Part(t, b), Neighbours(a, b), Encloses(outer, a), Encloses(outer, b)
    PROVE  Part(s \o t, outer)
<1>1. PICK m \in Nat, n \in Nat : m = Len(s) /\ n = Len(t)
  BY DEF Part
<1>2. /\ s \in Seq(Draws) /\ t \in Seq(Draws)
      /\ s \o t \in Seq(Draws) /\ DOMAIN s = 1..m /\ DOMAIN t = 1..n
      /\ DOMAIN (s \o t) = 1..(m + n)
      /\ \A k \in 1..m : (s \o t)[k] = s[k] /\ s[k] \in Draws
      /\ \A k \in (m + 1)..(m + n) : (s \o t)[k] = t[k - m] /\ k - m \in 1..n
      /\ \A k \in 1..n : t[k] \in Draws
  BY <1>1 DEF Part
<1>3. \A draw \in Draws : Inside(draw, a) \/ Inside(draw, b) => Inside(draw, outer)
  BY DEF Boxes, Draws, Inside, Encloses
<1>4. \A k \in 1..(m + n) : k \in 1..m \/ k \in (m + 1)..(m + n)
  BY <1>1
<1>5. \A k \in DOMAIN (s \o t) : Inside((s \o t)[k], outer)
  BY <1>2, <1>3, <1>4 DEF Part
<1>6. Apart(InTurn(s), InTurn(t))
  <2> SUFFICES ASSUME NEW i \in 1..m, NEW j \in 1..n
               PROVE  ~Meets(s[i], t[j]) /\ ~Meets(t[j], s[i])
    BY <1>2, InTurnBatches DEF Apart
  <2> QED
    BY <1>2, NeighboursDontMeet DEF Part
<1>7. Readable(InTurn(s \o t))
  BY <1>2, <1>6, InTurnBatches, InTurnTogether, ReadableTogether DEF Part
<1> QED
  BY <1>2, <1>5, <1>7 DEF Part

\* Three ways for the texts of a part to be readable: there are none, there is
\* nothing but black texts, or a black fill comes first and covers white ones.
LEMMA WithoutTexts ==
    ASSUME NEW batches \in Batches,
           \A i \in DOMAIN batches : \A draw \in batches[i] : draw.kind # "text"
    PROVE  Readable(batches)
BY DEF Readable

\* Draws of which no two texts meet, but for those laid over one another.
Spaced(draws) ==
    \A m, n \in DOMAIN draws :
        m # n /\ draws[m].kind = "text" /\ draws[n].kind = "text"
              /\ Meets(draws[m], draws[n])
          => AreLaidOver(draws[m], draws[n])

\* Black texts on white, and nothing else, are readable if they are spaced.
LEMMA BlackTexts ==
    ASSUME NEW draws \in Seq(Draws), Spaced(draws),
           \A n \in DOMAIN draws : draws[n].kind = "text" /\ draws[n].colour = "black"
    PROVE  Readable(InTurn(draws))
<1>1. PICK batches \in Batches :
        /\ batches = InTurn(draws) /\ DOMAIN batches = DOMAIN draws
        /\ \A n \in DOMAIN draws : batches[n] = {draws[n]}
  BY InTurnBatches
<1>2. \A i \in DOMAIN batches : \A draw \in batches[i] :
        draw = draws[i] /\ draw.kind = "text" /\ draw.colour = "black"
  BY <1>1
<1>3. \A i, j \in DOMAIN batches : \A cell \in batches[i], draw \in batches[j] :
        Meets(draw, cell) /\ j # i => AreLaidOver(draw, cell)
  BY <1>1, <1>2 DEF Spaced
<1> QED
  BY <1>1, <1>2, <1>3 DEF Readable, IsReadable

\* White texts are readable on one black fill that is drawn first and covers them.
LEMMA WhiteOnBlack ==
    ASSUME NEW draws \in Seq(Draws), Len(draws) > 0, Spaced(draws),
           draws[1].kind = "fill", draws[1].colour = "black",
           \A n \in 2 .. Len(draws) : /\ draws[n].kind = "text" /\ draws[n].colour = "white"
                                     /\ Covers(draws[1], draws[n])
    PROVE  Readable(InTurn(draws))
<1>1. PICK m \in Nat : m = Len(draws) /\ m > 0 /\ DOMAIN draws = 1..m
  OBVIOUS
<1>2. PICK batches \in Batches :
        /\ batches = InTurn(draws) /\ DOMAIN batches = 1..m
        /\ \A n \in 1..m : batches[n] = {draws[n]}
  BY <1>1, InTurnBatches
<1>3. SUFFICES ASSUME NEW i \in 1..m, NEW cell \in batches[i], cell.kind = "text"
               PROVE  IsReadable(batches, i, cell)
  BY <1>2 DEF Readable
<1>4. cell = draws[i] /\ i \in 2..m /\ 1 \in 1 .. i - 1 /\ 1 \in 1..m
  <2>1. cell = draws[i]
    BY <1>2
  <2>2. i # 1
    BY <1>3, <2>1
  <2> QED
    BY <2>1, <2>2
<1>5. cell.colour = "white" /\ Covers(draws[1], cell)
  BY <1>1, <1>4
<1>6. ASSUME NEW j \in 1..m, NEW draw \in batches[j], Meets(draw, cell)
      PROVE  IF draw.kind = "text" THEN j # i => AreLaidOver(draw, cell)
                                   ELSE j < i /\ draw.colour # cell.colour
  <2>1. draw = draws[j]
    BY <1>2
  <2>2. CASE draw.kind = "text"
    BY <1>1, <1>3, <1>4, <1>6, <2>1, <2>2 DEF Spaced
  <2>3. CASE draw.kind # "text"
    <3>1. j = 1 \/ j \in 2..m
      OBVIOUS
    <3>2. j = 1
      BY <1>1, <2>1, <2>3, <3>1
    <3> QED
      BY <1>4, <1>5, <2>1, <2>3, <3>2
  <2> QED
    BY <2>2, <2>3
<1>7. draws[1] \in batches[1]
  BY <1>2, <1>4
<1> QED
  BY <1>2, <1>4, <1>5, <1>6, <1>7 DEF IsReadable

-----------------------------------------------------------------------------
(* The cells. *)

\* Cells are laid over one another both ways.
LEMMA LaidOverBoth ==
    ASSUME NEW a, NEW b, AreLaidOver(a, b)
    PROVE  AreLaidOver(b, a)
<1>1. {Place(a), Place(b)} = {Place(b), Place(a)}
  OBVIOUS
<1> QED
  BY <1>1 DEF AreLaidOver

\* An inverted icon is readable and keeps to its square.
LEMMA IconPart ==
    ASSUME NEW x \in Int, NEW y \in Int
    PROVE  Part(inverted_icon(x, y), Box(x, y, x + 75, y + 75))
<1> DEFINE fill == Fill("black", x, y, 75, 75)
           text == Text("white", x, y, 75, 75)
           draws == <<fill, text>>
<1>1. /\ fill \in Draws /\ fill.kind = "fill" /\ fill.colour = "black"
      /\ text \in Draws /\ text.kind = "text" /\ text.colour = "white"
      /\ Covers(fill, text)
      /\ Inside(fill, Box(x, y, x + 75, y + 75)) /\ Inside(text, Box(x, y, x + 75, y + 75))
  BY DEF Fill, Text, Draw, Draws, Covers, Inside, Box
<1> HIDE DEF fill, text
<1>2. /\ draws \in Seq(Draws) /\ Len(draws) = 2 /\ DOMAIN draws = 1..2
      /\ draws[1] = fill /\ draws[2] = text
  BY <1>1
<1> HIDE DEF draws
<1>3. \A n \in 1..2 : n = 1 \/ n = 2
  OBVIOUS
<1>4. \A n \in 2..2 : n = 2
  OBVIOUS
<1>5. Readable(InTurn(draws))
  <2>1. Spaced(draws)
    BY <1>1, <1>2, <1>3 DEF Spaced
  <2> QED
    BY <1>1, <1>2, <1>4, <2>1, WhiteOnBlack
<1>6. \A n \in DOMAIN draws : Inside(draws[n], Box(x, y, x + 75, y + 75))
  BY <1>1, <1>2, <1>3
<1>7. Part(draws, Box(x, y, x + 75, y + 75))
  BY <1>2, <1>5, <1>6 DEF Part
<1> QED
  BY <1>7 DEF inverted_icon, draws, fill, text

\* A separator has no text and keeps to its row of pixels.
LEMMA SeparatorPart ==
    ASSUME NEW y \in Int
    PROVE  Part(<<Separator(y)>>, Box(1, y, 399, y + 1))
<1>1. /\ Separator(y) \in Draws /\ Separator(y).kind = "line"
      /\ Inside(Separator(y), Box(1, y, 399, y + 1))
  BY DEF Separator, Draw, Draws, Inside, Box
<1> DEFINE draws == <<Separator(y)>>
<1>2. draws \in Seq(Draws) /\ DOMAIN draws = {1} /\ draws[1] = Separator(y)
  BY <1>1
<1> HIDE DEF draws
<1>3. Readable(InTurn(draws))
  <2>1. \A i \in DOMAIN InTurn(draws) : \A draw \in InTurn(draws)[i] : draw.kind # "text"
    BY <1>1, <1>2, InTurnBatches
  <2> QED
    BY <1>2, <2>1, InTurnBatches, WithoutTexts
<1>4. Part(draws, Box(1, y, 399, y + 1))
  BY <1>1, <1>2, <1>3 DEF Part
<1> QED
  BY <1>4 DEF draws

\* Where a text is, and what it looks like.
LEMMA TextInBox ==
    ASSUME NEW colour \in {"black", "white"}, NEW box \in Boxes,
           NEW x \in Int, NEW y \in Int, NEW width \in Int, NEW height \in Int,
           box.left <= x, x + width <= box.right, box.top <= y, y + height <= box.bottom
    PROVE  /\ Text(colour, x, y, width, height) \in Draws
           /\ Text(colour, x, y, width, height).kind = "text"
           /\ Text(colour, x, y, width, height).colour = colour
           /\ Inside(Text(colour, x, y, width, height), box)
BY DEF Text, Draw, Draws, Inside, Boxes

\* Spaced black texts that keep to their box are a readable part of it.
LEMMA BlackPart ==
    ASSUME NEW draws \in Seq(Draws), NEW box \in Boxes, Spaced(draws),
           \A n \in DOMAIN draws : /\ draws[n].kind = "text" /\ draws[n].colour = "black"
                                  /\ Inside(draws[n], box)
    PROVE  Part(draws, box)
BY BlackTexts DEF Part

\* A value with a smaller one below it keeps to the cell of the two.
LEMMA SubtextPart ==
    ASSUME NEW x \in Int, NEW y \in Int, NEW width \in Int, NEW height \in Int, height >= 45
    PROVE  Part(text_with_subtext("black", x, y, width, height),
                Box(x, y, x + width, y + height))
<1> DEFINE value == Text("black", x, y, width, 45)
           subtext == Text("black", x, y + 44, width, height - 45)
           draws == <<value, subtext>>
           box == Box(x, y, x + width, y + height)
<1>1. box \in Boxes
  BY DEF Box, Boxes
<1>2. /\ value \in Draws /\ value.kind = "text" /\ value.colour = "black"
      /\ subtext \in Draws /\ subtext.kind = "text" /\ subtext.colour = "black"
      /\ Inside(value, box) /\ Inside(subtext, box)
      /\ ~Meets(value, subtext) /\ ~Meets(subtext, value)
  BY DEF Text, Draw, Draws, Inside, Box, Meets
<1> HIDE DEF value, subtext, box
<1>3. draws \in Seq(Draws) /\ DOMAIN draws = 1..2 /\ draws[1] = value /\ draws[2] = subtext
  BY <1>2
<1> HIDE DEF draws
<1>4. \A n \in 1..2 : n = 1 \/ n = 2
  OBVIOUS
<1>5. Spaced(draws)
  BY <1>2, <1>3, <1>4 DEF Spaced
<1>6. Part(draws, box)
  BY <1>1, <1>2, <1>3, <1>4, <1>5, BlackPart
<1> QED
  BY <1>6 DEF text_with_subtext, draws, value, subtext, box

\* Two texts keep apart, or are laid over one another.
MayMeet(a, b) == Meets(a, b) \/ Meets(b, a) => AreLaidOver(a, b)

\* Three black texts in a box.
LEMMA ThreeTexts ==
    ASSUME NEW box \in Boxes, NEW a \in Draws, NEW b \in Draws, NEW c \in Draws,
           MayMeet(a, b), MayMeet(a, c), MayMeet(b, c),
           \A text \in {a, b, c} : /\ text.kind = "text" /\ text.colour = "black"
                                  /\ Inside(text, box)
    PROVE  Part(<<a, b, c>>, box)
<1> DEFINE draws == <<a, b, c>>
<1>1. /\ draws \in Seq(Draws) /\ DOMAIN draws = 1..3
      /\ draws[1] = a /\ draws[2] = b /\ draws[3] = c
  OBVIOUS
<1> HIDE DEF draws
<1>2. \A n \in 1..3 : n = 1 \/ n = 2 \/ n = 3
  OBVIOUS
<1>3. Spaced(draws)
  BY <1>1, <1>2, LaidOverBoth DEF Spaced, MayMeet
<1>4. Part(draws, box)
  BY <1>1, <1>2, <1>3, BlackPart
<1> QED
  BY <1>4 DEF draws

\* The three texts of the split solar production keep to the cell of the one they replace.
LEMMA SplitPart ==
    Part(<< Text("black", 277, 1, 62, 50), Text("black", 333, 1, 62, 50),
            Text("black", 274, 50, 124, 25) >>, Box(274, 1, 398, 76))
<1>1. Box(274, 1, 398, 76) \in Boxes
  BY DEF Box, Boxes
<1>2. \A text \in {Text("black", 277, 1, 62, 50), Text("black", 333, 1, 62, 50),
                   Text("black", 274, 50, 124, 25)} :
        /\ text \in Draws /\ text.kind = "text" /\ text.colour = "black"
        /\ Inside(text, Box(274, 1, 398, 76))
  BY DEF Text, Draw, Draws, Inside, Box
<1>3. MayMeet(Text("black", 277, 1, 62, 50), Text("black", 333, 1, 62, 50))
  BY DEF MayMeet, AreLaidOver, LaidOver, Place, Text, Draw
<1>4. /\ MayMeet(Text("black", 277, 1, 62, 50), Text("black", 274, 50, 124, 25))
      /\ MayMeet(Text("black", 333, 1, 62, 50), Text("black", 274, 50, 124, 25))
  BY DEF MayMeet, Meets, Text, Draw
<1> QED
  BY <1>1, <1>2, <1>3, <1>4, ThreeTexts

\* The three texts of the battery row.
LEMMA BatteryTextsPart ==
    Part(<< Text("black", 37, 75, 120, 37), Text("black", 157, 75, 120, 37),
            Text("black", 277, 75, 120, 37) >>, Box(37, 75, 397, 112))
<1>1. Box(37, 75, 397, 112) \in Boxes
  BY DEF Box, Boxes
<1>2. \A text \in {Text("black", 37, 75, 120, 37), Text("black", 157, 75, 120, 37),
                   Text("black", 277, 75, 120, 37)} :
        /\ text \in Draws /\ text.kind = "text" /\ text.colour = "black"
        /\ Inside(text, Box(37, 75, 397, 112))
  BY DEF Text, Draw, Draws, Inside, Box
<1>3. /\ MayMeet(Text("black", 37, 75, 120, 37), Text("black", 157, 75, 120, 37))
      /\ MayMeet(Text("black", 37, 75, 120, 37), Text("black", 277, 75, 120, 37))
      /\ MayMeet(Text("black", 157, 75, 120, 37), Text("black", 277, 75, 120, 37))
  BY DEF MayMeet, Meets, Text, Draw
<1> QED
  BY <1>1, <1>2, <1>3, ThreeTexts

\* The battery with any number of segments: no text, and all of it in its square.
LEMMA BatteryIconPart ==
    ASSUME NEW segments \in 0..4
    PROVE  Part(draw_battery_icon(segments), Box(1, 75, 38, 112))
<1> DEFINE box == Box(1, 75, 38, 112)
           body == << Fill("black", 1, 75, 37, 37), Draw("line", "white", 7, 87, 23, 13),
                      Fill("white", 30, 91, 3, 5) >>
           level == [n \in 1..segments |-> Fill("white", 10 + (n - 1) * 5, 90, 3, 7)]
           Empty(draw) == draw \in Draws /\ draw.kind # "text" /\ Inside(draw, box)
<1>1. /\ body \in Seq(Draws) /\ DOMAIN body = 1..3 /\ Len(body) = 3
      /\ \A n \in 1..3 : Empty(body[n])
  <2>1. /\ Empty(Fill("black", 1, 75, 37, 37)) /\ Empty(Draw("line", "white", 7, 87, 23, 13))
        /\ Empty(Fill("white", 30, 91, 3, 5))
    BY DEF Fill, Draw, Draws, Inside, Box
  <2> QED
    BY <2>1
<1>2. /\ level \in Seq(Draws) /\ DOMAIN level = 1..segments /\ Len(level) = segments
      /\ \A n \in 1..segments : Empty(level[n])
  <2>1. ASSUME NEW n \in 1..segments PROVE Empty(Fill("white", 10 + (n - 1) * 5, 90, 3, 7))
    BY DEF Fill, Draw, Draws, Inside, Box
  <2> HIDE DEF box
  <2>2. level \in [1..segments -> Draws]
    BY <2>1
  <2> QED
    BY <2>1, <2>2
<1> DEFINE draws == body \o level
<1> HIDE DEF body, level, box
<1>3. draws \in Seq(Draws) /\ \A n \in DOMAIN draws : Empty(draws[n])
  <2> DEFINE S == {draw \in Draws : Empty(draw)}
  <2>1. S \in SUBSET Draws /\ \A draw \in Draws : draw \in S <=> Empty(draw)
    OBVIOUS
  <2> HIDE DEF S, Empty
  <2>2. body \in Seq(S) /\ level \in Seq(S)
    <3>1. \A k \in DOMAIN body : body[k] \in S
      BY <1>1, <2>1
    <3>2. \A k \in DOMAIN level : level[k] \in S
      BY <1>2, <2>1
    <3> QED
      BY <1>1, <1>2, <2>1, <3>1, <3>2, Elements
  <2>3. draws \in Seq(S)
    BY <2>2
  <2> QED
    BY <2>1, <2>3, Elements
<1> HIDE DEF draws
<1>4. Readable(InTurn(draws))
  <2>1. \A i \in DOMAIN InTurn(draws) : \A draw \in InTurn(draws)[i] : draw.kind # "text"
    BY <1>3, InTurnBatches
  <2> QED
    BY <1>3, <2>1, InTurnBatches, WithoutTexts
<1>5. Part(draws, box)
  BY <1>3, <1>4 DEF Part
<1> QED
  BY <1>5 DEF draw_battery_icon, draws, body, level, box

\* White texts on a black fill.
LEMMA CoveredPart ==
    ASSUME NEW box \in Boxes, NEW draws \in Seq(Draws), Len(draws) > 0, Spaced(draws),
           draws[1].kind = "fill", draws[1].colour = "black", Inside(draws[1], box),
           \A n \in 2 .. Len(draws) : /\ draws[n].kind = "text" /\ draws[n].colour = "white"
                                     /\ Inside(draws[n], box) /\ Covers(draws[1], draws[n])
    PROVE  Part(draws, box)
<1>1. Readable(InTurn(draws))
  BY WhiteOnBlack
<1>2. \A n \in DOMAIN draws : n = 1 \/ n \in 2 .. Len(draws)
  OBVIOUS
<1> QED
  BY <1>1, <1>2 DEF Part

\* The inverted middle cell, with the icon of the backup heater or without it.
LEMMA HeatpumpPart ==
    ASSUME NEW backup \in BOOLEAN
    PROVE  Part(heatpump_cell(backup), Box(114, 223, 286, 298))
<1> DEFINE box == Box(114, 223, 286, 298)
           fill == Fill("black", 114, 223, 172, 75)
           power == Text("white", 114, 223, 172, 38)
           cop == Text("white", 114, 260, 172, 38)
           icon == Text("white", 114, 230, 32, 32)
           always == <<fill, power, cop>>
           draws == always \o (IF backup THEN <<icon>> ELSE <<>>)
           Written(text) == /\ text \in Draws /\ text.kind = "text" /\ text.colour = "white"
                            /\ Inside(text, box) /\ Covers(fill, text)
<1>1. /\ box \in Boxes /\ fill \in Draws /\ Inside(fill, box)
      /\ fill.kind = "fill" /\ fill.colour = "black"
  BY DEF Fill, Draw, Draws, Inside, Box, Boxes
<1>2. Written(power) /\ Written(cop) /\ Written(icon)
  BY DEF Fill, Text, Draw, Draws, Inside, Covers, Box
\* The icon lies over the beginning of both texts.
<1>3. /\ fill.kind # "text"
      /\ MayMeet(power, cop) /\ MayMeet(power, icon) /\ MayMeet(cop, icon)
  <2>1. fill.kind # "text" /\ MayMeet(power, cop)
    BY DEF MayMeet, Meets, Fill, Text, Draw
  <2>2. AreLaidOver(icon, power) /\ AreLaidOver(icon, cop)
    BY DEF AreLaidOver, LaidOver, Place, Text, Draw
  <2> QED
    BY <2>1, <2>2, LaidOverBoth DEF MayMeet
<1> HIDE DEF box, fill, power, cop, icon
<1>4. /\ always \in Seq(Draws) /\ Len(always) = 3
      /\ always[1] = fill /\ always[2] = power /\ always[3] = cop
  BY <1>1, <1>2
<1>5. draws \in Seq(Draws) /\ Len(draws) > 0 /\ draws[1] = fill /\ Spaced(draws)
      /\ \A n \in 2 .. Len(draws) : Written(draws[n])
  <2>1. CASE backup
    <3>1. /\ draws \in Seq(Draws) /\ Len(draws) = 4 /\ draws[1] = fill
          /\ draws[2] = power /\ draws[3] = cop /\ draws[4] = icon
      <4>1. fill \in Draws /\ power \in Draws /\ cop \in Draws /\ icon \in Draws
        BY <1>1, <1>2
      <4>2. draws = <<fill, power, cop>> \o <<icon>>
        BY <2>1
      <4> HIDE DEF draws
      <4> QED
        BY <4>1, <4>2, FourElements
    <3>2. /\ \A n \in 2..4 : n = 2 \/ n = 3 \/ n = 4
          /\ \A n \in 1..4 : n = 1 \/ n = 2 \/ n = 3 \/ n = 4
      OBVIOUS
    <3> HIDE DEF draws, Written
    <3>3. DOMAIN draws = 1..4
      BY <3>1
    <3>4. Spaced(draws)
      BY <1>3, <3>1, <3>2, <3>3, LaidOverBoth DEF Spaced, MayMeet
    <3> QED
      BY <1>2, <3>1, <3>2, <3>4
  <2>2. CASE ~backup
    <3>1. draws = always
      BY <1>4, <2>2
    <3>2. /\ \A n \in 2..3 : n = 2 \/ n = 3
          /\ \A n \in 1..3 : n = 1 \/ n = 2 \/ n = 3
      OBVIOUS
    <3> HIDE DEF draws, Written
    <3>3. DOMAIN draws = 1..3
      BY <1>4, <3>1
    <3>4. Spaced(draws)
      BY <1>4, <1>3, <3>1, <3>2, <3>3, LaidOverBoth DEF Spaced, MayMeet
    <3> QED
      BY <1>2, <1>4, <3>1, <3>2, <3>4
  <2> QED
    BY <2>1, <2>2
<1> HIDE DEF draws
<1>6. Part(draws, box)
  BY <1>1, <1>5, CoveredPart
<1> QED
  BY <1>6 DEF heatpump_cell, draws, always, fill, power, cop, icon, box

\* A cell whose texts are black, or white on a fill that comes first.
LEMMA InvertedPart ==
    ASSUME NEW box \in Boxes, NEW on \in BOOLEAN, NEW x \in Int, NEW texts \in Seq(Draws),
           Spaced(texts),
           Inside(Fill("black", x, 223, 113, 75), box),
           \A n \in DOMAIN texts : /\ texts[n].kind = "text"
                                  /\ texts[n].colour = Foreground(on)
                                  /\ Inside(texts[n], box)
                                  /\ Covers(Fill("black", x, 223, 113, 75), texts[n])
    PROVE  Part(Inverted(on, x) \o texts, box)
<1>1. PICK n \in Nat : n = Len(texts) /\ DOMAIN texts = 1..n
  OBVIOUS
<1>2. CASE on
  <2> DEFINE fill == Fill("black", x, 223, 113, 75)
             draws == <<fill>> \o texts
  <2>1. fill \in Draws /\ fill.kind = "fill" /\ fill.colour = "black"
    BY DEF Fill, Draw, Draws
  <2>2. /\ Inside(fill, box)
        /\ \A k \in 1..n : /\ texts[k].kind = "text" /\ texts[k].colour = "white"
                           /\ Inside(texts[k], box) /\ Covers(fill, texts[k])
    BY <1>1, <1>2 DEF Foreground
  <2>3. Inverted(on, x) \o texts = draws
    BY <1>2 DEF Inverted
  <2> HIDE DEF fill
  <2>4. /\ draws \in Seq(Draws) /\ Len(draws) > 0 /\ draws[1] = fill
        /\ \A k \in 2 .. Len(draws) : k - 1 \in 1..n /\ draws[k] = texts[k - 1]
    BY <1>1, <2>1, InFront
  <2> HIDE DEF draws
  <2>5. \A k \in 2 .. Len(draws) :
          /\ draws[k].kind = "text" /\ draws[k].colour = "white"
          /\ Inside(draws[k], box) /\ Covers(draws[1], draws[k])
    BY <2>2, <2>4
  <2>6. Spaced(draws)
    <3> SUFFICES ASSUME NEW j \in DOMAIN draws, NEW k \in DOMAIN draws, j # k,
                        draws[j].kind = "text", draws[k].kind = "text",
                        Meets(draws[j], draws[k])
                 PROVE  AreLaidOver(draws[j], draws[k])
      BY DEF Spaced
    <3>1. /\ j \in 2 .. Len(draws) /\ k \in 2 .. Len(draws)
          /\ j - 1 # k - 1
      <4>1. DOMAIN draws = 1 .. Len(draws) /\ j # 1 /\ k # 1
        BY <2>1, <2>4
      <4> QED
        BY <4>1
    <3>2. /\ j - 1 \in DOMAIN texts /\ draws[j] = texts[j - 1]
          /\ k - 1 \in DOMAIN texts /\ draws[k] = texts[k - 1]
      BY <1>1, <2>4, <3>1
    <3> QED
      BY <3>1, <3>2 DEF Spaced
  <2>7. Part(draws, box)
    BY <2>1, <2>2, <2>4, <2>5, <2>6, CoveredPart
  <2> QED
    BY <2>3, <2>7
<1>3. CASE ~on
  <2>1. Inverted(on, x) \o texts = texts
    BY <1>3 DEF Inverted
  <2>2. Foreground(on) = "black"
    BY <1>3 DEF Foreground
  <2> QED
    BY <2>1, <2>2, BlackPart
<1> QED
  BY <1>2, <1>3

\* The outdoor cell, inverted or not.
LEMMA OutdoorPart ==
    ASSUME NEW recommend \in BOOLEAN
    PROVE  Part(outdoor_cell(recommend), Box(1, 223, 114, 298))
<1> DEFINE box == Box(1, 223, 114, 298)
           fill == Fill("black", 1, 223, 113, 75)
           colour == Foreground(recommend)
           temperature == Text(colour, 1, 223, 113, 45)
           humidity == Text(colour, 1, 223 + 44, 113, 75 - 45)
           draws == <<temperature, humidity>>
           Written(text) == /\ text \in Draws /\ text.kind = "text" /\ text.colour = colour
                            /\ Inside(text, box) /\ Covers(fill, text)
<1>1. box \in Boxes /\ Inside(fill, box) /\ colour \in {"black", "white"}
  BY DEF Fill, Draw, Inside, Box, Boxes, Foreground
<1> HIDE DEF colour
<1>2. /\ Written(temperature) /\ Written(humidity)
      /\ ~Meets(temperature, humidity) /\ ~Meets(humidity, temperature)
  BY <1>1 DEF Fill, Text, Draw, Draws, Inside, Covers, Box, Meets
<1> HIDE DEF box, temperature, humidity
<1>3. /\ draws \in Seq(Draws) /\ DOMAIN draws = 1..2 /\ \A n \in 1..2 : Written(draws[n])
      /\ Spaced(draws)
  <2>1. /\ draws \in Seq(Draws) /\ DOMAIN draws = 1..2
        /\ draws[1] = temperature /\ draws[2] = humidity
    BY <1>2
  <2>2. \A n \in 1..2 : n = 1 \/ n = 2
    OBVIOUS
  <2> HIDE DEF draws, Written
  <2>3. Spaced(draws)
    BY <1>2, <2>1, <2>2 DEF Spaced
  <2> QED
    BY <1>2, <2>1, <2>2, <2>3
<1> HIDE DEF draws
<1>4. Part(Inverted(recommend, 1) \o draws, box)
  BY <1>1, <1>3, InvertedPart DEF colour
<1> QED
  BY <1>4 DEF outdoor_cell, text_with_subtext, draws, temperature, humidity, box, colour

\* The indoor cell with its icons, inverted or not.
LEMMA IndoorPart ==
    ASSUME NEW force \in BOOLEAN
    PROVE  Part(indoor_cell(force), Box(286, 223, 399, 298))
<1> DEFINE box == Box(286, 223, 399, 298)
           fill == Fill("black", 286, 223, 113, 75)
           colour == Foreground(force)
           heating == Text(colour, 293, 223, 32, 38)
           shower == Text(colour, 293, 260, 32, 38)
           indoor == Text(colour, 318, 223, 81, 38)
           water == Text(colour, 318, 260, 81, 38)
           draws == <<heating, shower, indoor, water>>
           Written(text) == /\ text \in Draws /\ text.kind = "text" /\ text.colour = colour
                            /\ Inside(text, box) /\ Covers(fill, text)
<1>1. box \in Boxes /\ Inside(fill, box) /\ colour \in {"black", "white"}
  BY DEF Fill, Draw, Inside, Box, Boxes, Foreground
<1> HIDE DEF colour
<1>2. Written(heating) /\ Written(shower) /\ Written(indoor) /\ Written(water)
  BY <1>1 DEF Fill, Text, Draw, Draws, Inside, Covers, Box
\* Each icon lies over the beginning of its text; nothing else overlaps.
<1>3. /\ MayMeet(heating, shower) /\ MayMeet(heating, indoor) /\ MayMeet(heating, water)
      /\ MayMeet(shower, indoor) /\ MayMeet(shower, water) /\ MayMeet(indoor, water)
  <2>1. /\ MayMeet(heating, shower) /\ MayMeet(heating, water)
        /\ MayMeet(shower, indoor) /\ MayMeet(indoor, water)
    BY DEF MayMeet, Meets, Text, Draw
  <2>2. AreLaidOver(heating, indoor) /\ AreLaidOver(shower, water)
    BY DEF AreLaidOver, LaidOver, Place, Text, Draw
  <2> QED
    BY <2>1, <2>2 DEF MayMeet
<1> HIDE DEF box, heating, shower, indoor, water
<1>4. /\ draws \in Seq(Draws) /\ DOMAIN draws = 1..4 /\ \A n \in 1..4 : Written(draws[n])
      /\ Spaced(draws)
  <2>1. /\ draws \in Seq(Draws) /\ DOMAIN draws = 1..4
        /\ draws[1] = heating /\ draws[2] = shower /\ draws[3] = indoor /\ draws[4] = water
    BY <1>2
  <2>2. \A n \in 1..4 : n = 1 \/ n = 2 \/ n = 3 \/ n = 4
    OBVIOUS
  <2> HIDE DEF draws, Written
  <2>3. Spaced(draws)
    BY <1>3, <2>1, <2>2, LaidOverBoth DEF Spaced, MayMeet
  <2> QED
    BY <1>2, <2>1, <2>2, <2>3
<1> HIDE DEF draws
<1>5. Part(Inverted(force, 286) \o draws, box)
  BY <1>1, <1>4, InvertedPart DEF colour
<1> QED
  BY <1>5 DEF indoor_cell, draws, heating, shower, indoor, water, box, colour

-----------------------------------------------------------------------------
(* The rows. *)

\* Two neighbouring cells of a row are a part of the box around them.
LEMMA TwoCells ==
    ASSUME NEW s, NEW t, NEW top \in Int, NEW bottom \in Int,
           NEW left \in Int, NEW middle \in Int, NEW start \in Int, NEW right \in Int,
           left <= start, middle <= start + 1, middle <= right,
           Part(s, Box(left, top, middle, bottom)), Part(t, Box(start, top, right, bottom))
    PROVE  Part(s \o t, Box(left, top, right, bottom))
<1>1. /\ Box(left, top, middle, bottom) \in Boxes /\ Box(start, top, right, bottom) \in Boxes
      /\ Box(left, top, right, bottom) \in Boxes
  BY DEF Box, Boxes
<1>2. /\ Neighbours(Box(left, top, middle, bottom), Box(start, top, right, bottom))
      /\ Encloses(Box(left, top, right, bottom), Box(left, top, middle, bottom))
      /\ Encloses(Box(left, top, right, bottom), Box(start, top, right, bottom))
  BY DEF Box, Neighbours, Encloses
<1> QED
  BY <1>1, <1>2, Join

\* The separator is drawn on the first or on the last line of its row.
LEMMA Separated ==
    ASSUME NEW s, NEW top \in Int, NEW bottom \in Int, NEW right \in Int, NEW y \in Int,
           right <= 399, y = top \/ y + 1 = bottom, top <= y, y + 1 <= bottom,
           Part(s, Box(1, top, right, bottom))
    PROVE  Part(s \o <<Separator(y)>>, Box(1, top, 399, bottom))
<1>1. /\ Box(1, top, right, bottom) \in Boxes /\ Box(1, y, 399, y + 1) \in Boxes
      /\ Box(1, top, 399, bottom) \in Boxes
  BY DEF Box, Boxes
<1>2. /\ Neighbours(Box(1, top, right, bottom), Box(1, y, 399, y + 1))
      /\ Encloses(Box(1, top, 399, bottom), Box(1, top, right, bottom))
      /\ Encloses(Box(1, top, 399, bottom), Box(1, y, 399, y + 1))
  BY DEF Box, Neighbours, Encloses
<1> QED
  BY <1>1, <1>2, SeparatorPart, Join

\* The first row, whether the solar production is split or not.
LEMMA EnergyRow ==
    ASSUME NEW split_solar_production \in BOOLEAN
    PROVE  Part(inverted_icon(1, 1) \o text_with_subtext("black", 75, 1, 124, 75)
                  \o inverted_icon(200, 1)
                  \o (IF split_solar_production
                      THEN << Text("black", 277, 1, 62, 50), Text("black", 333, 1, 62, 50),
                              Text("black", 274, 50, 124, 25) >>
                      ELSE text_with_subtext("black", 274, 1, 124, 75))
                  \o << Separator(75) >>,
                Box(1, 1, 399, 76))
<1>1. Part(inverted_icon(1, 1), Box(1, 1, 76, 76))
  BY IconPart
<1>2. Part(text_with_subtext("black", 75, 1, 124, 75), Box(75, 1, 199, 76))
  BY SubtextPart
<1>3. Part(inverted_icon(1, 1) \o text_with_subtext("black", 75, 1, 124, 75),
           Box(1, 1, 199, 76))
  BY <1>1, <1>2, TwoCells
<1>4. Part(inverted_icon(200, 1), Box(200, 1, 275, 76))
  BY IconPart
<1>5. Part(inverted_icon(1, 1) \o text_with_subtext("black", 75, 1, 124, 75)
             \o inverted_icon(200, 1), Box(1, 1, 275, 76))
  BY <1>3, <1>4, TwoCells
<1> DEFINE solar == IF split_solar_production
                    THEN << Text("black", 277, 1, 62, 50), Text("black", 333, 1, 62, 50),
                            Text("black", 274, 50, 124, 25) >>
                    ELSE text_with_subtext("black", 274, 1, 124, 75)
<1>6. Part(solar, Box(274, 1, 398, 76))
  <2>1. Part(text_with_subtext("black", 274, 1, 124, 75), Box(274, 1, 398, 76))
    BY SubtextPart
  <2> QED
    BY <2>1, SplitPart
<1> HIDE DEF solar
<1>7. Part(inverted_icon(1, 1) \o text_with_subtext("black", 75, 1, 124, 75)
             \o inverted_icon(200, 1) \o solar, Box(1, 1, 398, 76))
  BY <1>5, <1>6, TwoCells
<1>8. Part(inverted_icon(1, 1) \o text_with_subtext("black", 75, 1, 124, 75)
             \o inverted_icon(200, 1) \o solar \o << Separator(75) >>, Box(1, 1, 399, 76))
  BY <1>7, Separated
<1> QED
  BY <1>8 DEF solar

\* The second row, whatever the battery's charge.
LEMMA BatteryRow ==
    ASSUME NEW segments \in 0..4
    PROVE  Part(draw_battery_icon(segments)
                  \o << Text("black", 37, 75, 120, 37), Text("black", 157, 75, 120, 37),
                        Text("black", 277, 75, 120, 37) >>
                  \o << Separator(111) >>,
                Box(1, 75, 399, 112))
<1>1. Part(draw_battery_icon(segments), Box(1, 75, 38, 112))
  BY BatteryIconPart
<1>2. Part(draw_battery_icon(segments)
             \o << Text("black", 37, 75, 120, 37), Text("black", 157, 75, 120, 37),
                   Text("black", 277, 75, 120, 37) >>, Box(1, 75, 397, 112))
  BY <1>1, BatteryTextsPart, TwoCells
<1> QED
  BY <1>2, Separated

\* Date and time, which share a cell from its two sides.
LEMMA StatusBar ==
    Part(<< Text("black", 8, 199, 384, 25), Text("black", 8, 199, 384, 25) >>,
         Box(8, 199, 392, 224))
<1> DEFINE text == Text("black", 8, 199, 384, 25)
           draws == <<text, text>>
<1>1. /\ Box(8, 199, 392, 224) \in Boxes
      /\ text \in Draws /\ text.kind = "text" /\ text.colour = "black"
      /\ Inside(text, Box(8, 199, 392, 224))
  BY DEF Text, Draw, Draws, Inside, Box, Boxes
<1>2. AreLaidOver(text, text)
  BY DEF AreLaidOver, LaidOver, Place, Text, Draw
<1> HIDE DEF text
<1>3. draws \in Seq(Draws) /\ \A n \in DOMAIN draws : draws[n] = text
  BY <1>1
<1> HIDE DEF draws
<1>4. Part(draws, Box(8, 199, 392, 224))
  <2>1. Spaced(draws)
    BY <1>3, <1>2 DEF Spaced
  <2> QED
    BY <1>1, <1>3, <2>1, BlackPart
<1> QED
  BY <1>4 DEF draws, text

\* The last row, whichever of its cells are inverted.
LEMMA HeatpumpRow ==
    ASSUME NEW recommend \in BOOLEAN, NEW force \in BOOLEAN, NEW backup \in BOOLEAN
    PROVE  Part(outdoor_cell(recommend) \o heatpump_cell(backup) \o indoor_cell(force)
                  \o << Separator(223) >>,
                Box(1, 223, 399, 298))
<1>1. Part(outdoor_cell(recommend) \o heatpump_cell(backup), Box(1, 223, 286, 298))
  BY OutdoorPart, HeatpumpPart, TwoCells
<1>2. Part(outdoor_cell(recommend) \o heatpump_cell(backup) \o indoor_cell(force),
           Box(1, 223, 399, 298))
  BY <1>1, IndoorPart, TwoCells
<1> QED
  BY <1>2, Separated

-----------------------------------------------------------------------------
(* What is painted when a row is about to be drawn lies above that row.       *)

Top == [energy |-> 0, battery |-> 75, graph |-> 111, status |-> 199, heatpump |-> 223,
        done |-> 299]

Within(batches, top, bottom) ==
    \A i \in DOMAIN batches : \A draw \in batches[i] :
        /\ 0 <= draw.x /\ draw.x + draw.width <= 400
        /\ top <= draw.y /\ draw.y + draw.height <= bottom + 1

FrameInv ==
    /\ energy \in Energies
    /\ row \in DOMAIN Top
    /\ NoneNegative(energy) =>
         painted \in Batches /\ Within(painted, 0, Top[row]) /\ Readable(painted)

\* A row below what is painted keeps the texts readable.
LEMMA RowBelow ==
    ASSUME NEW s \in Batches, NEW t \in Batches,
           NEW top \in Int, NEW bottom \in Int, 0 <= top, top <= bottom,
           Within(s, 0, top), Within(t, top, bottom), Readable(s), Readable(t)
    PROVE  s \o t \in Batches /\ Within(s \o t, 0, bottom) /\ Readable(s \o t)
<1>1. /\ \A i \in DOMAIN s : s[i] \subseteq Draws
      /\ \A j \in DOMAIN t : t[j] \subseteq Draws
  BY DEF Batches
<1>2. Apart(s, t)
  <2> SUFFICES ASSUME NEW i \in DOMAIN s, NEW j \in DOMAIN t,
                      NEW draw \in s[i], NEW cell \in t[j]
               PROVE  ~Meets(draw, cell) /\ ~Meets(cell, draw)
    BY DEF Apart
  <2>1. draw \in Draws /\ cell \in Draws
    BY <1>1
  <2>2. draw.y + draw.height <= top + 1 /\ top <= cell.y
    BY DEF Within
  <2> QED
    BY <2>1, <2>2 DEF Draws, Meets
<1>3. Within(s \o t, 0, bottom)
  <2>1. /\ Len(s) \in Nat /\ Len(t) \in Nat /\ DOMAIN s = 1 .. Len(s) /\ DOMAIN t = 1 .. Len(t)
        /\ Len(s \o t) = Len(s) + Len(t) /\ DOMAIN (s \o t) = 1 .. Len(s \o t)
        /\ \A i \in 1 .. Len(s) + Len(t) :
             (s \o t)[i] = IF i <= Len(s) THEN s[i] ELSE t[i - Len(s)]
    BY ConcatProperties, LenProperties DEF Batches
  <2> SUFFICES ASSUME NEW i \in 1 .. Len(s) + Len(t), NEW draw \in (s \o t)[i]
               PROVE  /\ 0 <= draw.x /\ draw.x + draw.width <= 400
                      /\ 0 <= draw.y /\ draw.y + draw.height <= bottom + 1
    BY <2>1 DEF Within
  <2>2. CASE i <= Len(s)
    <3>1. i \in DOMAIN s /\ draw \in s[i] /\ draw \in Draws
      BY <1>1, <2>1, <2>2
    <3> QED
      BY <3>1 DEF Within, Draws
  <2>3. CASE i > Len(s)
    <3>1. i - Len(s) \in DOMAIN t /\ draw \in t[i - Len(s)] /\ draw \in Draws
      BY <1>1, <2>1, <2>3
    <3> QED
      BY <3>1 DEF Within, Draws
  <2> QED
    BY <2>1, <2>2, <2>3
<1> QED
  BY <1>2, <1>3, ReadableTogether DEF Batches

\* A row whose draws lie in a box between the two tops.
LEMMA PartPainted ==
    ASSUME FrameInv, NEW here \in DOMAIN Top, NEW next \in DOMAIN Top, NEW draws,
           Paint(here, next, draws), NEW box \in Boxes, Part(draws, box),
           0 <= box.left, box.right <= 400, Top[here] <= box.top, box.bottom <= Top[next] + 1,
           Top[here] <= Top[next]
    PROVE  FrameInv'
<1> SUFFICES ASSUME NoneNegative(energy)
             PROVE  /\ painted' \in Batches /\ Within(painted', 0, Top[next])
                    /\ Readable(painted')
  BY DEF FrameInv, Paint, PaintBatches, NoneNegative
<1> DEFINE batches == InTurn(draws)
<1>1. /\ painted \in Batches /\ Within(painted, 0, Top[here]) /\ Readable(painted)
      /\ painted' = painted \o batches
  BY DEF FrameInv, Paint, PaintBatches
<1>2. /\ batches \in Batches /\ DOMAIN batches = DOMAIN draws
      /\ \A n \in DOMAIN draws : batches[n] = {draws[n]} /\ draws[n] \in Draws
      /\ Readable(batches)
  BY InTurnBatches DEF Part
<1>3. \A n \in DOMAIN draws : Inside(draws[n], box)
  BY DEF Part
<1> HIDE DEF batches
<1>4. \A k \in DOMAIN Top : Top[k] \in Nat
  BY DEF Top
<1>5. Within(batches, Top[here], Top[next])
  <2> SUFFICES ASSUME NEW n \in DOMAIN draws
               PROVE  /\ 0 <= draws[n].x /\ draws[n].x + draws[n].width <= 400
                      /\ Top[here] <= draws[n].y
                      /\ draws[n].y + draws[n].height <= Top[next] + 1
    BY <1>2 DEF Within
  <2> QED
    BY <1>2, <1>3, <1>4 DEF Inside, Boxes, Draws
<1> QED
  BY <1>1, <1>2, <1>4, <1>5, RowBelow

\* The graph is drawn below two rows; it has no text, and stays in its own row.
LEMMA GraphPainted ==
    ASSUME FrameInv, render_graph
    PROVE  FrameInv'
<1> DEFINE batches == <<GraphDraws(energy)>>
<1>1. /\ row = "graph" /\ row' = "status" /\ energy' = energy
      /\ painted' = painted \o batches
  BY DEF render_graph, PaintBatches
<1> SUFFICES ASSUME NoneNegative(energy)
             PROVE  /\ painted' \in Batches /\ Within(painted', 0, 199) /\ Readable(painted')
  BY <1>1 DEF FrameInv, NoneNegative, Top
<1>2. painted \in Batches /\ Within(painted, 0, 111) /\ Readable(painted)
  BY <1>1 DEF FrameInv, Top
<1>3. energy \in Day
  BY EnergiesAssumption DEF FrameInv, Day
<1>4. \A draw \in GraphDraws(energy) :
        /\ draw \in Draws /\ draw.kind # "text"
        /\ 0 <= draw.x /\ draw.x + draw.width <= 400
        /\ 118 <= draw.y /\ draw.y + draw.height <= 193
  BY <1>3, GraphWithin DEF InGraph, OnPanel, GraphTop, graph_height
<1>5. /\ batches \in Seq(SUBSET Draws) /\ DOMAIN batches = {1}
      /\ batches[1] = GraphDraws(energy)
  BY <1>4
<1> HIDE DEF batches
<1>6. batches \in Batches /\ Within(batches, 111, 199)
  BY <1>4, <1>5 DEF Batches, Within, Draws
<1>7. Readable(batches)
  BY <1>4, <1>5, <1>6, WithoutTexts
<1> QED
  BY <1>1, <1>2, <1>6, <1>7, RowBelow

\* Every row is drawn below the one before it.
LEMMA FrameStep == FrameInv /\ [FrameNext]_frameVars => FrameInv'
<1> SUFFICES ASSUME FrameInv, [FrameNext]_frameVars PROVE FrameInv'
  OBVIOUS
<1>1. CASE render_energy_row
  <2>1. Box(1, 1, 399, 76) \in Boxes /\ Top["energy"] = 0 /\ Top["battery"] = 75
    BY DEF Box, Boxes, Top
  <2> QED
    BY <1>1, <2>1, EnergyRow, PartPainted DEF render_energy_row, Box, Top
<1>2. CASE render_battery_row
  BY <1>2, BatteryRow, PartPainted DEF render_battery_row, Box, Boxes, Top
<1>3. CASE render_graph
  BY <1>3, GraphPainted
<1>4. CASE render_status_bar
  BY <1>4, StatusBar, PartPainted DEF render_status_bar, Box, Boxes, Top
<1>5. CASE render_heatpump_row
  BY <1>5, HeatpumpRow, PartPainted DEF render_heatpump_row, Box, Boxes, Top
<1>6. CASE UNCHANGED frameVars
  BY <1>6 DEF frameVars, FrameInv, NoneNegative
<1> QED
  BY <1>1, <1>2, <1>3, <1>4, <1>5, <1>6 DEF FrameNext

\* What is drawn so far stays above the next row, and is readable.
LEMMA FrameInvariant == FrameSpec => []FrameInv
<1>1. FrameInit => FrameInv
  <2> SUFFICES ASSUME FrameInit PROVE FrameInv
    OBVIOUS
  <2>1. painted \in Batches /\ DOMAIN painted = {}
    BY DEF FrameInit, Batches
  <2> QED
    BY <2>1 DEF FrameInit, FrameInv, Within, Readable, Top
<1> QED
  BY <1>1, FrameStep, PTL DEF FrameSpec

\* Whatever the status shows, every text is on the panel, has the background it is read
\* on, and shares its cell with no other text but the one laid over it on purpose (the
\* pairs of LaidOver, which may overlap): for every set of days to draw, as long as no
\* bucket is below zero.
THEOREM FrameReadable == FrameSpec => []TextsStayReadable
<1>1. FrameInv => TextsStayReadable
  <2> SUFFICES ASSUME FrameInv, NoneNegative(energy)
               PROVE  /\ \A i \in DOMAIN painted : \A draw \in painted[i] : OnPanel(draw)
                      /\ Readable(painted)
    BY DEF TextsStayReadable
  <2>1. painted \in Batches /\ Within(painted, 0, Top[row]) /\ Readable(painted)
    BY DEF FrameInv
  <2>2. Top[row] \in 0..299
    BY DEF FrameInv, Top
  <2>3. \A i \in DOMAIN painted : \A draw \in painted[i] : draw \in Draws
    BY <2>1 DEF Batches
  <2> QED
    BY <2>1, <2>2, <2>3 DEF Within, OnPanel, Draws
<1> QED
  BY <1>1, FrameInvariant, PTL

\* The series that a frame draws is one of the assumed days.
LEMMA DrawnDay == FrameInv => energy \in Day
BY EnergiesAssumption DEF FrameInv, Day

\* The stacked bars never leave the padded graph, for any day without a negative
\* bucket.
THEOREM GraphInItsRow == FrameSpec => []GraphStaysInItsRow
<1>1. FrameInv => GraphStaysInItsRow
  BY DrawnDay, GraphWithin DEF GraphStaysInItsRow
<1> QED
  BY <1>1, FrameInvariant, PTL

\* The guides of the two sides are at most one pixel apart, for every day.
THEOREM OneScale == FrameSpec => []SidesShareTheScale
<1>1. FrameInv => SidesShareTheScale
  BY DrawnDay, GuidesAgree DEF SidesShareTheScale
<1> QED
  BY <1>1, FrameInvariant, PTL

\* The fullest hour of each side fills it, but for the pixel of two stacked bars,
\* for every day.
THEOREM FullestHours == FrameSpec => []FullestHoursFillTheGraph
<1>1. FrameInv => FullestHoursFillTheGraph
  BY DrawnDay, FullestReach DEF FullestHoursFillTheGraph
<1> QED
  BY <1>1, FrameInvariant, PTL
-----------------------------------------------------------------------------
(* The pen of a text. *)

Texts == Seq(SourceGlyphs)

\* A glyph's advance is positive and at most the width of the cell.
LEMMA GlyphOf ==
    ASSUME NEW text \in Texts, NEW i \in 1 .. Len(text)
    PROVE  /\ text[i].blank \in BOOLEAN
           /\ text[i].advance \in Int /\ 1 <= text[i].advance /\ text[i].advance <= max_width
<1>1. PICK glyph \in SourceGlyphs : glyph = text[i]
  BY DEF Texts
<1>2. max_width \in Nat /\ Advances \subseteq 1..max_width /\ BlankAdvance \in 1..max_width
  BY LayoutAssumption
<1>3. glyph.blank \in BOOLEAN /\ glyph.advance \in 1..max_width
  BY <1>2 DEF SourceGlyphs
<1> QED
  BY <1>1, <1>2, <1>3

\* The positions of a text.
LEMMA LengthOf ==
    ASSUME NEW text \in Texts
    PROVE  Len(text) \in Nat /\ DOMAIN text = 1 .. Len(text)
BY DEF Texts

\* A pen that is right for the first positions.
RightUpTo(text, pen, m) ==
    /\ pen \in [1..m -> Nat]
    /\ \A i \in 1..m : pen[i] = IF i = 1 THEN 0 ELSE pen[i - 1] + text[i - 1].advance

\* There is such a pen for every number of positions: the least number without one
\* would be one more than a number with one.
LEMMA PenExists ==
    ASSUME NEW text \in Texts, NEW m \in 1 .. Len(text) + 1
    PROVE  \E pen \in [1..m -> Nat] : RightUpTo(text, pen, m)
<1> DEFINE Without == {k \in 1 .. Len(text) + 1 :
                         ~\E pen \in [1..k -> Nat] : RightUpTo(text, pen, k)}
<1>1. Len(text) \in Nat
  BY LengthOf
<1>2. SUFFICES ASSUME Without # {} PROVE FALSE
  OBVIOUS
<1>3. PICK k \in Without : \A j \in Without : k <= j
  <2>1. Without \in SUBSET Nat
    BY <1>1
  <2> HIDE DEF Without
  <2> QED
    BY <1>2, <2>1, LeastExists
<1>4. k \in 1 .. Len(text) + 1 /\ ~\E pen \in [1..k -> Nat] : RightUpTo(text, pen, k)
  OBVIOUS
<1>5. CASE k = 1
  <2> DEFINE pen == [i \in 1..1 |-> 0]
  <2>1. pen \in [1..1 -> Nat] /\ \A i \in 1..1 : i = 1 /\ pen[i] = 0
    OBVIOUS
  <2> HIDE DEF pen
  <2>2. RightUpTo(text, pen, 1)
    BY <2>1 DEF RightUpTo
  <2> QED
    BY <1>4, <1>5, <2>1, <2>2
<1>6. CASE k > 1
  <2>1. k - 1 \in 1 .. Len(text) + 1 /\ k - 1 \in 1 .. Len(text) /\ k - 1 < k /\ k \in Nat
    BY <1>1, <1>4, <1>6
  <2>2. PICK pen \in [1 .. k - 1 -> Nat] : RightUpTo(text, pen, k - 1)
    <3>1. k - 1 \notin Without
      BY <1>3, <1>4, <2>1
    <3> QED
      BY <2>1, <3>1
  <2>3. PICK last \in Nat : last = pen[k - 1] + text[k - 1].advance
    <3>1. pen[k - 1] \in Nat
      BY <2>1, <2>2
    <3>2. text[k - 1].advance \in Nat
      BY <2>1, GlyphOf
    <3> QED
      BY <3>1, <3>2
  <2> DEFINE next == [i \in 1..k |-> IF i < k THEN pen[i] ELSE last]
  <2>4. /\ next \in [1..k -> Nat] /\ next[k] = last
        /\ \A i \in 1 .. k - 1 : next[i] = pen[i]
    BY <2>1, <2>2, <2>3
  <2> HIDE DEF next
  <2>5. ASSUME NEW i \in 1..k
        PROVE  next[i] = IF i = 1 THEN 0 ELSE next[i - 1] + text[i - 1].advance
    <3>1. CASE i < k
      <4>1. i \in 1 .. k - 1 /\ (i # 1 => i - 1 \in 1 .. k - 1)
        BY <2>1, <3>1
      <4>2. pen[i] = IF i = 1 THEN 0 ELSE pen[i - 1] + text[i - 1].advance
        BY <2>2, <4>1 DEF RightUpTo
      <4> QED
        BY <2>4, <4>1, <4>2
    <3>2. CASE i = k
      BY <1>6, <2>1, <2>3, <2>4, <3>2
    <3> QED
      BY <2>1, <3>1, <3>2
  <2>6. RightUpTo(text, next, k)
    BY <2>4, <2>5 DEF RightUpTo
  <2> QED
    BY <1>4, <2>4, <2>6
<1> QED
  BY <1>1, <1>4, <1>5, <1>6

\* The recursion of Pen has a solution, and Pen is one.
LEMMA PenSteps ==
    ASSUME NEW text \in Texts
    PROVE  /\ Pen(text)[1] = 0
           /\ \A i \in 1 .. Len(text) + 1 : Pen(text)[i] \in Nat
           /\ \A i \in 1 .. Len(text) : Pen(text)[i + 1] = Pen(text)[i] + text[i].advance
<1> DEFINE m == Len(text) + 1
           Recursion(pen) ==
              pen = [i \in 1..m |-> IF i = 1 THEN 0 ELSE pen[i - 1] + text[i - 1].advance]
<1>1. Len(text) \in Nat /\ m \in 1..m /\ m \in Nat
  BY LengthOf
<1>2. PICK pen \in [1..m -> Nat] : RightUpTo(text, pen, m)
  BY <1>1, PenExists
<1>3. Recursion(pen)
  <2>1. pen = [i \in 1..m |-> pen[i]]
    BY <1>2
  <2>2. \A i \in 1..m : pen[i] = IF i = 1 THEN 0 ELSE pen[i - 1] + text[i - 1].advance
    BY <1>2 DEF RightUpTo
  <2> HIDE DEF m
  <2> QED
    BY <2>1, <2>2, Zenon
<1>4. Pen(text) = CHOOSE f : Recursion(f)
  BY DEF Pen
<1>5. Recursion(Pen(text))
  <2> HIDE DEF Recursion
  <2> QED
    BY <1>3, <1>4, Zenon
<1>6. /\ DOMAIN Pen(text) = 1..m
      /\ \A i \in 1..m : Pen(text)[i] =
            IF i = 1 THEN 0 ELSE Pen(text)[i - 1] + text[i - 1].advance
  <2> HIDE DEF m
  <2> QED
    BY <1>5, Zenon
<1>7. \A i \in 1 .. Len(text) : Pen(text)[i + 1] = Pen(text)[i] + text[i].advance
  <2> SUFFICES ASSUME NEW i \in 1 .. Len(text)
               PROVE  Pen(text)[i + 1] = Pen(text)[i] + text[i].advance
    OBVIOUS
  <2>1. i + 1 \in 1..m /\ i + 1 # 1 /\ (i + 1) - 1 = i
    BY <1>1
  <2> QED
    BY <1>6, <2>1
<1>8. Pen(text)[1] = 0
  BY <1>1, <1>6
<1>9. \A i \in 1..m : Pen(text)[i] \in Nat
  <2> DEFINE Bad == {i \in 1..m : Pen(text)[i] \notin Nat}
  <2> SUFFICES ASSUME Bad # {} PROVE FALSE
    OBVIOUS
  <2>1. PICK i \in Bad : \A j \in Bad : i <= j
    <3>1. Bad \in SUBSET Nat
      BY <1>1
    <3> HIDE DEF Bad
    <3> QED
      BY <3>1, LeastExists
  <2>2. i \in 1..m /\ i # 1
    BY <1>8, <2>1
  <2>3. i - 1 \in 1 .. Len(text) /\ i - 1 \in 1..m /\ i - 1 < i
    BY <1>1, <2>2
  <2>4. Pen(text)[i - 1] \in Nat
    BY <2>1, <2>2, <2>3
  <2>5. text[i - 1].advance \in Nat
    BY <2>3, GlyphOf
  <2> QED
    BY <1>6, <2>1, <2>2, <2>4, <2>5
<1> QED
  BY <1>7, <1>8, <1>9

\* The pen never goes back, and each glyph moves it.
LEMMA PenRises ==
    ASSUME NEW text \in Texts, NEW i \in 1 .. Len(text) + 1, NEW j \in 1 .. Len(text) + 1, i < j
    PROVE  Pen(text)[i] < Pen(text)[j]
<1> DEFINE Bad == {k \in 1 .. Len(text) + 1 : i < k /\ ~(Pen(text)[i] < Pen(text)[k])}
<1>1. Len(text) \in Nat
  BY LengthOf
<1> SUFFICES ASSUME Bad # {} PROVE FALSE
  OBVIOUS
<1>2. PICK k \in Bad : \A l \in Bad : k <= l
  <2>1. Bad \in SUBSET Nat
    BY <1>1
  <2> HIDE DEF Bad
  <2> QED
    BY <2>1, LeastExists
<1>3. /\ k \in 1 .. Len(text) + 1 /\ i < k /\ ~(Pen(text)[i] < Pen(text)[k])
      /\ k - 1 \in 1 .. Len(text) /\ k - 1 \in 1 .. Len(text) + 1 /\ k = (k - 1) + 1
      /\ k - 1 < k
  BY <1>1
<1>4. Pen(text)[k] = Pen(text)[k - 1] + text[k - 1].advance
  <2>1. \A l \in 1 .. Len(text) : Pen(text)[l + 1] = Pen(text)[l] + text[l].advance
    BY PenSteps
  <2> QED
    BY <1>3, <2>1
<1>5. /\ Pen(text)[i] \in Nat /\ Pen(text)[k] \in Nat /\ Pen(text)[k - 1] \in Nat
      /\ text[k - 1].advance \in Int /\ text[k - 1].advance >= 1
  BY <1>3, PenSteps, GlyphOf
<1>6. CASE k - 1 = i
  BY <1>3, <1>4, <1>5, <1>6
<1>7. CASE i < k - 1
  <2>1. k - 1 \notin Bad
    BY <1>2, <1>3
  <2>2. Pen(text)[i] < Pen(text)[k - 1]
    BY <1>3, <1>7, <2>1
  <2>3. Pen(text)[k - 1] < Pen(text)[k]
    BY <1>4, <1>5
  <2>4. Pen(text)[i] < Pen(text)[k]
    BY <1>5, <2>2, <2>3
  <2> QED
    BY <1>3, <2>4
<1> QED
  BY <1>1, <1>3, <1>6, <1>7

\* What a width is made of.
LEMMA Widths ==
    ASSUME NEW text \in Texts,
           NEW i \in 1 .. Len(text) + 1, NEW j \in 1 .. Len(text) + 1, i <= j
    PROVE  /\ WidthOf(text, i, j) \in Nat
           /\ i < j => WidthOf(text, i, j) > 0
           /\ WidthOf(text, i, i) = 0
           /\ \A k \in 1 .. Len(text) + 1 :
                WidthOf(text, i, k) = WidthOf(text, i, j) + WidthOf(text, j, k)
<1>1. \A k \in 1 .. Len(text) + 1 : Pen(text)[k] \in Nat
  BY PenSteps
<1>2. i = j \/ i < j
  BY LengthOf
<1>3. i < j => Pen(text)[i] < Pen(text)[j]
  BY PenRises
<1> QED
  BY <1>1, <1>2, <1>3 DEF WidthOf

\* A text of one glyph is as wide as the glyph's advance.
LEMMA GlyphWidth ==
    ASSUME NEW text \in Texts, NEW i \in 1 .. Len(text)
    PROVE  WidthOf(text, i, i + 1) = text[i].advance
<1>1. Pen(text)[i] \in Nat /\ Pen(text)[i + 1] = Pen(text)[i] + text[i].advance
  <2>1. i \in 1 .. Len(text) + 1
    BY LengthOf
  <2> QED
    BY <2>1, PenSteps
<1>2. text[i].advance \in Int
  BY GlyphOf
<1> QED
  BY <1>1, <1>2 DEF WidthOf

\* Where a word ends: a blank after itself, another word where a blank or the end of
\* the text comes first.
LEMMA WordEnds ==
    ASSUME NEW text \in Texts, NEW start \in 1 .. Len(text)
    PROVE  /\ WordEnd(text, start) \in start + 1 .. Len(text) + 1
           /\ text[start].blank => WordEnd(text, start) = start + 1
           /\ ~text[start].blank =>
                /\ \A i \in start .. WordEnd(text, start) - 1 : ~text[i].blank
                /\ \/ WordEnd(text, start) = Len(text) + 1
                   \/ text[WordEnd(text, start)].blank
<1> DEFINE next == {i \in start + 1 .. Len(text) : text[start].blank \/ text[i].blank}
           Ends == next \cup {Len(text) + 1}
<1>1. Len(text) \in Nat
  BY LengthOf
<1>2. /\ Ends \in SUBSET Nat /\ Ends # {} /\ \A i \in Ends : i \in start + 1 .. Len(text) + 1
  BY <1>1
<1>3. WordEnd(text, start) \in Ends /\ \A i \in Ends : WordEnd(text, start) <= i
  <2>1. WordEnd(text, start) = CHOOSE x \in Ends : \A y \in Ends : x <= y
    BY DEF WordEnd, Min
  <2> HIDE DEF Ends
  <2>2. \E x \in Ends : \A y \in Ends : x <= y
    BY <1>2, LeastExists
  <2> QED
    BY <2>1, <2>2
<1>4. WordEnd(text, start) \in start + 1 .. Len(text) + 1
  BY <1>2, <1>3
<1>5. ASSUME text[start].blank PROVE WordEnd(text, start) = start + 1
  <2>1. start + 1 \in Ends
    BY <1>1, <1>5
  <2> QED
    BY <1>1, <1>3, <1>4, <2>1
<1>6. ASSUME ~text[start].blank, NEW i \in start .. WordEnd(text, start) - 1
      PROVE  ~text[i].blank
  <2>1. i = start \/ i \in start + 1 .. Len(text)
    BY <1>1, <1>4
  <2>2. i \notin Ends
    BY <1>1, <1>3, <1>4
  <2> QED
    BY <1>6, <2>1, <2>2
<1>7. ASSUME ~text[start].blank
      PROVE  WordEnd(text, start) = Len(text) + 1 \/ text[WordEnd(text, start)].blank
  BY <1>3, <1>7
<1> QED
  BY <1>4, <1>5, <1>6, <1>7
-----------------------------------------------------------------------------
(* The inductive invariant of the layout. *)

LinesOf(text) == [start : 1 .. Len(text) + 1, end : 1 .. Len(text) + 1, width : Nat]

LayoutTypes ==
    /\ glyphs \in Texts
    /\ at \in 1 .. Len(glyphs) + 1 /\ range_start \in 1 .. at
    /\ word_end \in 0 .. Len(glyphs) + 1
    /\ range_width \in Nat /\ width_before_last_blank \in Nat
    /\ finished \in BOOLEAN
    /\ lines \in Seq(LinesOf(glyphs))

\* A word that is being broken up reaches from `at` to its end; otherwise a word
\* begins at `at`.
Words ==
    IF word_end # 0
    THEN /\ ~finished /\ at < word_end /\ \A i \in at .. word_end - 1 : ~glyphs[i].blank
         /\ word_end = Len(glyphs) + 1 \/ glyphs[word_end].blank
    ELSE at = 1 \/ at = Len(glyphs) + 1 \/ glyphs[at - 1].blank \/ glyphs[at].blank

\* The lines lie one after the other, before a bound.
Ordered(ls, bound) ==
    /\ \A k \in DOMAIN ls : ls[k].start < ls[k].end /\ ls[k].end <= bound
    /\ \A k \in DOMAIN ls : k + 1 \in DOMAIN ls => ls[k].end <= ls[k + 1].start

Shown(ls, i) == \E k \in DOMAIN ls : ls[k].start <= i /\ i < ls[k].end

\* Where the text is that no finished line holds.
Rest == IF finished THEN Len(glyphs) + 1 ELSE range_start

Covered ==
    /\ Ordered(lines, Rest)
    /\ \A i \in 1 .. Rest - 1 : glyphs[i].blank \/ Shown(lines, i)

\* The width of the line in progress is at most that of its glyphs; it is 0 only
\* where there is no letter, and only a blank takes it beyond the cell.
Counted ==
    /\ range_width <= WidthOf(glyphs, range_start, at)
    /\ range_width = 0 => \A i \in range_start .. at - 1 : glyphs[i].blank
    /\ range_width > max_width => at > 1 /\ glyphs[at - 1].blank

\* What would have had to fit for the line not to end before `next`.
Wraps(text, start, next) ==
    LET in_word == next > 1 /\ ~text[next - 1].blank /\ ~text[next].blank
    IN  WidthOf(text, start, IF in_word THEN next + 1 ELSE WordEnd(text, next)) > max_width

Wrapped(text, ls, next) ==
    /\ \A k \in DOMAIN ls : k + 1 \in DOMAIN ls => Wraps(text, ls[k].start, ls[k + 1].start)
    /\ Len(ls) > 0 /\ next <= Len(text) => Wraps(text, ls[Len(ls)].start, next)

Needed == Wrapped(glyphs, lines, Rest)

\* But for a blank at its end, the range fits the cell.
InCell(text, start, end) ==
    \/ WidthOf(text, start, end) <= max_width
    \/ start < end /\ text[end - 1].blank /\ WidthOf(text, start, end - 1) <= max_width

GoodLine(text, line) ==
    line.width = WidthOf(text, line.start, line.end) /\ InCell(text, line.start, line.end)

\* The widths that the code counts are those of the glyphs.
Measured ==
    BlanksApart =>
      /\ range_width = WidthOf(glyphs, range_start, at)
      /\ InCell(glyphs, range_start, at)
      /\ range_start < at /\ glyphs[at - 1].blank =>
           width_before_last_blank = WidthOf(glyphs, range_start, at - 1)
      /\ \A k \in DOMAIN lines : GoodLine(glyphs, lines[k])

LayoutInv ==
    LayoutTypes /\ Words /\ Covered /\ Counted /\ Needed /\ Measured

-----------------------------------------------------------------------------

\* The word at which the loop is.
LEMMA TheWord ==
    ASSUME LayoutTypes, Words, AtWord
    PROVE  /\ at \in 1 .. Len(glyphs)
           /\ Word.start = at /\ Word.blank = glyphs[at].blank
           /\ Word.end \in at + 1 .. Len(glyphs) + 1
           /\ Word.width = WidthOf(glyphs, at, Word.end) /\ Word.width \in Nat /\ Word.width > 0
           /\ Word.end = WordEnd(glyphs, at)
           /\ IF glyphs[at].blank
              THEN Word.end = at + 1
              ELSE /\ \A i \in at .. Word.end - 1 : ~glyphs[i].blank
                   /\ Word.end = Len(glyphs) + 1 \/ glyphs[Word.end].blank
           /\ at > 1 => glyphs[at - 1].blank \/ glyphs[at].blank
<1>1. glyphs \in Texts /\ at \in 1 .. Len(glyphs) + 1 /\ Len(glyphs) \in Nat
  BY LengthOf DEF LayoutTypes
<1>2. at \in 1 .. Len(glyphs) /\ word_end = 0
  BY <1>1 DEF AtWord
<1>3. PICK end \in at + 1 .. Len(glyphs) + 1 : end = WordEnd(glyphs, at)
  BY <1>1, <1>2, WordEnds
<1>4. PICK width \in Nat : width = WidthOf(glyphs, at, end) /\ width > 0
  <2>1. end \in 1 .. Len(glyphs) + 1 /\ at < end /\ at <= end
    BY <1>1, <1>2, <1>3
  <2> QED
    BY <1>1, <2>1, Widths
<1>5. /\ Word.start = at /\ Word.blank = glyphs[at].blank /\ Word.end = end
      /\ Word.width = width
  BY <1>3, <1>4 DEF Word
<1>6. IF glyphs[at].blank
      THEN end = at + 1
      ELSE /\ \A i \in at .. end - 1 : ~glyphs[i].blank
           /\ end = Len(glyphs) + 1 \/ glyphs[end].blank
  BY <1>1, <1>2, <1>3, WordEnds
<1>7. at > 1 => glyphs[at - 1].blank \/ glyphs[at].blank
  BY <1>1, <1>2 DEF Words
<1> QED
  BY <1>2, <1>3, <1>4, <1>5, <1>6, <1>7

\* Each branch of the loop keeps the types.
LEMMA TypesStep ==
    ASSUME LayoutTypes, Words, Next
    PROVE  LayoutTypes'
<1> DEFINE n == Len(glyphs)
<1>1. /\ glyphs \in Texts /\ n \in Nat
      /\ at \in 1 .. n + 1 /\ range_start \in 1 .. at /\ range_width \in Nat
      /\ word_end \in 0 .. n + 1 /\ width_before_last_blank \in Nat /\ finished \in BOOLEAN
      /\ lines \in Seq(LinesOf(glyphs))
  BY LengthOf DEF LayoutTypes
<1>2. \A end \in 1 .. n + 1, width \in Nat :
        Append(lines, Line(end, width)) \in Seq(LinesOf(glyphs))
  <2> SUFFICES ASSUME NEW end \in 1 .. n + 1, NEW width \in Nat
               PROVE  Line(end, width) \in LinesOf(glyphs)
    BY <1>1
  <2> QED
    BY <1>1 DEF Line, LinesOf
<1>3. CASE Extend
  <2>1. Word.end \in at + 1 .. n + 1 /\ Word.width \in Nat
    BY <1>3, TheWord DEF Extend
  <2> QED
    BY <1>1, <1>3, <2>1 DEF Extend, LayoutTypes
<1>4. CASE BreakWord
  <2>1. Word.end \in at + 1 .. n + 1 /\ Word.start = at
    BY <1>4, TheWord DEF BreakWord
  <2>2. range_start' \in 1 .. at /\ range_width' \in Nat /\ lines' \in Seq(LinesOf(glyphs))
    <3>1. CASE range_width > 0
      <4>1. /\ lines' = Append(lines, Line(at, range_width))
            /\ range_start' = at /\ range_width' = 0
        BY <1>4, <2>1, <3>1 DEF BreakWord
      <4> QED
        BY <1>1, <1>2, <4>1
    <3>2. CASE ~(range_width > 0)
      BY <1>1, <1>4, <3>2 DEF BreakWord
    <3> QED
      BY <3>1, <3>2
  <2>3. /\ glyphs' = glyphs /\ at' = at /\ finished' = finished
        /\ width_before_last_blank' = width_before_last_blank /\ word_end' = Word.end
    BY <1>4 DEF BreakWord
  <2> QED
    BY <1>1, <2>1, <2>2, <2>3 DEF LayoutTypes
<1>5. CASE BreakGlyph
  <2>1. at \in 1..n
    BY <1>1, <1>5 DEF BreakGlyph, Words
  <2>2. PICK advance \in Nat : advance = glyphs[at].advance
    BY <1>1, <2>1, GlyphOf
  <2>3. range_start' \in 1 .. at /\ range_width' \in Nat /\ lines' \in Seq(LinesOf(glyphs))
    <3>1. CASE range_width + advance <= max_width
      BY <1>1, <1>5, <2>2, <3>1 DEF BreakGlyph
    <3>2. CASE ~(range_width + advance <= max_width)
      <4>1. /\ lines' = IF range_start < at
                        THEN Append(lines, Line(at, range_width)) ELSE lines
            /\ range_start' = at /\ range_width' = advance
        BY <1>5, <2>2, <3>2 DEF BreakGlyph
      <4> QED
        BY <1>1, <1>2, <2>2, <4>1
    <3> QED
      BY <3>1, <3>2
  <2>4. /\ glyphs' = glyphs /\ at' = at + 1 /\ finished' = finished
        /\ word_end' \in 0 .. n + 1 /\ width_before_last_blank' = width_before_last_blank
    BY <1>1, <1>5 DEF BreakGlyph
  <2> QED
    BY <1>1, <2>1, <2>3, <2>4 DEF LayoutTypes
<1>6. CASE NextLine
  <2>1. /\ Word.end \in at + 1 .. n + 1 /\ Word.start = at /\ Word.width \in Nat
        /\ at \in 1..n
    BY <1>6, TheWord DEF NextLine
  <2>2. Ended(Word).end \in 0 .. n + 1 /\ Ended(Word).width \in Nat
    BY <1>1, <2>1 DEF Ended
  <2>3. lines' \in Seq(LinesOf(glyphs))
    <3>1. CASE range_start < Ended(Word).end
      <4>1. Ended(Word).end \in 1 .. n + 1
        BY <1>1, <2>2, <3>1
      <4> QED
        BY <1>1, <1>2, <1>6, <2>2, <4>1 DEF NextLine
    <3>2. CASE ~(range_start < Ended(Word).end)
      BY <1>1, <1>6, <3>2 DEF NextLine
    <3> QED
      BY <3>1, <3>2
  <2> QED
    BY <1>1, <1>6, <2>1, <2>3 DEF NextLine, LayoutTypes
<1>7. CASE Finish
  BY <1>1, <1>2, <1>7 DEF Finish, WithLastLine, LayoutTypes
<1> QED
  BY <1>3, <1>4, <1>5, <1>6, <1>7 DEF Next

\* The loop is at the beginning of a word, or within the one it breaks up.
LEMMA WordsStep ==
    ASSUME LayoutTypes, Words, Next
    PROVE  Words'
<1> DEFINE n == Len(glyphs)
<1>1. /\ glyphs \in Texts /\ n \in Nat /\ at \in 1 .. n + 1 /\ word_end \in 0 .. n + 1
      /\ glyphs' = glyphs
  BY LengthOf DEF LayoutTypes, Next, Extend, BreakWord, BreakGlyph, NextLine, Finish
<1>2. CASE Extend \/ NextLine
  <2>1. AtWord /\ word_end' = word_end /\ at' = Word.end
    BY <1>2 DEF Extend, NextLine
  <2>2. /\ Word.end \in at + 1 .. n + 1 /\ at \in 1..n
        /\ IF glyphs[at].blank
           THEN Word.end = at + 1
           ELSE Word.end = n + 1 \/ glyphs[Word.end].blank
    BY <2>1, TheWord
  <2>3. at' = n + 1 \/ glyphs[at' - 1].blank \/ glyphs[at'].blank
    BY <2>1, <2>2
  <2> QED
    BY <1>1, <2>1, <2>3 DEF AtWord, Words
<1>3. CASE BreakWord
  <2>1. AtWord /\ word_end' = Word.end /\ at' = at /\ finished' = finished
    BY <1>3 DEF BreakWord
  <2>2. ~glyphs[at].blank
    <3> SUFFICES ASSUME glyphs[at].blank PROVE FALSE
      OBVIOUS
    <3>1. Word.end = at + 1 /\ at \in 1..n /\ Word.width = WidthOf(glyphs, at, at + 1)
      BY <2>1, TheWord
    <3>2. Word.width = glyphs[at].advance /\ glyphs[at].advance <= max_width
      BY <1>1, <3>1, GlyphWidth, GlyphOf
    <3> QED
      BY <1>1, <1>3, <3>1, <3>2, GlyphOf, LayoutAssumption DEF BreakWord
  <2>3. /\ Word.end \in at + 1 .. n + 1 /\ \A i \in at .. Word.end - 1 : ~glyphs[i].blank
        /\ Word.end = n + 1 \/ glyphs[Word.end].blank
    BY <2>1, <2>2, TheWord
  <2> QED
    BY <1>1, <2>1, <2>3 DEF AtWord, Words
<1>4. CASE BreakGlyph
  <2>1. /\ word_end # 0 /\ at' = at + 1 /\ finished' = finished
        /\ word_end' = IF at + 1 = word_end THEN 0 ELSE word_end
    BY <1>4 DEF BreakGlyph
  <2>2. /\ ~finished /\ at < word_end /\ \A i \in at .. word_end - 1 : ~glyphs[i].blank
        /\ word_end = n + 1 \/ glyphs[word_end].blank
    BY <2>1 DEF Words
  <2> QED
    BY <1>1, <2>1, <2>2 DEF Words
<1>5. CASE Finish
  BY <1>1, <1>5 DEF Finish, Words
<1> QED
  BY <1>2, <1>3, <1>4, <1>5 DEF Next
-----------------------------------------------------------------------------
(* What a step does to the lines: it leaves them, it skips blanks, it ends the  *)
(* line in progress, or it ends the layout.                                     *)

Stays == ~finished' /\ lines' = lines /\ range_start' = range_start

Skips ==
    /\ ~finished' /\ lines' = lines /\ range_start' = at /\ at <= Len(glyphs)
    /\ \A i \in range_start .. at - 1 : glyphs[i].blank

EndsLine ==
    \E end \in range_start + 1 .. at, width \in Nat :
        /\ ~finished' /\ lines' = Append(lines, Line(end, width))
        /\ range_start' = at /\ at <= Len(glyphs)
        /\ \A i \in end .. at - 1 : glyphs[i].blank
        /\ Wraps(glyphs, range_start, at)

Finishes ==
    /\ finished' /\ range_start' = range_start
    /\ \/ lines' = lines /\ \A i \in range_start .. Len(glyphs) : glyphs[i].blank
       \/ /\ range_start <= Len(glyphs)
          /\ \E width \in Nat : lines' = Append(lines, Line(Len(glyphs) + 1, width))

\* The types once more, in the form that arithmetic needs.
LEMMA LayoutFacts ==
    ASSUME LayoutTypes
    PROVE  /\ glyphs \in Texts /\ Len(glyphs) \in Nat
           /\ at \in 1 .. Len(glyphs) + 1 /\ range_start \in 1 .. Len(glyphs) + 1
           /\ range_start <= at /\ range_width \in Nat /\ width_before_last_blank \in Nat
           /\ word_end \in 0 .. Len(glyphs) + 1 /\ finished \in BOOLEAN
           /\ max_width \in Nat
BY LengthOf, LayoutAssumption DEF LayoutTypes

\* A line ends where the next word does not fit any more.
LEMMA WrapsAtWord ==
    ASSUME LayoutTypes, Words, AtWord, NEW start \in 1 .. at,
           WidthOf(glyphs, start, at) + Word.width > max_width
    PROVE  Wraps(glyphs, start, at)
<1>1. /\ at \in 1 .. Len(glyphs)
      /\ at > 1 => glyphs[at - 1].blank \/ glyphs[at].blank
      /\ Word.end \in at + 1 .. Len(glyphs) + 1 /\ Word.end = WordEnd(glyphs, at)
      /\ Word.width = WidthOf(glyphs, at, Word.end)
  BY TheWord
<1>2. WidthOf(glyphs, start, Word.end) =
        WidthOf(glyphs, start, at) + WidthOf(glyphs, at, Word.end)
  <2>1. /\ start \in 1 .. Len(glyphs) + 1 /\ start <= at
        /\ Word.end \in 1 .. Len(glyphs) + 1
    BY <1>1, LayoutFacts
  <2> QED
    BY <2>1, Widths, LayoutFacts
<1> QED
  BY <1>1, <1>2 DEF Wraps

\* What a turn of the loop does to the lines is one of four moves.
LEMMA Moves ==
    ASSUME LayoutTypes, Words, Covered, Counted, Next
    PROVE  glyphs' = glyphs /\ (Stays \/ Skips \/ EndsLine \/ Finishes)
<1> DEFINE n == Len(glyphs)
<1>1. /\ glyphs \in Texts /\ n \in Nat /\ at \in 1 .. n + 1 /\ range_start \in 1 .. n + 1
      /\ range_start <= at /\ range_width \in Nat /\ max_width \in Nat
      /\ width_before_last_blank \in Nat /\ word_end \in 0 .. n + 1
  BY LayoutFacts
<1>2. glyphs' = glyphs
  BY DEF Next, Extend, BreakWord, BreakGlyph, NextLine, Finish
<1>3. PICK so_far \in Nat :
        /\ so_far = WidthOf(glyphs, range_start, at) /\ range_width <= so_far
        /\ range_start = at => so_far = 0
  BY <1>1, Widths DEF Counted
<1>4. CASE Extend
  BY <1>4 DEF Extend, AtWord, Stays
<1>5. CASE BreakWord
  <2>1. AtWord /\ Word.start = at /\ at <= n /\ Word.width > max_width /\ Word.width \in Nat
    BY <1>5, TheWord DEF BreakWord
  <2>2. CASE range_width > 0
    <3>1. range_start < at
      BY <1>1, <1>3, <2>2
    <3>2. Wraps(glyphs, range_start, at)
      BY <1>1, <1>3, <2>1, WrapsAtWord
    <3>3. /\ lines' = Append(lines, Line(at, range_width)) /\ range_start' = at
          /\ ~finished'
      BY <1>5, <2>1, <2>2 DEF BreakWord, AtWord
    <3> QED
      BY <1>1, <1>2, <2>1, <3>1, <3>2, <3>3 DEF EndsLine
  <2>3. CASE ~(range_width > 0)
    BY <1>2, <1>5, <2>1, <2>3 DEF BreakWord, AtWord, Stays
  <2> QED
    BY <2>2, <2>3
<1>6. CASE BreakGlyph
  <2>1. ~finished' /\ at \in 1..n
    BY <1>1, <1>6 DEF BreakGlyph, Words
  <2>2. PICK advance \in Nat : advance = glyphs[at].advance
    BY <1>1, <2>1, GlyphOf
  <2>3. CASE range_width + advance <= max_width
    BY <1>2, <1>6, <2>1, <2>2, <2>3 DEF BreakGlyph, Stays
  <2>4. CASE ~(range_width + advance <= max_width)
    <3>1. /\ lines' = IF range_start < at
                      THEN Append(lines, Line(at, range_width)) ELSE lines
          /\ range_start' = at
      BY <1>6, <2>2, <2>4 DEF BreakGlyph
    <3>2. CASE range_start < at
      <4>1. WidthOf(glyphs, range_start, at + 1) = so_far + advance
        <5>1. WidthOf(glyphs, at, at + 1) = advance
          BY <1>1, <2>1, <2>2, GlyphWidth
        <5>2. at + 1 \in 1 .. n + 1
          BY <1>1, <2>1
        <5> QED
          BY <1>1, <1>3, <5>1, <5>2, Widths
      <4>2. PICK end \in at + 1 .. n + 1 : end = WordEnd(glyphs, at)
        BY <1>1, <2>1, WordEnds
      <4>3. /\ WidthOf(glyphs, range_start, end) \in Int
            /\ WidthOf(glyphs, range_start, end) >= so_far + advance
        <5>1. at + 1 \in 1 .. n + 1 /\ end \in 1 .. n + 1 /\ at + 1 <= end
              /\ range_start <= at + 1
          BY <1>1, <2>1, <4>2
        <5>2. WidthOf(glyphs, at + 1, end) \in Nat
          BY <1>1, <5>1, Widths
        <5>3. WidthOf(glyphs, range_start, end) =
                WidthOf(glyphs, range_start, at + 1) + WidthOf(glyphs, at + 1, end)
          BY <1>1, <5>1, Widths
        <5> QED
          BY <4>1, <5>2, <5>3
      <4>4. /\ WidthOf(glyphs, range_start, at + 1) > max_width
            /\ WidthOf(glyphs, range_start, WordEnd(glyphs, at)) > max_width
        BY <1>1, <1>3, <2>2, <2>4, <4>1, <4>2, <4>3, SMTT(30)
      <4>5. Wraps(glyphs, range_start, at)
        BY <4>4 DEF Wraps
      <4> QED
        BY <1>1, <1>2, <2>1, <3>1, <3>2, <4>5 DEF EndsLine
    <3>3. CASE ~(range_start < at)
      BY <1>1, <1>2, <2>1, <3>1, <3>3 DEF Skips
    <3> QED
      BY <3>2, <3>3
  <2> QED
    BY <2>3, <2>4
<1>7. CASE NextLine
  <2>1. /\ AtWord /\ ~Fits(Word) /\ Word.start = at /\ at <= n
        /\ Word.width \in Nat /\ Word.width > 0 /\ ~finished' /\ range_start' = at
    BY <1>7, TheWord DEF NextLine, AtWord
  <2>2. PICK end \in 0 .. n + 1, width \in Nat :
          /\ end = Ended(Word).end /\ width = Ended(Word).width
          /\ end = at \/ (end = at - 1 /\ at > 1 /\ glyphs[at - 1].blank)
    BY <1>1, <2>1 DEF Ended
  <2>3. lines' = IF range_width > 0 /\ range_start < end
                 THEN Append(lines, Line(end, width)) ELSE lines
    BY <1>7, <2>2 DEF NextLine
  <2>4. CASE range_width > 0 /\ range_start < end
    <3>1. so_far + Word.width > max_width
      BY <1>1, <1>3, <2>1 DEF Fits
    <3>2. Wraps(glyphs, range_start, at)
      BY <1>1, <1>3, <2>1, <3>1, WrapsAtWord
    <3>3. end \in range_start + 1 .. at /\ \A i \in end .. at - 1 : glyphs[i].blank
      BY <1>1, <2>2, <2>4
    <3> QED
      BY <1>2, <2>1, <2>3, <2>4, <3>2, <3>3 DEF EndsLine
  <2>5. CASE ~(range_width > 0 /\ range_start < end)
    <3>1. \A i \in range_start .. at - 1 : glyphs[i].blank
      BY <1>1, <2>2, <2>5 DEF Counted
    <3> QED
      BY <1>2, <2>1, <2>3, <2>5, <3>1 DEF Skips
  <2> QED
    BY <2>4, <2>5
<1>8. CASE Finish
  <2>1. /\ at = n + 1 /\ finished' /\ range_start' = range_start
        /\ lines' = IF range_start <= n /\ range_width > 0
                    THEN Append(lines, Line(n + 1, range_width)) ELSE lines
    BY <1>1, <1>8 DEF Finish, WithLastLine
  <2>2. CASE range_start <= n /\ range_width > 0
    BY <1>1, <1>2, <2>1, <2>2 DEF Finishes
  <2>3. CASE ~(range_start <= n /\ range_width > 0)
    <3>1. \A i \in range_start .. n : glyphs[i].blank
      BY <1>1, <2>1, <2>3 DEF Counted
    <3> QED
      BY <1>2, <2>1, <2>3, <3>1 DEF Finishes
  <2> QED
    BY <2>2, <2>3
<1> QED
  BY <1>2, <1>4, <1>5, <1>6, <1>7, <1>8 DEF Next
\* One more line.
LEMMA LineAdded ==
    ASSUME LayoutTypes, NEW end \in 1 .. Len(glyphs) + 1, NEW width \in Nat,
           NEW ls, ls = Append(lines, Line(end, width))
    PROVE  /\ Len(lines) \in Nat /\ DOMAIN lines = 1 .. Len(lines)
           /\ Len(ls) = Len(lines) + 1 /\ DOMAIN ls = 1 .. Len(lines) + 1
           /\ \A k \in 1 .. Len(lines) : ls[k] = lines[k]
           /\ ls[Len(lines) + 1].start = range_start /\ ls[Len(lines) + 1].end = end
           /\ ls[Len(lines) + 1].width = width
           /\ \A k \in 1 .. Len(lines) : /\ lines[k].start \in 1 .. Len(glyphs) + 1
                                         /\ lines[k].end \in 1 .. Len(glyphs) + 1
<1>1. lines \in Seq(LinesOf(glyphs)) /\ range_start \in 1 .. Len(glyphs) + 1
  BY LayoutFacts DEF LayoutTypes
<1> DEFINE last == Line(end, width)
<1>2. /\ last \in LinesOf(glyphs)
      /\ last.start = range_start /\ last.end = end /\ last.width = width
  BY <1>1 DEF Line, LinesOf
<1>3. \A k \in DOMAIN lines : lines[k] \in LinesOf(glyphs)
  BY <1>1
<1>4. PICK m \in Nat : m = Len(lines) /\ DOMAIN lines = 1..m
  BY <1>1
<1>5. /\ DOMAIN Append(lines, last) = 1 .. m + 1 /\ Len(Append(lines, last)) = m + 1
      /\ \A k \in 1..m : Append(lines, last)[k] = lines[k]
      /\ Append(lines, last)[m + 1] = last
  <2> HIDE DEF LinesOf, last
  <2>1. /\ Append(lines, last) \in Seq(LinesOf(glyphs))
        /\ Len(Append(lines, last)) = Len(lines) + 1
        /\ \A k \in 1 .. Len(lines) : Append(lines, last)[k] = lines[k]
        /\ Append(lines, last)[Len(lines) + 1] = last
    BY <1>1, <1>2, AppendProperties
  <2> QED
    BY <1>4, <2>1
<1>6. \A k \in 1..m : lines[k].start \in 1 .. Len(glyphs) + 1
                      /\ lines[k].end \in 1 .. Len(glyphs) + 1
  BY <1>3, <1>4 DEF LinesOf
<1> QED
  BY <1>2, <1>4, <1>5, <1>6

\* A line that ends before a bound, after the lines before it.
LEMMA OrderedAdded ==
    ASSUME LayoutTypes, Ordered(lines, range_start), NEW bound \in 1 .. Len(glyphs) + 1,
           NEW end \in range_start + 1 .. bound, NEW width \in Nat
    PROVE  /\ Ordered(Append(lines, Line(end, width)), bound)
           /\ \A i \in Int : Shown(lines, i) \/ i \in range_start .. end - 1 =>
                Shown(Append(lines, Line(end, width)), i)
<1> DEFINE ls == Append(lines, Line(end, width))
<1>1. range_start \in 1 .. Len(glyphs) + 1 /\ Len(glyphs) \in Nat
  BY LayoutFacts
<1>2. end \in 1 .. Len(glyphs) + 1
  BY <1>1
<1>0. ls = Append(lines, Line(end, width))
  OBVIOUS
<1> HIDE DEF ls
<1>3. PICK m \in Nat :
        /\ DOMAIN lines = 1..m /\ DOMAIN ls = 1 .. m + 1
        /\ \A k \in 1..m : ls[k] = lines[k]
        /\ ls[m + 1].start = range_start /\ ls[m + 1].end = end
        /\ \A k \in 1..m : /\ lines[k].start \in 1 .. Len(glyphs) + 1
                           /\ lines[k].end \in 1 .. Len(glyphs) + 1
  BY <1>0, <1>2, LineAdded, SMTT(30)
<1>4. \A k \in 1 .. m + 1 : k \in 1..m \/ k = m + 1
  OBVIOUS
<1>5. \A k \in 1..m : lines[k].start < lines[k].end /\ lines[k].end <= range_start
  BY <1>3 DEF Ordered
<1>6. \A k \in 1 .. m + 1 : ls[k].start < ls[k].end /\ ls[k].end <= bound
  BY <1>1, <1>2, <1>3, <1>4, <1>5
<1>7. ASSUME NEW k \in 1 .. m + 1, k + 1 \in 1 .. m + 1
      PROVE  ls[k].end <= ls[k + 1].start
  <2>1. k \in 1..m /\ (k + 1 \in 1..m \/ k + 1 = m + 1)
    BY <1>7
  <2>2. CASE k + 1 \in 1..m
    BY <1>3, <2>1, <2>2 DEF Ordered
  <2>3. CASE k + 1 = m + 1
    BY <1>3, <1>5, <2>1, <2>3
  <2> QED
    BY <2>1, <2>2, <2>3
<1>8. Ordered(ls, bound)
  BY <1>3, <1>6, <1>7 DEF Ordered
<1>9. ASSUME NEW i \in Int, Shown(lines, i) \/ i \in range_start .. end - 1
      PROVE  Shown(ls, i)
  <2>1. CASE Shown(lines, i)
    <3>1. PICK k \in 1..m : lines[k].start <= i /\ i < lines[k].end
      BY <1>3, <2>1 DEF Shown
    <3>2. k \in 1 .. m + 1
      OBVIOUS
    <3> QED
      BY <1>3, <3>1, <3>2 DEF Shown
  <2>2. CASE i \in range_start .. end - 1
    <3>1. m + 1 \in 1 .. m + 1 /\ range_start <= i /\ i < end
      BY <1>1, <1>2, <2>2
    <3> QED
      BY <1>3, <3>1 DEF Shown
  <2> QED
    BY <1>9, <2>1, <2>2
<1> QED
  BY <1>8, <1>9 DEF ls

\* Between the lines there are only blanks, after each move.
LEMMA CoveredStep ==
    ASSUME LayoutTypes, Words, Covered, Counted, Next
    PROVE  Covered'
<1> DEFINE n == Len(glyphs)
<1>1. /\ n \in Nat /\ at \in 1 .. n + 1 /\ range_start \in 1 .. n + 1 /\ range_start <= at
      /\ glyphs' = glyphs
  BY LayoutFacts, Moves
<1>2. Rest = range_start
  BY DEF Rest, Next, Extend, BreakWord, BreakGlyph, NextLine, Finish, AtWord, Words
<1>3. /\ Ordered(lines, range_start)
      /\ \A i \in 1 .. range_start - 1 : glyphs[i].blank \/ Shown(lines, i)
  BY <1>2 DEF Covered
<1>4. \A bound \in 1 .. n + 1 : range_start <= bound => Ordered(lines, bound)
  <2>1. \A k \in DOMAIN lines : lines[k].end \in Int
    <3>1. \A k \in DOMAIN lines : lines[k] \in LinesOf(glyphs)
      BY DEF LayoutTypes
    <3> QED
      BY <1>1, <3>1 DEF LinesOf
  <2> QED
    BY <1>1, <1>3, <2>1 DEF Ordered
<1>5. SUFFICES \E bound \in 1 .. n + 1 :
        /\ Rest' = bound /\ Ordered(lines', bound)
        /\ \A i \in 1 .. bound - 1 : glyphs[i].blank \/ Shown(lines', i)
  BY <1>1 DEF Covered
<1>6. CASE Stays
  <2>1. Rest' = range_start /\ lines' = lines
    BY <1>6 DEF Stays, Rest
  <2> QED
    BY <1>1, <1>3, <2>1
<1>7. CASE Skips
  <2>1. /\ Rest' = at /\ lines' = lines
        /\ \A i \in range_start .. at - 1 : glyphs[i].blank
    BY <1>7 DEF Skips, Rest
  <2>2. \A i \in 1 .. at - 1 : i \in 1 .. range_start - 1 \/ i \in range_start .. at - 1
    BY <1>1
  <2> QED
    BY <1>1, <1>3, <1>4, <2>1, <2>2
<1>8. CASE EndsLine
  <2>1. PICK end \in range_start + 1 .. at, width \in Nat :
          /\ lines' = Append(lines, Line(end, width))
          /\ \A i \in end .. at - 1 : glyphs[i].blank
    BY <1>8 DEF EndsLine
  <2>2. Rest' = at
    BY <1>8 DEF EndsLine, Rest
  <2>3. /\ Ordered(lines', at)
        /\ \A i \in Int : Shown(lines, i) \/ i \in range_start .. end - 1 => Shown(lines', i)
    BY <1>1, <1>3, <2>1, OrderedAdded
  <2>4. \A i \in 1 .. at - 1 : /\ i \in Int
                               /\ \/ i \in 1 .. range_start - 1
                                  \/ i \in range_start .. end - 1
                                  \/ i \in end .. at - 1
    BY <1>1
  <2> QED
    BY <1>1, <1>3, <2>1, <2>2, <2>3, <2>4
<1>9. CASE Finishes
  <2>1. Rest' = n + 1
    BY <1>1, <1>9 DEF Finishes, Rest
  <2>2. \A i \in 1..n : i \in Int /\ (i \in 1 .. range_start - 1 \/ i \in range_start .. n)
    BY <1>1
  <2>3. CASE lines' = lines /\ \A i \in range_start .. n : glyphs[i].blank
    BY <1>1, <1>3, <1>4, <2>1, <2>2, <2>3
  <2>4. CASE range_start <= n /\ \E width \in Nat : lines' = Append(lines, Line(n + 1, width))
    <3>1. PICK width \in Nat : lines' = Append(lines, Line(n + 1, width))
      BY <2>4
    <3>2. n + 1 \in 1 .. n + 1 /\ n + 1 \in range_start + 1 .. n + 1
      BY <1>1, <2>4
    <3>3. /\ Ordered(lines', n + 1)
          /\ \A i \in Int : Shown(lines, i) \/ i \in range_start .. (n + 1) - 1 =>
               Shown(lines', i)
      BY <1>3, <3>1, <3>2, OrderedAdded
    <3> QED
      BY <1>1, <1>3, <2>1, <2>2, <3>2, <3>3
  <2> QED
    BY <1>9, <2>3, <2>4 DEF Finishes
<1> QED
  BY <1>6, <1>7, <1>8, <1>9, Moves
\* A line that had to end before some blanks had to end after them as well.
LEMMA WrapsLater ==
    ASSUME NEW text \in Texts, NEW next \in 1 .. Len(text), NEW later \in next .. Len(text),
           NEW start \in 1 .. next, \A i \in next .. later - 1 : text[i].blank,
           Wraps(text, start, next)
    PROVE  Wraps(text, start, later)
<1>1. Len(text) \in Nat /\ max_width \in Nat
  BY LengthOf, LayoutAssumption
<1>2. CASE next = later
  BY <1>2
<1>3. CASE next < later
  <2>1. text[next].blank
    BY <1>1, <1>3
  <2>2. WordEnd(text, next) = next + 1
    BY <2>1, WordEnds
  <2>3. WidthOf(text, start, next + 1) > max_width
    BY <2>1, <2>2 DEF Wraps
  <2>4. \A end \in later + 1 .. Len(text) + 1 : WidthOf(text, start, end) > max_width
    <3> SUFFICES ASSUME NEW end \in later + 1 .. Len(text) + 1
                 PROVE  WidthOf(text, start, end) > max_width
      OBVIOUS
    <3>1. /\ start \in 1 .. Len(text) + 1 /\ next + 1 \in 1 .. Len(text) + 1
          /\ end \in 1 .. Len(text) + 1 /\ start <= next + 1 /\ next + 1 <= end
      BY <1>1, <1>3
    <3>2. /\ WidthOf(text, start, next + 1) \in Nat /\ WidthOf(text, next + 1, end) \in Nat
          /\ WidthOf(text, start, end) =
               WidthOf(text, start, next + 1) + WidthOf(text, next + 1, end)
      BY <3>1, Widths
    <3> QED
      BY <1>1, <2>3, <3>2
  <2>5. later + 1 \in later + 1 .. Len(text) + 1
    BY <1>1
  <2>6. WordEnd(text, later) \in later + 1 .. Len(text) + 1
    <3>1. later \in 1 .. Len(text)
      BY <1>1
    <3> QED
      BY <3>1, WordEnds
  <2> QED
    BY <2>4, <2>5, <2>6 DEF Wraps
<1> QED
  BY <1>1, <1>2, <1>3

\* A line that is added after the others, where the one before it had to end.
LEMMA WrappedAdded ==
    ASSUME LayoutTypes, Wrapped(glyphs, lines, range_start), range_start <= Len(glyphs),
           NEW next \in 1 .. Len(glyphs) + 1,
           next <= Len(glyphs) => Wraps(glyphs, range_start, next),
           NEW end \in 1 .. Len(glyphs) + 1, NEW width \in Nat
    PROVE  Wrapped(glyphs, Append(lines, Line(end, width)), next)
<1> DEFINE ls == Append(lines, Line(end, width))
<1>1. ls = Append(lines, Line(end, width))
  OBVIOUS
<1> HIDE DEF ls
<1>2. PICK m \in Nat :
        /\ m = Len(lines) /\ DOMAIN lines = 1..m
        /\ DOMAIN ls = 1 .. m + 1 /\ Len(ls) = m + 1
        /\ \A k \in 1..m : ls[k] = lines[k]
        /\ ls[m + 1].start = range_start
  BY <1>1, LineAdded
<1>3. ASSUME NEW k \in 1 .. m + 1, k + 1 \in 1 .. m + 1
      PROVE  Wraps(glyphs, ls[k].start, ls[k + 1].start)
  <2>1. k \in 1..m /\ (k + 1 \in 1..m \/ k = m)
    BY <1>3
  <2>2. CASE k + 1 \in 1..m
    <3>1. Wraps(glyphs, lines[k].start, lines[k + 1].start)
      BY <1>2, <2>1, <2>2 DEF Wrapped
    <3> QED
      BY <1>2, <2>1, <2>2, <3>1
  <2>3. CASE k = m
    <3>1. Wraps(glyphs, lines[m].start, range_start)
      BY <1>2, <2>1, <2>3 DEF Wrapped
    <3> QED
      BY <1>2, <2>1, <2>3, <3>1
  <2> QED
    BY <2>1, <2>2, <2>3
<1>4. next <= Len(glyphs) => Wraps(glyphs, ls[m + 1].start, next)
  BY <1>2
<1>5. Wrapped(glyphs, ls, next)
  BY <1>2, <1>3, <1>4 DEF Wrapped
<1> QED
  BY <1>1, <1>5

\* A line was ended because the rest of its word did not fit, after each move.
LEMMA NeededStep ==
    ASSUME LayoutTypes, Words, Covered, Counted, Needed, Next
    PROVE  Needed'
<1> DEFINE n == Len(glyphs)
<1>1. /\ glyphs \in Texts /\ n \in Nat /\ at \in 1 .. n + 1 /\ range_start \in 1 .. n + 1
      /\ range_start <= at /\ glyphs' = glyphs
  BY LayoutFacts, Moves
<1>2. Rest = range_start
  BY DEF Rest, Next, Extend, BreakWord, BreakGlyph, NextLine, Finish, AtWord, Words
<1>3. Wrapped(glyphs, lines, range_start) /\ Ordered(lines, range_start)
  BY <1>2 DEF Needed, Covered
<1>4. SUFFICES Wrapped(glyphs, lines', Rest')
  BY <1>1 DEF Needed
<1>5. CASE Stays
  <2>1. Rest' = range_start /\ lines' = lines
    BY <1>5 DEF Stays, Rest
  <2> QED
    BY <1>3, <2>1
<1>6. CASE Skips
  <2>1. /\ Rest' = at /\ lines' = lines /\ at \in range_start .. n
        /\ \A i \in range_start .. at - 1 : glyphs[i].blank
    BY <1>1, <1>6 DEF Skips, Rest
  <2>2. ASSUME Len(lines) > 0
        PROVE  Wraps(glyphs, lines[Len(lines)].start, at)
    <3>1. Len(lines) \in DOMAIN lines /\ lines[Len(lines)] \in LinesOf(glyphs)
      BY <2>2 DEF LayoutTypes
    <3>2. lines[Len(lines)].start \in 1 .. range_start
      BY <1>1, <1>3, <3>1 DEF Ordered, LinesOf
    <3>3. range_start \in 1..n /\ Wraps(glyphs, lines[Len(lines)].start, range_start)
      BY <1>1, <1>3, <2>1, <2>2 DEF Wrapped
    <3> QED
      BY <1>1, <2>1, <3>2, <3>3, WrapsLater
  <2> QED
    BY <1>3, <2>1, <2>2 DEF Wrapped
<1>7. CASE EndsLine
  <2>1. PICK end \in range_start + 1 .. at, width \in Nat :
          /\ lines' = Append(lines, Line(end, width))
          /\ at <= n /\ Wraps(glyphs, range_start, at)
    BY <1>7 DEF EndsLine
  <2>2. Rest' = at
    BY <1>7 DEF EndsLine, Rest
  <2>3. end \in 1 .. n + 1 /\ range_start <= n
    BY <1>1, <2>1
  <2> QED
    BY <1>1, <1>3, <2>1, <2>2, <2>3, WrappedAdded
<1>8. CASE Finishes
  <2>1. Rest' = n + 1 /\ n + 1 \in 1 .. n + 1 /\ ~(n + 1 <= n)
    BY <1>1, <1>8 DEF Finishes, Rest
  <2>2. CASE lines' = lines
    BY <1>3, <2>1, <2>2 DEF Wrapped
  <2>3. CASE range_start <= n /\ \E width \in Nat : lines' = Append(lines, Line(n + 1, width))
    BY <1>3, <2>1, <2>3, WrappedAdded
  <2> QED
    BY <1>8, <2>2, <2>3 DEF Finishes
<1> QED
  BY <1>5, <1>6, <1>7, <1>8, Moves

\* range_width never counts more than the line in progress holds.
LEMMA CountedStep ==
    ASSUME LayoutTypes, Words, Counted, Next
    PROVE  Counted'
<1> DEFINE n == Len(glyphs)
<1>1. /\ glyphs \in Texts /\ n \in Nat /\ at \in 1 .. n + 1 /\ range_start \in 1 .. n + 1
      /\ range_start <= at /\ range_width \in Nat /\ max_width \in Nat
      /\ word_end \in 0 .. n + 1
  BY LayoutFacts
<1>2. glyphs' = glyphs
  BY DEF Next, Extend, BreakWord, BreakGlyph, NextLine, Finish
<1>3. PICK so_far \in Nat : so_far = WidthOf(glyphs, range_start, at) /\ range_width <= so_far
  BY <1>1, Widths DEF Counted
<1>4. SUFFICES /\ range_width' <= WidthOf(glyphs, range_start', at')
               /\ range_width' = 0 => \A i \in range_start' .. at' - 1 : glyphs[i].blank
               /\ range_width' > max_width => at' > 1 /\ glyphs[at' - 1].blank
  BY <1>2 DEF Counted
<1>5. \A end \in 1 .. n + 1 :
        WidthOf(glyphs, range_start, end) = so_far + WidthOf(glyphs, at, end)
  BY <1>1, <1>3, Widths
<1>6. CASE Extend
  <2>1. PICK end \in at + 1 .. n + 1, width \in Nat :
          /\ end = Word.end /\ width = Word.width /\ width > 0
          /\ width = WidthOf(glyphs, at, end) /\ (Word.blank => end = at + 1)
          /\ Word.blank = glyphs[at].blank
    BY <1>6, TheWord DEF Extend
  <2>2. at' = end /\ range_start' = range_start /\ range_width' = range_width + width
    BY <1>6, <2>1 DEF Extend
  <2>3. range_width + width <= max_width \/ Word.blank
    BY <1>6, <2>1 DEF Extend, Fits
  <2>4. WidthOf(glyphs, range_start, end) = so_far + width
    BY <1>1, <1>5, <2>1
  <2>5. range_width' <= WidthOf(glyphs, range_start', at') /\ range_width' # 0
    BY <1>1, <1>3, <2>1, <2>2, <2>4, SMTT(30)
  <2>6. range_width' > max_width => at' > 1 /\ glyphs[at' - 1].blank
    BY <1>1, <2>1, <2>2, <2>3, SMTT(30)
  <2> QED
    BY <2>5, <2>6
<1>7. CASE BreakWord
  <2>1. Word.start = at /\ at' = at
    BY <1>7, TheWord DEF BreakWord
  <2>2. CASE range_width > 0
    <3>1. range_start' = at /\ range_width' = 0 /\ WidthOf(glyphs, at, at) = 0
      BY <1>1, <1>7, <2>1, <2>2, Widths DEF BreakWord
    <3> QED
      BY <1>1, <2>1, <3>1
  <2>3. CASE ~(range_width > 0)
    <3>1. range_start' = range_start /\ range_width' = range_width
      BY <1>7, <2>3 DEF BreakWord
    <3> QED
      BY <2>1, <3>1 DEF Counted
  <2> QED
    BY <2>2, <2>3
<1>8. CASE BreakGlyph
  <2>1. at \in 1..n /\ at' = at + 1
    BY <1>1, <1>8 DEF BreakGlyph, Words
  <2>2. PICK advance \in Nat :
          /\ advance = glyphs[at].advance /\ advance > 0 /\ advance <= max_width
          /\ advance = WidthOf(glyphs, at, at + 1)
    BY <1>1, <2>1, GlyphOf, GlyphWidth
  <2>3. CASE range_width + advance <= max_width
    <3>1. range_start' = range_start /\ range_width' = range_width + advance
      BY <1>8, <2>2, <2>3 DEF BreakGlyph
    <3>2. WidthOf(glyphs, range_start, at + 1) = so_far + advance
      BY <1>1, <1>5, <2>1, <2>2
    <3> QED
      BY <1>1, <1>3, <2>1, <2>2, <2>3, <3>1, <3>2
  <2>4. CASE ~(range_width + advance <= max_width)
    <3>1. range_start' = at /\ range_width' = advance
      BY <1>8, <2>2, <2>4 DEF BreakGlyph
    <3> QED
      BY <1>1, <2>1, <2>2, <3>1
  <2> QED
    BY <2>3, <2>4
<1>9. CASE NextLine
  <2>1. PICK end \in at + 1 .. n + 1, width \in Nat :
          /\ end = Word.end /\ width = Word.width /\ width > 0
          /\ width = WidthOf(glyphs, at, end) /\ (Word.blank => end = at + 1)
          /\ Word.blank = glyphs[at].blank /\ Word.start = at
    BY <1>9, TheWord DEF NextLine
  <2>2. /\ at' = end /\ range_start' = at /\ width <= max_width
        /\ range_width' = IF Word.blank THEN 0 ELSE width
    BY <1>9, <2>1 DEF NextLine
  <2>3. CASE Word.blank
    <3>1. \A i \in at .. end - 1 : i = at
      BY <1>1, <2>1, <2>3
    <3>2. /\ range_width' = 0 /\ range_start' = at /\ at' = end /\ end = at + 1
          /\ WidthOf(glyphs, at, end) \in Nat
      BY <2>1, <2>2, <2>3
    <3>3. \A i \in at .. end - 1 : glyphs[i].blank
      BY <2>1, <2>3, <3>1
    <3> QED
      BY <1>1, <3>2, <3>3
  <2>4. CASE ~Word.blank
    BY <1>1, <2>1, <2>2, <2>4
  <2> QED
    BY <2>3, <2>4
<1>10. CASE Finish
  BY <1>10 DEF Finish, Counted
<1> QED
  BY <1>6, <1>7, <1>8, <1>9, <1>10 DEF Next

\* A line that fits and is as wide as it says may join the finished ones.
LEMMA GoodLineAdded ==
    ASSUME LayoutTypes, \A k \in DOMAIN lines : GoodLine(glyphs, lines[k]),
           NEW end \in 1 .. Len(glyphs) + 1, NEW width \in Nat,
           width = WidthOf(glyphs, range_start, end), InCell(glyphs, range_start, end),
           NEW ls, ls = Append(lines, Line(end, width))
    PROVE  \A k \in DOMAIN ls : GoodLine(glyphs, ls[k])
<1>1. PICK m \in Nat :
        /\ DOMAIN lines = 1..m /\ DOMAIN ls = 1 .. m + 1
        /\ \A k \in 1..m : ls[k] = lines[k]
        /\ ls[m + 1].start = range_start /\ ls[m + 1].end = end /\ ls[m + 1].width = width
  BY LineAdded
<1>2. \A k \in 1 .. m + 1 : k \in 1..m \/ k = m + 1
  OBVIOUS
<1>3. GoodLine(glyphs, ls[m + 1])
  BY <1>1 DEF GoodLine
<1>4. \A k \in 1..m : GoodLine(glyphs, ls[k])
  BY <1>1
<1> QED
  BY <1>1, <1>2, <1>3, <1>4

\* Without two blanks in a row, the widths are exact and the lines fit, after each move.
LEMMA MeasuredStep ==
    ASSUME LayoutTypes, Words, Counted, Measured, Next
    PROVE  Measured'
<1> DEFINE n == Len(glyphs)
<1>1. /\ glyphs \in Texts /\ n \in Nat /\ at \in 1 .. n + 1 /\ range_start \in 1 .. n + 1
      /\ range_start <= at /\ range_width \in Nat /\ max_width \in Nat
      /\ word_end \in 0 .. n + 1 /\ width_before_last_blank \in Nat
  BY LayoutFacts
<1>2. glyphs' = glyphs /\ (BlanksApart' => BlanksApart)
  <2>1. glyphs' = glyphs
    BY DEF Next, Extend, BreakWord, BreakGlyph, NextLine, Finish
  <2> QED
    BY <2>1 DEF BlanksApart
<1>3. SUFFICES ASSUME BlanksApart
               PROVE  /\ range_width' = WidthOf(glyphs, range_start', at')
                      /\ InCell(glyphs, range_start', at')
                      /\ range_start' < at' /\ glyphs[at' - 1].blank =>
                           width_before_last_blank' = WidthOf(glyphs, range_start', at' - 1)
                      /\ \A k \in DOMAIN lines' : GoodLine(glyphs, lines'[k])
  BY <1>2 DEF Measured
<1>4. /\ range_width = WidthOf(glyphs, range_start, at)
      /\ InCell(glyphs, range_start, at)
      /\ range_start < at /\ glyphs[at - 1].blank =>
           width_before_last_blank = WidthOf(glyphs, range_start, at - 1)
      /\ \A k \in DOMAIN lines : GoodLine(glyphs, lines[k])
  BY <1>3 DEF Measured
<1>5. \A end \in 1 .. n + 1 :
        WidthOf(glyphs, range_start, end) = range_width + WidthOf(glyphs, at, end)
  BY <1>1, <1>4, Widths
<1>6. CASE Extend
  <2>1. PICK end \in at + 1 .. n + 1, width \in Nat :
          /\ end = Word.end /\ width = Word.width
          /\ width = WidthOf(glyphs, at, end)
          /\ Word.blank = glyphs[at].blank
          /\ IF glyphs[at].blank THEN end = at + 1
             ELSE \A i \in at .. end - 1 : ~glyphs[i].blank
    BY <1>6, TheWord DEF Extend
  <2>2. /\ at' = end /\ range_start' = range_start /\ range_width' = range_width + width
        /\ lines' = lines
        /\ width_before_last_blank' =
             IF glyphs[at].blank THEN range_width ELSE width_before_last_blank
    BY <1>6, <2>1 DEF Extend
  <2>3. \/ range_width + width <= max_width
        \/ glyphs[at].blank /\ range_width <= max_width
    BY <1>6, <2>1 DEF Extend, Fits
  <2>4. WidthOf(glyphs, range_start, end) = range_width + width
    BY <1>1, <1>5, <2>1
  <2>5. InCell(glyphs, range_start, end)
    BY <1>1, <1>4, <2>1, <2>3, <2>4, SMTT(30) DEF InCell
  <2>6. glyphs[end - 1].blank => end - 1 = at /\ glyphs[at].blank
    BY <1>1, <2>1, SMTT(30)
  <2> QED
    BY <1>1, <1>4, <2>2, <2>4, <2>5, <2>6
<1>7. CASE BreakWord
  <2>1. Word.start = at /\ at' = at /\ width_before_last_blank' = width_before_last_blank
    BY <1>7, TheWord DEF BreakWord
  <2>2. CASE range_width > 0
    <3>1. /\ range_start' = at /\ range_width' = 0 /\ WidthOf(glyphs, at, at) = 0
          /\ lines' = Append(lines, Line(at, range_width))
      <4>1. WidthOf(glyphs, at, at) = 0
        BY <1>1, Widths
      <4> QED
        BY <1>7, <2>1, <2>2, <4>1 DEF BreakWord
    <3>2. \A k \in DOMAIN lines' : GoodLine(glyphs, lines'[k])
      BY <1>1, <1>4, <3>1, GoodLineAdded
    <3> QED
      BY <1>1, <2>1, <3>1, <3>2 DEF InCell
  <2>3. CASE ~(range_width > 0)
    <3>1. range_start' = range_start /\ range_width' = range_width /\ lines' = lines
      BY <1>7, <2>3 DEF BreakWord
    <3> QED
      BY <1>4, <2>1, <3>1
  <2> QED
    BY <2>2, <2>3
<1>8. CASE BreakGlyph
  <2>1. at \in 1..n /\ at' = at + 1 /\ ~glyphs[at].blank
    BY <1>1, <1>8 DEF BreakGlyph, Words
  <2>2. PICK advance \in Nat :
          /\ advance = glyphs[at].advance /\ advance <= max_width
          /\ advance = WidthOf(glyphs, at, at + 1)
    BY <1>1, <2>1, GlyphOf, GlyphWidth
  <2>3. CASE range_width + advance <= max_width
    <3>1. /\ range_start' = range_start /\ range_width' = range_width + advance
          /\ lines' = lines
      BY <1>8, <2>2, <2>3 DEF BreakGlyph
    <3>2. WidthOf(glyphs, range_start, at + 1) = range_width + advance
      BY <1>1, <1>5, <2>1, <2>2
    <3> QED
      BY <1>1, <1>4, <2>1, <2>3, <3>1, <3>2 DEF InCell
  <2>4. CASE ~(range_width + advance <= max_width)
    <3>1. /\ range_start' = at /\ range_width' = advance
          /\ lines' = IF range_start < at
                      THEN Append(lines, Line(at, range_width)) ELSE lines
      BY <1>8, <2>2, <2>4 DEF BreakGlyph
    <3>2. \A k \in DOMAIN lines' : GoodLine(glyphs, lines'[k])
      BY <1>1, <1>4, <3>1, GoodLineAdded
    <3> QED
      BY <1>1, <2>1, <2>2, <3>1, <3>2 DEF InCell
  <2> QED
    BY <2>3, <2>4
<1>9. CASE NextLine
  <2>1. /\ Word.start = at /\ at \in 1..n /\ ~Fits(Word) /\ Word.width \in Nat
        /\ Word.width <= max_width
    BY <1>9, TheWord DEF NextLine
  <2>2. ~glyphs[at].blank
    <3> SUFFICES ASSUME glyphs[at].blank PROVE FALSE
      OBVIOUS
    <3>1. Word.blank
      BY <1>9, TheWord DEF NextLine
    <3>2. at > 1 /\ glyphs[at - 1].blank
      BY <1>1, <2>1, <3>1 DEF Fits, Counted
    <3>3. at - 1 \in 1 .. n - 1 /\ (at - 1) + 1 = at
      BY <1>1, <2>1, <3>2
    <3> QED
      BY <1>3, <3>2, <3>3 DEF BlanksApart
  <2>3. PICK end \in at + 1 .. n + 1, width \in Nat :
          /\ end = Word.end /\ width = Word.width /\ ~Word.blank
          /\ width = WidthOf(glyphs, at, end)
          /\ \A i \in at .. end - 1 : ~glyphs[i].blank
    BY <1>9, <2>2, TheWord DEF NextLine
  <2>4. /\ at' = end /\ range_start' = at /\ range_width' = width /\ width <= max_width
    BY <1>9, <2>1, <2>3 DEF NextLine
  <2>5. \A k \in DOMAIN lines' : GoodLine(glyphs, lines'[k])
    <3>1. CASE range_width > 0 /\ range_start < Ended(Word).end
      <4>1. /\ Ended(Word).end \in 1 .. n + 1 /\ Ended(Word).width \in Nat
            /\ lines' = Append(lines, Line(Ended(Word).end, Ended(Word).width))
        BY <1>1, <1>9, <2>1, <3>1 DEF NextLine, Ended
      <4>2. /\ Ended(Word).width = WidthOf(glyphs, range_start, Ended(Word).end)
            /\ InCell(glyphs, range_start, Ended(Word).end)
        <5>1. CASE at > 1 /\ glyphs[at - 1].blank
          <6>1. Ended(Word).end = at - 1 /\ Ended(Word).width = width_before_last_blank
            BY <2>1, <5>1 DEF Ended
          <6>2. range_start < at
            BY <1>1, <3>1, <6>1
          <6>3. /\ width_before_last_blank = WidthOf(glyphs, range_start, at - 1)
                /\ width_before_last_blank <= range_width
            <7>1. width_before_last_blank = WidthOf(glyphs, range_start, at - 1)
              BY <1>4, <5>1, <6>2
            <7>2. /\ at - 1 \in 1 .. n + 1 /\ range_start <= at - 1 /\ at - 1 <= at
              BY <1>1, <6>2
            <7>3. /\ WidthOf(glyphs, at - 1, at) \in Nat
                  /\ range_width = width_before_last_blank + WidthOf(glyphs, at - 1, at)
              BY <1>1, <1>4, <7>1, <7>2, Widths
            <7> QED
              BY <1>1, <7>1, <7>3
          <6>4. width_before_last_blank <= max_width
            BY <1>1, <1>4, <6>3 DEF InCell
          <6> QED
            BY <6>1, <6>3, <6>4 DEF InCell
        <5>2. CASE ~(at > 1 /\ glyphs[at - 1].blank)
          <6>1. Ended(Word).end = at /\ Ended(Word).width = range_width
            BY <2>1, <5>2 DEF Ended
          <6> QED
            BY <1>4, <6>1
        <5> QED
          BY <5>1, <5>2
      <4> QED
        BY <1>4, <4>1, <4>2, GoodLineAdded
    <3>2. CASE ~(range_width > 0 /\ range_start < Ended(Word).end)
      <4>1. lines' = lines
        BY <1>9, <3>2 DEF NextLine
      <4> QED
        BY <1>4, <4>1
    <3> QED
      BY <3>1, <3>2
  <2>6. ~glyphs[end - 1].blank
    BY <1>1, <2>3
  <2> QED
    BY <2>3, <2>4, <2>5, <2>6 DEF InCell
<1>10. CASE Finish
  <2>1. /\ at = n + 1 /\ at' = at /\ range_start' = range_start /\ range_width' = range_width
        /\ width_before_last_blank' = width_before_last_blank
        /\ lines' = IF range_start <= n /\ range_width > 0
                    THEN Append(lines, Line(n + 1, range_width)) ELSE lines
    BY <1>1, <1>10 DEF Finish, WithLastLine
  <2>2. \A k \in DOMAIN lines' : GoodLine(glyphs, lines'[k])
    BY <1>1, <1>4, <2>1, GoodLineAdded
  <2> QED
    BY <1>4, <2>1, <2>2
<1> QED
  BY <1>6, <1>7, <1>8, <1>9, <1>10 DEF Next
-----------------------------------------------------------------------------

\* Before the loop no line exists and nothing is counted.
LEMMA LayoutInit == Init => LayoutInv
<1> SUFFICES ASSUME Init PROVE LayoutInv
  OBVIOUS
<1>1. glyphs \in Texts /\ Len(glyphs) \in Nat
  <2>1. PICK m \in 0..MaxText : glyphs \in [1..m -> SourceGlyphs]
    BY DEF Init
  <2>2. m \in Nat
    BY LayoutAssumption
  <2> QED
    BY <2>1, <2>2 DEF Texts
<1>2. /\ at = 1 /\ word_end = 0 /\ lines = <<>> /\ range_start = 1 /\ range_width = 0
      /\ width_before_last_blank = 0 /\ finished = FALSE
  BY DEF Init
<1>3. lines \in Seq(LinesOf(glyphs)) /\ DOMAIN lines = {} /\ Len(lines) = 0
  BY <1>2
<1>4. LayoutTypes /\ Words
  <2>1. /\ at \in 1 .. Len(glyphs) + 1 /\ range_start \in 1 .. at
        /\ word_end \in 0 .. Len(glyphs) + 1 /\ range_width \in Nat
        /\ width_before_last_blank \in Nat
    BY <1>1, <1>2
  <2>2. finished \in BOOLEAN
    BY <1>2
  <2>3. LayoutTypes
    BY <1>1, <1>3, <2>1, <2>2 DEF LayoutTypes
  <2> QED
    BY <1>2, <2>3 DEF Words
<1>5. WidthOf(glyphs, 1, 1) = 0 /\ max_width \in Nat
  <2>1. 1 \in 1 .. Len(glyphs) + 1 /\ 1 <= 1
    BY <1>1
  <2> QED
    BY <1>1, <2>1, Widths, LayoutAssumption
<1>6. Covered /\ Counted /\ Needed
  BY <1>2, <1>3, <1>5 DEF Covered, Ordered, Rest, Counted, Needed, Wrapped
<1>7. Measured
  BY <1>2, <1>3, <1>5 DEF Measured, InCell
<1> QED
  BY <1>4, <1>6, <1>7 DEF LayoutInv

\* The parts of the invariant together are inductive.
LEMMA LayoutStep == LayoutInv /\ [Next]_vars => LayoutInv'
<1> SUFFICES ASSUME LayoutInv, [Next]_vars PROVE LayoutInv'
  OBVIOUS
<1>1. CASE Next
  BY <1>1, TypesStep, WordsStep, CoveredStep, CountedStep, NeededStep, MeasuredStep
  DEF LayoutInv
<1>2. CASE UNCHANGED vars
  <2>1. /\ glyphs' = glyphs /\ at' = at /\ word_end' = word_end /\ lines' = lines
        /\ range_start' = range_start /\ range_width' = range_width
        /\ width_before_last_blank' = width_before_last_blank /\ finished' = finished
    BY <1>2 DEF vars
  <2>2. (LayoutTypes' <=> LayoutTypes) /\ (Words' <=> Words)
    BY <2>1 DEF LayoutTypes, Words
  <2>3. (Covered' <=> Covered) /\ (Needed' <=> Needed) /\ (Counted' <=> Counted)
    BY <2>1 DEF Covered, Needed, Rest, Counted
  <2>4. Measured' <=> Measured
    BY <2>1 DEF Measured, BlanksApart
  <2> QED
    BY <2>2, <2>3, <2>4 DEF LayoutInv
<1> QED
  BY <1>1, <1>2

\* The layout invariant holds throughout.
LEMMA LayoutInvariant == Spec => []LayoutInv
BY LayoutInit, LayoutStep, PTL DEF Spec

\* The ends of a finished line.
LEMMA LineFacts ==
    ASSUME LayoutInv, NEW k \in DOMAIN lines
    PROVE  /\ lines[k].start \in 1 .. Len(glyphs) /\ lines[k].end \in 1 .. Len(glyphs) + 1
           /\ lines[k].start < lines[k].end
<1>1. lines[k] \in LinesOf(glyphs) /\ Len(glyphs) \in Nat
  BY LayoutFacts DEF LayoutInv, LayoutTypes
<1>2. lines[k].start < lines[k].end
  BY DEF LayoutInv, Covered, Ordered
<1> QED
  BY <1>1, <1>2 DEF LinesOf

\* Every letter of a text is drawn, once and in order, for every font, every cell no
\* narrower than a glyph and every text.
THEOREM LettersDrawn == Spec => []EveryLetterDrawn
<1>1. LayoutInv => EveryLetterDrawn
  <2> SUFFICES ASSUME LayoutInv PROVE EveryLetterDrawn
    OBVIOUS
  <2>1. /\ glyphs \in Texts /\ Len(glyphs) \in Nat /\ DOMAIN glyphs = 1 .. Len(glyphs)
        /\ lines \in Seq(LinesOf(glyphs)) /\ Len(lines) \in Nat
        /\ DOMAIN lines = 1 .. Len(lines)
    BY LayoutFacts, LengthOf DEF LayoutInv, LayoutTypes
  <2>2. \A k \in 1 .. Len(lines) - 1 : lines[k].end <= lines[k + 1].start
    <3>1. \A k \in 1 .. Len(lines) - 1 : k \in DOMAIN lines /\ k + 1 \in DOMAIN lines
      BY <2>1
    <3> QED
      BY <3>1 DEF LayoutInv, Covered, Ordered
  <2>3. ASSUME finished, NEW i \in 1 .. Len(glyphs), ~glyphs[i].blank
        PROVE  \E k \in DOMAIN lines : i \in lines[k].start .. lines[k].end - 1
    <3>1. Shown(lines, i)
      BY <2>1, <2>3 DEF LayoutInv, Covered, Rest
    <3>2. PICK k \in DOMAIN lines : lines[k].start <= i /\ i < lines[k].end
      BY <3>1 DEF Shown
    <3>3. i \in lines[k].start .. lines[k].end - 1
      BY <2>1, <3>2, LineFacts
    <3> QED
      BY <3>3
  <2> QED
    BY <2>1, <2>2, <2>3 DEF EveryLetterDrawn
<1> QED
  BY <1>1, LayoutInvariant, PTL

\* Trailing blanks aside, a line fits its cell, when no two blanks stand together.
THEOREM LinesFitCell == Spec => []LinesFit
<1>1. LayoutInv => LinesFit
  <2> SUFFICES ASSUME LayoutInv, BlanksApart, NEW k \in DOMAIN lines,
                      NEW letters, letters # {},
                      letters = {i \in lines[k].start .. lines[k].end - 1 : ~glyphs[i].blank}
               PROVE  WidthOf(glyphs, lines[k].start, Max(letters) + 1) <= max_width
    BY DEF LinesFit
  <2>1. PICK start \in 1 .. Len(glyphs), end \in 1 .. Len(glyphs) + 1 :
          start = lines[k].start /\ end = lines[k].end /\ start < end
    BY LineFacts
  <2>2. glyphs \in Texts /\ Len(glyphs) \in Nat /\ max_width \in Nat
    BY LayoutFacts DEF LayoutInv
  <2>3. InCell(glyphs, start, end)
    BY <2>1 DEF LayoutInv, Measured, GoodLine
  <2>4. \A i : i \in letters <=> i \in start .. end - 1 /\ ~glyphs[i].blank
    BY <2>1
  <2>5. PICK last \in letters : last = Max(letters) /\ \A i \in letters : i <= last
    <3> DEFINE Back == {d \in Nat : end - d \in letters}
    <3>1. Back \in SUBSET Nat /\ \A d : d \in Back <=> d \in Nat /\ end - d \in letters
      OBVIOUS
    <3> HIDE DEF Back
    <3>2. Back # {}
      <4>1. PICK i \in letters : i \in start .. end - 1
        BY <2>4
      <4>2. end - i \in Nat /\ end - (end - i) = i
        BY <2>1, <2>2, <4>1
      <4> QED
        BY <3>1, <4>1, <4>2
    <3>3. PICK d \in Back : \A e \in Back : d <= e
      BY <3>1, <3>2, LeastExists
    <3>4. end - d \in letters /\ \A i \in letters : i <= end - d
      <4>1. end - d \in letters /\ d \in Nat
        BY <3>1, <3>3
      <4>2. ASSUME NEW i \in letters PROVE i <= end - d
        <5>1. i \in start .. end - 1
          BY <2>4
        <5>2. end - i \in Nat /\ end - (end - i) = i
          BY <2>1, <2>2, <5>1
        <5>3. d <= end - i
          BY <3>1, <3>3, <5>2
        <5> QED
          BY <2>1, <2>2, <4>1, <5>1, <5>3
      <4> QED
        BY <4>1, <4>2
    <3>5. Max(letters) \in letters /\ \A i \in letters : Max(letters) >= i
      <4>1. \E x \in letters : \A y \in letters : x >= y
        <5>1. \A i \in letters : i \in Int
          BY <2>1, <2>4
        <5> QED
          BY <3>4, <5>1
      <4> QED
        BY <4>1 DEF Max
    <3>6. \A i \in letters : i \in Int
      BY <2>1, <2>4
    <3> QED
      BY <3>5, <3>6
  <2>6. last \in start .. end - 1 /\ ~glyphs[last].blank
    BY <2>4
  <2>7. \A limit \in start .. end :
          last < limit => WidthOf(glyphs, start, last + 1) <= WidthOf(glyphs, start, limit)
    <3> SUFFICES ASSUME NEW limit \in start .. end, last < limit
                 PROVE  WidthOf(glyphs, start, last + 1) <= WidthOf(glyphs, start, limit)
      OBVIOUS
    <3>1. /\ start \in 1 .. Len(glyphs) + 1 /\ last + 1 \in 1 .. Len(glyphs) + 1
          /\ limit \in 1 .. Len(glyphs) + 1 /\ start <= last + 1 /\ last + 1 <= limit
      BY <2>1, <2>2, <2>6
    <3>2. WidthOf(glyphs, start, last + 1) \in Nat /\ WidthOf(glyphs, last + 1, limit) \in Nat
      BY <2>2, <3>1, Widths
    <3>3. WidthOf(glyphs, start, limit) =
            WidthOf(glyphs, start, last + 1) + WidthOf(glyphs, last + 1, limit)
      BY <2>2, <3>1, Widths
    <3> QED
      BY <3>2, <3>3
  <2>8. \A limit \in start .. end : WidthOf(glyphs, start, limit) \in Nat
    <3>1. \A limit \in start .. end : /\ limit \in 1 .. Len(glyphs) + 1 /\ start <= limit
                                     /\ start \in 1 .. Len(glyphs) + 1
      BY <2>1, <2>2
    <3> QED
      BY <2>2, <3>1, Widths
  <2>9. PICK limit \in start .. end :
          last < limit /\ WidthOf(glyphs, start, limit) <= max_width
    <3>1. CASE WidthOf(glyphs, start, end) <= max_width
      <4>1. end \in start .. end /\ last < end
        BY <2>1, <2>2, <2>6
      <4> QED
        BY <3>1, <4>1
    <3>2. CASE glyphs[end - 1].blank /\ WidthOf(glyphs, start, end - 1) <= max_width
      <4>1. end - 1 \in start .. end /\ last < end - 1
        BY <2>1, <2>2, <2>6, <3>2
      <4> QED
        BY <3>2, <4>1
    <3> QED
      BY <2>3, <3>1, <3>2 DEF InCell
  <2>10. WidthOf(glyphs, start, last + 1) <= max_width
    <3>1. last + 1 \in start .. end
      BY <2>1, <2>2, <2>6
    <3>2. WidthOf(glyphs, start, last + 1) \in Nat /\ WidthOf(glyphs, start, limit) \in Nat
      BY <2>8, <3>1
    <3>3. WidthOf(glyphs, start, last + 1) <= WidthOf(glyphs, start, limit)
      BY <2>7, <2>9
    <3> QED
      BY <2>2, <2>9, <3>2, <3>3
  <2> QED
    BY <2>1, <2>5, <2>10
<1> QED
  BY <1>1, LayoutInvariant, PTL

\* The width by which a line is placed is that of its glyphs, when no two blanks
\* stand together.
THEOREM DrawnWidths == Spec => []WidthIsDrawn
<1>1. LayoutInv => WidthIsDrawn
  BY DEF LayoutInv, Measured, GoodLine, WidthIsDrawn
<1> QED
  BY <1>1, LayoutInvariant, PTL

\* A line ends only where what comes next does not fit, for every font and text.
THEOREM NeededBreaks == Spec => []BreaksAreNeeded
<1>1. LayoutInv => BreaksAreNeeded
  <2> SUFFICES ASSUME LayoutInv, NEW k \in 1 .. Len(lines) - 1
               PROVE  Wraps(glyphs, lines[k].start, lines[k + 1].start)
    BY DEF BreaksAreNeeded, Wraps
  <2>1. k \in DOMAIN lines /\ k + 1 \in DOMAIN lines
    BY DEF LayoutInv, LayoutTypes
  <2> QED
    BY <2>1 DEF LayoutInv, Needed, Wrapped
<1> QED
  BY <1>1, LayoutInvariant, PTL

=============================================================================
