-------------------------- MODULE HourlyHistoryProofs --------------------------
(***************************************************************************)
(* What the buckets of today show, through reboots, restores with a clock  *)
(* and without one, and meter restarts, for any calendar of a zone east of *)
(* Greenwich: behind one meter never more than was used, and less than     *)
(* nothing only if the total that was read fell.  And how the hours of one *)
(* day come to pass for another's.  The retained summary has to be         *)
(* followed as closely as the series itself, since a restore turns the one *)
(* into the other.                                                         *)
(***************************************************************************)
EXTENDS HourlyHistory, HourlyReadingsProofs

-----------------------------------------------------------------------------
(* Types, for one meter or two. *)

ThisHour == LocalHour[time]

\* The calendar and the hour as numbers.
LEMMA Calendar ==
    ASSUME TypeOK
    PROVE  /\ ThisHour \in Hour /\ ThisHour \in Nat
           /\ LocalDay[time] \in Nat /\ LocalDay[time] # None
           /\ UtcDay[time] \in Nat /\ UtcDay[time] <= LocalDay[time]
           /\ now \in LocalDateTimes \cup {NoTime}
           /\ clock_set => /\ now = [date |-> LocalDay[time], hour |-> ThisHour]
                           /\ now \in LocalDateTimes /\ now # NoTime
           /\ ~clock_set => now = NoTime
           /\ NoTime.date = None /\ NoTime.hour = None
<1>1. LocalDay[time] \in Nat /\ LocalHour[time] \in Hour /\ None \notin Nat
    BY CalendarAssumption, HourAssumption DEF TypeOK
<1>2. [date |-> LocalDay[time], hour |-> LocalHour[time]] # NoTime
    BY <1>1 DEF NoTime
<1> QED
    BY <1>1, <1>2, CalendarAssumption, BrusselsAssumption, HourAssumption
       DEF TypeOK, now, LocalDateTimes, NoTime, ThisHour

LEMMA TypeInitially == Init => TypeOK
<1> SUFFICES ASSUME Init PROVE TypeOK
    OBVIOUS
<1>1. data \in HourlyDatas
    BY EmptySeries DEF Init, Booted
<1>2. Silent \in [{"main", "garage"} -> Nat] /\ Zeros \in [Hour -> Nat]
    BY DEF Silent, Zeros
<1>3. time \in Times
    BY CalendarAssumption DEF Init, Times
<1> QED
    BY <1>1, <1>2, <1>3 DEF Init, Booted, TypeOK, Option

\* Both meters' readings, and what append_value makes of their sum.
LEMMA ReportAppends ==
    ASSUME TypeOK, NEW meter \in meters, Report(meter), NEW total,
           total = reading'["main"] + reading'["garage"]
    PROVE  /\ meter \in {"main", "garage"}
           /\ reading' \in [{"main", "garage"} -> Nat]
           /\ reading' = [reading EXCEPT ![meter] = counter[meter]]
           /\ total \in Nat
           /\ clock_set => /\ Appended(data, total, now, data')
                           /\ peak' = IF total > peak THEN total ELSE peak
                           /\ fell' = IF total < peak THEN fell \cup {ThisHour} ELSE fell
<1>1. meter \in {"main", "garage"}
    BY DEF TypeOK
<1>2. reading' = [reading EXCEPT ![meter] = counter[meter]]
    BY DEF Report
<1>3. reading' \in [{"main", "garage"} -> Nat]
    BY <1>1, <1>2 DEF TypeOK
<1>4. total \in Nat
    BY <1>3
<1>5. CASE clock_set
  <2>1. Appended(data, total, now, append_value(data, total, now))
    BY <1>4, <1>5, Calendar, AppendValue DEF TypeOK
  <2>2. data' = append_value(data, total, now)
    BY <1>5 DEF Report
  <2>3. /\ peak' = IF total > peak THEN total ELSE peak
        /\ fell' = IF total < peak THEN fell \cup {ThisHour} ELSE fell
    BY <1>5 DEF Report, ThisHour
  <2> QED
    BY <1>1, <1>2, <1>3, <1>4, <2>1, <2>2, <2>3
<1> QED
    BY <1>1, <1>2, <1>3, <1>4, <1>5

LEMMA TypePreserved == TypeOK /\ [Next]_vars => TypeOK'
<1> SUFFICES ASSUME TypeOK, [Next]_vars PROVE TypeOK'
    OBVIOUS
<1> USE DEF TypeOK
<1>1. CASE Tick
  <2>1. time' \in Times
    BY <1>1, CalendarAssumption DEF Tick, Times
  <2>2. metered' \in [Hour -> Nat] /\ restarted' \subseteq Hour /\ fell' \subseteq Hour
    BY <1>1 DEF Tick, Zeros
  <2>3. peak' \in Nat
    BY <1>1 DEF Tick
  <2> QED
    BY <1>1, <2>1, <2>2, <2>3 DEF Tick, brokerVars
<1>2. CASE \E meter \in meters : UseEnergy(meter)
  <2>1. PICK meter \in meters : UseEnergy(meter)
    BY <1>2
  <2>2. /\ meter \in {"main", "garage"}
        /\ counter[meter] + 1 \in Nat /\ metered[ThisHour] + 1 \in Nat
    BY Calendar
  <2>3. /\ counter' = [counter EXCEPT ![meter] = counter[meter] + 1]
        /\ metered' = [metered EXCEPT ![ThisHour] = metered[ThisHour] + 1]
    BY <2>1 DEF UseEnergy, ThisHour
  <2>4. counter' \in [{"main", "garage"} -> Nat] /\ metered' \in [Hour -> Nat]
    BY <2>2, <2>3
  <2> QED
    BY <2>1, <2>4 DEF UseEnergy, brokerVars, readVars
<1>3. CASE \E meter \in meters : MeterRestarts(meter)
  <2>1. PICK meter \in meters : MeterRestarts(meter)
    BY <1>3
  <2>2. counter' \in [{"main", "garage"} -> Nat]
    BY <2>1 DEF MeterRestarts
  <2>3. restarted' \subseteq Hour
    BY <2>1, Calendar DEF MeterRestarts, ThisHour
  <2> QED
    BY <2>1, <2>2, <2>3 DEF MeterRestarts, brokerVars, readVars
<1>4. CASE ClockSync
    BY <1>4 DEF ClockSync, worldVars, brokerVars, readVars
<1>5. CASE Reboot
  <2>1. data' \in HourlyDatas /\ reading' \in [{"main", "garage"} -> Nat]
    BY <1>5, EmptySeries DEF Reboot, Silent
  <2> QED
    BY <1>5, <2>1 DEF Reboot, worldVars, Option
<1>6. CASE \E meter \in meters : Report(meter)
  <2>1. PICK meter \in meters : Report(meter)
    BY <1>6
  <2>2. PICK total : total = reading'["main"] + reading'["garage"]
    OBVIOUS
  <2>3. /\ reading' \in [{"main", "garage"} -> Nat] /\ total \in Nat
        /\ clock_set => /\ Appended(data, total, now, data')
                        /\ peak' = IF total > peak THEN total ELSE peak
                        /\ fell' = IF total < peak THEN fell \cup {ThisHour} ELSE fell
    BY <2>1, <2>2, ReportAppends
  <2>4. CASE clock_set
    <3>1. data' \in HourlyDatas /\ peak' \in Nat /\ fell' \subseteq Hour
      BY <2>3, <2>4, Calendar DEF Appended
    <3>2. data_day' \in Option(Nat)
      BY <2>1, <2>4, Calendar DEF Report, Option
    <3> QED
      BY <2>1, <2>3, <3>1, <3>2 DEF Report, worldVars, brokerVars
  <2>5. CASE ~clock_set
    BY <2>1, <2>3, <2>5 DEF Report, worldVars, brokerVars
  <2> QED
    BY <2>4, <2>5
<1>7. CASE Publish
  <2>1. [date |-> UtcDay[time], series |-> wire(data)] \in Summaries
    BY Calendar, WiredSeries DEF Summaries
  <2>2. /\ retained' \in Option(Summaries) /\ retained_day' \in Option(Nat)
        /\ last_summary_update' \in Option(Times)
    BY <1>7, <2>1 DEF Publish, Option
  <2> QED
    BY <1>7, <2>2 DEF Publish, worldVars, readVars
<1>8. CASE Restore
  <2>1. retained.series \in Wires
    BY <1>8 DEF Restore, Option, Summaries
  <2>2. data' \in HourlyDatas
    BY <1>8, <2>1, Calendar, RestoredSeries DEF Restore
  <2>3. last_summary_update' \in Option(Times)
    BY <1>8 DEF Restore, Option
  <2> QED
    BY <1>8, <2>2, <2>3 DEF Restore, worldVars
<1>9. CASE UNCHANGED vars
    BY <1>9 DEF vars, worldVars, brokerVars, readVars
<1> QED
    BY <1>1, <1>2, <1>3, <1>4, <1>5, <1>6, <1>7, <1>8, <1>9 DEF Next

\* The series, the retained summary and the meters are always well typed, whatever
\* the meters do and however many there are.
THEOREM HistoryTypeCorrect == Spec => []TypeOK
BY TypeInitially, TypePreserved, PTL DEF Spec

-----------------------------------------------------------------------------
(* The invariant. *)

InThisHour == StampedToday /\ data.last_update.hour = ThisHour
Single == meters = {"main"}

\* The baseline of the running hour was read in this hour, and so was what the bucket
\* adds to it; one meter has counted no more since then than was used.
Counting(values, baselines) ==
    /\ baselines[ThisHour] <= peak
    /\ values[ThisHour] + baselines[ThisHour] <= peak
    /\ Single => counter["main"] <= baselines[ThisHour] + metered[ThisHour]

Bounded(values) ==
    \A h \in Hour :
        /\ Single => values[h] <= metered[h]
        /\ values[h] < 0 => h \in fell /\ (Single => h \in restarted)

\* The hours to come have no baseline yet.
Ahead(baselines) == \A h \in Hour : h > ThisHour => baselines[h] = 0

Backed(series) ==
    /\ Bounded(series.values)
    /\ Ahead(series.values_at_hour_start)
    /\ series.values_at_hour_start[ThisHour] # 0
         => Counting(series.values, series.values_at_hour_start)

Blank(series) ==
    \A h \in Hour : series.values[h] = 0 /\ series.values_at_hour_start[h] = 0

\* One meter shows at least what was read in the hour, unless it restarted in it.
OneMeter ==
    Single => /\ reading["garage"] = 0
              /\ ThisHour \notin restarted => peak <= counter["main"]

\* Nothing is of a day to come, and a series has no stamp before the clock is set.
Dates ==
    /\ ~clock_set => data.last_update = NoTime
    /\ data.last_update # NoTime =>
         /\ data.last_update.date <= LocalDay[time]
         /\ StampedToday => data.last_update.hour <= ThisHour
    /\ data_day # None => data_day <= LocalDay[time]
    /\ retained # None => retained.date <= LocalDay[time]
    /\ retained_day # None => retained_day <= LocalDay[time]

Series ==
    /\ \A h \in Hour : data.values_at_hour_start[h] # 0 => data.baseline_present[h]
    /\ data.last_update = NoTime =>
         /\ data.last_value = None
         /\ \A h \in Hour : data.baseline_present[h] => data.values_at_hour_start[h] # 0
    /\ data_day = None => Blank(data) /\ \A h \in Hour : ~data.baseline_present[h]
    /\ HoldsToday => Backed(data)
    /\ HoldsToday /\ InThisHour =>
         /\ data.baseline_present[ThisHour]
              => Counting(data.values, data.values_at_hour_start)
         /\ data.last_value # None => data.last_value <= peak

Retained ==
    retained # None =>
        /\ retained_day = None => Blank(retained.series)
        /\ retained_day = LocalDay[time] => Backed(retained.series)

IInv == TypeOK /\ OneMeter /\ Dates /\ Series /\ Retained

-----------------------------------------------------------------------------
(* Days that are over do not come back: one lemma for every action. *)

LEMMA DatesPreserved ==
    ASSUME TypeOK, TypeOK', Dates, [Next]_vars
    PROVE  Dates'
<1>0. /\ ThisHour \in Nat /\ ThisHour' \in Nat
      /\ LocalDay[time] \in Nat /\ LocalDay[time'] \in Nat
      /\ UtcDay[time] \in Nat /\ UtcDay[time] <= LocalDay[time]
  <2>1. time' \in Times
    BY DEF TypeOK
  <2> QED
    BY <2>1, Calendar, CalendarAssumption, HourAssumption DEF ThisHour
<1> DEFINE Same == UNCHANGED <<time, clock_set, data, data_day, retained, retained_day>>
<1>1. CASE Same
    BY <1>1 DEF Dates, StampedToday, ThisHour
<1>2. CASE Tick
  <2>1. /\ UNCHANGED <<clock_set, data, data_day, retained, retained_day>>
        /\ time \in 0 .. MaxTime - 1 /\ time' = time + 1
    BY <1>2, CalendarAssumption DEF Tick, brokerVars, TypeOK, Times
  <2>2. /\ LocalDay[time] <= LocalDay[time']
        /\ LocalDay[time] = LocalDay[time'] => ThisHour <= ThisHour'
    BY <2>1, BrusselsAssumption DEF ThisHour
  <2>3. data.last_update # NoTime =>
          data.last_update.date \in Nat /\ data.last_update.hour \in Nat
    BY HourAssumption DEF TypeOK, HourlyDatas, LocalDateTimes
  <2>4. data.last_update # NoTime =>
          /\ data.last_update.date <= LocalDay[time']
          /\ StampedToday' => data.last_update.hour <= ThisHour'
    <3> SUFFICES ASSUME data.last_update # NoTime
                 PROVE  /\ data.last_update.date <= LocalDay[time']
                        /\ StampedToday' => data.last_update.hour <= ThisHour'
      OBVIOUS
    <3>1. data.last_update.date <= LocalDay[time']
      BY <1>0, <2>2, <2>3 DEF Dates
    <3>2. StampedToday' => LocalDay[time'] = LocalDay[time] /\ StampedToday
      BY <1>0, <2>1, <2>2, <2>3 DEF Dates, StampedToday
    <3> QED
      BY <1>0, <2>2, <2>3, <3>1, <3>2 DEF Dates
  <2>5. /\ data_day # None => data_day <= LocalDay[time']
        /\ retained_day # None => retained_day <= LocalDay[time']
        /\ retained # None => retained.date <= LocalDay[time']
    BY <1>0, <2>2 DEF Dates, TypeOK, Option, Summaries
  <2> QED
    BY <2>1, <2>4, <2>5 DEF Dates
<1>3. CASE Next /\ ~Tick /\ ~Same
  <2>1. time' = time /\ ThisHour' = ThisHour
    BY <1>3 DEF Next, UseEnergy, MeterRestarts, ClockSync, Reboot, Report, Publish,
                Restore, ThisHour
  <2>2. CASE ClockSync
    BY <2>1, <2>2 DEF ClockSync, readVars, brokerVars, Dates, StampedToday
  <2>3. CASE Reboot
    BY <2>1, <2>3, EmptySeries DEF Reboot, Dates
  <2>4. CASE \E meter \in meters : Report(meter)
    <3>1. PICK meter \in meters : Report(meter)
      BY <2>4
    <3>2. UNCHANGED <<time, clock_set, retained, retained_day>>
      BY <3>1 DEF Report, brokerVars
    <3>3. CASE clock_set
      <4>1. PICK total : total = reading'["main"] + reading'["garage"]
        OBVIOUS
      <4>2. data'.last_update = now
        BY <3>1, <3>3, <4>1, ReportAppends DEF Appended
      <4>3. now = [date |-> LocalDay[time], hour |-> ThisHour]
        BY <3>3, Calendar
      <4>4. data_day' = LocalDay[time] \/ data_day' = data_day
        BY <3>1, <3>3 DEF Report
      <4> QED
        BY <1>0, <2>1, <3>2, <3>3, <4>2, <4>3, <4>4 DEF Dates
    <3>4. CASE ~clock_set
      BY <1>3, <3>1, <3>2, <3>4 DEF Report
    <3> QED
      BY <3>3, <3>4
  <2>5. CASE Publish
    <3>1. UNCHANGED <<time, clock_set, data, data_day>>
      BY <2>5 DEF Publish, readVars
    <3>2. \/ UNCHANGED <<retained, retained_day>>
          \/ retained'.date = UtcDay[time] /\ retained_day' = data_day
      BY <2>5 DEF Publish
    <3> QED
      BY <1>0, <2>1, <3>1, <3>2 DEF Dates, StampedToday
  <2>6. CASE Restore
    <3>1. UNCHANGED <<time, clock_set, retained, retained_day>> /\ data_day' = retained_day
      BY <2>6 DEF Restore
    <3>2. data'.last_update = now
      BY <2>6, Calendar, RestoredSeries DEF Restore, TypeOK, Option, Summaries
    <3>3. /\ clock_set => now = [date |-> LocalDay[time], hour |-> ThisHour]
          /\ ~clock_set => now = NoTime
      BY Calendar
    <3> QED
      BY <1>0, <2>1, <3>1, <3>2, <3>3 DEF Dates
  <2>7. CASE \/ \E meter \in meters : UseEnergy(meter)
             \/ \E meter \in meters : MeterRestarts(meter)
    BY <1>3, <2>7 DEF UseEnergy, MeterRestarts, brokerVars, readVars
  <2> QED
    BY <1>3, <2>2, <2>3, <2>4, <2>5, <2>6, <2>7 DEF Next
<1> QED
    BY <1>1, <1>2, <1>3 DEF vars, brokerVars, readVars

LEMMA DatesInitially == Init => Dates
BY EmptySeries DEF Init, Booted, Dates

\* A step that puts the hours of another day under the stamp or the date of this one.
LEMMA MisdatedStep ==
    ASSUME TypeOK, TypeOK', Dates, [Next]_vars,
           (SeriesMisdated \/ RetainedMisdated)',
           ~SeriesMisdated, ~RetainedMisdated
    PROVE  RestoredBlind \/ UnreadSinceMidnight
<1>0. /\ LocalDay[time] \in Nat /\ LocalDay[time'] \in Nat /\ LocalDay[time] # None
      /\ time' \in Times
    BY Calendar, CalendarAssumption DEF TypeOK
<1>1. CASE UNCHANGED <<time, data, data_day, retained, retained_day>>
    BY <1>1 DEF SeriesMisdated, RetainedMisdated, StampedToday, is_for
<1>2. CASE Tick
  <2>1. /\ UNCHANGED <<data, data_day, retained, retained_day>>
        /\ time \in 0 .. MaxTime - 1 /\ time' = time + 1
    BY <1>2, CalendarAssumption DEF Tick, brokerVars, TypeOK, Times
  <2>2. LocalDay[time] <= LocalDay[time']
    BY <2>1, BrusselsAssumption
  <2>3. StampedToday' => data.last_update # NoTime /\ data.last_update.date \in Nat
    <3>1. data.last_update = NoTime => data.last_update.date = None
      BY Calendar
    <3>2. None \notin Nat
      BY HourAssumption
    <3> QED
      BY <1>0, <2>1, <3>1, <3>2 DEF StampedToday, TypeOK, HourlyDatas, LocalDateTimes
  <2>4. StampedToday' => LocalDay[time'] = LocalDay[time]
    BY <1>0, <2>1, <2>2, <2>3 DEF StampedToday, Dates
  <2>5. retained # None /\ is_for(retained)' => LocalDay[time'] = LocalDay[time]
    BY <1>0, <2>1, <2>2 DEF is_for, Dates, TypeOK, Option, Summaries
  <2> QED
    BY <2>1, <2>4, <2>5 DEF SeriesMisdated, RetainedMisdated, StampedToday, is_for
<1>3. CASE Reboot
    BY <1>0, <1>3, EmptySeries, Calendar
       DEF Reboot, SeriesMisdated, RetainedMisdated, StampedToday, is_for
<1>4. CASE \E meter \in meters : Report(meter)
  <2>1. PICK meter \in meters : Report(meter)
    BY <1>4
  <2>2. UNCHANGED <<time, retained, retained_day>>
    BY <2>1 DEF Report, brokerVars
  <2>3. SeriesMisdated'
    BY <2>2 DEF RetainedMisdated, is_for
  <2>4. clock_set
    BY <2>1, <2>2, <2>3 DEF Report, SeriesMisdated, StampedToday
  <2>5. data_day' = data_day /\ ~StampedBefore
    BY <2>1, <2>2, <2>3, <2>4 DEF Report, SeriesMisdated
  <2> QED
    BY <2>2, <2>3, <2>5 DEF SeriesMisdated, StampedBefore, StampedToday, RestoredBlind
<1>5. CASE Publish
  <2>1. /\ UNCHANGED <<time, data, data_day>>
        /\ retained'.date = UtcDay[time] /\ retained_day' = data_day
        /\ UtcDay[time] = LocalDay[time] /\ data_day \notin {None, LocalDay[time]}
    <3>1. UNCHANGED <<time, data, data_day>>
      BY <1>5 DEF Publish, readVars
    <3>2. RetainedMisdated'
      BY <3>1 DEF SeriesMisdated, StampedToday
    <3>3. /\ retained' = [date |-> UtcDay[time], series |-> wire(data)]
          /\ retained_day' = data_day
      BY <1>5, <3>1, <3>2 DEF Publish, RetainedMisdated, is_for
    <3> QED
      BY <3>1, <3>2, <3>3 DEF RetainedMisdated, is_for
  <2> QED
    BY <2>1 DEF SeriesMisdated, StampedToday, StampedBefore, RestoredBlind,
                UnreadSinceMidnight
<1>6. CASE Restore
  <2>1. /\ UNCHANGED <<time, retained, retained_day>> /\ data_day' = retained_day
        /\ retained # None
    BY <1>6 DEF Restore
  <2>2. StampedToday' /\ retained_day \notin {None, LocalDay[time]}
    BY <2>1 DEF RetainedMisdated, SeriesMisdated, is_for
  <2>3. data'.last_update = now
    BY <1>6, <2>1, Calendar, RestoredSeries DEF Restore, TypeOK, Option, Summaries
  <2>4. clock_set
    BY <1>0, <2>1, <2>2, <2>3, Calendar DEF StampedToday
  <2>5. is_for(retained)
    BY <1>6, <2>4 DEF Restore
  <2> QED
    BY <2>1, <2>2, <2>5 DEF RetainedMisdated
<1> QED
    BY <1>1, <1>2, <1>3, <1>4, <1>5, <1>6
       DEF Next, UseEnergy, MeterRestarts, ClockSync, vars, brokerVars, readVars

\* The date of a summary and the stamp of a series keep the hours of two days apart,
\* but for a restore before the first synchronization (mark_restored_without_time) and
\* for a summary published before the first reading of a day (is_for, append_value).
THEOREM TwoWaysToMisdate == Spec => MisdatedHasACause
<1> DEFINE Misdates == (SeriesMisdated \/ RetainedMisdated)' =>
               SeriesMisdated \/ RetainedMisdated \/ RestoredBlind \/ UnreadSinceMidnight
<1>1. Init => TypeOK /\ Dates
    BY TypeInitially, DatesInitially
<1>2. TypeOK /\ Dates /\ [Next]_vars => (TypeOK /\ Dates)'
    BY TypePreserved, DatesPreserved
<1>3. TypeOK /\ Dates /\ [Next]_vars => [Misdates]_vars
    BY <1>2, MisdatedStep
<1> QED
    BY <1>1, <1>2, <1>3, PTL DEF Spec, MisdatedHasACause

-----------------------------------------------------------------------------
(* The buckets of today: one lemma for every action. *)

\* What the arrays are made of.
LEMMA SeriesFacts ==
    ASSUME TypeOK
    PROVE  /\ data.values \in [Hour -> Int]
           /\ data.values_at_hour_start \in [Hour -> Nat]
           /\ data.last_value \in Option(Nat)
           /\ StampedToday => data.last_update # NoTime
           /\ HoldsToday => data_day # None
           /\ retained # None =>
                /\ retained.series \in Wires /\ retained.date \in Nat
                /\ retained.series.values \in [Hour -> Int]
                /\ retained.series.values_at_hour_start \in [Hour -> Nat]
<1>1. (StampedToday => data.last_update # NoTime) /\ (HoldsToday => data_day # None)
    BY Calendar DEF StampedToday, HoldsToday
<1>2. data \in HourlyDatas /\ retained \in Option(Summaries)
    BY DEF TypeOK
<1> QED
    BY <1>1, <1>2 DEF HourlyDatas, Option, Summaries, Wires

\* Without a unit of energy in them the arrays are those of any day.
LEMMA BlankIsBacked ==
    ASSUME TypeOK, NEW series, Blank(series)
    PROVE  Backed(series)
<1>1. ThisHour \in Hour /\ metered \in [Hour -> Nat]
    BY Calendar DEF TypeOK
<1> QED
    BY <1>1 DEF Blank, Backed, Bounded, Ahead

LEMMA InitialHistory == Init => IInv
<1> SUFFICES ASSUME Init PROVE IInv
    OBVIOUS
<1>1. TypeOK /\ Dates
    BY TypeInitially, DatesInitially
<1>2. data = EmptyData /\ data_day = None /\ retained = None /\ peak = 0
    BY DEF Init, Booted
<1>3. OneMeter
    BY <1>2 DEF Init, Booted, Silent, OneMeter
<1>4. Series
    BY <1>1, <1>2, EmptySeries, SeriesFacts DEF Series, Blank
<1>5. Retained
    BY <1>2 DEF Retained
<1> QED
    BY <1>1, <1>3, <1>4, <1>5 DEF IInv

\* A step that leaves the arrays alone, and weakens no bound on them.
LEMMA ArraysKept ==
    ASSUME IInv, TypeOK', Dates',
           UNCHANGED <<time, data, data_day, retained, retained_day>>,
           \A values \in [Hour -> Int], baselines \in [Hour -> Nat] :
               /\ Bounded(values) => Bounded(values)'
               /\ Counting(values, baselines) => Counting(values, baselines)',
           peak' = peak
    PROVE  Series' /\ Retained'
<1>1. ThisHour' = ThisHour /\ StampedToday' = StampedToday /\ InThisHour' = InThisHour
      /\ HoldsToday' = HoldsToday
    BY DEF ThisHour, StampedToday, InThisHour, HoldsToday
<1>2. /\ data.values \in [Hour -> Int] /\ data.values_at_hour_start \in [Hour -> Nat]
      /\ retained # None =>
           /\ retained.series.values \in [Hour -> Int]
           /\ retained.series.values_at_hour_start \in [Hour -> Nat]
    BY SeriesFacts DEF IInv
<1>3. Backed(data) => Backed(data)'
    BY <1>1, <1>2 DEF Backed, Ahead
<1>4. retained # None => (Backed(retained.series) => Backed(retained.series)')
    BY <1>1, <1>2 DEF Backed, Ahead
<1>5. Series'
    BY <1>1, <1>2, <1>3 DEF IInv, Series, Blank
<1>6. Retained'
    BY <1>4 DEF IInv, Retained, Blank
<1> QED
    BY <1>5, <1>6

\* What the meter counts is what was used: both sides of the bound move alike.
LEMMA UseEnergyKeeps ==
    ASSUME IInv, TypeOK', Dates', NEW meter \in meters, UseEnergy(meter)
    PROVE  IInv'
<1>1. /\ UNCHANGED <<meters, time, clock_set, reading, data, data_day, retained,
                     retained_day, restarted, peak, fell>>
      /\ ThisHour' = ThisHour
    BY DEF UseEnergy, brokerVars, readVars, ThisHour
<1>2. /\ ThisHour \in Hour
      /\ counter \in [{"main", "garage"} -> Nat]
      /\ metered \in [Hour -> Nat]
      /\ metered' = [metered EXCEPT ![ThisHour] = metered[ThisHour] + 1]
      /\ Single => counter'["main"] = counter["main"] + 1
    BY Calendar DEF IInv, TypeOK, UseEnergy, ThisHour, Single
<1>3. ASSUME NEW values \in [Hour -> Int], NEW baselines \in [Hour -> Nat]
      PROVE  /\ Bounded(values) => Bounded(values)'
             /\ Counting(values, baselines) => Counting(values, baselines)'
  <2>1. Bounded(values) => Bounded(values)'
    BY <1>1, <1>2 DEF Bounded, Single
  <2>2. Counting(values, baselines) => Counting(values, baselines)'
    BY <1>1, <1>2 DEF Counting, Single
  <2> QED
    BY <2>1, <2>2
<1>4. Series' /\ Retained'
    BY <1>1, <1>3, ArraysKept
<1>5. OneMeter'
    BY <1>1, <1>2 DEF IInv, TypeOK, OneMeter, Single
<1> QED
    BY <1>4, <1>5 DEF IInv

\* A restart takes the counter to zero and marks the hour.
LEMMA MeterRestartsKeeps ==
    ASSUME IInv, TypeOK', Dates', NEW meter \in meters, MeterRestarts(meter)
    PROVE  IInv'
<1>1. /\ UNCHANGED <<meters, time, clock_set, reading, data, data_day, retained,
                     retained_day, metered, peak, fell>>
      /\ ThisHour' = ThisHour
    BY DEF MeterRestarts, brokerVars, readVars, ThisHour
<1>2. /\ ThisHour \in Hour /\ metered \in [Hour -> Nat]
      /\ restarted' = restarted \cup {ThisHour}
      /\ Single => counter'["main"] = 0
    BY Calendar DEF IInv, TypeOK, MeterRestarts, ThisHour, Single
<1>3. ASSUME NEW values \in [Hour -> Int], NEW baselines \in [Hour -> Nat]
      PROVE  /\ Bounded(values) => Bounded(values)'
             /\ Counting(values, baselines) => Counting(values, baselines)'
  <2>1. Bounded(values) => Bounded(values)'
    BY <1>1, <1>2 DEF Bounded, Single
  <2>2. Counting(values, baselines) => Counting(values, baselines)'
    BY <1>1, <1>2 DEF Counting, Single
  <2> QED
    BY <2>1, <2>2
<1>4. Series' /\ Retained'
    BY <1>1, <1>3, ArraysKept
<1>5. OneMeter'
    BY <1>1, <1>2 DEF IInv, OneMeter, Single
<1> QED
    BY <1>4, <1>5 DEF IInv

\* Steps that touch neither the arrays nor anything their bounds speak of.
LEMMA StillKeeps ==
    ASSUME IInv, TypeOK', Dates',
           UNCHANGED <<meters, time, counter, metered, restarted, reading, data,
                       data_day, retained, retained_day, peak, fell>>
    PROVE  IInv'
<1>1. \A values, baselines :
        /\ Bounded(values) => Bounded(values)'
        /\ Counting(values, baselines) => Counting(values, baselines)'
    BY DEF Bounded, Counting, Single, ThisHour
<1>2. Series' /\ Retained'
    BY <1>1, ArraysKept
<1>3. OneMeter'
    BY DEF IInv, OneMeter, Single, ThisHour
<1> QED
    BY <1>2, <1>3 DEF IInv

LEMMA RebootKeeps ==
    ASSUME IInv, TypeOK', Dates', Reboot
    PROVE  IInv'
<1>1. /\ UNCHANGED <<meters, time, retained, retained_day, counter, metered, restarted,
                     peak, fell>>
      /\ data' = EmptyData /\ data_day' = None /\ reading' = Silent
    BY DEF Reboot, worldVars
<1>2. ~HoldsToday'
    BY <1>1, Calendar DEF IInv, HoldsToday
<1>3. Series'
    BY <1>1, <1>2, EmptySeries DEF Series, Blank
<1>4. Retained'
    BY <1>1 DEF IInv, Retained, Blank, Single, ThisHour, Backed, Bounded, Ahead, Counting
<1>5. OneMeter'
    BY <1>1 DEF IInv, OneMeter, Silent, Single, ThisHour
<1> QED
    BY <1>3, <1>4, <1>5 DEF IInv

\* A new day has no hours yet; a new hour of this day has no baseline yet.
LEMMA TickKeeps ==
    ASSUME IInv, TypeOK', Dates', Tick
    PROVE  IInv'
<1>1. /\ UNCHANGED <<meters, clock_set, counter, reading, data, data_day, retained,
                     retained_day>>
      /\ time \in 0 .. MaxTime - 1 /\ time' = time + 1
    BY CalendarAssumption DEF Tick, brokerVars, IInv, TypeOK, Times
<1>2. /\ LocalDay[time] <= LocalDay[time']
      /\ LocalDay[time] = LocalDay[time'] => ThisHour <= ThisHour'
    BY <1>1, BrusselsAssumption DEF ThisHour
<1>3. /\ ThisHour \in Nat /\ ThisHour' \in Nat /\ ThisHour' \in Hour
      /\ LocalDay[time] \in Nat /\ LocalDay[time'] \in Nat
  <2>1. time' \in Times
    BY DEF TypeOK
  <2> QED
    BY <2>1, Calendar, CalendarAssumption, HourAssumption DEF IInv, ThisHour
<1>4. OneMeter'
  <2>1. peak' = 0 \/ (peak' = peak /\ ThisHour' = ThisHour /\ restarted' = restarted)
    BY <1>1 DEF Tick, ThisHour
  <2>2. counter["main"] \in Nat
    BY DEF IInv, TypeOK
  <2> QED
    BY <1>1, <2>1, <2>2 DEF IInv, OneMeter, Single
<1>5. CASE LocalDay[time'] # LocalDay[time]
  <2>1. /\ data_day # LocalDay[time'] /\ retained_day # LocalDay[time']
    BY <1>2, <1>3, <1>5, HourAssumption DEF IInv, Dates, TypeOK, Option
  <2>2. ~HoldsToday'
    BY <1>1, <2>1 DEF HoldsToday
  <2>3. Series'
    BY <1>1, <2>2 DEF IInv, Series, Blank
  <2>4. Retained'
    BY <1>1, <2>1 DEF IInv, Retained, Blank
  <2> QED
    BY <1>4, <2>3, <2>4 DEF IInv
<1>6. CASE LocalDay[time'] = LocalDay[time]
  <2>1. /\ UNCHANGED <<metered, restarted, fell>> /\ ThisHour <= ThisHour'
        /\ ThisHour' = ThisHour => peak' = peak
    BY <1>1, <1>2, <1>6 DEF Tick, ThisHour
  <2>2. HoldsToday' = HoldsToday /\ StampedToday' = StampedToday
    BY <1>1, <1>6 DEF HoldsToday, StampedToday
  <2>3. ASSUME NEW series \in Wires, Backed(series)
        PROVE  Backed(series)'
    <3>1. Bounded(series.values)'
      BY <1>1, <2>1, <2>3 DEF Backed, Bounded, Single
    <3>2. Ahead(series.values_at_hour_start)'
      BY <1>3, <2>1, <2>3, HourAssumption DEF Backed, Ahead
    <3>3. CASE ThisHour' = ThisHour
      BY <1>1, <2>1, <2>3, <3>1, <3>2, <3>3 DEF Backed, Counting, Single
    <3>4. CASE ThisHour' # ThisHour
      <4>1. series.values_at_hour_start[ThisHour'] = 0
        BY <1>3, <2>1, <2>3, <3>4 DEF Backed, Ahead
      <4> QED
        BY <3>1, <3>2, <4>1 DEF Backed
    <3> QED
      BY <3>3, <3>4
  <2>4. Retained'
    <3>1. retained # None => retained.series \in Wires
      BY SeriesFacts DEF IInv
    <3> QED
      BY <1>1, <1>6, <2>3, <3>1 DEF IInv, Retained, Blank
  <2>5. Backed(data) => Backed(data)'
    <3>1. wire(data) \in Wires /\ wire(data).values = data.values
          /\ wire(data).values_at_hour_start = data.values_at_hour_start
      BY WiredSeries DEF IInv, TypeOK
    <3>2. Backed(data) => Backed(wire(data))
      BY <3>1 DEF Backed
    <3>3. PICK w \in Wires : w = wire(data)
      BY <3>1
    <3>4. Backed(w) => Backed(w)'
      BY <2>3
    <3>5. Backed(w)' => Backed(data)'
      BY <1>1, <3>1, <3>3 DEF Backed
    <3> QED
      BY <3>2, <3>3, <3>4, <3>5
  <2>6. HoldsToday' /\ InThisHour' => ThisHour' = ThisHour
    BY <1>1, <1>3, <2>1, <2>2, SeriesFacts DEF IInv, Dates, InThisHour
  <2>7. Series'
    <3>1. HoldsToday' /\ InThisHour' =>
            /\ data.baseline_present[ThisHour']
                 => Counting(data.values, data.values_at_hour_start)'
            /\ data.last_value # None => data.last_value <= peak'
      BY <1>1, <2>1, <2>2, <2>6 DEF IInv, Series, InThisHour, Counting, Single
    <3> QED
      BY <1>1, <2>2, <2>5, <3>1 DEF IInv, Series, Blank
  <2> QED
    BY <1>4, <2>4, <2>7 DEF IInv
<1> QED
    BY <1>5, <1>6

\* A reading that sets no baseline finds a series of today, whose baseline of this hour
\* was read in this hour: a stamp of an earlier hour would have set one, and without a
\* stamp only the restored baselines that are not zero are there.
LEMMA CountedHere ==
    ASSUME IInv, clock_set, HoldsToday, NEW c, ~needs_baseline(data, c, now)
    PROVE  Counting(data.values, data.values_at_hour_start)
<1>1. now = [date |-> LocalDay[time], hour |-> ThisHour]
    BY Calendar DEF IInv
<1>2. data.baseline_present[ThisHour]
    BY <1>1 DEF needs_baseline
<1>3. CASE data.last_update = NoTime
  <2>1. data.values_at_hour_start[ThisHour] # 0
    BY <1>2, <1>3, Calendar DEF IInv, Series
  <2> QED
    BY <2>1 DEF IInv, Series, Backed
<1>4. CASE data.last_update # NoTime
  <2>1. InThisHour
    BY <1>1, <1>4
       DEF needs_baseline, date_changed, hour_changed, InThisHour, StampedToday
  <2> QED
    BY <1>2, <2>1 DEF IInv, Series
<1> QED
    BY <1>3, <1>4

\* A reading with a clock, of a series that holds today's hours after it.
LEMMA CountedToday ==
    ASSUME IInv, TypeOK', Dates', NEW meter \in meters, Report(meter), clock_set,
           HoldsToday'
    PROVE  Backed(data)' /\ Counting(data.values, data.values_at_hour_start)'
<1>1. /\ UNCHANGED <<meters, time, clock_set, counter, metered, restarted>>
      /\ ThisHour' = ThisHour
      /\ data_day' = IF data_day = None \/ StampedBefore THEN LocalDay[time] ELSE data_day
    BY DEF Report, worldVars, ThisHour
<1>2. PICK total : total = reading'["main"] + reading'["garage"]
    OBVIOUS
<1>3. /\ total \in Nat /\ Appended(data, total, now, data')
      /\ peak' = IF total > peak THEN total ELSE peak
      /\ fell' = IF total < peak THEN fell \cup {ThisHour} ELSE fell
      /\ meter \in {"main", "garage"}
      /\ reading' = [reading EXCEPT ![meter] = counter[meter]]
    BY <1>2, ReportAppends DEF IInv
<1>4. /\ now = [date |-> LocalDay[time], hour |-> ThisHour]
      /\ ThisHour \in Hour /\ ThisHour \in Nat
      /\ peak \in Nat /\ fell \subseteq Hour /\ restarted \subseteq Hour
      /\ metered \in [Hour -> Nat] /\ counter["main"] \in Nat
      /\ data.values \in [Hour -> Int] /\ data.values_at_hour_start \in [Hour -> Nat]
    BY Calendar, SeriesFacts DEF IInv, TypeOK
<1> DEFINE needs == needs_baseline(data, total, now)
<1>5. Single => total = counter["main"] /\ (ThisHour \notin restarted => peak <= total)
  <2> SUFFICES ASSUME Single
               PROVE  total = counter["main"] /\ (ThisHour \notin restarted => peak <= total)
    OBVIOUS
  <2>1. reading'["main"] = counter["main"] /\ reading'["garage"] = 0
    BY <1>3 DEF Single, IInv, OneMeter, TypeOK
  <2>2. total = counter["main"]
    BY <1>2, <1>4, <2>1
  <2> QED
    BY <2>2 DEF IInv, OneMeter
\* Only the hours of today are kept.
<1>6. ~date_changed(data, now) =>
        Bounded(data.values) /\ Ahead(data.values_at_hour_start)
  <2> SUFFICES ASSUME ~date_changed(data, now) PROVE Backed(data)
    BY DEF Backed
  <2>1. ~StampedBefore
    BY <1>4 DEF date_changed, StampedBefore
  <2>2. data_day = None \/ HoldsToday
    BY <1>1, <2>1 DEF HoldsToday
  <2> QED
    BY <2>2, BlankIsBacked DEF IInv, Series
<1>7. ~needs => Counting(data.values, data.values_at_hour_start)
  <2> SUFFICES ASSUME ~needs PROVE Counting(data.values, data.values_at_hour_start)
    OBVIOUS
  <2>1. ~StampedBefore /\ data.baseline_present[ThisHour]
    BY <1>4 DEF needs_baseline, date_changed, StampedBefore
  <2>2. data_day # None
    BY <1>4, <2>1 DEF IInv, Series
  <2>3. HoldsToday
    BY <1>1, <2>1, <2>2 DEF HoldsToday
  <2> QED
    BY <2>3, CountedHere
<1>8. /\ needs => /\ data'.values_at_hour_start[ThisHour] = total
                  /\ data'.values[ThisHour] = 0
      /\ ~needs => /\ data'.values_at_hour_start[ThisHour]
                        = data.values_at_hour_start[ThisHour]
                   /\ data'.values[ThisHour]
                        = total - data.values_at_hour_start[ThisHour]
      /\ \A h \in Hour \ {ThisHour} :
           \/ data'.values_at_hour_start[h] = 0 /\ data'.values[h] = 0
           \/ /\ ~date_changed(data, now)
              /\ data'.values_at_hour_start[h] = data.values_at_hour_start[h]
              /\ data'.values[h] = data.values[h]
    BY <1>3, <1>4 DEF Appended
<1> HIDE DEF needs
<1>9. /\ data.values[ThisHour] \in Int /\ data.values_at_hour_start[ThisHour] \in Nat
      /\ metered[ThisHour] \in Nat
    BY <1>4
<1>10. Counting(data.values, data.values_at_hour_start)'
  <2>1. /\ data'.values_at_hour_start[ThisHour] <= peak'
        /\ data'.values[ThisHour] + data'.values_at_hour_start[ThisHour] <= peak'
    BY <1>3, <1>4, <1>7, <1>8, <1>9 DEF Counting
  <2>2. Single => counter["main"] <= data'.values_at_hour_start[ThisHour] + metered[ThisHour]
    BY <1>4, <1>5, <1>7, <1>8, <1>9 DEF Counting
  <2> QED
    BY <1>1, <2>1, <2>2 DEF Counting, Single
<1>11. /\ Single => data'.values[ThisHour] <= metered[ThisHour]
       /\ data'.values[ThisHour] < 0 =>
            ThisHour \in fell' /\ (Single => ThisHour \in restarted)
    BY <1>3, <1>4, <1>5, <1>7, <1>8, <1>9 DEF Counting
<1>12. Bounded(data.values)'
  <2>1. /\ \A h \in Hour : 0 <= metered[h] 
        /\ fell \subseteq fell'
    BY <1>3, <1>4
  <2>2. ASSUME NEW h \in Hour
        PROVE  /\ Single => data'.values[h] <= metered[h]
               /\ data'.values[h] < 0 => h \in fell' /\ (Single => h \in restarted)
    <3>1. CASE h = ThisHour
      BY <1>11, <3>1
    <3>2. CASE h # ThisHour
      BY <1>6, <1>8, <2>1, <3>2 DEF Bounded
    <3> QED
      BY <3>1, <3>2
  <2> QED
    BY <1>1, <2>2 DEF Bounded, Single
<1>13. Ahead(data.values_at_hour_start)'
  <2>1. ~(ThisHour > ThisHour)
    BY <1>4
  <2> QED
    BY <1>1, <1>6, <1>8, <2>1 DEF Ahead
<1> QED
    BY <1>10, <1>12, <1>13 DEF Backed

LEMMA ReportKeeps ==
    ASSUME IInv, TypeOK', Dates', NEW meter \in meters, Report(meter)
    PROVE  IInv'
<1>1. /\ UNCHANGED <<meters, time, clock_set, counter, metered, restarted, retained,
                     retained_day>>
      /\ ThisHour' = ThisHour
    BY DEF Report, worldVars, brokerVars, ThisHour
<1>2. PICK total : total = reading'["main"] + reading'["garage"]
    OBVIOUS
<1>3. /\ total \in Nat
      /\ meter \in {"main", "garage"}
      /\ reading' = [reading EXCEPT ![meter] = counter[meter]]
      /\ clock_set => /\ Appended(data, total, now, data')
                      /\ peak' = IF total > peak THEN total ELSE peak
                      /\ fell' = IF total < peak THEN fell \cup {ThisHour} ELSE fell
      /\ peak \in Nat /\ fell \subseteq Hour
    BY <1>2, ReportAppends DEF IInv, TypeOK
<1>4. Single => reading'["garage"] = 0 /\ total = counter["main"]
  <2> SUFFICES ASSUME Single PROVE reading'["garage"] = 0 /\ total = counter["main"]
    OBVIOUS
  <2>1. reading'["main"] = counter["main"] /\ reading'["garage"] = 0
    BY <1>3 DEF Single, IInv, OneMeter, TypeOK
  <2>2. counter["main"] \in Nat
    BY DEF IInv, TypeOK
  <2> QED
    BY <1>2, <2>1, <2>2
<1>5. CASE ~clock_set
  <2>1. UNCHANGED <<data, data_day, peak, fell>>
    BY <1>5 DEF Report
  <2>2. \A values, baselines :
          /\ Bounded(values) => Bounded(values)'
          /\ Counting(values, baselines) => Counting(values, baselines)'
    BY <1>1, <2>1 DEF Bounded, Counting, Single
  <2>3. Series' /\ Retained'
    BY <1>1, <2>1, <2>2, ArraysKept
  <2>4. OneMeter'
    BY <1>1, <1>4, <2>1 DEF IInv, OneMeter, Single
  <2> QED
    BY <2>3, <2>4 DEF IInv
<1>6. CASE clock_set
  <2>1. OneMeter'
    BY <1>1, <1>3, <1>4, <1>6 DEF IInv, OneMeter, Single
  \* What is read makes no bound of the retained summary stricter.
  <2>2. peak \in Nat /\ peak' \in Nat /\ peak <= peak' /\ fell \subseteq fell'
    BY <1>3, <1>6
  <2>3. ASSUME NEW series \in Wires, Backed(series)
        PROVE  Backed(series)'
    <3>1. /\ series.values[ThisHour] \in Int
          /\ series.values_at_hour_start[ThisHour] \in Nat
      BY Calendar DEF IInv, Wires
    <3>2. Bounded(series.values)' /\ Ahead(series.values_at_hour_start)'
      BY <1>1, <2>2, <2>3 DEF Backed, Bounded, Ahead, Single
    <3>3. Counting(series.values, series.values_at_hour_start)
            => Counting(series.values, series.values_at_hour_start)'
      BY <1>1, <2>2, <3>1 DEF Counting, Single
    <3> QED
      BY <1>1, <2>3, <3>2, <3>3 DEF Backed
  <2>4. Retained'
    <3>1. retained # None => retained.series \in Wires
      BY SeriesFacts DEF IInv
    <3> QED
      BY <1>1, <2>3, <3>1 DEF IInv, Retained, Blank
  <2>5. /\ data'.last_update = now /\ now # NoTime /\ now.hour = ThisHour
        /\ data'.last_value = total /\ total <= peak'
        /\ data_day' # None
    <3>1. data_day' = IF data_day = None \/ StampedBefore
                      THEN LocalDay[time] ELSE data_day
      BY <1>6 DEF Report
    <3> QED
      BY <1>3, <1>6, <3>1, Calendar DEF IInv, Appended
  <2>6. \A h \in Hour : data'.values_at_hour_start[h] # 0 => data'.baseline_present[h]
    <3>1. \A h \in Hour \ {ThisHour} :
            \/ data'.values_at_hour_start[h] = 0
            \/ /\ data'.values_at_hour_start[h] = data.values_at_hour_start[h]
               /\ data'.baseline_present[h] = data.baseline_present[h]
      BY <1>3, <1>6, <2>5 DEF Appended
    <3>2. data'.baseline_present[ThisHour]
      BY <1>3, <1>6, <2>5 DEF Appended
    <3> QED
      BY <3>1, <3>2 DEF IInv, Series
  <2>7. HoldsToday' => Backed(data)' /\ Counting(data.values, data.values_at_hour_start)'
    BY <1>6, CountedToday
  <2>8. Series'
    BY <2>5, <2>6, <2>7 DEF Series
  <2> QED
    BY <2>1, <2>4, <2>8 DEF IInv
<1> QED
    BY <1>5, <1>6

LEMMA PublishKeeps ==
    ASSUME IInv, TypeOK', Dates', Publish
    PROVE  IInv'
<1>1. UNCHANGED <<meters, time, clock_set, counter, metered, restarted, reading, data,
                  data_day, peak, fell>>
    BY DEF Publish, worldVars, readVars
<1>2. CASE UNCHANGED <<retained, retained_day>>
    BY <1>1, <1>2, StillKeeps
<1>3. CASE /\ retained' = [date |-> UtcDay[time], series |-> wire(data)]
           /\ retained_day' = data_day
  <2>1. OneMeter'
    BY <1>1 DEF IInv, OneMeter, Single, ThisHour
  <2>2. Series'
    BY <1>1 DEF IInv, Series, Blank, HoldsToday, StampedToday, InThisHour, ThisHour,
                Single, Backed, Bounded, Ahead, Counting
  <2>3. /\ retained'.series.values = data.values
        /\ retained'.series.values_at_hour_start = data.values_at_hour_start
    BY <1>3, WiredSeries DEF IInv, TypeOK
  <2>4. retained_day' = None => Blank(retained.series)'
    BY <1>3, <2>3 DEF IInv, Series, Blank
  <2>5. retained_day' = LocalDay[time'] => Backed(retained.series)'
    BY <1>1, <1>3, <2>3 DEF IInv, Series, HoldsToday, ThisHour, Single,
                            Backed, Bounded, Ahead, Counting
  <2>6. Retained'
    BY <2>4, <2>5 DEF Retained
  <2> QED
    BY <2>1, <2>2, <2>6 DEF IInv
<1> QED
    BY <1>2, <1>3 DEF Publish

\* A restore takes a baseline of this hour only from a summary whose baseline of this
\* hour was read in this hour, if the summary is of today.
LEMMA RestoreKeeps ==
    ASSUME IInv, TypeOK', Dates', Restore
    PROVE  IInv'
<1>1. /\ UNCHANGED <<meters, time, clock_set, counter, metered, restarted, reading,
                     retained, retained_day, peak, fell>>
      /\ ThisHour' = ThisHour /\ data_day' = retained_day /\ retained # None
    BY DEF Restore, worldVars, ThisHour
<1>2. retained.series \in Wires /\ ThisHour \in Hour
    BY <1>1, SeriesFacts, Calendar DEF IInv
<1>3. /\ data'.values_at_hour_start = retained.series.values_at_hour_start
      /\ data'.values = retained.series.values
      /\ data'.last_value = None
      /\ \A h \in Hour : data'.baseline_present[h]
                         <=> retained.series.values_at_hour_start[h] # 0
  <2>1. now \in LocalDateTimes \cup {NoTime}
    BY Calendar DEF IInv
  <2> QED
    BY <1>2, <2>1, RestoredSeries DEF Restore
<1>4. OneMeter'
    BY <1>1 DEF IInv, OneMeter, Single
<1>5. Retained'
    BY <1>1 DEF IInv, Retained, Blank, Single, Backed, Bounded, Ahead, Counting
<1>6. data_day' = None => Blank(data)' /\ \A h \in Hour : ~data'.baseline_present[h]
    BY <1>1, <1>3 DEF IInv, Retained, Blank
<1>7. HoldsToday' =>
        /\ Backed(data)'
        /\ data'.baseline_present[ThisHour']
             => Counting(data.values, data.values_at_hour_start)'
  <2> SUFFICES ASSUME HoldsToday'
               PROVE  /\ Backed(data)'
                      /\ data'.baseline_present[ThisHour']
                           => Counting(data.values, data.values_at_hour_start)'
    OBVIOUS
  <2>1. Backed(retained.series)
    BY <1>1 DEF IInv, Retained, HoldsToday
  <2>2. Backed(data)'
    BY <1>1, <1>3, <2>1 DEF Single, Backed, Bounded, Ahead, Counting
  <2>3. data'.baseline_present[ThisHour'] => data'.values_at_hour_start[ThisHour'] # 0
    BY <1>1, <1>2, <1>3
  <2> QED
    BY <2>2, <2>3 DEF Backed
<1>8. Series'
    BY <1>3, <1>6, <1>7 DEF Series
<1> QED
    BY <1>4, <1>5, <1>8 DEF IInv

LEMMA HistoryPreserved == IInv /\ [Next]_vars => IInv'
<1> SUFFICES ASSUME IInv, [Next]_vars PROVE IInv'
    OBVIOUS
<1>1. TypeOK' /\ Dates'
    BY TypePreserved, DatesPreserved DEF IInv
<1>2. CASE Tick
    BY <1>1, <1>2, TickKeeps
<1>3. CASE \E meter \in meters : UseEnergy(meter)
    BY <1>1, <1>3, UseEnergyKeeps
<1>4. CASE \E meter \in meters : MeterRestarts(meter)
    BY <1>1, <1>4, MeterRestartsKeeps
<1>5. CASE ClockSync \/ UNCHANGED vars
    BY <1>1, <1>5, StillKeeps DEF ClockSync, vars, worldVars, brokerVars, readVars
<1>6. CASE Reboot
    BY <1>1, <1>6, RebootKeeps
<1>7. CASE \E meter \in meters : Report(meter)
    BY <1>1, <1>7, ReportKeeps
<1>8. CASE Publish
    BY <1>1, <1>8, PublishKeeps
<1>9. CASE Restore
    BY <1>1, <1>9, RestoreKeeps
<1> QED
    BY <1>2, <1>3, <1>4, <1>5, <1>6, <1>7, <1>8, <1>9 DEF Next

-----------------------------------------------------------------------------
(* The theorems. *)

\* No bucket of today's hours shows more than one meter counted in its hour, through
\* any reboots, restores with or without a clock, and restarts of the meter
\* (append_value, is_for, mark_restored, mark_restored_without_time).
THEOREM NothingOvercounted == Spec => []NeverOvercounts
<1>1. IInv => NeverOvercounts
    BY DEF IInv, Series, Backed, Bounded, NeverOvercounts, Single
<1> QED
    BY InitialHistory, HistoryPreserved, <1>1, PTL DEF Spec

\* A bucket of today's hours below zero is one of an hour in which the total that was
\* read fell: a restart of a meter, or a reboot that forgot one of two (append_value).
THEOREM NegativeNeedsFall == Spec => []NegativeOnlyIfTotalFell
<1>1. IInv => NegativeOnlyIfTotalFell
    BY DEF IInv, Series, Backed, Bounded, NegativeOnlyIfTotalFell, Single
<1> QED
    BY InitialHistory, HistoryPreserved, <1>1, PTL DEF Spec

\* A reading takes nothing from the bucket of its hour, the first one after a reboot and
\* a restore included, with a stamp or without (append_value, mark_restored,
\* mark_restored_without_time).
THEOREM ReadingsAddUp == Spec => BucketGrows
<1> DEFINE Counted == /\ \E meter \in meters : Report(meter)
                      /\ clock_set /\ HoldsToday
                      /\ data.last_update \in {now, NoTime}
                      /\ LocalHour[time] \notin fell'
                      /\ data.values_at_hour_start[LocalHour[time]] # 0
<1>1. IInv /\ [Next]_vars => [Counted => Bucket' >= Bucket]_vars
  <2> SUFFICES ASSUME IInv, Counted PROVE Bucket' >= Bucket
    OBVIOUS
  <2>1. PICK meter \in meters : Report(meter)
    OBVIOUS
  <2>2. PICK total : total = reading'["main"] + reading'["garage"]
    OBVIOUS
  <2>3. /\ total \in Nat /\ Appended(data, total, now, data')
        /\ fell' = IF total < peak THEN fell \cup {ThisHour} ELSE fell
        /\ time' = time
    BY <2>1, <2>2, ReportAppends DEF IInv, Report
  <2>4. /\ now = [date |-> LocalDay[time], hour |-> ThisHour]
        /\ ThisHour \in Hour /\ ThisHour \in Nat /\ ThisHour \notin fell'
        /\ peak \in Nat
        /\ data.values[ThisHour] \in Int /\ data.values_at_hour_start[ThisHour] \in Nat
        /\ data.last_value \in Option(Nat)
    BY Calendar, SeriesFacts DEF IInv, TypeOK, ThisHour
  <2>5. peak <= total
    BY <2>3, <2>4
  <2>6. data.values_at_hour_start[ThisHour] # 0 /\ data.baseline_present[ThisHour]
    BY <2>4 DEF IInv, Series, ThisHour
  <2>7. data.last_value # None => data.last_value <= peak /\ data.last_value \in Nat
    <3>1. CASE data.last_update = NoTime
      BY <3>1 DEF IInv, Series
    <3>2. CASE data.last_update = now
      <4>1. InThisHour
        BY <2>4, <3>2 DEF InThisHour, StampedToday
      <4> QED
        BY <2>4, <4>1 DEF IInv, Series, Option
    <3> QED
      BY <3>1, <3>2
  <2>8. ~counter_reset(data, total)
    BY <2>3, <2>4, <2>5, <2>7 DEF counter_reset
  <2>9. ~needs_baseline(data, total, now)
    BY <2>4, <2>6, <2>8 DEF needs_baseline, date_changed, hour_changed
  <2>10. Counting(data.values, data.values_at_hour_start)
    BY <2>6 DEF IInv, Series, Backed
  <2>11. data'.values[ThisHour] = total - data.values_at_hour_start[ThisHour]
    BY <2>3, <2>4, <2>9 DEF Appended
  <2>12. data'.values[ThisHour] >= data.values[ThisHour]
    BY <2>3, <2>4, <2>5, <2>10, <2>11 DEF Counting
  <2> QED
    BY <2>3, <2>12 DEF Bucket, ThisHour
<1> QED
    BY InitialHistory, HistoryPreserved, <1>1, PTL DEF Spec, BucketGrows

=============================================================================
