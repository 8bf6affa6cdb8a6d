------------------------- MODULE HourlyReadingsProofs -------------------------
(***************************************************************************)
(* What the operators of HourlyData do to a series, for this module and    *)
(* for HourlyHistoryProofs, and what the buckets show, for any number of   *)
(* readings, hours and dates: the invariant says which run of readings     *)
(* each baseline and each bucket stand for.                                *)
(***************************************************************************)
EXTENDS HourlyReadings, TLAPS

-----------------------------------------------------------------------------
(* What the operators of HourlyData do to a series. *)

\* What append_value makes of d, field by field.
Appended(d, c, t, e) ==
    /\ e \in HourlyDatas
    /\ e.last_update = t /\ e.last_value = c
    /\ e.baseline_present[t.hour]
    /\ needs_baseline(d, c, t) =>
         /\ e.values_at_hour_start[t.hour] = c
         /\ e.values[t.hour] = 0
    /\ ~needs_baseline(d, c, t) =>
         /\ e.values_at_hour_start[t.hour] = d.values_at_hour_start[t.hour]
         /\ e.values[t.hour] = c - d.values_at_hour_start[t.hour]
    /\ \A h \in Hour \ {t.hour} :
         /\ date_changed(d, t) => /\ e.values_at_hour_start[h] = 0
                                  /\ e.values[h] = 0 /\ ~e.baseline_present[h]
         /\ ~date_changed(d, t) =>
              /\ e.values_at_hour_start[h] = d.values_at_hour_start[h]
              /\ e.values[h] = d.values[h]
              /\ e.baseline_present[h] = d.baseline_present[h]

\* A reading sets the baseline and the bucket of its hour, or only the bucket, and
\* leaves the other hours alone, unless its date is a new one (model.rs:118).
LEMMA AppendValue ==
    ASSUME NEW d \in HourlyDatas, NEW c \in Nat, NEW t \in LocalDateTimes
    PROVE  Appended(d, c, t, append_value(d, c, t))
<1> DEFINE e == append_value(d, c, t)
           p == IF date_changed(d, t) THEN EmptyData ELSE d
<1>1. p \in HourlyDatas
    BY HourAssumption DEF EmptyData, HourlyDatas, Zeros, Option
<1>2. t.hour \in Hour
    BY DEF LocalDateTimes
<1> DEFINE q == IF needs_baseline(d, c, t) THEN set_baseline(p, t.hour, c)
                                           ELSE count(p, t.hour, c)
<1>3. e = stamp(q, t, c)
    BY DEF append_value
<1>4. ~needs_baseline(d, c, t) => p = d /\ d.baseline_present[t.hour]
    BY DEF needs_baseline
<1> HIDE DEF p
<1>5. /\ set_baseline(p, t.hour, c) \in HourlyDatas
      /\ count(p, t.hour, c) \in HourlyDatas
  <2>1. c - p.values_at_hour_start[t.hour] \in Int
    BY <1>1, <1>2 DEF HourlyDatas
  <2>2. count(p, t.hour, c) \in HourlyDatas
    BY <1>1, <2>1 DEF count, HourlyDatas
  <2>3. 0 \in Int /\ TRUE \in BOOLEAN
    OBVIOUS
  <2>4. set_baseline(p, t.hour, c) \in HourlyDatas
    BY <1>1, <2>3 DEF set_baseline, HourlyDatas
  <2> QED
    BY <2>2, <2>4
<1>6. q \in HourlyDatas
    BY <1>5
<1>7. /\ q.baseline_present[t.hour]
      /\ needs_baseline(d, c, t) =>
           q.values_at_hour_start[t.hour] = c /\ q.values[t.hour] = 0
      /\ ~needs_baseline(d, c, t) =>
           /\ q.values_at_hour_start[t.hour] = d.values_at_hour_start[t.hour]
           /\ q.values[t.hour] = c - d.values_at_hour_start[t.hour]
    BY <1>1, <1>2, <1>4 DEF set_baseline, count, HourlyDatas
<1>8. \A h \in Hour \ {t.hour} :
        /\ q.values_at_hour_start[h] = p.values_at_hour_start[h]
        /\ q.values[h] = p.values[h]
        /\ q.baseline_present[h] = p.baseline_present[h]
    BY <1>1, <1>2 DEF set_baseline, count, HourlyDatas
<1> HIDE DEF q, e
<1>9. /\ e \in HourlyDatas
      /\ e.last_update = t /\ e.last_value = c
      /\ e.values_at_hour_start = q.values_at_hour_start
      /\ e.values = q.values /\ e.baseline_present = q.baseline_present
    BY <1>3, <1>6 DEF stamp, HourlyDatas, Option
<1>10. \A h \in Hour : /\ EmptyData.values_at_hour_start[h] = 0
                       /\ EmptyData.values[h] = 0 /\ ~EmptyData.baseline_present[h]
    BY DEF EmptyData, Zeros
<1> QED
    BY <1>7, <1>8, <1>9, <1>10 DEF p, e, Appended

\* A new series is empty, and every field of it typed.
LEMMA EmptySeries ==
    /\ EmptyData \in HourlyDatas
    /\ EmptyData.last_update = NoTime /\ EmptyData.last_value = None
    /\ \A h \in Hour : /\ EmptyData.values_at_hour_start[h] = 0
                       /\ EmptyData.values[h] = 0 /\ ~EmptyData.baseline_present[h]
BY DEF EmptyData, HourlyDatas, Zeros, Option

\* A restore takes the arrays, and a baseline for every one that is not zero; without
\* a clock it leaves no stamp.
LEMMA RestoredSeries ==
    ASSUME NEW p \in Wires, NEW t \in LocalDateTimes \cup {NoTime}
    PROVE  /\ restored(p, t) \in HourlyDatas
           /\ restored(p, t).values_at_hour_start = p.values_at_hour_start
           /\ restored(p, t).values = p.values
           /\ restored(p, t).last_update = t /\ restored(p, t).last_value = None
           /\ \A h \in Hour : restored(p, t).baseline_present[h]
                               <=> p.values_at_hour_start[h] # 0
BY DEF Wires, restored, mark_baselines_present, HourlyDatas, Option

\* A publication carries the two arrays as they are.
LEMMA WiredSeries ==
    ASSUME NEW d \in HourlyDatas
    PROVE  /\ wire(d) \in Wires
           /\ wire(d).values_at_hour_start = d.values_at_hour_start
           /\ wire(d).values = d.values
BY DEF Wires, wire, HourlyDatas

-----------------------------------------------------------------------------
(* What the buckets show of the readings. *)

Typed ==
    /\ readings \in Seq(Readings)
    /\ hourly_data \in HourlyDatas

\* The series remembers the last reading.
Anchored ==
    /\ readings = <<>> => hourly_data = EmptyData
    /\ readings # <<>> => /\ hourly_data.last_update = Last.now
                          /\ hourly_data.last_value = Last.cumulative

\* Each bucket counts from the first reading of its run.
Baselines ==
    \A hour \in Hour : \A j \in DOMAIN readings : IsLastIn(j, hour) =>
        \E i \in 1..j :
            /\ StartsRun(i, j)
            /\ hourly_data.values_at_hour_start[hour] = readings[i].cumulative
            /\ hourly_data.values[hour]
                 = readings[j].cumulative - readings[i].cumulative

Unread ==
    \A hour \in Hour : ~ReadToday(hour) => hourly_data.values[hour] = 0

RunsInv == Typed /\ Anchored /\ BaselinesAreTodays /\ Baselines /\ Unread

SameDate(r) == readings # <<>> /\ Last.now.date = r.now.date

\* Appending a reading changes neither the runs nor the last readings of other
\* hours, unless its date is a new one: then there are none.
LEMMA RunsOf ==
    ASSUME readings \in Seq(Readings), NEW r \in Readings,
           readings' = Append(readings, r), NEW n \in Nat, n = Len(readings)
    PROVE  /\ n \in Nat /\ DOMAIN readings = 1..n
           /\ DOMAIN readings' = 1..(n + 1)
           /\ readings'[n + 1] = r
           /\ \A k \in 1..n : readings'[k] = readings[k] /\ readings[k] \in Readings
           /\ \A i \in 1..n : Today(i)' <=> Today(i) /\ SameDate(r)
           /\ Today(n + 1)'
<1>1. /\ n \in Nat /\ Len(readings') = n + 1 /\ DOMAIN readings = 1..n
      /\ DOMAIN readings' = 1..(n + 1)
      /\ readings'[n + 1] = r
      /\ \A k \in 1..n : readings'[k] = readings[k] /\ readings[k] \in Readings
      /\ n > 0 <=> readings # <<>>
    OBVIOUS
<1>2. Last' = r /\ (n > 0 => Last = readings[n])
    BY <1>1 DEF Last
<1>3. Today(n + 1)'
    BY <1>1, <1>2 DEF Today
<1>4. ASSUME NEW i \in 1..n PROVE Today(i)' <=> Today(i) /\ SameDate(r)
  <2>1. Today(i)' <=> \A k \in i..(n + 1) : readings'[k].now.date = r.now.date
    BY <1>1, <1>2 DEF Today
  <2>2. Today(i) <=> \A k \in i..n : readings[k].now.date = readings[n].now.date
    BY <1>1, <1>2 DEF Today
  <2>3. SameDate(r) <=> readings[n].now.date = r.now.date
    BY <1>1, <1>2 DEF SameDate
  <2>4. ASSUME Today(i)' PROVE Today(i) /\ SameDate(r)
    <3>1. \A k \in i..n : readings[k].now.date = r.now.date
      <4> TAKE k \in i..n
      <4>1. k \in i..(n + 1) /\ k \in 1..n
        BY <1>1
      <4> QED
        BY <1>1, <2>1, <2>4, <4>1
    <3>2. n \in i..n
      BY <1>1
    <3> QED
      BY <2>2, <2>3, <3>1, <3>2
  <2>5. ASSUME Today(i), SameDate(r) PROVE Today(i)'
    <3>1. \A k \in i..(n + 1) : k = n + 1 \/ (k \in i..n /\ k \in 1..n)
      BY <1>1
    <3> QED
      BY <1>1, <2>1, <2>2, <2>3, <2>5, <3>1
  <2> QED
    BY <2>4, <2>5
<1> QED
    BY <1>1, <1>3, <1>4

LEMMA OldRuns ==
    ASSUME readings \in Seq(Readings), NEW r \in Readings,
           readings' = Append(readings, r), NEW n \in Nat, n = Len(readings)
    PROVE  \A i \in 1..n : \A j \in i..n :
               IsRun(i, j)' <=> IsRun(i, j) /\ SameDate(r)
<1>1. /\ n \in Nat
      /\ \A k \in 1..n : readings'[k] = readings[k]
      /\ \A i \in 1..n : Today(i)' <=> Today(i) /\ SameDate(r)
    BY RunsOf
<1> SUFFICES ASSUME NEW i \in 1..n, NEW j \in i..n
             PROVE  IsRun(i, j)' <=> IsRun(i, j) /\ SameDate(r)
    OBVIOUS
<1>2. /\ \A k \in i..j : k \in 1..n
      /\ \A k \in (i + 1)..j : k \in 1..n /\ k - 1 \in 1..n
      /\ j \in 1..n
    BY <1>1
<1> QED
    BY <1>1, <1>2 DEF IsRun

\* The runs that end with the new reading.
LEMMA NewRuns ==
    ASSUME readings \in Seq(Readings), NEW r \in Readings,
           readings' = Append(readings, r), NEW n \in Nat, n = Len(readings)
    PROVE  /\ IsRun(n + 1, n + 1)'
           /\ \A i \in 1..n : IsRun(i, n + 1)' <=>
                /\ IsRun(i, n) /\ SameDate(r)
                /\ Last.now.hour = r.now.hour
                /\ Last.cumulative <= r.cumulative
<1>1. /\ n \in Nat
      /\ readings'[n + 1] = r
      /\ \A k \in 1..n : readings'[k] = readings[k] /\ readings[k] \in Readings
      /\ \A i \in 1..n : Today(i)' <=> Today(i) /\ SameDate(r)
      /\ Today(n + 1)'
    BY RunsOf
<1>2. n > 0 => Last = readings[n]
    BY <1>1 DEF Last
<1>3. IsRun(n + 1, n + 1)'
  <2>1. \A k \in (n + 1)..(n + 1) : k = n + 1
    BY <1>1
  <2>2. \A k \in (n + 1 + 1)..(n + 1) : FALSE
    BY <1>1
  <2> QED
    BY <1>1, <2>1, <2>2 DEF IsRun
<1>4. ASSUME NEW i \in 1..n
      PROVE  IsRun(i, n + 1)' <=> /\ IsRun(i, n) /\ SameDate(r)
                                  /\ Last.now.hour = r.now.hour
                                  /\ Last.cumulative <= r.cumulative
  <2>1. IsRun(i, n + 1)' <=>
          /\ Today(i)'
          /\ \A k \in i..(n + 1) : readings'[k].now.hour = r.now.hour
          /\ \A k \in (i + 1)..(n + 1) :
               readings'[k - 1].cumulative <= readings'[k].cumulative
    BY <1>1 DEF IsRun
  <2>2. /\ n \in i..n /\ Last = readings[n]
        /\ \A k \in i..n : k \in i..(n + 1) /\ k \in 1..n
        /\ \A k \in (i + 1)..n : k \in (i + 1)..(n + 1) /\ k \in 1..n /\ k - 1 \in 1..n
        /\ n + 1 \in (i + 1)..(n + 1) /\ n \in 1..n
    BY <1>1, <1>2
  <2>3. ASSUME IsRun(i, n + 1)'
        PROVE  /\ IsRun(i, n) /\ SameDate(r)
               /\ Last.now.hour = r.now.hour
               /\ Last.cumulative <= r.cumulative
    <3>1. Today(i) /\ SameDate(r)
      BY <1>1, <2>1, <2>3
    <3>2. \A k \in i..n : readings[k].now.hour = r.now.hour
      BY <1>1, <2>1, <2>2, <2>3
    <3>3. \A k \in (i + 1)..n : readings[k - 1].cumulative <= readings[k].cumulative
      BY <1>1, <2>1, <2>2, <2>3
    <3>4. readings'[n + 1 - 1].cumulative <= readings'[n + 1].cumulative
      BY <2>1, <2>2, <2>3
    <3>5. n + 1 - 1 = n
      BY <1>1
    <3> QED
      BY <1>1, <2>2, <3>1, <3>2, <3>3, <3>4, <3>5 DEF IsRun
  <2>4. ASSUME IsRun(i, n), SameDate(r), Last.now.hour = r.now.hour,
               Last.cumulative <= r.cumulative
        PROVE  IsRun(i, n + 1)'
    <3>1. \A k \in i..(n + 1) : k = n + 1 \/ k \in i..n
      BY <1>1
    <3>2. \A k \in (i + 1)..(n + 1) :
            (k = n + 1 /\ k - 1 = n) \/ k \in (i + 1)..n
      BY <1>1
    <3>3. \A k \in i..(n + 1) : readings'[k].now.hour = r.now.hour
      BY <1>1, <2>2, <2>4, <3>1 DEF IsRun
    <3>4. \A k \in (i + 1)..(n + 1) :
            readings'[k - 1].cumulative <= readings'[k].cumulative
      BY <1>1, <2>2, <2>4, <3>2 DEF IsRun
    <3> QED
      BY <1>1, <2>1, <2>4, <3>3, <3>4 DEF IsRun
  <2> QED
    BY <2>3, <2>4
<1> QED
    BY <1>3, <1>4

\* The last readings of each hour after a new reading.
LEMMA LastReadings ==
    ASSUME readings \in Seq(Readings), NEW r \in Readings,
           readings' = Append(readings, r), NEW n \in Nat, n = Len(readings), NEW hour \in Hour
    PROVE  /\ IsLastIn(n + 1, hour)' <=> hour = r.now.hour
           /\ \A j \in 1..n : IsLastIn(j, hour)' <=>
                IsLastIn(j, hour) /\ SameDate(r) /\ hour # r.now.hour
<1>1. /\ n \in Nat /\ Len(readings') = n + 1
      /\ readings'[n + 1] = r
      /\ \A k \in 1..n : readings'[k] = readings[k]
      /\ \A i \in 1..n : Today(i)' <=> Today(i) /\ SameDate(r)
      /\ Today(n + 1)'
    BY RunsOf
<1>2. IsLastIn(n + 1, hour)' <=> hour = r.now.hour
  <2>1. \A k \in (n + 1 + 1)..(n + 1) : FALSE
    BY <1>1
  <2> QED
    BY <1>1, <2>1 DEF IsLastIn
<1>3. ASSUME NEW j \in 1..n
      PROVE  IsLastIn(j, hour)' <=>
               IsLastIn(j, hour) /\ SameDate(r) /\ hour # r.now.hour
  <2>1. \A k \in (j + 1)..(n + 1) : k = n + 1 \/ (k \in (j + 1)..n /\ k \in 1..n)
    BY <1>1
  <2>2. /\ \A k \in (j + 1)..n : k \in (j + 1)..(n + 1) /\ k \in 1..n
        /\ n + 1 \in (j + 1)..(n + 1)
    BY <1>1
  <2>3. IsLastIn(j, hour)' <=>
          /\ Today(j)' /\ readings'[j].now.hour = hour
          /\ \A k \in (j + 1)..(n + 1) : readings'[k].now.hour # hour
    BY <1>1 DEF IsLastIn
  <2>4. (\A k \in (j + 1)..(n + 1) : readings'[k].now.hour # hour)
          <=> (/\ \A k \in (j + 1)..n : readings[k].now.hour # hour
               /\ hour # r.now.hour)
    BY <1>1, <2>1, <2>2
  <2> QED
    BY <1>1, <2>3, <2>4 DEF IsLastIn
<1> QED
    BY <1>2, <1>3

LEMMA InitRuns == ReadingsInit => RunsInv
<1> SUFFICES ASSUME ReadingsInit PROVE RunsInv
    OBVIOUS
<1>1. Typed /\ Anchored
    BY HourAssumption
    DEF ReadingsInit, Typed, Anchored, EmptyData, HourlyDatas, Zeros, Option
<1>2. \A hour \in Hour : ~ReadToday(hour)
    BY DEF ReadingsInit, ReadToday
<1>3. Baselines
    BY DEF ReadingsInit, Baselines
<1>4. BaselinesAreTodays /\ Unread
    BY <1>2 DEF ReadingsInit, EmptyData, Zeros, BaselinesAreTodays, Unread
<1> QED
    BY <1>1, <1>3, <1>4 DEF RunsInv

LEMMA NextRuns == RunsInv /\ [ReadingsNext]_readingsVars => RunsInv'
<1> SUFFICES ASSUME RunsInv, [ReadingsNext]_readingsVars PROVE RunsInv'
    OBVIOUS
<1>1. CASE UNCHANGED readingsVars
  <2>1. readings' = readings /\ hourly_data' = hourly_data
    BY <1>1 DEF readingsVars
  <2>2. Typed' /\ Anchored'
    BY <2>1 DEF RunsInv, Typed, Anchored, Last
  <2>3. /\ \A hour : ReadToday(hour)' <=> ReadToday(hour)
        /\ \A j, hour : IsLastIn(j, hour)' <=> IsLastIn(j, hour)
        /\ \A i, j : StartsRun(i, j)' <=> StartsRun(i, j)
    BY <2>1 DEF ReadToday, IsLastIn, StartsRun, IsRun, Today, Last
  <2>4. BaselinesAreTodays' /\ Baselines' /\ Unread'
    BY <2>1, <2>3 DEF RunsInv, BaselinesAreTodays, Baselines, Unread
  <2> QED
    BY <2>2, <2>4 DEF RunsInv
<1>2. ASSUME NEW r \in Readings, Read(r) PROVE RunsInv'
  <2>1. PICK n \in Nat : n = Len(readings)
    BY DEF RunsInv, Typed
  <2>2. /\ readings \in Seq(Readings) /\ hourly_data \in HourlyDatas
        /\ readings' = Append(readings, r)
        /\ hourly_data' = append_value(hourly_data, r.cumulative, r.now)
        /\ r.cumulative \in Nat /\ r.now \in LocalDateTimes /\ r.now.hour \in Hour
        /\ r.now # NoTime
    BY <1>2, HourAssumption, ReadingsAssumption
    DEF RunsInv, Typed, Read, Readings, LocalDateTimes, NoTime
  <2>3. /\ DOMAIN readings = 1..n /\ DOMAIN readings' = 1..(n + 1)
        /\ readings'[n + 1] = r
        /\ \A k \in 1..n : readings'[k] = readings[k] /\ readings[k] \in Readings
        /\ n = 0 <=> readings = <<>>
        /\ Last' = r
        /\ n > 0 => Last = readings[n]
    BY <2>1, <2>2, RunsOf DEF Last
  <2>4. \A hour \in Hour :
          /\ IsLastIn(n + 1, hour)' <=> hour = r.now.hour
          /\ \A j \in 1..n : IsLastIn(j, hour)' <=>
               IsLastIn(j, hour) /\ SameDate(r) /\ hour # r.now.hour
    BY <2>1, <2>2, LastReadings
  <2>5. /\ IsRun(n + 1, n + 1)'
        /\ \A i \in 1..n : IsRun(i, n + 1)' <=>
             /\ IsRun(i, n) /\ SameDate(r)
             /\ Last.now.hour = r.now.hour
             /\ Last.cumulative <= r.cumulative
    BY <2>1, <2>2, NewRuns
  <2>6. \A i \in 1..n : \A j \in i..n :
          IsRun(i, j)' <=> IsRun(i, j) /\ SameDate(r)
    BY <2>1, <2>2, OldRuns
  <2> DEFINE d == hourly_data
             t == r.now
             e == hourly_data'
             new == needs_baseline(hourly_data, r.cumulative, r.now)
  <2>0. Appended(hourly_data, r.cumulative, r.now, hourly_data')
    BY <2>2, AppendValue
  <2>7. /\ e \in HourlyDatas
        /\ e.last_update = t /\ e.last_value = r.cumulative
        /\ e.baseline_present[t.hour]
        /\ new => e.values_at_hour_start[t.hour] = r.cumulative
                  /\ e.values[t.hour] = 0
        /\ ~new => /\ e.values_at_hour_start[t.hour]
                        = d.values_at_hour_start[t.hour]
                   /\ e.values[t.hour]
                        = r.cumulative - d.values_at_hour_start[t.hour]
    BY <2>0 DEF Appended
  \* The other buckets: kept on the same date, empty on a new one.
  <2>8. \A h \in Hour \ {t.hour} :
          /\ SameDate(r) =>
               /\ e.values_at_hour_start[h] = d.values_at_hour_start[h]
               /\ e.values[h] = d.values[h]
               /\ e.baseline_present[h] = d.baseline_present[h]
          /\ ~SameDate(r) => e.values[h] = 0 /\ ~e.baseline_present[h]
    <3>1. readings # <<>> => (date_changed(hourly_data, t) <=> ~SameDate(r))
      <4>1. readings # <<>> => hourly_data.last_update = Last.now /\ Last.now # NoTime
        BY <2>3, HourAssumption
        DEF RunsInv, Anchored, Readings, NoTime
      <4> QED
        BY <4>1 DEF date_changed, SameDate
    <3>2. readings = <<>> =>
            hourly_data = EmptyData /\ ~SameDate(r) /\ ~date_changed(hourly_data, t)
      BY DEF RunsInv, Anchored, SameDate, date_changed, EmptyData, NoTime
    <3>3. \A h \in Hour : EmptyData.values[h] = 0 /\ ~EmptyData.baseline_present[h]
      BY DEF EmptyData, Zeros
    <3>4. \A h \in Hour \ {t.hour} :
            /\ date_changed(hourly_data, t) =>
                 e.values[h] = 0 /\ ~e.baseline_present[h]
            /\ ~date_changed(hourly_data, t) =>
                 /\ e.values_at_hour_start[h] = d.values_at_hour_start[h]
                 /\ e.values[h] = d.values[h]
                 /\ e.baseline_present[h] = d.baseline_present[h]
      BY <2>0 DEF Appended
    <3> QED
      BY <3>1, <3>2, <3>3, <3>4 DEF SameDate
  <2> HIDE DEF d, t, e, new
  <2>9. Typed' /\ Anchored'
    BY <2>2, <2>3, <2>7 DEF Typed, Anchored, t, e
  <2>10. ASSUME NEW hour \in Hour, hour # r.now.hour
         PROVE  /\ ReadToday(hour)' <=> ReadToday(hour) /\ SameDate(r)
                /\ \A j \in 1..(n + 1) : IsLastIn(j, hour)' =>
                     j \in 1..n /\ IsLastIn(j, hour) /\ SameDate(r)
    <3>1. \A j \in 1..(n + 1) : j \in 1..n \/ j = n + 1
      BY <2>1
    <3>2. \A j \in 1..n : j \in 1..(n + 1)
      BY <2>1
    <3> QED
      BY <2>3, <2>4, <2>10, <3>1, <3>2 DEF ReadToday
  <2>11. ReadToday(r.now.hour)'
    <3>1. n + 1 \in 1..(n + 1)
      BY <2>1
    <3> QED
      BY <2>2, <2>3, <2>4, <3>1 DEF ReadToday
  <2>12. BaselinesAreTodays'
    <3>1. \A hour \in Hour : d.baseline_present[hour] <=> ReadToday(hour)
      BY DEF RunsInv, BaselinesAreTodays, d
    <3>2. ASSUME NEW hour \in Hour, hour # t.hour
          PROVE  e.baseline_present[hour] <=> ReadToday(hour)'
      <4>1. e.baseline_present[hour] <=> d.baseline_present[hour] /\ SameDate(r)
        <5>1. e.baseline_present[hour] \in BOOLEAN
          BY <2>7 DEF HourlyDatas
        <5>2. SameDate(r) => e.baseline_present[hour] = d.baseline_present[hour]
          BY <2>8, <3>2
        <5>3. ~SameDate(r) => ~e.baseline_present[hour]
          BY <2>8, <3>2
        <5> QED
          BY <5>1, <5>2, <5>3
      <4>2. ReadToday(hour)' <=> ReadToday(hour) /\ SameDate(r)
        BY <2>10, <3>2 DEF t
      <4> QED
        BY <3>1, <4>1, <4>2
    <3>3. e.baseline_present[t.hour] /\ ReadToday(t.hour)'
      BY <2>7, <2>11 DEF t
    <3>4. \A hour \in Hour : e.baseline_present[hour] <=> ReadToday(hour)'
      BY <3>2, <3>3
    <3> QED
      BY <3>4 DEF BaselinesAreTodays, e
  <2>13. Unread'
    BY <2>8, <2>10, <2>11 DEF RunsInv, Unread, d, e, t
  <2>14. Baselines'
    <3> SUFFICES ASSUME NEW hour \in Hour, NEW j \in 1..(n + 1),
                        IsLastIn(j, hour)'
                 PROVE  \E i \in 1..j :
                          /\ StartsRun(i, j)'
                          /\ e.values_at_hour_start[hour]
                               = readings'[i].cumulative
                          /\ e.values[hour]
                               = readings'[j].cumulative - readings'[i].cumulative
      BY <2>3 DEF Baselines, e
    <3>1. CASE hour # r.now.hour
      <4>1. j \in 1..n /\ IsLastIn(j, hour) /\ SameDate(r)
        BY <2>10, <3>1
      <4>2. PICK i \in 1..j :
              /\ StartsRun(i, j)
              /\ d.values_at_hour_start[hour] = readings[i].cumulative
              /\ d.values[hour] = readings[j].cumulative - readings[i].cumulative
        BY <2>3, <4>1 DEF RunsInv, Baselines, d
      <4>3. /\ i \in 1..n /\ j \in i..n
            /\ i > 1 => i - 1 \in 1..n /\ j \in (i - 1)..n
        BY <2>1, <4>1
      <4>4. StartsRun(i, j)'
        BY <2>6, <4>1, <4>2, <4>3 DEF StartsRun
      <4> QED
        BY <2>3, <2>8, <3>1, <4>1, <4>2, <4>3, <4>4 DEF t
    <3>2. CASE hour = r.now.hour
      <4>1. j = n + 1
        <5>1. j \in 1..n \/ j = n + 1
          BY <2>1
        <5> QED
          BY <2>4, <3>2, <5>1
      <4>2. CASE new
        <5>1. StartsRun(n + 1, n + 1)'
          <6> SUFFICES ASSUME n + 1 > 1, IsRun(n, n + 1)' PROVE FALSE
            <7>1. n + 1 - 1 = n
              BY <2>1
            <7> QED
              BY <2>5, <7>1 DEF StartsRun
          <6>1. /\ n \in 1..n /\ Last = readings[n] /\ readings # <<>>
                /\ IsRun(n, n) /\ SameDate(r)
                /\ Last.now.hour = r.now.hour
                /\ Last.cumulative <= r.cumulative
            BY <2>1, <2>3, <2>5
          <6>2. hourly_data.last_update = Last.now /\ hourly_data.last_value = Last.cumulative
            BY <6>1 DEF RunsInv, Anchored
          <6>3. /\ ~date_changed(hourly_data, r.now) /\ ~hour_changed(hourly_data, r.now)
                /\ ~counter_reset(hourly_data, r.cumulative)
            <7>1. Last.cumulative \in Nat
              BY <2>3, <6>1, ReadingsAssumption DEF Readings
            <7> QED
              BY <2>2, <6>1, <6>2, <7>1
              DEF SameDate, date_changed, hour_changed, counter_reset
          <6>4. IsLastIn(n, hour)
            <7>1. Today(n)
              BY <6>1 DEF IsRun
            <7>2. \A k \in (n + 1)..Len(readings) : FALSE
              BY <2>1
            <7> QED
              BY <3>2, <6>1, <7>1, <7>2 DEF IsLastIn
          <6>5. hourly_data.baseline_present[hour]
            BY <2>3, <6>1, <6>4 DEF RunsInv, BaselinesAreTodays, ReadToday
          <6> QED
            BY <3>2, <4>2, <6>3, <6>5 DEF needs_baseline, new
        <5>2. /\ e.values_at_hour_start[hour] = readings'[n + 1].cumulative
              /\ e.values[hour]
                   = readings'[n + 1].cumulative - readings'[n + 1].cumulative
          BY <2>2, <2>3, <2>7, <3>2, <4>2 DEF t
        <5>3. n + 1 \in 1..(n + 1)
          BY <2>1
        <5> QED
          BY <4>1, <5>1, <5>2, <5>3
      <4>3. CASE ~new
        <5>1. /\ ~date_changed(hourly_data, r.now) /\ ~hour_changed(hourly_data, r.now)
              /\ ~counter_reset(hourly_data, r.cumulative)
              /\ hourly_data.baseline_present[hour]
          BY <3>2, <4>3 DEF needs_baseline, new
        <5>2. readings # <<>>
          BY <5>1, <3>2, <2>2 DEF RunsInv, Anchored, EmptyData
        <5>3. /\ n \in 1..n /\ Last = readings[n] /\ Last \in Readings
              /\ hourly_data.last_update = Last.now /\ Last.now # NoTime
              /\ hourly_data.last_value = Last.cumulative /\ Last.cumulative # None
              /\ Last.cumulative \in Nat
          BY <2>1, <2>3, <5>2, HourAssumption, ReadingsAssumption
          DEF RunsInv, Anchored, Readings, NoTime
        <5>4. /\ SameDate(r) /\ Last.now.hour = r.now.hour
              /\ Last.cumulative <= r.cumulative
          BY <2>2, <5>1, <5>2, <5>3
          DEF SameDate, date_changed, hour_changed, counter_reset
        <5>5. Today(n)
          <6>1. \A k \in n..Len(readings) : k = n
            BY <2>1
          <6> QED
            BY <5>3, <6>1 DEF Today
        <5>6. IsLastIn(n, hour)
          <6>1. \A k \in (n + 1)..Len(readings) : FALSE
            BY <2>1
          <6> QED
            BY <3>2, <5>3, <5>4, <5>5, <6>1 DEF IsLastIn
        <5>7. PICK i \in 1..n :
                /\ StartsRun(i, n)
                /\ d.values_at_hour_start[hour] = readings[i].cumulative
          BY <2>3, <5>3, <5>6 DEF RunsInv, Baselines, d
        <5>8. i \in 1..(n + 1) /\ (i > 1 => i - 1 \in 1..n)
          BY <2>1
        <5>9. StartsRun(i, n + 1)'
          BY <2>5, <5>4, <5>7, <5>8 DEF StartsRun
        <5>10. /\ e.values_at_hour_start[hour] = readings'[i].cumulative
               /\ e.values[hour]
                    = readings'[n + 1].cumulative - readings'[i].cumulative
          BY <2>3, <2>7, <3>2, <4>3, <5>7 DEF t
        <5> QED
          BY <4>1, <5>8, <5>9, <5>10
      <4> QED
        BY <4>2, <4>3
    <3> QED
      BY <3>1, <3>2
  <2> QED
    BY <2>9, <2>12, <2>13, <2>14 DEF RunsInv
<1> QED
    BY <1>1, <1>2 DEF ReadingsNext

\* append_value keeps in each bucket the energy from the first to the last
\* reading of the hour's last run, for every sequence of readings: restarts of
\* the meter, skipped and repeated hours and clocks set back included.
THEOREM BucketsShowRuns == ReadingsSpec => []BucketsAreRuns
<1>1. RunsInv => BucketsAreRuns
    BY DEF RunsInv, Baselines, Unread, BucketsAreRuns
<1> QED
    BY InitRuns, NextRuns, <1>1, PTL DEF ReadingsSpec

\* No reading is ever measured against the baseline of another day.
THEOREM BaselinesOfToday == ReadingsSpec => []BaselinesAreTodays
<1>1. RunsInv => BaselinesAreTodays
    BY DEF RunsInv
<1> QED
    BY InitRuns, NextRuns, <1>1, PTL DEF ReadingsSpec

=============================================================================
