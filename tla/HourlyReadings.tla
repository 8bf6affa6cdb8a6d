---------------------------- MODULE HourlyReadings ----------------------------
(***************************************************************************)
(* append_value against a definition that looks at the whole history of    *)
(* readings.  The readings are arbitrary: the meter may restart, hours may *)
(* be skipped, and the clock may be set back, as at the end of summer time *)
(* or by a synchronization.                                                *)
(***************************************************************************)
EXTENDS HourlyData, Sequences

CONSTANTS
    MaxReadings,    \* bound on the number of readings
    MaxCumulative,  \* bound on what the meter counts
    MaxDate         \* bound on the dates

ASSUME ReadingsAssumption ==
    MaxReadings \in Nat /\ MaxCumulative \in Nat /\ MaxDate \in Nat

VARIABLES
    readings,     \* history variable: every reading so far
    hourly_data  \* the series that append_value keeps

readingsVars == <<readings, hourly_data>>

Readings == [cumulative : 0..MaxCumulative, now : [date : 0..MaxDate, hour : Hour]]

ReadingsInit ==
    /\ readings = <<>>
    /\ hourly_data = EmptyData

Read(r) ==
    /\ Len(readings) < MaxReadings
    /\ readings' = Append(readings, r)
    /\ hourly_data' = append_value(hourly_data, r.cumulative, r.now)

ReadingsNext == \E r \in Readings : Read(r)

ReadingsSpec == ReadingsInit /\ [][ReadingsNext]_readingsVars

-----------------------------------------------------------------------------

Last == readings[Len(readings)]

\* The readings since the date last changed.
Today(i) == \A k \in i..Len(readings) : readings[k].now.date = Last.now.date

\* i..j is a run: today's readings of one hour, in which the meter only counts.
IsRun(i, j) ==
    /\ Today(i)
    /\ \A k \in i..j : readings[k].now.hour = readings[j].now.hour
    /\ \A k \in (i + 1)..j : readings[k - 1].cumulative <= readings[k].cumulative

\* The last of today's readings of an hour, if there is one.
IsLastIn(j, hour) ==
    /\ Today(j) /\ readings[j].now.hour = hour
    /\ \A k \in (j + 1)..Len(readings) : readings[k].now.hour # hour

ReadToday(hour) == \E j \in DOMAIN readings : IsLastIn(j, hour)

StartsRun(i, j) == IsRun(i, j) /\ (i > 1 => ~IsRun(i - 1, j))

\* Every bucket shows the energy of its hour's last run, from the first reading
\* of the run to its last one; without readings it shows none.
BucketsAreRuns ==
    \A hour \in Hour :
        /\ ~ReadToday(hour) => hourly_data.values[hour] = 0
        /\ \A j \in DOMAIN readings : IsLastIn(j, hour) =>
             \E i \in 1..j :
                 /\ StartsRun(i, j)
                 /\ hourly_data.values[hour]
                      = readings[j].cumulative - readings[i].cumulative

\* A bucket has a baseline exactly when its hour was read today, so no reading
\* is measured against a baseline of another day.
BaselinesAreTodays ==
    \A hour \in Hour : hourly_data.baseline_present[hour] <=> ReadToday(hour)

=============================================================================
