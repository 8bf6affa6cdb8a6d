----------------------------- MODULE HourlyHistory -----------------------------
(***************************************************************************)
(* One hourly series through a day: the meters behind it, the readings the *)
(* display applies, the retained summary that carries it over a reboot or  *)
(* an outage.  SummarySync models when summaries are published and         *)
(* restored; here each is one step, at any moment the code allows.         *)
(*                                                                         *)
(* A grid series follows one meter.  The solar series follows the sum of   *)
(* the readings last heard from two inverters, "main" (home) and "garage". *)
(***************************************************************************)
EXTENDS HourlyData, FiniteSets

CONSTANTS
    MaxTime,      \* bound on the UTC hours a behaviour lasts
    LocalDay,     \* the Brussels date of each UTC hour
    LocalHour,    \* the Brussels hour of each UTC hour
    UtcDay,       \* the UTC date of each UTC hour
    MaxEnergy,    \* bound on what the meters show, shared evenly by them
    MaxUse,       \* bound on what is used in an hour
    MaxRestarts   \* bound on the hours of a day in which a meter restarts

Times == 0..MaxTime

ASSUME CalendarAssumption ==
    /\ MaxTime \in Nat
    /\ LocalDay \in [Times -> Nat] /\ UtcDay \in [Times -> Nat]
    /\ LocalHour \in [Times -> Hour]

\* Brussels is east of Greenwich: its midnights come before those of UTC.  Its hours
\* never go back within a day; in October one is repeated (clock.rs:19).
ASSUME BrusselsAssumption ==
    /\ \A t \in Times : UtcDay[t] <= LocalDay[t]
    /\ \A t \in 0 .. MaxTime - 1 :
         /\ LocalDay[t] <= LocalDay[t + 1]
         /\ LocalDay[t] = LocalDay[t + 1] => LocalHour[t] <= LocalHour[t + 1]
ASSUME BoundAssumption ==
    MaxEnergy \in Nat /\ MaxUse \in Nat /\ MaxRestarts \in Nat

VARIABLES
    meters,     \* the meters that the series follows
    time,       \* the UTC hour
    clock_set,  \* the clock is synchronized
    counter,    \* what each meter shows: the energy since its last restart
    reading,    \* energy_today of dashboard.solar and dashboard.garage_solar
    data,       \* the HourlyData of the series
    retained,   \* the broker's copy: the UTC date of its timestamp, the arrays
    last_summary_update,
    \* History variables: what really happened.
    data_day,     \* the local date whose hours the series holds, None without any
    retained_day, \* the same of the broker's copy
    metered,      \* the energy used in each hour of this day
    restarted,    \* the hours of this day in which a meter restarted
    peak,         \* the highest total that was read in this hour
    fell          \* the hours of this day in which the total that was read fell

worldVars == <<meters, counter, metered, restarted>>
brokerVars == <<retained, retained_day, last_summary_update>>
readVars == <<reading, data, data_day, peak, fell>>

vars == <<time, clock_set, worldVars, brokerVars, readVars>>

-----------------------------------------------------------------------------

now == IF clock_set
       THEN [date |-> LocalDay[time], hour |-> LocalHour[time]]
       ELSE NoTime

Summaries == [date : Nat, series : Wires]

is_for_any_day(summary) == TRUE
is_for(summary) == summary.date = LocalDay[time]

Silent == [m \in {"main", "garage"} |-> 0]

Booted ==
    /\ clock_set = FALSE
    /\ reading = Silent
    /\ data = EmptyData
    /\ data_day = None
    /\ last_summary_update = None

Init ==
    /\ meters \in {{"main"}, {"main", "garage"}}
    /\ time = 0
    /\ counter = Silent
    /\ retained = None /\ retained_day = None
    /\ metered = Zeros
    /\ restarted = {}
    /\ peak = 0 /\ fell = {}
    /\ Booted

-----------------------------------------------------------------------------
(* The world: time and the meters. *)

Tick ==
    /\ time < MaxTime
    /\ time' = time + 1
    /\ IF LocalDay[time + 1] = LocalDay[time]
       THEN UNCHANGED <<metered, restarted, fell>>
       ELSE metered' = Zeros /\ restarted' = {} /\ fell' = {}
    /\ peak' = IF /\ LocalDay[time + 1] = LocalDay[time]
                  /\ LocalHour[time + 1] = LocalHour[time]
               THEN peak ELSE 0
    /\ UNCHANGED <<clock_set, meters, counter, reading, data, data_day, brokerVars>>

UseEnergy(meter) ==
    /\ counter[meter] < MaxEnergy \div Cardinality(meters)
    /\ metered[LocalHour[time]] < MaxUse
    /\ counter' = [counter EXCEPT ![meter] = @ + 1]
    /\ metered' = [metered EXCEPT ![LocalHour[time]] = @ + 1]
    /\ UNCHANGED <<time, clock_set, meters, restarted, brokerVars, readVars>>

\* At midnight, or when the meter itself restarts.
MeterRestarts(meter) ==
    /\ Cardinality(restarted) < MaxRestarts
    /\ counter[meter] > 0
    /\ counter' = [counter EXCEPT ![meter] = 0]
    /\ restarted' = restarted \cup {LocalHour[time]}
    /\ UNCHANGED <<time, clock_set, meters, metered, brokerVars, readVars>>

-----------------------------------------------------------------------------
(* The firmware. *)

ClockSync ==
    /\ ~clock_set
    /\ clock_set' = TRUE
    /\ UNCHANGED <<time, worldVars, brokerVars, readVars>>

Reboot ==
    /\ clock_set' = FALSE
    /\ reading' = Silent
    /\ data' = EmptyData /\ data_day' = None
    /\ last_summary_update' = None
    /\ UNCHANGED <<time, worldVars, retained, retained_day, peak, fell>>

\* The date of the stamp is not today's: the hours of the series are over.
StampedBefore ==
    data.last_update # NoTime /\ data.last_update.date # LocalDay[time]

\* Update::Grid, or Update::Solar and Update::GarageSolar.
Report(meter) ==
    /\ reading' = [reading EXCEPT ![meter] = counter[meter]]
    /\ IF clock_set
       THEN LET total == reading'["main"] + reading'["garage"]
            IN  /\ data' = append_value(data, total, now)
                /\ data_day' = IF data_day = None \/ StampedBefore
                               THEN LocalDay[time] ELSE data_day
                /\ peak' = IF total > peak THEN total ELSE peak
                /\ fell' = IF total < peak THEN fell \cup {LocalHour[time]} ELSE fell
       ELSE UNCHANGED <<data, data_day, peak, fell>>
    /\ UNCHANGED <<time, clock_set, worldVars, brokerVars>>

\* The first snapshot of an hour; whether it reaches the broker is open.
Publish ==
    /\ clock_set
    /\ last_summary_update # time
    /\ last_summary_update' = time
    /\ \/ UNCHANGED <<retained, retained_day>>
       \/ /\ retained' = [date |-> UtcDay[time], series |-> wire(data)]
          /\ retained_day' = data_day
    /\ UNCHANGED <<time, clock_set, worldVars, readVars>>

\* Update::DailySummary at the start of a session, after a boot or an outage.  Before
\* the first synchronization a summary of any day is taken, and carries no stamp.
Restore ==
    /\ retained # None
    /\ clock_set => is_for(retained)
    /\ data' = restored(retained.series, now)
    /\ data_day' = retained_day
    /\ last_summary_update' = IF clock_set THEN time ELSE last_summary_update
    /\ UNCHANGED <<time, clock_set, worldVars, reading, retained, retained_day,
                   peak, fell>>

Next ==
    \/ Tick
    \/ \E meter \in meters : UseEnergy(meter)
    \/ \E meter \in meters : MeterRestarts(meter)
    \/ ClockSync
    \/ Reboot
    \/ \E meter \in meters : Report(meter)
    \/ Publish
    \/ Restore

Spec == Init /\ [][Next]_vars

-----------------------------------------------------------------------------
(* Properties. *)

TypeOK ==
    /\ meters \in {{"main"}, {"main", "garage"}}
    /\ time \in Times
    /\ clock_set \in BOOLEAN
    /\ counter \in [{"main", "garage"} -> Nat]
    /\ reading \in [{"main", "garage"} -> Nat]
    /\ data \in HourlyDatas
    /\ retained \in Option(Summaries)
    /\ last_summary_update \in Option(Times)
    /\ data_day \in Option(Nat) /\ retained_day \in Option(Nat)
    /\ metered \in [Hour -> Nat]
    /\ restarted \subseteq Hour
    /\ peak \in Nat /\ fell \subseteq Hour

StampedToday == data.last_update.date = LocalDay[time]
HoldsToday == data_day = LocalDay[time]

\* The buckets of today's hours of a series behind one meter show no more than was
\* used in those hours, through any reboots, restores and meter restarts.
NeverOvercounts ==
    meters = {"main"} /\ HoldsToday => \A h \in Hour : data.values[h] <= metered[h]

\* A bucket of one of today's hours is below zero only if the total that was read fell
\* within that hour.  With one meter only a restart in that hour makes it fall; with
\* two it also falls when a reboot forgets the reading of one of them.
NegativeOnlyIfTotalFell ==
    HoldsToday =>
        \A h \in Hour : data.values[h] < 0 =>
            h \in fell /\ (meters = {"main"} => h \in restarted)

Bucket == data.values[LocalHour[time]]

\* A reading never takes energy from the bucket it falls in, even the first one
\* after a reboot and a restore, with a stamp or without, unless the total that was
\* read fell in that hour or the restored baseline of the hour is zero.
BucketGrows ==
    [][(/\ \E meter \in meters : Report(meter)
        /\ clock_set /\ HoldsToday
        /\ data.last_update \in {now, NoTime}
        /\ LocalHour[time] \notin fell'
        /\ data.values_at_hour_start[LocalHour[time]] # 0)
          => Bucket' >= Bucket]_vars

\* The hours of another day under the stamp, or the date, of this one.
SeriesMisdated == StampedToday /\ data_day \notin {None, LocalDay[time]}
RetainedMisdated ==
    retained # None /\ is_for(retained) /\ retained_day \notin {None, LocalDay[time]}

\* A restore without a clock takes hours of any day, and gives them no stamp.
RestoredBlind == data.last_update = NoTime /\ data_day \notin {None, LocalDay[time]}

\* No reading since local midnight, and the UTC one is over too.
UnreadSinceMidnight == StampedBefore /\ UtcDay[time] = LocalDay[time]

\* The check of a summary's date and the one of the stamp keep the hours of one day
\* from passing for another's, except in two cases: a summary of an earlier day is
\* restored before the clock is set and its series read or published after that
\* (model.rs:289, model.rs:121), or a series without a reading since midnight is
\* published under the new date (main.rs:254).
MisdatedHasACause ==
    [][(SeriesMisdated \/ RetainedMisdated)' =>
         SeriesMisdated \/ RetainedMisdated \/ RestoredBlind \/ UnreadSinceMidnight]_vars

\* "Hourly aggregation remains uninitialized" until the first synchronization, and a
\* summary of another day is ignored (README.md, a test of model.rs): so a reading does
\* not bring the hours of another day under today's stamp.
ReadingsStampOnlyToday ==
    [][(\E meter \in meters : Report(meter)) /\ ~SeriesMisdated => ~SeriesMisdated']_vars

\* A restore into a series that is already of today keeps the hours that are
\* over: PORTING_PLAN.md, "reconnect without losing the last displayed state".
ReconnectKeepsFinishedHours ==
    [][(Restore /\ StampedToday)
          => \A h \in Hour : h < LocalHour[time]
                               => data'.values[h] >= data.values[h]]_vars

=============================================================================
