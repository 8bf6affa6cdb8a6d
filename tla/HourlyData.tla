------------------------------ MODULE HourlyData ------------------------------
(***************************************************************************)
(* One hourly series of the dashboard: the energy counted in each local    *)
(* hour of a day, from readings of a meter that counts up from midnight.   *)
(*                                                                         *)
(* Energy is a whole number of steps of the meter, so the difference of    *)
(* two readings is exact; the code counts kWh in f64 and reports Wh.       *)
(***************************************************************************)
EXTENDS Integers

CONSTANTS
    None,   \* Rust's Option::None
    Hour    \* the local hours of a day: 0..23 in the code

ASSUME HourAssumption == Hour # {} /\ Hour \subseteq Nat /\ None \notin Nat

Option(S) == S \cup {None}

\* The date and the hour of a LocalDateTime; minutes matter to no bucket.
LocalDateTimes == [date : Nat, hour : Hour]
NoTime == [date |-> None, hour |-> None]

HourlyDatas ==
    [values_at_hour_start : [Hour -> Nat],
     values               : [Hour -> Int],
     last_update          : LocalDateTimes \cup {NoTime},
     baseline_present     : [Hour -> BOOLEAN],
     last_value           : Option(Nat)]

\* The two arrays of the JSON payload; the other fields are serde(skip).
Wires == [values_at_hour_start : [Hour -> Nat], values : [Hour -> Int]]

Zeros == [h \in Hour |-> 0]

\* impl Default
EmptyData ==
    [values_at_hour_start |-> Zeros, values |-> Zeros, last_update |-> NoTime,
     baseline_present |-> [h \in Hour |-> FALSE], last_value |-> None]

date_changed(data, now) ==
    data.last_update # NoTime /\ data.last_update.date # now.date
hour_changed(data, now) ==
    data.last_update # NoTime /\ data.last_update.hour # now.hour
counter_reset(data, cumulative) ==
    data.last_value # None /\ cumulative < data.last_value

set_baseline(data, hour, cumulative) ==
    [data EXCEPT !.values_at_hour_start[hour] = cumulative,
                 !.values[hour] = 0,
                 !.baseline_present[hour] = TRUE]

count(data, hour, cumulative) ==
    [data EXCEPT !.values[hour] = cumulative - data.values_at_hour_start[hour]]

stamp(data, now, value) ==
    [data EXCEPT !.last_update = now, !.last_value = value]

\* A date change empties the series; then the reading either starts the bucket
\* of its hour or is counted in it.
needs_baseline_no_restart(data, cumulative, now) ==
    \/ date_changed(data, now)
    \/ hour_changed(data, now)
    \/ ~data.baseline_present[now.hour]
needs_baseline(data, cumulative, now) ==
    \/ date_changed(data, now)
    \/ hour_changed(data, now)
    \/ ~data.baseline_present[now.hour]
    \/ counter_reset(data, cumulative)

append_value_yesterday_kept(data, cumulative, now) ==
    stamp(IF needs_baseline(data, cumulative, now)
          THEN set_baseline(data, now.hour, cumulative)
          ELSE count(data, now.hour, cumulative), now, cumulative)
append_value(data, cumulative, now) ==
    LET today == IF date_changed(data, now) THEN EmptyData ELSE data
    IN  stamp(IF needs_baseline(data, cumulative, now)
              THEN set_baseline(today, now.hour, cumulative)
              ELSE count(today, now.hour, cumulative), now, cumulative)

\* What a publication carries of the series, and what a restore makes of it.
wire_all_fields(data) == data
wire(data) ==
    [values_at_hour_start |-> data.values_at_hour_start, values |-> data.values]

mark_baselines_none(payload) == [h \in Hour |-> FALSE]
mark_baselines_present(payload) ==
    [h \in Hour |-> payload.values_at_hour_start[h] # 0]

\* mark_restored(now), and mark_restored_without_time() when now is NoTime.
restored(payload, now) ==
    [values_at_hour_start |-> payload.values_at_hour_start,
     values               |-> payload.values,
     last_update          |-> now,
     baseline_present     |-> mark_baselines_present(payload),
     last_value           |-> None]

=============================================================================
