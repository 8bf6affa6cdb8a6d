---------------------------- MODULE MCHourlyHistory ----------------------------
(***************************************************************************)
(* Small instances of HourlyReadings and of HourlyHistory.  A behaviour of *)
(* history_safety takes readings of two hours of two days, in any order,   *)
(* or follows a series over two local days of two hours.  The last hour    *)
(* before UTC's midnight is the first one of the second local day.         *)
(***************************************************************************)
EXTENDS HourlyReadings, HourlyHistory

TwoHours == 0..1
TwoDays == [t \in Times |-> t \div 2]
HoursOfTwoDays == [t \in Times |-> t % 2]
UtcDays == [t \in Times |-> t \div 3]

HourlyInit == Init /\ ReadingsInit

FollowSeries == Next /\ readings = <<>> /\ UNCHANGED readingsVars

TakeReadings == ReadingsNext /\ Init /\ meters = {"main"} /\ UNCHANGED vars

HourlyNext == FollowSeries \/ TakeReadings

HourlySpec == HourlyInit /\ [][HourlyNext]_<<vars, readingsVars>>

=============================================================================
