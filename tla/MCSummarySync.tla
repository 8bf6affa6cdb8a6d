---------------------------- MODULE MCSummarySync ----------------------------
(* Small instances of SummarySync: calendars of two-hour and one-day length. *)
EXTENDS SummarySync

\* Two UTC hours per day, no time zone.
TwoHourDays == [t \in Times |-> t \div 2]

\* Two-hour days whose local midnight comes one hour before the UTC one.
TwoHourDaysEast == [t \in Times |-> (t + 1) \div 2]

\* A behaviour that stays within one day.
OneDay == [t \in Times |-> 0]

=============================================================================
