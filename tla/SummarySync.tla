------------------------------ MODULE SummarySync ------------------------------
(***************************************************************************)
(* How the hourly history of the display survives outages and reboots: the *)
(* mqtt task and the display task share it through the channels UPDATES    *)
(* and SUMMARY_PUBLICATIONS, and the broker keeps one retained copy of it  *)
(* on the topic energy/daylysummary.                                       *)
(*                                                                         *)
(* Time advances in UTC hours: two instants of one hour are told apart     *)
(* neither by the once-per-hour publication nor by the hourly buckets.  The*)
(* history is abstracted to the set of hours whose energy it holds; what   *)
(* the buckets contain is the subject of HourlyData.                       *)
(*                                                                         *)
(* The executor is cooperative: what a task does between two awaits is one *)
(* step.  The display loop has no await after UPDATES.receive(), so while  *)
(* it drains the channel no other task runs, although time goes by.        *)
(***************************************************************************)
EXTENDS Channels

CONSTANTS
    MaxTime,        \* bound on the hours a behaviour lasts
    LocalDay,       \* the Brussels date of each UTC hour
    UtcDay,         \* the UTC date of each UTC hour
    BurstsOverflow  \* may more updates arrive in one poll than UPDATES holds?

Times == 0..MaxTime
Hours == SUBSET Times

ASSUME CalendarAssumption ==
    /\ MaxTime \in Nat
    /\ LocalDay \in [Times -> Nat]
    /\ UtcDay \in [Times -> Nat]
    /\ \A s, t \in Times : s <= t => /\ LocalDay[s] <= LocalDay[t]
                                     /\ UtcDay[s] <= UtcDay[t]
ASSUME SwitchAssumption == BurstsOverflow \in BOOLEAN

VARIABLES
    time,          \* the true UTC hour
    clock_set,     \* CLOCK holds an anchor: utc_now() and now() return Some
    mqtt,          \* where the mqtt task awaits
    inflight,      \* the summary on its way from the broker to this client, or None
    awaiting_restored_snapshot,
    last_summary_update,
    hand,          \* the summary publish_summary_if_needed awaits the broker for
    updates,       \* UPDATES
    publications,  \* SUMMARY_PUBLICATIONS
    display,       \* the locals of display_task
    history,       \* the hourly data of dashboard.status
    retained,      \* what the broker retains on energy/daylysummary, or None
    adopted,       \* history variable: the summary this session restores, or None
    published      \* history variable: the hours published since the boot

vars == <<time, clock_set, mqtt, inflight, awaiting_restored_snapshot,
          last_summary_update, hand, updates, publications, display, history,
          retained, adopted, published>>

sessionVars == <<mqtt, inflight, awaiting_restored_snapshot, adopted>>
publishVars == <<last_summary_update, hand, retained, published>>
displayVars == <<display, history>>
clockVars   == <<time, clock_set>>

-----------------------------------------------------------------------------
(* The data. *)

Option(S) == S \cup {None}

utc_now == IF clock_set THEN time ELSE None
TodayOf(now) == LocalDay[now]

\* DailySummary: the UTC date of its timestamp and the hours it holds.
Summaries == [day : Nat, hours : Hours]

is_for(summary, now) == summary.day = TodayOf(now)
Current(summary, now) == IF now = None THEN TRUE ELSE is_for(summary, now)

\* A summary that a session restores, and the hour it came in.
Adoptions == [summary : Summaries, at : Times]

ASSUME NoneAssumption == None \notin Nat /\ None \notin Adoptions

\* Update: a grid reading, any update without an hourly bucket, a summary.
NoSummary == [day |-> 0, hours |-> {}]
LiveKinds == {"grid", "status"}
Live(kind) == [kind |-> kind, summary |-> NoSummary]
DailySummary(summary) == [kind |-> "summary", summary |-> summary]
Updates == [kind : LiveKinds \cup {"summary"}, summary : Summaries]

\* SummaryUpdate: a snapshot of the history with its restore watermark.
SummaryUpdates ==
    [timestamp : Times, hours : Hours, summary_received_at : Option(Times)]

\* The day of last_update, and the hours since that day's start.
Histories == [day : Option(Nat), hours : Hours]
EmptyHistory == [day |-> None, hours |-> {}]

append_value(data, now) ==
    [day   |-> TodayOf(now),
     hours |-> IF data.day = None \/ data.day = TodayOf(now)
               THEN data.hours \cup {now}
               ELSE {now}]

mark_restored(summary, now) ==
    [day |-> IF now = None THEN None ELSE TodayOf(now), hours |-> summary.hours]

apply(data, update, now) ==
    CASE update.kind = "grid" /\ now # None    -> append_value(data, now)
      [] update.kind = "summary" /\ Current(update.summary, now)
                                               -> mark_restored(update.summary, now)
      [] OTHER                                 -> data

-----------------------------------------------------------------------------
(* Initial states: a first boot, nothing retained yet. *)

WaitingDisplay ==
    [draining |-> FALSE, now |-> None, non_summary_update |-> FALSE,
     summary_received |-> FALSE]

Booted ==
    /\ clock_set = FALSE
    /\ mqtt = "offline"
    /\ inflight = None
    /\ awaiting_restored_snapshot = FALSE
    /\ last_summary_update = None
    /\ hand = None
    /\ updates = <<>>
    /\ publications = <<>>
    /\ display = WaitingDisplay
    /\ history = EmptyHistory
    /\ adopted = None
    /\ published = {}

Init ==
    /\ time = 0
    /\ retained = None
    /\ Booted

-----------------------------------------------------------------------------
(* Scheduling. *)

\* Another task than the display runs only while display_task awaits UPDATES.
OtherTaskRuns == ~display.draining

\* join5 polls display_task in the round in which it polls the mqtt task, so
\* UPDATES is drained before the mqtt task is woken by another event.
DisplayPolled == ~display.draining /\ updates = <<>>

BurstFits == BurstsOverflow \/ Len(updates) < UPDATE_QUEUE_DEPTH

InSession == mqtt \in {"subscribing", "restoring", "unsubscribing", "live"}

-----------------------------------------------------------------------------
(* The clock, and the end of a boot. *)

\* The broker's session never expires, and the subscription is one of QoS 2: what a
\* session has not taken may be delivered to the next one.
MayBeDeliveredAgain == inflight' \in {None, inflight}

Tick ==
    /\ time < MaxTime
    /\ time' = time + 1
    /\ UNCHANGED <<clock_set, sessionVars, publishVars, updates, publications,
                   displayVars>>

\* The first SNTP answer; later ones only renew the anchor.
ClockSync ==
    /\ OtherTaskRuns
    /\ ~clock_set
    /\ clock_set' = TRUE
    /\ UNCHANGED <<time, sessionVars, publishVars, updates, publications,
                   displayVars>>

\* A panic, the watchdog or a power cycle, at any point.
Reboot ==
    /\ clock_set' = FALSE
    /\ mqtt' = "offline"
    /\ MayBeDeliveredAgain
    /\ awaiting_restored_snapshot' = FALSE
    /\ last_summary_update' = None
    /\ hand' = None
    /\ updates' = <<>>
    /\ publications' = <<>>
    /\ display' = WaitingDisplay
    /\ history' = EmptyHistory
    /\ adopted' = None
    /\ published' = {}
    /\ UNCHANGED <<time, retained>>

-----------------------------------------------------------------------------
(* The mqtt task: run_session, one action per await it returns from. *)

\* DNS, TCP and the handshake succeeded; run_session starts.
Connect ==
    /\ DisplayPolled
    /\ mqtt = "offline"
    /\ mqtt' = "subscribing"
    /\ publications' = <<>>
    /\ UNCHANGED <<clockVars, inflight, awaiting_restored_snapshot, adopted,
                   publishVars, updates, displayVars>>

\* The last of the nine subscriptions; the broker answers with what it retains, after
\* a summary that it delivers again.  The first one to arrive is the one that counts.
SubscribeSummary ==
    /\ OtherTaskRuns
    /\ mqtt = "subscribing"
    /\ mqtt' = "restoring"
    /\ inflight' \in {retained} \cup ({inflight} \ {None})
    /\ UNCHANGED <<clockVars, awaiting_restored_snapshot, adopted, publishVars,
                   updates, publications, displayVars>>

\* An update of a live topic, while restoring or in the session loop.
ReceiveLive(kind) ==
    /\ OtherTaskRuns
    /\ mqtt \in {"restoring", "live"}
    /\ BurstFits
    /\ updates' = queue_update(updates, Live(kind))
    /\ UNCHANGED <<clockVars, sessionVars, publishVars, publications,
                   displayVars>>

\* queue_incoming_update for the retained summary, which ends the restore.
ReceiveSummary ==
    /\ OtherTaskRuns
    /\ mqtt = "restoring"
    /\ inflight # None
    /\ BurstFits
    /\ LET await == clock_set /\ is_for(inflight, time)
       IN  /\ awaiting_restored_snapshot' = await
           /\ adopted' = IF await THEN [summary |-> inflight, at |-> time] ELSE None
    /\ publications' = <<>>
    /\ updates' = queue_update(updates, DailySummary(inflight))
    /\ inflight' = None
    /\ mqtt' = "unsubscribing"
    /\ UNCHANGED <<clockVars, publishVars, displayVars>>

\* No summary within SUMMARY_RESTORE_TIMEOUT: none retained, or it is late.  The timer
\* may be found expired in the poll that has just queued other messages.
RestoreTimeout ==
    /\ OtherTaskRuns
    /\ mqtt = "restoring"
    /\ mqtt' = "unsubscribing"
    /\ awaiting_restored_snapshot' = FALSE
    /\ UNCHANGED <<clockVars, inflight, adopted, publishVars, updates,
                   publications, displayVars>>

\* The session loop starts; snapshots taken meanwhile count only if awaited.
Unsubscribed ==
    /\ OtherTaskRuns
    /\ mqtt = "unsubscribing"
    /\ mqtt' = "live"
    /\ publications' = IF awaiting_restored_snapshot THEN publications ELSE <<>>
    /\ UNCHANGED <<clockVars, inflight, awaiting_restored_snapshot, adopted,
                   publishVars, updates, displayVars>>

\* A summary that arrives after the one-shot restore is dropped.
IgnoreSummary ==
    /\ OtherTaskRuns
    /\ mqtt = "live"
    /\ inflight # None
    /\ inflight' = None
    /\ UNCHANGED <<clockVars, mqtt, awaiting_restored_snapshot, adopted,
                   publishVars, updates, publications, displayVars>>

\* Snapshots queued before the restored summary was applied are dropped.
SuppressedNever(summary) == FALSE
Suppressed(summary) ==
    awaiting_restored_snapshot /\ summary.summary_received_at = None

\* A restored summary counts as published at the hour it was received.
WatermarkForgotten(summary) == summary.summary_received_at
WatermarkUnmoved(summary) == last_summary_update
Watermark(summary) ==
    IF summary.summary_received_at = None THEN last_summary_update
                                          ELSE summary.summary_received_at

\* The summary of this hour is out already.
UpToDateOnce(summary) == Watermark(summary) # None
UpToDate(summary) == Watermark(summary) = summary.timestamp

\* SUMMARY_PUBLICATIONS.receive() returns: suppressed, up to date, or published.
TakeSummary ==
    /\ OtherTaskRuns
    /\ mqtt = "live"
    /\ publications # <<>>
    /\ publications' = Tail(publications)
    /\ LET summary == Head(publications)
       IN  IF Suppressed(summary)
           THEN UNCHANGED <<awaiting_restored_snapshot, last_summary_update,
                            hand, mqtt>>
           ELSE /\ awaiting_restored_snapshot' = FALSE
                /\ last_summary_update' = Watermark(summary)
                /\ IF UpToDate(summary)
                   THEN UNCHANGED <<hand, mqtt>>
                   ELSE hand' = summary /\ mqtt' = "publishing"
    /\ UNCHANGED <<clockVars, inflight, adopted, retained, published, updates,
                   displayVars>>

Payload(summary) == [day |-> UtcDay[summary.timestamp], hours |-> summary.hours]

\* A publication may reach the broker or not, whatever the client reports.
BrokerMayRetain == retained' \in {retained, Payload(hand)}

PublishSucceeds ==
    /\ OtherTaskRuns
    /\ mqtt = "publishing"
    /\ mqtt' = "live"
    /\ last_summary_update' = hand.timestamp
    /\ published' = published \cup {hand.timestamp}
    /\ BrokerMayRetain
    /\ hand' = None
    /\ UNCHANGED <<clockVars, inflight, awaiting_restored_snapshot, adopted,
                   updates, publications, displayVars>>

\* The summary is queued again and the session ends.
PublishFails ==
    /\ OtherTaskRuns
    /\ mqtt = "publishing"
    /\ mqtt' = "offline"
    /\ publications' = queue_summary_update(publications, hand)
    /\ BrokerMayRetain
    /\ hand' = None
    /\ MayBeDeliveredAgain
    /\ adopted' = None
    /\ UNCHANGED <<clockVars, awaiting_restored_snapshot, last_summary_update,
                   published, updates, displayVars>>

\* Any other await of run_session returns an error.
SessionFails ==
    /\ OtherTaskRuns
    /\ InSession
    /\ mqtt' = "offline"
    /\ MayBeDeliveredAgain
    /\ adopted' = None
    /\ UNCHANGED <<clockVars, awaiting_restored_snapshot, publishVars, updates,
                   publications, displayVars>>

-----------------------------------------------------------------------------
(* The display task. *)

\* apply(update, now), and what the loop remembers of the batch.
ApplyHead(now, non_summary_update, summary_received) ==
    LET update == Head(updates)
    IN  /\ updates' = Tail(updates)
        /\ history' = apply(history, update, now)
        /\ display' =
             [draining |-> TRUE,
              now |-> now,
              non_summary_update |->
                  non_summary_update \/ update.kind # "summary",
              summary_received |->
                  \/ summary_received
                  \/ update.kind = "summary" /\ Current(update.summary, now)]

\* UPDATES.receive().await returns the first update of a batch.
DisplayReceives ==
    /\ ~display.draining
    /\ updates # <<>>
    /\ ApplyHead(utc_now, FALSE, FALSE)
    /\ UNCHANGED <<clockVars, sessionVars, publishVars, publications>>

\* try_receive() finds another one; it is applied at the hour of the first.
DisplayDrains ==
    /\ display.draining
    /\ updates # <<>>
    /\ ApplyHead(display.now, display.non_summary_update,
                 display.summary_received)
    /\ UNCHANGED <<clockVars, sessionVars, publishVars, publications>>

\* UPDATES is empty: the snapshot is queued, the frame drawn, the loop restarts.
DisplayQueues ==
    /\ display.draining
    /\ updates = <<>>
    /\ publications' =
         IF clock_set /\ (display.non_summary_update \/ display.summary_received)
         THEN queue_summary_update(publications,
                [timestamp |-> time, hours |-> history.hours,
                 summary_received_at |->
                     IF display.summary_received THEN time ELSE None])
         ELSE publications
    /\ display' = WaitingDisplay
    /\ UNCHANGED <<clockVars, sessionVars, publishVars, updates, history>>

-----------------------------------------------------------------------------

DisplayTask == DisplayReceives \/ DisplayDrains \/ DisplayQueues
RestoreEnds == ReceiveSummary \/ RestoreTimeout
PublishEnds == PublishSucceeds \/ PublishFails

MqttTask ==
    \/ Connect
    \/ SubscribeSummary
    \/ \E kind \in LiveKinds : ReceiveLive(kind)
    \/ RestoreEnds
    \/ Unsubscribed
    \/ IgnoreSummary
    \/ TakeSummary
    \/ PublishEnds
    \/ SessionFails

Next == Tick \/ ClockSync \/ Reboot \/ MqttTask \/ DisplayTask

Spec == Init /\ [][Next]_vars

(***************************************************************************)
(* The executor polls a woken task, the network lets a connection through  *)
(* eventually, and the meters never stop reporting.  The strong fairness   *)
(* is the bias of select and select4, which poll the restore deadline and  *)
(* the summary channel before the socket.                                  *)
(***************************************************************************)
Fairness ==
    /\ WF_vars(DisplayTask)
    /\ WF_vars(Connect)
    /\ WF_vars(SubscribeSummary)
    /\ WF_vars(\E kind \in LiveKinds : ReceiveLive(kind))
    /\ SF_vars(RestoreEnds)
    /\ WF_vars(Unsubscribed)
    /\ SF_vars(TakeSummary)
    /\ WF_vars(PublishEnds)

FairSpec == Spec /\ Fairness

-----------------------------------------------------------------------------
(* Properties. *)

\* Every variable keeps its type; SUMMARY_PUBLICATIONS holds at most one item
\* and UPDATES at most UPDATE_QUEUE_DEPTH, whatever order the tasks run in.
TypeOK ==
    /\ time \in Times
    /\ clock_set \in BOOLEAN
    /\ mqtt \in {"offline", "subscribing", "restoring", "unsubscribing",
                 "live", "publishing"}
    /\ inflight \in Option(Summaries)
    /\ awaiting_restored_snapshot \in BOOLEAN
    /\ last_summary_update \in Option(Times)
    /\ hand \in Option(SummaryUpdates)
    /\ updates \in Seq(Updates) /\ Len(updates) <= UPDATE_QUEUE_DEPTH
    /\ publications \in Seq(SummaryUpdates) /\ Len(publications) <= 1
    /\ display \in [draining : BOOLEAN, now : Option(Times),
                    non_summary_update : BOOLEAN, summary_received : BOOLEAN]
    /\ history \in Histories
    /\ retained \in Option(Summaries)
    /\ adopted \in Option(Adoptions)
    /\ published \in Hours

\* mqtt.rs publishes a summary at most once per UTC hour and boot, across any
\* number of failed publications, reconnects and restores in that hour.
PublishedOncePerHour ==
    mqtt = "publishing" => hand.timestamp \notin published

\* A session that restores the summary of the running day publishes nothing
\* that lacks an hour of it, as long as that day lasts.
PublishedIncludesRestored ==
    (mqtt = "publishing" /\ adopted # None)
        => \/ LocalDay[hand.timestamp] # adopted.summary.day
           \/ adopted.summary.hours \subseteq hand.hours

\* A restored summary is not echoed: SummaryUpdate.summary_received_at moves
\* the watermark before the first publication of the session is considered.
RestoredIsNotEchoed ==
    (mqtt = "publishing" /\ adopted # None) => hand.timestamp > adopted.at

\* While a session lasts and the clock is set, the summary of the running hour
\* is published: README.md, acceptance check 4.  A restore may stand in for it.
HourlySummaryRepublished ==
    \A hour \in Times :
        (InSession /\ clock_set /\ time = hour /\ last_summary_update # hour)
            ~> (last_summary_update = hour \/ mqtt = "offline" \/ time # hour)

\* The session awaits a snapshot with the restored summary, and none will come: the
\* summary is in neither channel, and the display holds no batch with it.
Starved ==
    /\ mqtt \in {"unsubscribing", "live"} /\ awaiting_restored_snapshot
    /\ \A i \in DOMAIN updates : updates[i].kind # "summary"
    /\ ~display.summary_received
    /\ \A i \in DOMAIN publications : publications[i].summary_received_at = None

\* What HourlySummaryRepublished leaves out: only a session that is starved of the
\* snapshot it awaits keeps the summary of an hour to itself.
HourlySummaryUnlessStarved ==
    \A hour \in Times :
        (InSession /\ clock_set /\ time = hour /\ last_summary_update # hour)
            ~> (last_summary_update = hour \/ mqtt = "offline" \/ time # hour \/ Starved)

\* Nothing starves a session but a burst that overflows UPDATES (mqtt.rs:430) and a
\* local midnight since queue_incoming_update took the summary for today's: main.rs:233
\* reads the clock again, and refuses what mqtt.rs:409 awaits.
StarvedOnlyAtMidnight ==
    Starved => BurstsOverflow \/ LocalDay[time] # adopted.summary.day

\* A retained summary whose every hour is of the running local day is restored:
\* PORTING_PLAN.md, "The retained daily summary restores and publishes".
TodaysSummaryRestores ==
    [][(ReceiveSummary /\ clock_set /\ inflight.hours # {}
          /\ \A hour \in inflight.hours : LocalDay[hour] = LocalDay[time])
          => awaiting_restored_snapshot']_vars

=============================================================================
