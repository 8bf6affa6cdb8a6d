---------------------------- MODULE UpdateDelivery ----------------------------
(***************************************************************************)
(* A live reading on its way from a publication to the panel: the session  *)
(* loop decodes it (routing.rs) and queues it (mqtt.rs), the display task  *)
(* applies what is queued to the dashboard (model.rs) and draws.           *)
(*                                                                         *)
(* The values of a topic are numbered in the order they are published; an  *)
(* energy or a power of the n-th solar reading is n, so a sum of two of    *)
(* them tells which readings it was made from.  The retained summary, which *)
(* takes the same way, is the subject of SummarySync.                      *)
(***************************************************************************)
EXTENDS Channels

CONSTANTS
    Heard,     \* the topics that are published on: some of Topics, or others
    MaxValue   \* bound on the values published per topic

JsonTopics == {"espaltherma/ATTR", "home/zigbee/HeatpumpPower",
               "home/zigbee/HeatpumpPowerBUH", "home/zigbee/BuitenSensor",
               "energy/solar", "energy/solar_garage", "energy/p1/state"}
NumberTopics == {"energy/heatpump/status/cop"}
RelayTopics == {"energy/heatpump/status/relay/recommend",
                "energy/heatpump/status/relay/force"}
IgnoredTopics == {"energy/heatpump/status/mode"}

Home == "energy/solar"
Garage == "energy/solar_garage"

\* The topics the panel shows something of.  The subscriptions reach others as
\* well: HEATPUMP_STATUS_FILTER ends in a wildcard.
Topics == JsonTopics \cup NumberTopics \cup RelayTopics

ASSUME HeardAssumption == Heard \subseteq STRING /\ MaxValue \in Nat

\* What a payload is to the decoders: a value of the topic's type, such a value
\* with something behind it, another text, or bytes that are not UTF-8.
Payloads == {"value", "trailing", "text", "bytes"}

VARIABLES
    UPDATES,    \* the channel: updates, oldest first
    dashboard,  \* Dashboard: the readings it keeps, and its status
    display,    \* "waiting" in receive(), or "draining" the channel
    panel,      \* the status that was drawn last
    latest,     \* history variable: the last value published on each topic
    since       \* history variable: the updates queued after it, up to the depth

vars == <<UPDATES, dashboard, display, panel, latest, since>>

-----------------------------------------------------------------------------
(* routing.rs *)

\* serde_json_core refuses what follows a value by itself (a test of routing.rs), so that
\* the code's own TrailingData is never returned.
decode_json_prefix(payload) ==
    IF payload \in {"value", "trailing"} THEN "Ok" ELSE "InvalidPayload"
decode_json(payload) == IF payload = "value" THEN "Ok" ELSE "InvalidPayload"

decode_number(payload) ==
    CASE payload = "value" -> "Ok"
      [] payload = "bytes" -> "InvalidUtf8"
      [] OTHER             -> "InvalidPayload"

\* Any text is a relay state: "ON", or off.
decode_relay(payload) == IF payload = "bytes" THEN "InvalidUtf8" ELSE "Ok"

decode_update(topic, payload) ==
    CASE topic \in JsonTopics    -> decode_json(payload)
      [] topic \in NumberTopics  -> decode_number(payload)
      [] topic \in RelayTopics   -> decode_relay(payload)
      [] topic \in IgnoredTopics -> "IgnoredTopic"
      [] OTHER                   -> "UnknownTopic"

-----------------------------------------------------------------------------
(* model.rs *)

\* EnergyStatus.  The two solar inverters have fields of their own and a common
\* total; what every other topic sets is a field of live.
Statuses == [live : [Topics -> Nat], solar_current_home : Nat,
             solar_current_garage : Nat, solar_today : Nat]

Dashboards == [status : Statuses, solar : Nat, garage_solar : Nat]

DefaultDashboard ==
    [status |-> [live |-> [t \in Topics |-> 0], solar_current_home |-> 0,
                 solar_current_garage |-> 0, solar_today |-> 0],
     solar |-> 0, garage_solar |-> 0]

update_combined_solar(board) ==
    [board EXCEPT !.status.solar_current_home = board.solar,
                  !.status.solar_current_garage = board.garage_solar,
                  !.status.solar_today = board.solar + board.garage_solar]

apply_garage_alone(board, update) ==
    CASE update.topic = Home   -> update_combined_solar([board EXCEPT !.solar = update.value])
      [] update.topic = Garage -> [board EXCEPT !.garage_solar = update.value]
      [] OTHER -> [board EXCEPT !.status.live[update.topic] = update.value]
apply(board, update) ==
    CASE update.topic = Home   -> update_combined_solar([board EXCEPT !.solar = update.value])
      [] update.topic = Garage -> update_combined_solar([board EXCEPT !.garage_solar = update.value])
      [] OTHER -> [board EXCEPT !.status.live[update.topic] = update.value]

-----------------------------------------------------------------------------
(* The two tasks.  The display gives way only in receive(), so nothing is   *)
(* queued while it drains.                                                  *)

Init ==
    /\ UPDATES = <<>>
    /\ dashboard = DefaultDashboard
    /\ display = "waiting"
    /\ panel = DefaultDashboard.status
    /\ latest = [t \in Topics |-> 0]
    /\ since = [t \in Topics |-> 0]

\* The text of a relay is always a state, however it reads.
IsValue(topic, payload) ==
    payload = "value" \/ (topic \in RelayTopics /\ payload # "bytes")

counted(t, topic) ==
    IF t = topic THEN 0 ELSE IF since[t] < UPDATE_QUEUE_DEPTH THEN since[t] + 1 ELSE since[t]

\* A decoder that took something else for a value would queue one nobody sent.
Queue(topic, value) ==
    /\ value <= MaxValue
    /\ UPDATES' = queue_update(UPDATES, [topic |-> topic, value |-> value])
    /\ latest' = [latest EXCEPT ![topic] = IF value = 0 THEN @ ELSE value]
    /\ since' = [t \in Topics |-> counted(t, topic)]
    /\ UNCHANGED <<dashboard, display, panel>>

\* A publication reaches the session loop, or the loop that waits for the
\* retained summary.  What is no update is logged and forgotten.
Arrives(topic, payload) ==
    /\ display = "waiting"
    /\ IF decode_update(topic, payload) = "Ok"
       THEN Queue(topic, IF IsValue(topic, payload) THEN latest[topic] + 1 ELSE 0)
       ELSE UNCHANGED vars

ApplyFirst ==
    /\ UPDATES # <<>>
    /\ dashboard' = apply(dashboard, Head(UPDATES))
    /\ UPDATES' = Tail(UPDATES)
    /\ UNCHANGED <<panel, latest, since>>

DisplayReceives ==
    /\ display = "waiting"
    /\ ApplyFirst
    /\ display' = "draining"

DisplayDrains ==
    /\ display = "draining"
    /\ ApplyFirst
    /\ UNCHANGED display

DisplayDraws ==
    /\ display = "draining"
    /\ UPDATES = <<>>
    /\ panel' = dashboard.status
    /\ display' = "waiting"
    /\ UNCHANGED <<UPDATES, dashboard, latest, since>>

Display == DisplayReceives \/ DisplayDrains \/ DisplayDraws

Next == Display \/ \E topic \in Heard, payload \in Payloads : Arrives(topic, payload)

Spec == Init /\ [][Next]_vars
FairSpec == Spec /\ WF_vars(Display)

-----------------------------------------------------------------------------
(* Properties. *)

Updates == [topic : Topics, value : Nat]

TypeOK ==
    /\ UPDATES \in Seq(Updates) /\ Len(UPDATES) <= UPDATE_QUEUE_DEPTH
    /\ dashboard \in Dashboards
    /\ display \in {"waiting", "draining"}
    /\ panel \in Statuses
    /\ latest \in [Topics -> Nat]
    /\ since \in [Topics -> 0..UPDATE_QUEUE_DEPTH]

\* The value of each topic that a status shows.  Each inverter's is read off the
\* total, so a total that mixes readings shows a value nobody sent.
ValueShown(status, t) ==
    CASE t = Home   -> status.solar_today - status.solar_current_garage
      [] t = Garage -> status.solar_today - status.solar_current_home
      [] OTHER      -> status.live[t]

\* The panel shows, per topic, a value that was published and never one older than
\* before, whatever is dropped, refused or coalesced on the way: the display
\* task over the lossy channel implements LatestValues.
Shown == [t \in Topics |-> ValueShown(panel, t)]
Latest == INSTANCE LatestValues WITH sent <- latest, shown <- Shown
ShowsSentValuesInOrder == Latest!Spec

\* "The display only needs the latest snapshot; replace the oldest queued update"
\* (mqtt.rs:429): what is replaced may be the only value of another topic.  Only
\* that can lose a value, so it takes a burst as long as the channel: with fewer
\* updates after it the latest value of a topic is shown when the display waits.
OnlyBurstsLoseUpdates ==
    \A t \in Topics :
        (display = "waiting" /\ UPDATES = <<>> /\ since[t] < UPDATE_QUEUE_DEPTH)
            => Shown[t] = latest[t]

\* Every value is shown, or a later one of its topic, unless such a burst
\* follows it.
EventuallyShown ==
    \A t \in Topics : \A n \in 1..MaxValue :
        (latest[t] = n) ~> (Shown[t] >= n \/ since[t] >= UPDATE_QUEUE_DEPTH)

=============================================================================
