-------------------------- MODULE MqttOutboundProofs --------------------------
(***************************************************************************)
(* What MqttOutbound and WifiConnection promise for every depth of the     *)
(* command channel and any number of presses, summaries, failures and lost *)
(* links: their types, the delays of the retries, the ledger of the        *)
(* presses, and that a blocked command waits for a new session.            *)
(***************************************************************************)
EXTENDS MqttOutbound, Integers, TLAPS

(***************************************************************************)
(* The Wi-Fi link.  The delay is known in every state, not only while      *)
(* waiting: each attempt carries the delay of the wait it may lead to.     *)
(***************************************************************************)
NextWait == IF waits < Len(Delays) THEN waits + 1 ELSE waits

Delayed ==
    /\ wifi = "waiting" => waits # 0 /\ reconnect_delay_secs = Delays[waits]
    /\ wifi = "connecting" => reconnect_delay_secs = Delays[NextWait]
    /\ wifi = "connected" => waits = 0 /\ reconnect_delay_secs = 2

WifiInv == WifiTypeOK /\ Delayed

LEMMA DelayTable ==
    /\ Len(Delays) = 5
    /\ Delays[1] = 2 /\ Delays[2] = 4 /\ Delays[3] = 8 /\ Delays[4] = 16 /\ Delays[5] = 30
BY DEF Delays

LEMMA WifiInitially == WifiInit => WifiInv
<1> SUFFICES ASSUME WifiInit PROVE WifiInv
    OBVIOUS
<1>1. waits = 0 /\ NextWait = 1
    BY DelayTable DEF WifiInit, NextWait
<1>2. config_up \in BOOLEAN
    BY DEF WifiInit
<1>3. WifiTypeOK
    BY <1>2, DelayTable, DelayAssumption DEF WifiInit, WifiTypeOK
<1> QED
    BY <1>1, <1>3, DelayTable, DelayAssumption DEF WifiInit, WifiInv, Delayed

LEMMA WifiKept == WifiInv /\ [WifiNext]_wifiVars => WifiInv'
<1> USE DelayTable, DelayAssumption
<1> SUFFICES ASSUME WifiInv, [WifiNext]_wifiVars PROVE WifiInv'
    OBVIOUS
<1> USE DEF WifiInv, WifiTypeOK, Delayed, NextWait
<1>0. MayLoseAddress => config_up' \in BOOLEAN
    BY DEF MayLoseAddress
<1>1. CASE ConnectSucceeds
    BY <1>0, <1>1 DEF ConnectSucceeds
<1>2. CASE ConnectFails
    BY <1>0, <1>2 DEF ConnectFails, Wait
<1>3. CASE Disconnects
    BY <1>0, <1>3 DEF Disconnects, Wait
<1>4. CASE Retry
  <2>1. waits \in 1..5
      BY <1>4 DEF Retry
  <2>2. Doubled = Delays[NextWait]
      BY <1>4, <2>1 DEF Retry, Doubled
  <2> QED
      BY <1>4, <2>1, <2>2 DEF Retry
<1>5. CASE DhcpAnswers
    BY <1>5 DEF DhcpAnswers
<1>6. CASE UNCHANGED wifiVars
    BY <1>6 DEF wifiVars
<1> QED
    BY <1>1, <1>2, <1>3, <1>4, <1>5, <1>6 DEF WifiNext

-----------------------------------------------------------------------------
(***************************************************************************)
(* The publications.  Nothing is on its way outside a session, and nothing *)
(* before its requests have been answered: the next socket starts empty.   *)
(***************************************************************************)
Empty ==
    mqtt \notin {"idle", "publishing"} => acks = 0 /\ \A p \in Publications : out[p] = 0

IInv == TypeOK /\ WifiInv /\ PressesAccountedFor /\ Empty

OutboundTypeOK ==
    /\ commands \in 0..OVENPLAAT_DIMMER_COMMAND_QUEUE_DEPTH
    /\ mqtt \in {"offline", "resolving", "dialing", "greeting", "restoring", "idle",
                 "publishing", "resting"}
    /\ hand \in Publications \cup {None} /\ (hand = None <=> mqtt # "publishing")
    /\ due \in BOOLEAN
    /\ pending \in Publications \cup {None}
    /\ out \in [Publications -> Nat] /\ acks \in Nat
    /\ presses \in 0..MaxPresses /\ summaries \in 0..MaxSummaries
    /\ failures \in 0..MaxFailures
    /\ toggled \in Nat /\ overflowed \in Nat /\ cut \in Nat /\ repeated \in Nat

OutboundInv == OutboundTypeOK /\ PressesAccountedFor /\ Empty

LEMMA Parts == IInv <=> WifiInv /\ OutboundInv
BY DEF IInv, TypeOK, WifiInv, OutboundInv, OutboundTypeOK

\* The toggles that were on their way end up received or lost.
LEMMA Ending ==
    ASSUME NEW n \in Nat, SessionEnds(n), toggled \in Nat, cut \in Nat
    PROVE  /\ toggled' \in Nat /\ cut' \in Nat /\ toggled' + cut' = toggled + cut + n
           /\ mqtt' = "resting" /\ hand' = None
           /\ out' \in [Publications -> Nat] /\ acks' = 0
           /\ \A p \in Publications : out'[p] = 0
<1>1. PICK received \in 0..n : toggled' = toggled + received /\ cut' = cut + (n - received)
    BY DEF SessionEnds
<1> QED
    BY <1>1 DEF SessionEnds

\* A command is queued or counted as one that found the channel full.
LEMMA Queueing ==
    ASSUME commands \in 0..OVENPLAAT_DIMMER_COMMAND_QUEUE_DEPTH, overflowed \in Nat,
           queue_ovenplaat_dimmer_toggle
    PROVE  /\ commands' \in 1..OVENPLAAT_DIMMER_COMMAND_QUEUE_DEPTH /\ overflowed' \in Nat
           /\ commands' + overflowed' = commands + overflowed + 1
           /\ commands' >= commands
BY OutboundAssumption DEF queue_ovenplaat_dimmer_toggle

LEMMA OutboundInitially == Init => OutboundInv
<1> SUFFICES ASSUME Init PROVE OutboundInv
    OBVIOUS
<1>1. due \in BOOLEAN
    BY DEF Init
<1>2. out \in [Publications -> Nat] /\ \A p \in Publications : out[p] = 0
    BY DEF Init
<1>3. OutboundTypeOK
    BY <1>1, <1>2, OutboundAssumption DEF Init, OutboundTypeOK
<1>4. PressesAccountedFor /\ Empty
    BY <1>2, OutboundAssumption DEF Init, PressesAccountedFor, InHand, Empty, Publications
<1> QED
    BY <1>3, <1>4 DEF OutboundInv

\* What a failed toggle or summary leaves behind.
LEMMA Requeueing ==
    ASSUME OutboundTypeOK, hand # None, Requeue
    PROVE  /\ commands' \in 0..OVENPLAAT_DIMMER_COMMAND_QUEUE_DEPTH /\ overflowed' \in Nat
           /\ commands' + overflowed' = commands + overflowed + InHand
           /\ commands' >= commands /\ (hand = "toggle" => commands' > 0)
           /\ due' \in BOOLEAN
<1>1. CASE hand = "toggle"
    BY <1>1, Queueing DEF Requeue, OutboundTypeOK, InHand
<1>2. CASE hand # "toggle"
    BY <1>2 DEF Requeue, OutboundTypeOK, InHand
<1> QED
    BY <1>1, <1>2
-----------------------------------------------------------------------------
(***************************************************************************)
(* Every step of the device and the broker keeps the invariant.            *)
(***************************************************************************)
LEMMA HandCount ==
    /\ InHand \in Int /\ InHand >= 0
    /\ InHand' \in Int /\ InHand' >= 0
BY DEF InHand

LEMMA CommandLeft ==
    ASSUME commands' \in Int, commands' > 0
    PROVE  commands' + InHand' > 0
<1>1. PICK c \in Int : c = commands'
    OBVIOUS
<1>2. PICK h \in Int : h = InHand'
    BY HandCount
<1>3. c > 0 /\ h >= 0
    BY <1>1, <1>2, HandCount
<1>4. c + h > 0
    BY <1>3
<1> QED
    BY <1>1, <1>2, <1>4

\* A session that ends loses what was on its way, and nothing else.
LEMMA EndKeeps ==
    ASSUME OutboundInv, NEW n \in Nat, SessionEnds(n),
           commands' \in 0..OVENPLAAT_DIMMER_COMMAND_QUEUE_DEPTH, overflowed' \in Nat,
           due' \in BOOLEAN, pending' \in Publications \cup {None},
           presses' = presses, summaries' \in 0..MaxSummaries, failures' \in 0..MaxFailures,
           repeated' \in Nat,
           commands' + overflowed' + n + repeated =
               commands + overflowed + InHand + out["toggle"] + repeated'
    PROVE  OutboundInv'
<1> USE DEF OutboundInv, OutboundTypeOK
<1>1. /\ toggled' \in Nat /\ cut' \in Nat /\ toggled' + cut' = toggled + cut + n
      /\ mqtt' = "resting" /\ hand' = None
      /\ out' \in [Publications -> Nat] /\ acks' = 0
      /\ \A p \in Publications : out'[p] = 0
    BY Ending
<1>2. "toggle" \in Publications /\ None \notin Publications /\ None # "toggle"
    BY OutboundAssumption DEF Publications
<1>3. /\ out["toggle"] \in Nat /\ InHand \in Nat /\ InHand' = 0 /\ out'["toggle"] = 0
    BY <1>1, <1>2 DEF InHand
<1>4. PressesAccountedFor'
  <2>1. presses + repeated = commands + InHand + out["toggle"] + toggled + overflowed + cut
      BY DEF PressesAccountedFor
  <2>2. /\ commands \in Int /\ presses \in Int /\ repeated \in Int /\ toggled \in Int
        /\ overflowed \in Int /\ cut \in Int /\ out["toggle"] \in Int
      BY <1>3, OutboundAssumption
  <2>3. PICK c1, r1, t1, v1, u1 \in Int :
            /\ c1 = commands' /\ r1 = repeated' /\ t1 = toggled' /\ v1 = overflowed'
            /\ u1 = cut'
      BY <1>1, OutboundAssumption
  <2>4. presses + r1 = c1 + 0 + 0 + t1 + v1 + u1
    <3>1. t1 + u1 = toggled + cut + n
        BY <1>1, <2>3
    <3>2. c1 + v1 + n + repeated = commands + overflowed + InHand + out["toggle"] + r1
        BY <2>3
    <3> QED
        BY <1>3, <2>1, <2>2, <3>1, <3>2
  <2> QED
      BY <1>3, <2>3, <2>4 DEF PressesAccountedFor
<1>5. OutboundTypeOK'
    BY <1>1, <1>2
<1>6. Empty'
    BY <1>1 DEF Empty
<1> QED
    BY <1>4, <1>5, <1>6

LEMMA FaultType ==
    ASSUME OutboundTypeOK, Fault
    PROVE  failures' \in 0..MaxFailures
BY OutboundAssumption DEF OutboundTypeOK, Fault

\* A stage of the connection in which nothing is published.
LEMMA EnterKeeps ==
    ASSUME OutboundInv, NEW stage, Enter(stage), mqtt # "publishing",
           stage \in {"offline", "resolving", "dialing", "greeting", "restoring", "idle",
                      "resting"},
           mqtt # "idle", due' \in BOOLEAN, pending' \in Publications \cup {None},
           failures' \in 0..MaxFailures
    PROVE  OutboundInv'
<1>1. OutboundTypeOK'
    BY DEF Enter, OutboundInv, OutboundTypeOK, wireVars, fateVars
<1>2. PressesAccountedFor' /\ Empty'
    BY DEF Enter, OutboundInv, PressesAccountedFor, InHand, Empty, wireVars, fateVars
<1> QED
    BY <1>1, <1>2 DEF OutboundInv

LEMMA OutboundKept == OutboundInv /\ OutboundNext => OutboundInv'
<1> SUFFICES ASSUME OutboundInv, OutboundNext PROVE OutboundInv'
    OBVIOUS
<1> USE DEF OutboundInv
<1>0. /\ "toggle" \in Publications /\ "summary" \in Publications
      /\ None \notin Publications /\ None # "toggle" /\ None # "summary"
      /\ out["toggle"] \in Nat
    BY OutboundAssumption DEF Publications, OutboundTypeOK
<1>1. CASE KeyPressed
  <2>1. /\ commands' \in 1..OVENPLAAT_DIMMER_COMMAND_QUEUE_DEPTH /\ overflowed' \in Nat
        /\ commands' + overflowed' = commands + overflowed + 1
      BY <1>1, Queueing DEF KeyPressed, OutboundTypeOK
  <2>2. presses' = presses + 1 /\ presses' \in 0..MaxPresses
      BY <1>1, OutboundAssumption DEF KeyPressed, OutboundTypeOK
  <2>3. OutboundTypeOK'
      BY <1>1, <2>1, <2>2 DEF KeyPressed, OutboundTypeOK, wireVars
  <2>4. PressesAccountedFor'
    <3>1. InHand' = InHand /\ UNCHANGED <<out, toggled, cut, repeated>>
        BY <1>1 DEF KeyPressed, InHand, wireVars
    <3>2. /\ commands \in Int /\ overflowed \in Int /\ presses \in Int /\ toggled \in Int
          /\ cut \in Int /\ repeated \in Int /\ out["toggle"] \in Int
        BY <1>0, <2>1, OutboundAssumption DEF OutboundTypeOK
    <3>3. PICK c1, v1 \in Int : c1 = commands' /\ v1 = overflowed'
        BY <2>1, OutboundAssumption
    <3>4. c1 + v1 = commands + overflowed + 1
        BY <2>1, <3>3
    <3>5. presses + 1 + repeated = c1 + InHand + out["toggle"] + toggled + v1 + cut
        BY <3>2, <3>4, HandCount DEF PressesAccountedFor
    <3> QED
        BY <2>2, <3>1, <3>3, <3>5 DEF PressesAccountedFor
  <2>5. Empty'
      BY <1>1 DEF KeyPressed, Empty, wireVars
  <2> QED
      BY <2>3, <2>4, <2>5
<1>2. CASE SummaryDue
  <2>1. due' \in BOOLEAN
      BY <1>2 DEF SummaryDue
  <2>2. OutboundTypeOK'
      BY <1>2, <2>1, OutboundAssumption DEF SummaryDue, OutboundTypeOK, wireVars, fateVars
  <2> QED
      BY <1>2, <2>2 DEF SummaryDue, PressesAccountedFor, InHand, Empty, wireVars, fateVars
<1>3. CASE ConfigUp
    BY <1>3, EnterKeeps DEF ConfigUp, OutboundTypeOK
<1>4. CASE Resolved
    BY <1>4, EnterKeeps DEF Resolved, OutboundTypeOK
<1>5. CASE Dialed
    BY <1>5, EnterKeeps DEF Dialed, OutboundTypeOK
<1>6. CASE Greeted
  <2>1. due' \in BOOLEAN
      BY <1>6 DEF Greeted
  <2> QED
      BY <1>6, <2>1, EnterKeeps DEF Greeted, OutboundTypeOK
<1>7. CASE AttemptFails
  <2>1. failures' \in 0..MaxFailures
      BY <1>7, FaultType DEF AttemptFails
  <2> QED
      BY <1>7, <2>1, EnterKeeps DEF AttemptFails, OutboundTypeOK
<1>8. CASE RestoreEnds
  <2>1. due' \in BOOLEAN
      BY <1>8 DEF RestoreEnds, OutboundTypeOK
  <2> QED
      BY <1>8, <2>1, EnterKeeps DEF RestoreEnds, OutboundTypeOK
<1>9. CASE ReconnectDelayOver
    BY <1>9, EnterKeeps DEF ReconnectDelayOver, OutboundTypeOK
<1>10. CASE SessionFails
  <2>1. failures' \in 0..MaxFailures
      BY <1>10, FaultType DEF SessionFails
  <2>2. hand = None /\ InHand = 0
      BY <1>0, <1>10 DEF SessionFails, Reads, OutboundTypeOK, InHand
  <2> QED
      BY <1>0, <1>10, <2>1, <2>2, EndKeeps DEF SessionFails, OutboundTypeOK
<1>11. CASE TakeSummary
  <2>1. due' \in BOOLEAN
      BY <1>11 DEF TakeSummary
  <2>2. OutboundTypeOK'
      BY <1>0, <1>11, <2>1 DEF TakeSummary, OutboundTypeOK, wireVars, boundVars, fateVars
  <2> QED
      BY <1>0, <1>11, <2>2
      DEF TakeSummary, OutboundTypeOK, PressesAccountedFor, InHand, Empty, wireVars,
          boundVars, fateVars
<1>12. CASE TakeToggle
  <2>1. OutboundTypeOK'
      BY <1>0, <1>12, OutboundAssumption DEF TakeToggle, OutboundTypeOK, wireVars, boundVars, fateVars
  <2> QED
      BY <1>0, <1>12, <2>1, OutboundAssumption
      DEF TakeToggle, OutboundTypeOK, PressesAccountedFor, InHand, Empty, wireVars,
          boundVars, fateVars
<1>13. CASE PublishSucceeds
  <2>1. hand \in Publications /\ out[hand] \in Nat
      BY <1>13 DEF PublishSucceeds, OutboundTypeOK
  <2>2. /\ out' \in [Publications -> Nat]
        /\ out'["toggle"] = out["toggle"] + InHand
      BY <1>0, <1>13, <2>1 DEF PublishSucceeds, OutboundTypeOK, InHand
  <2>3. OutboundTypeOK'
      BY <1>13, <2>1, <2>2 DEF PublishSucceeds, OutboundTypeOK, boundVars, fateVars
  <2> QED
      BY <1>0, <1>13, <2>2, <2>3
      DEF PublishSucceeds, OutboundTypeOK, PressesAccountedFor, InHand, Empty, boundVars,
          fateVars
<1>14. CASE PublishRefused
  <2>1. /\ commands' \in 0..OVENPLAAT_DIMMER_COMMAND_QUEUE_DEPTH /\ overflowed' \in Nat
        /\ commands' + overflowed' = commands + overflowed + InHand /\ due' \in BOOLEAN
      BY <1>0, <1>14, Requeueing DEF PublishRefused, OutboundTypeOK
  <2> QED
      BY <1>0, <1>14, <2>1, EndKeeps DEF PublishRefused, OutboundTypeOK, boundVars, InHand
<1>15. CASE PublishFails
  <2> DEFINE left == IF hand = "toggle" THEN 1 ELSE 0
  <2>1. /\ commands' \in 0..OVENPLAAT_DIMMER_COMMAND_QUEUE_DEPTH /\ overflowed' \in Nat
        /\ commands' + overflowed' = commands + overflowed + InHand /\ due' \in BOOLEAN
      BY <1>0, <1>15, Requeueing DEF PublishFails, OutboundTypeOK
  <2>2. failures' \in 0..MaxFailures
      BY <1>15, FaultType DEF PublishFails
  <2>3. /\ hand \in Publications /\ presses' = presses /\ summaries' = summaries
        /\ pending' \in Publications \cup {None}
      BY <1>15 DEF PublishFails, OutboundTypeOK
  <2>4. CASE SessionEnds(out["toggle"]) /\ UNCHANGED repeated
      BY <1>0, <2>1, <2>2, <2>3, <2>4, EndKeeps DEF OutboundTypeOK, InHand
  <2>5. CASE SessionEnds(out["toggle"] + left) /\ repeated' = repeated + left
    <3>1. /\ out["toggle"] + left \in Nat /\ repeated' \in Nat
          /\ commands' + overflowed' + (out["toggle"] + left) + repeated =
                 commands + overflowed + InHand + out["toggle"] + repeated'
      <4>1. commands \in Int /\ overflowed \in Int /\ repeated \in Nat
          BY OutboundAssumption DEF OutboundTypeOK
      <4>2. left = InHand /\ left \in Nat
          BY DEF InHand
      <4>3. PICK c1, v1 \in Int : c1 = commands' /\ v1 = overflowed'
          BY <2>1, OutboundAssumption
      <4> HIDE DEF left
      <4>4. c1 + v1 = commands + overflowed + left
          BY <2>1, <4>2, <4>3
      <4>5. c1 + v1 + (out["toggle"] + left) + repeated =
                commands + overflowed + left + out["toggle"] + (repeated + left)
          BY <1>0, <4>1, <4>2, <4>4
      <4> QED
          BY <1>0, <2>5, <4>1, <4>2, <4>3, <4>5
    <3> HIDE DEF left
    <3> QED
        BY <2>1, <2>2, <2>3, <2>5, <3>1, EndKeeps DEF OutboundTypeOK
  <2> QED
      BY <1>15, <2>4, <2>5 DEF PublishFails
<1>16. CASE Puback
  <2>1. hand = None /\ InHand = 0
      BY <1>0, <1>16 DEF Puback, Reads, OutboundTypeOK, InHand
  <2>2. CASE SessionEnds(out["toggle"])
      BY <1>0, <1>16, <2>1, <2>2, EndKeeps DEF Puback, OutboundTypeOK, boundVars, InHand
  <2>3. CASE acks' = acks - 1 /\ UNCHANGED <<mqtt, hand, out, toggled, cut>>
    <3>1. acks' \in Nat
        BY <1>16, <2>3 DEF Puback, OutboundTypeOK
    <3>2. OutboundTypeOK'
        BY <1>16, <2>3, <3>1 DEF Puback, OutboundTypeOK, boundVars
    <3>3. mqtt = "idle"
        BY <1>16 DEF Puback, Reads, Empty
    <3> QED
        BY <1>16, <2>3, <3>2, <3>3 DEF Puback, PressesAccountedFor, InHand, Empty, boundVars
  <2> QED
      BY <1>16, <2>2, <2>3 DEF Puback
<1>17. CASE \E p \in Publications : BrokerReceives(p)
  <2>1. PICK p \in Publications : BrokerReceives(p)
      BY <1>17
  <2>2. /\ out[p] \in Nat /\ out[p] > 0 /\ out' = [out EXCEPT ![p] = @ - 1]
        /\ acks' = acks + 1 /\ acks' \in Nat
        /\ toggled' = IF p = "toggle" THEN toggled + 1 ELSE toggled
        /\ UNCHANGED <<commands, mqtt, hand, due, pending, boundVars, overflowed, cut, repeated>>
      BY <2>1 DEF BrokerReceives, OutboundTypeOK
  <2>3. /\ out' \in [Publications -> Nat] /\ toggled' \in Nat
        /\ toggled' + out'["toggle"] = toggled + out["toggle"]
      BY <1>0, <2>2 DEF OutboundTypeOK
  <2>4. OutboundTypeOK'
      BY <2>2, <2>3 DEF OutboundTypeOK, boundVars
  <2>5. mqtt \in {"idle", "publishing"}
      BY <2>2 DEF Empty
  <2> QED
      BY <1>0, <2>2, <2>3, <2>4, <2>5
      DEF PressesAccountedFor, InHand, Empty, OutboundTypeOK, boundVars
<1> QED
    BY <1>1, <1>2, <1>3, <1>4, <1>5, <1>6, <1>7, <1>8, <1>9, <1>10, <1>11, <1>12, <1>13,
       <1>14, <1>15, <1>16, <1>17 DEF OutboundNext

LEMMA OutboundStutters == OutboundInv /\ UNCHANGED outboundVars => OutboundInv'
<1> SUFFICES ASSUME OutboundInv, UNCHANGED outboundVars PROVE OutboundInv'
    OBVIOUS
<1>1. OutboundTypeOK'
    BY DEF OutboundInv, OutboundTypeOK, outboundVars, wireVars, boundVars, fateVars
<1> QED
    BY <1>1 DEF OutboundInv, PressesAccountedFor, InHand, Empty, outboundVars, wireVars,
       boundVars, fateVars

LEMMA Inductive == Spec => []IInv
<1>1. Init => IInv
    BY WifiInitially, OutboundInitially, Parts DEF Init
<1>2. IInv /\ [Next]_vars => IInv'
  <2> SUFFICES ASSUME IInv, [Next]_vars PROVE WifiInv' /\ OutboundInv'
      BY Parts DEF IInv, TypeOK, WifiInv, OutboundInv, OutboundTypeOK
  <2>1. WifiInv /\ OutboundInv
      BY Parts
  <2>2. [WifiNext]_wifiVars
      BY DEF Next, vars
  <2>3. OutboundNext \/ UNCHANGED outboundVars
      BY DEF Next, vars
  <2> QED
      BY <2>1, <2>2, <2>3, WifiKept, OutboundKept, OutboundStutters
<1> QED
    BY <1>1, <1>2, PTL DEF Spec

-----------------------------------------------------------------------------
(* The theorems. *)

\* The variables keep their types; no queue grows past its depth.
THEOREM OutboundTypeCorrect == Spec => []TypeOK
<1>1. IInv => TypeOK
    BY DEF IInv
<1> QED
    BY <1>1, Inductive, PTL

\* The delays of the retries double from two seconds to thirty, from the beginning
\* after every connection, however many links are lost.
THEOREM RetriesBackOff == Spec => []DelaysFollowTheOutage
<1>1. IInv => DelaysFollowTheOutage
    BY DEF IInv, WifiInv, Delayed, DelaysFollowTheOutage
<1> QED
    BY <1>1, Inductive, PTL

\* No press is lost or doubled except where the ledger says.
THEOREM TogglesAreAccountedFor == Spec => []PressesAccountedFor
<1>1. IInv => PressesAccountedFor
    BY DEF IInv
<1> QED
    BY <1>1, Inductive, PTL

\* A command that met an unacknowledged publication waits for a new session.
THEOREM BlockedCommandsWait == Spec => BlockedUntilNewSession
<1>1. IInv /\ [Next]_vars => [Blocked => Blocked' \/ mqtt = "greeting"]_vars
  <2> SUFFICES ASSUME IInv, [Next]_vars, Blocked, mqtt # "greeting" PROVE Blocked'
      OBVIOUS
  <2> USE DEF Blocked
  <2>0. /\ OutboundTypeOK /\ Empty
        /\ None # "toggle" /\ None # "summary"
      BY Parts, OutboundAssumption DEF OutboundInv
  <2>1. CASE UNCHANGED <<pending, commands, hand>>
      BY <2>1 DEF InHand
  <2>2. CASE KeyPressed
    <3>1. commands' \in 1..OVENPLAAT_DIMMER_COMMAND_QUEUE_DEPTH
        BY <2>0, <2>2, Queueing DEF KeyPressed, OutboundTypeOK
    <3> QED
      <4>1. pending' # None
          BY <2>2 DEF KeyPressed
      <4>2. commands' \in Int /\ commands' > 0
          BY <3>1, OutboundAssumption
      <4>3. commands' + InHand' > 0
          BY <4>2, CommandLeft
      <4> QED
          BY <4>1, <4>3
  <2>3. CASE SessionFails
      BY <2>0, <2>3 DEF SessionFails, SessionEnds, Reads, OutboundTypeOK, InHand
  <2>4. CASE TakeSummary
      BY <2>0, <2>4 DEF TakeSummary, OutboundTypeOK, InHand
  <2>5. CASE TakeToggle
      BY <2>0, <2>5 DEF TakeToggle, OutboundTypeOK, InHand
  <2>6. CASE PublishSucceeds
      BY <2>0, <2>6 DEF PublishSucceeds, Accepted, OutboundTypeOK, InHand
  <2>7. CASE PublishRefused
    <3>1. commands' >= commands /\ commands' > 0 /\ commands' \in Int
        BY <2>0, <2>7, Requeueing, OutboundAssumption DEF PublishRefused, Accepted
    <3> QED
        BY <2>0, <2>7, <3>1, CommandLeft DEF PublishRefused, SessionEnds
  <2>8. CASE PublishFails
    <3>1. hand = "summary" /\ InHand = 0
        BY <2>0, <2>8 DEF PublishFails, Accepted, OutboundTypeOK, Publications, InHand
    <3>2. commands' >= commands /\ commands' \in Int
        BY <2>0, <3>1, Requeueing, <2>8 DEF PublishFails
    <3>3. pending' # None /\ hand' = None
        BY <2>0, <2>8, <3>1 DEF PublishFails, SessionEnds
    <3> QED
      <4>1. commands > 0 /\ commands \in Int
          BY <2>0, <3>1, OutboundAssumption DEF OutboundTypeOK
      <4>2. commands' > 0
          BY <3>2, <4>1
      <4> QED
          BY <3>2, <3>3, <4>2, CommandLeft
  <2>9. CASE Puback
      BY <2>0, <2>9 DEF Puback, Reads, Empty, OutboundTypeOK, InHand
  <2> QED
      BY <2>1, <2>2, <2>3, <2>4, <2>5, <2>6, <2>7, <2>8, <2>9
      DEF Next, OutboundNext, vars, outboundVars, SummaryDue, ConfigUp, Resolved, Dialed,
          Greeted, AttemptFails, RestoreEnds, ReconnectDelayOver, Enter, BrokerReceives
<1> QED
    BY <1>1, Inductive, PTL DEF Spec, BlockedUntilNewSession

=============================================================================
