-------------------------- MODULE SummarySyncProofs --------------------------
(***************************************************************************)
(* What SummarySync promises for every calendar, every queue depth and any *)
(* number of hours: its types, the three safety properties that its runs   *)
(* check on small instances, and what may starve a session.                *)
(***************************************************************************)
EXTENDS SummarySync, TLAPS

(***************************************************************************)
(* Types.  TypeOK is inductive once publish_summary_if_needed is known to  *)
(* hold a summary whenever it awaits the broker.                           *)
(***************************************************************************)
HandHeld == mqtt = "publishing" => hand \in SummaryUpdates

\* A channel that never holds more than one item is empty or that item alone.
LEMMA AtMostOne ==
    ASSUME NEW S, NEW s \in Seq(S), Len(s) <= 1, s # <<>>
    PROVE  /\ Head(s) \in S
           /\ Tail(s) = <<>>
OBVIOUS

\* Append adds one element and moves none.
LEMMA AppendElements ==
    ASSUME NEW S, NEW t \in Seq(S), NEW u \in S
    PROVE  \A i \in 1..Len(Append(t, u)) :
             Append(t, u)[i] = u \/ (i \in 1..Len(t) /\ Append(t, u)[i] = t[i])
<1>1. Len(Append(t, u)) = Len(t) + 1 /\ Len(t) \in Nat
    OBVIOUS
<1> TAKE i \in 1..Len(Append(t, u))
<1>2. CASE i = Len(t) + 1
    BY <1>2
<1>3. CASE i # Len(t) + 1
    BY <1>1, <1>3
<1> QED
    BY <1>2, <1>3

\* queue_update keeps UPDATES within its depth.
LEMMA QueueUpdateType ==
    ASSUME NEW s \in Seq(Updates), NEW u \in Updates, Len(s) <= UPDATE_QUEUE_DEPTH
    PROVE  /\ queue_update(s, u) \in Seq(Updates)
           /\ Len(queue_update(s, u)) <= UPDATE_QUEUE_DEPTH
           /\ \A i \in 1..Len(queue_update(s, u)) :
                \/ queue_update(s, u)[i] = u
                \/ \E j \in 1..Len(s) : queue_update(s, u)[i] = s[j]
<1>1. CASE Len(s) < UPDATE_QUEUE_DEPTH
    BY <1>1, DepthAssumption DEF queue_update
<1>2. CASE ~(Len(s) < UPDATE_QUEUE_DEPTH)
  <2>1. s # <<>>
    BY <1>2, DepthAssumption
  <2>2. Tail(s) \in Seq(Updates) /\ Len(Tail(s)) = Len(s) - 1
    BY <2>1
  <2>3. \A i \in 1..Len(Tail(s)) : Tail(s)[i] = s[i+1]
    BY <2>1
  <2> DEFINE t == Tail(s)
             q == Append(t, u)
  <2>4. q \in Seq(Updates) /\ Len(q) = Len(s)
    BY <2>2
  <2>5. \A i \in 1..Len(q) : q[i] = u \/ (i \in 1..Len(t) /\ q[i] = t[i])
    <3>1. t \in Seq(Updates)
      BY <2>2
    <3> HIDE DEF t
    <3> QED
      BY <3>1, AppendElements
  <2>6. \A i \in 1..Len(t) : i + 1 \in 1..Len(s)
    BY <2>2
  <2>7. \A i \in 1..Len(q) : q[i] = u \/ \E j \in 1..Len(s) : q[i] = s[j]
    <3> HIDE DEF q
    <3> TAKE i \in 1..Len(q)
    <3>1. CASE i \in 1..Len(t) /\ q[i] = t[i]
      <4>1. q[i] = s[i + 1] /\ i + 1 \in 1..Len(s)
        BY <3>1, <2>3, <2>6
      <4> QED
        BY <4>1
    <3> QED
      BY <3>1, <2>5
  <2>8. queue_update(s, u) = q
    BY <1>2 DEF queue_update
  <2> HIDE DEF q
  <2> QED
    BY <2>4, <2>7, <2>8
<1> QED
    BY <1>1, <1>2

\* queue_summary_update keeps one item: the new one, with its own watermark or
\* the one it inherits.
LEMMA QueueSummaryType ==
    ASSUME NEW s \in Seq(SummaryUpdates), Len(s) <= 1, NEW u \in SummaryUpdates
    PROVE  LET q == queue_summary_update(s, u)
           IN  /\ q \in Seq(SummaryUpdates) /\ Len(q) <= 1 /\ q # <<>>
               /\ Head(q) \in SummaryUpdates
               /\ Head(q).timestamp = u.timestamp
               /\ Head(q).hours = u.hours
               /\ \/ Head(q).summary_received_at = u.summary_received_at
                  \/ /\ u.summary_received_at = None
                     /\ s # <<>>
                     /\ Head(q).summary_received_at
                          = Head(s).summary_received_at
<1>1. CASE s = <<>>
    BY <1>1 DEF queue_summary_update
<1>2. CASE s # <<>>
  <2> DEFINE v == [u EXCEPT !.summary_received_at =
                     IF @ = None THEN Head(s).summary_received_at ELSE @]
  <2>1. Head(s) \in SummaryUpdates
    BY <1>2
  <2>2. v \in SummaryUpdates /\ v.timestamp = u.timestamp /\ v.hours = u.hours
    BY <2>1 DEF SummaryUpdates, Option
  <2>3. v.summary_received_at = IF u.summary_received_at = None
                                THEN Head(s).summary_received_at
                                ELSE u.summary_received_at
    BY DEF SummaryUpdates
  <2>4. queue_summary_update(s, u) = <<v>>
    BY <1>2 DEF queue_summary_update
  <2> HIDE DEF v
  <2> QED
    BY <1>2, <2>2, <2>3, <2>4
<1> QED
    BY <1>1, <1>2

TypeInv == TypeOK /\ HandHeld

\* What the display applies to a history is a history.
LEMMA ApplyType ==
    ASSUME NEW data \in Histories, NEW u \in Updates, NEW now \in Option(Times)
    PROVE  apply(data, u, now) \in Histories
<1>1. now # None => TodayOf(now) \in Nat
    BY CalendarAssumption DEF TodayOf, Option
<1>2. u.summary \in Summaries /\ u.summary.hours \in Hours
    BY DEF Updates, Summaries
<1>3. now # None => append_value(data, now) \in Histories
    BY <1>1 DEF append_value, Histories, Hours, Option
<1>4. mark_restored(u.summary, now) \in Histories
    BY <1>1, <1>2 DEF mark_restored, Histories, Option
<1> QED
    BY <1>3, <1>4 DEF apply

\* Applying the oldest update keeps the types of what the display task owns.
LEMMA ApplyHeadType ==
    ASSUME TypeOK, updates # <<>>, NEW now \in Option(Times),
           NEW a \in BOOLEAN, NEW b \in BOOLEAN, ApplyHead(now, a, b)
    PROVE  /\ updates' \in Seq(Updates) /\ Len(updates') <= UPDATE_QUEUE_DEPTH
           /\ history' \in Histories
           /\ display' \in [draining : BOOLEAN, now : Option(Times),
                            non_summary_update : BOOLEAN,
                            summary_received : BOOLEAN]
<1>1. Head(updates) \in Updates /\ Tail(updates) \in Seq(Updates)
      /\ Len(Tail(updates)) = Len(updates) - 1
    BY DEF TypeOK
<1>2. history' \in Histories
    BY <1>1, ApplyType DEF ApplyHead, TypeOK
<1>3. Current(Head(updates).summary, now) \in BOOLEAN
    BY <1>1 DEF Current, is_for
<1>4. display' \in [draining : BOOLEAN, now : Option(Times),
                    non_summary_update : BOOLEAN, summary_received : BOOLEAN]
    BY <1>3 DEF ApplyHead
<1>5. updates' \in Seq(Updates) /\ Len(updates') <= UPDATE_QUEUE_DEPTH
    BY <1>1, DepthAssumption DEF ApplyHead, TypeOK
<1> QED
    BY <1>2, <1>4, <1>5

LEMMA InitType == Init => TypeInv
<1> SUFFICES ASSUME Init PROVE TypeInv
    OBVIOUS
<1>1. 0 \in Times
    BY CalendarAssumption DEF Times
<1>2. updates \in Seq(Updates) /\ Len(updates) <= UPDATE_QUEUE_DEPTH
    BY DepthAssumption DEF Init, Booted
<1>3. publications \in Seq(SummaryUpdates) /\ Len(publications) <= 1
    BY DEF Init, Booted
<1>4. display \in [draining : BOOLEAN, now : Option(Times),
                   non_summary_update : BOOLEAN, summary_received : BOOLEAN]
    BY DEF Init, Booted, WaitingDisplay, Option
<1>5. history \in Histories
    BY DEF Init, Booted, EmptyHistory, Histories, Option, Hours
<1> QED
    BY <1>1, <1>2, <1>3, <1>4, <1>5
    DEF Init, Booted, TypeInv, TypeOK, HandHeld, Option, Hours

LEMMA NextType == TypeInv /\ [Next]_vars => TypeInv'
<1> SUFFICES ASSUME TypeInv, [Next]_vars PROVE TypeInv'
    OBVIOUS
<1> USE DEF sessionVars, publishVars, displayVars, clockVars
<1>0. 0 \in Times
    BY CalendarAssumption DEF Times
<1>1. CASE Tick
  <2>1. time' \in Times
    BY <1>1, CalendarAssumption DEF Tick, TypeInv, TypeOK, Times
  <2> QED
    BY <1>1, <2>1 DEF Tick, TypeInv, TypeOK, HandHeld
<1>2. CASE ClockSync
    BY <1>2 DEF ClockSync, TypeInv, TypeOK, HandHeld
<1>3. CASE Reboot
  <2>1. updates' \in Seq(Updates) /\ Len(updates') <= UPDATE_QUEUE_DEPTH
    BY <1>3, DepthAssumption DEF Reboot
  <2>2. publications' \in Seq(SummaryUpdates) /\ Len(publications') <= 1
    BY <1>3 DEF Reboot
  <2>3. display' \in [draining : BOOLEAN, now : Option(Times),
                      non_summary_update : BOOLEAN, summary_received : BOOLEAN]
    BY <1>3 DEF Reboot, WaitingDisplay, Option
  <2>4. history' \in Histories
    BY <1>3 DEF Reboot, EmptyHistory, Histories, Option, Hours
  <2> QED
    BY <1>3, <2>1, <2>2, <2>3, <2>4
    DEF Reboot, TypeInv, TypeOK, HandHeld, Option, MayBeDeliveredAgain, Hours
<1>4. CASE Connect
    BY <1>4 DEF Connect, TypeInv, TypeOK, HandHeld
<1>5. CASE SubscribeSummary
    BY <1>5 DEF SubscribeSummary, TypeInv, TypeOK, HandHeld
<1>6. ASSUME NEW kind \in LiveKinds, ReceiveLive(kind) PROVE TypeInv'
  <2>1. Live(kind) \in Updates
    BY DEF Live, NoSummary, Updates, Summaries, Hours
  <2>2. updates' \in Seq(Updates) /\ Len(updates') <= UPDATE_QUEUE_DEPTH
    BY <1>6, <2>1, QueueUpdateType DEF ReceiveLive, TypeInv, TypeOK
  <2> QED
    BY <1>6, <2>2 DEF ReceiveLive, TypeInv, TypeOK, HandHeld
<1>7. CASE ReceiveSummary
  <2>1. inflight \in Summaries
    BY <1>7 DEF ReceiveSummary, TypeInv, TypeOK, Option
  <2>2. DailySummary(inflight) \in Updates
    BY <2>1 DEF DailySummary, Updates
  <2>3. updates' \in Seq(Updates) /\ Len(updates') <= UPDATE_QUEUE_DEPTH
    BY <1>7, <2>2, QueueUpdateType DEF ReceiveSummary, TypeInv, TypeOK
  <2>4. adopted' \in Option(Adoptions)
    BY <1>7, <2>1 DEF ReceiveSummary, TypeInv, TypeOK, Option, Adoptions
  <2>5. awaiting_restored_snapshot' \in BOOLEAN
    BY <1>7 DEF ReceiveSummary, TypeInv, TypeOK, is_for
  <2> QED
    BY <1>7, <2>3, <2>4, <2>5
    DEF ReceiveSummary, TypeInv, TypeOK, HandHeld, Option
<1>8. CASE RestoreTimeout
    BY <1>8 DEF RestoreTimeout, TypeInv, TypeOK, HandHeld
<1>9. CASE Unsubscribed
    BY <1>9 DEF Unsubscribed, TypeInv, TypeOK, HandHeld
<1>10. CASE IgnoreSummary
    BY <1>10 DEF IgnoreSummary, TypeInv, TypeOK, HandHeld, Option
<1>11. CASE TakeSummary
  <2>1. Head(publications) \in SummaryUpdates /\ Tail(publications) = <<>>
    BY <1>11, AtMostOne DEF TakeSummary, Suppressed, Watermark, UpToDate, TypeInv, TypeOK
  <2>2. last_summary_update' \in Option(Times)
    BY <1>11, <2>1 DEF TakeSummary, Suppressed, Watermark, UpToDate, TypeInv, TypeOK, SummaryUpdates, Option
  <2>3. HandHeld' /\ hand' \in Option(SummaryUpdates)
    BY <1>11, <2>1 DEF TakeSummary, Suppressed, Watermark, UpToDate, TypeInv, TypeOK, HandHeld, Option
  <2>4. /\ mqtt' \in {"live", "publishing"}
        /\ awaiting_restored_snapshot' \in BOOLEAN
    BY <1>11 DEF TakeSummary, Suppressed, Watermark, UpToDate, TypeInv, TypeOK
  <2> QED
    BY <1>11, <2>1, <2>2, <2>3, <2>4 DEF TakeSummary, Suppressed, Watermark, UpToDate, TypeInv, TypeOK
<1>12. CASE PublishSucceeds
  <2>1. hand \in SummaryUpdates /\ hand.timestamp \in Times
    BY <1>12 DEF PublishSucceeds, TypeInv, HandHeld, SummaryUpdates
  <2>2. retained' \in Option(Summaries)
    BY <1>12, <2>1, CalendarAssumption
    DEF PublishSucceeds, BrokerMayRetain, Payload, TypeInv, TypeOK, Summaries,
        SummaryUpdates, Option
  <2> QED
    BY <1>12, <2>1, <2>2
    DEF PublishSucceeds, TypeInv, TypeOK, HandHeld, Option, Hours
<1>13. CASE PublishFails
  <2>1. hand \in SummaryUpdates
    BY <1>13 DEF PublishFails, TypeInv, HandHeld
  <2>2. retained' \in Option(Summaries)
    BY <1>13, <2>1, CalendarAssumption
    DEF PublishFails, BrokerMayRetain, Payload, TypeInv, TypeOK, Summaries,
        SummaryUpdates, Option
  <2>3. publications' \in Seq(SummaryUpdates) /\ Len(publications') <= 1
    BY <1>13, <2>1, QueueSummaryType DEF PublishFails, TypeInv, TypeOK
  <2> QED
    BY <1>13, <2>2, <2>3 DEF PublishFails, TypeInv, TypeOK, HandHeld, Option, MayBeDeliveredAgain
<1>14. CASE SessionFails
    BY <1>14 DEF SessionFails, TypeInv, TypeOK, HandHeld, Option, MayBeDeliveredAgain
<1>15. CASE DisplayReceives
  <2>1. utc_now \in Option(Times)
    BY DEF utc_now, TypeInv, TypeOK, Option
  <2> QED
    BY <1>15, <2>1, ApplyHeadType
    DEF DisplayReceives, TypeInv, TypeOK, HandHeld
<1>16. CASE DisplayDrains
  <2>1. /\ display.now \in Option(Times)
        /\ display.non_summary_update \in BOOLEAN
        /\ display.summary_received \in BOOLEAN
    BY DEF TypeInv, TypeOK
  <2> QED
    BY <1>16, <2>1, ApplyHeadType
    DEF DisplayDrains, TypeInv, TypeOK, HandHeld
<1>17. CASE DisplayQueues
  <2> DEFINE u == [timestamp |-> time, hours |-> history.hours,
                   summary_received_at |->
                       IF display.summary_received THEN time ELSE None]
  <2>1. u \in SummaryUpdates
    BY DEF TypeInv, TypeOK, SummaryUpdates, Histories, Option
  <2>2. publications' \in Seq(SummaryUpdates) /\ Len(publications') <= 1
    BY <1>17, <2>1, QueueSummaryType DEF DisplayQueues, TypeInv, TypeOK
  <2>3. display' \in [draining : BOOLEAN, now : Option(Times),
                      non_summary_update : BOOLEAN, summary_received : BOOLEAN]
    BY <1>17 DEF DisplayQueues, WaitingDisplay, Option
  <2> QED
    BY <1>17, <2>2, <2>3 DEF DisplayQueues, TypeInv, TypeOK, HandHeld
<1>18. CASE UNCHANGED vars
    BY <1>18 DEF vars, TypeInv, TypeOK, HandHeld
<1> QED
    BY <1>1, <1>2, <1>3, <1>4, <1>5, <1>6, <1>7, <1>8, <1>9, <1>10, <1>11,
       <1>12, <1>13, <1>14, <1>15, <1>16, <1>17, <1>18
    DEF Next, MqttTask, RestoreEnds, PublishEnds, DisplayTask

\* mqtt.rs and main.rs keep every type and both channels within their bounds,
\* for every calendar, queue depth and number of hours.
THEOREM TypeCorrect == Spec => []TypeOK
<1>1. TypeInv => TypeOK
    BY DEF TypeInv
<1> QED
    BY InitType, NextType, <1>1, PTL DEF Spec

(***************************************************************************)
(* The watermark is never behind what was published, never ahead of what   *)
(* waits to be published, and none of them is in the future.               *)
(***************************************************************************)
WatermarkAhead ==
    /\ last_summary_update # None => last_summary_update <= time
    /\ \A hour \in published : /\ last_summary_update # None
                               /\ hour <= last_summary_update

NotBehind(hour) == last_summary_update # None => last_summary_update <= hour

\* Only a session that is being served relies on what waits for it: a new one
\* starts with an empty channel.
WaitingInOrder ==
    (mqtt # "offline" /\ publications # <<>>) =>
        LET p == Head(publications)
        IN  /\ p.timestamp <= time
            /\ NotBehind(p.timestamp)
            /\ mqtt = "publishing" => hand.timestamp <= p.timestamp
            /\ p.summary_received_at # None =>
                 /\ p.summary_received_at <= p.timestamp
                 /\ NotBehind(p.summary_received_at)
                 /\ mqtt = "publishing" =>
                      hand.timestamp <= p.summary_received_at

InHand ==
    mqtt = "publishing" =>
         /\ hand.timestamp <= time
         /\ last_summary_update # None => last_summary_update < hand.timestamp

(***************************************************************************)
(* What a session that adopted a summary knows about it.                   *)
(***************************************************************************)
Adoption ==
    adopted # None =>
        /\ mqtt \in {"unsubscribing", "live", "publishing"}
        /\ clock_set
        /\ adopted.at <= time
        /\ adopted.summary.day = LocalDay[adopted.at]
        /\ mqtt = "unsubscribing" => awaiting_restored_snapshot
        /\ ~awaiting_restored_snapshot =>
             last_summary_update # None /\ adopted.at <= last_summary_update
        /\ mqtt = "publishing" => ~awaiting_restored_snapshot

RestoredToday == adopted # None /\ LocalDay[time] = adopted.summary.day

Applied ==
    /\ adopted.summary.hours \subseteq history.hours
    /\ history.day = adopted.summary.day

NoSummaryIn(channel) ==
    \A i \in 1..Len(channel) : channel[i].kind # "summary"

OnlyAdoptedIn(channel) ==
    \A i \in 1..Len(channel) :
        channel[i].kind = "summary" => channel[i].summary = adopted.summary

DisplayKnows ==
    /\ ~display.draining => ~display.summary_received
    /\ display.draining /\ display.now # None => display.now <= time
    /\ mqtt \in {"subscribing", "restoring"} => NoSummaryIn(updates)
    /\ adopted # None =>
         /\ OnlyAdoptedIn(updates)
         /\ display.draining => display.now # None /\ adopted.at <= display.now

Carried ==
    RestoredToday =>
        /\ ~awaiting_restored_snapshot => Applied
        /\ display.summary_received => Applied
        /\ (publications # <<>> /\ Head(publications).summary_received_at # None)
             => Applied

Complete(p) ==
    LocalDay[p.timestamp] = adopted.summary.day
        => adopted.summary.hours \subseteq p.hours

WaitingComplete ==
    (adopted # None /\ publications # <<>>) =>
        LET p == Head(publications)
        IN  /\ p.summary_received_at # None => adopted.at <= p.summary_received_at
            /\ (p.summary_received_at # None \/ ~awaiting_restored_snapshot)
                 => Complete(p)

HandComplete ==
    (adopted # None /\ mqtt = "publishing") => Complete(hand)

IInv ==
    /\ TypeInv
    /\ WatermarkAhead
    /\ WaitingInOrder
    /\ InHand
    /\ Adoption
    /\ DisplayKnows
    /\ Carried
    /\ WaitingComplete
    /\ HandComplete

Order == WatermarkAhead /\ WaitingInOrder /\ InHand

\* Reading what waits in SUMMARY_PUBLICATIONS, and what is in hand.
LEMMA WaitingType ==
    ASSUME TypeInv
    PROVE  /\ time \in Nat
           /\ last_summary_update # None => last_summary_update \in Nat
           /\ \A hour \in published : hour \in Nat
           /\ publications # <<>> =>
                /\ Head(publications) \in SummaryUpdates
                /\ Head(publications).timestamp \in Times
                /\ Head(publications).hours \in Hours
                /\ Head(publications).summary_received_at # None
                     => Head(publications).summary_received_at \in Times
                /\ Tail(publications) = <<>>
           /\ mqtt = "publishing" =>
                /\ hand \in SummaryUpdates
                /\ hand.timestamp \in Times
                /\ hand.hours \in Hours
                /\ hand.summary_received_at # None
                     => hand.summary_received_at \in Times
           /\ \A t \in Times : t \in Nat
<1>1. publications # <<>> =>
        Head(publications) \in SummaryUpdates /\ Tail(publications) = <<>>
    BY AtMostOne DEF TypeInv, TypeOK
<1>2. mqtt = "publishing" => hand \in SummaryUpdates
    BY DEF TypeInv, HandHeld
<1>3. \A p \in SummaryUpdates :
        /\ p.timestamp \in Times
        /\ p.hours \in Hours
        /\ p.summary_received_at # None => p.summary_received_at \in Times
    BY DEF SummaryUpdates, Option
<1>4. /\ time \in Nat
      /\ last_summary_update # None => last_summary_update \in Nat
      /\ \A hour \in published : hour \in Nat
      /\ \A t \in Times : t \in Nat
    BY DEF TypeInv, TypeOK, Times, Option, Hours
<1> QED
    BY <1>1, <1>2, <1>3, <1>4

LEMMA OrderStep == IInv /\ [Next]_vars => Order'
<1> SUFFICES ASSUME IInv, [Next]_vars PROVE Order'
    OBVIOUS
<1> USE DEF sessionVars, publishVars, displayVars, clockVars
<1>0. TypeInv /\ Order
    BY DEF IInv, Order
<1>1. CASE Tick
  <2>1. time' = time + 1 /\ time <= time'
    BY <1>0, <1>1, WaitingType DEF Tick
  <2>2. WatermarkAhead'
    BY <1>0, <1>1, <2>1, WaitingType DEF Tick, Order, WatermarkAhead
  <2>3. WaitingInOrder'
    BY <1>0, <1>1, <2>1, WaitingType DEF Tick, Order, WaitingInOrder, NotBehind
  <2>4. InHand'
    BY <1>0, <1>1, <2>1, WaitingType DEF Tick, Order, InHand
  <2> QED
    BY <2>2, <2>3, <2>4 DEF Order
<1>2. CASE ClockSync
    BY <1>0, <1>2
    DEF ClockSync, Order, WatermarkAhead, WaitingInOrder, InHand, NotBehind
<1>3. CASE Reboot
    BY <1>3 DEF Reboot, Order, WatermarkAhead, WaitingInOrder, InHand, NotBehind
<1>4. CASE Connect
    BY <1>0, <1>4
    DEF Connect, Order, WatermarkAhead, WaitingInOrder, InHand, NotBehind
<1>5. CASE SubscribeSummary
    BY <1>0, <1>5
    DEF SubscribeSummary, Order, WatermarkAhead, WaitingInOrder, InHand, NotBehind
<1>6. ASSUME NEW kind \in LiveKinds, ReceiveLive(kind) PROVE Order'
    BY <1>0, <1>6
    DEF ReceiveLive, Order, WatermarkAhead, WaitingInOrder, InHand, NotBehind
<1>7. CASE ReceiveSummary
    BY <1>0, <1>7
    DEF ReceiveSummary, Order, WatermarkAhead, WaitingInOrder, InHand, NotBehind
<1>8. CASE RestoreTimeout
    BY <1>0, <1>8
    DEF RestoreTimeout, Order, WatermarkAhead, WaitingInOrder, InHand, NotBehind
<1>9. CASE Unsubscribed
    BY <1>0, <1>9
    DEF Unsubscribed, Order, WatermarkAhead, WaitingInOrder, InHand, NotBehind
<1>10. CASE IgnoreSummary
    BY <1>0, <1>10
    DEF IgnoreSummary, Order, WatermarkAhead, WaitingInOrder, InHand, NotBehind
<1>11. CASE TakeSummary
  <2> DEFINE p == Head(publications)
  <2>1. /\ p.timestamp \in Times /\ p.timestamp <= time
        /\ p.summary_received_at # None => p.summary_received_at \in Times
        /\ publications' = <<>>
    BY <1>0, <1>11, WaitingType
    DEF TakeSummary, Suppressed, Watermark, UpToDate, Order, WaitingInOrder
  <2>2. /\ NotBehind(p.timestamp)
        /\ p.summary_received_at # None =>
             /\ p.summary_received_at <= p.timestamp
             /\ NotBehind(p.summary_received_at)
    BY <1>0, <1>11 DEF TakeSummary, Suppressed, Watermark, UpToDate, Order, WaitingInOrder
  <2>3. CASE awaiting_restored_snapshot /\ p.summary_received_at = None
    BY <1>0, <1>11, <2>1, <2>3
    DEF TakeSummary, Suppressed, Watermark, UpToDate, Order, WatermarkAhead, WaitingInOrder, InHand
  <2>4. CASE ~awaiting_restored_snapshot \/ p.summary_received_at # None
    <3>1. /\ last_summary_update' =
               IF p.summary_received_at # None THEN p.summary_received_at
                                               ELSE last_summary_update
          /\ time' = time /\ published' = published
          /\ \/ mqtt' = "live"
             \/ /\ mqtt' = "publishing" /\ hand' = p
                /\ last_summary_update' # p.timestamp
      BY <1>11, <2>4 DEF TakeSummary, Suppressed, Watermark, UpToDate
    <3>2. /\ last_summary_update' # None =>
               last_summary_update' <= p.timestamp /\ last_summary_update' \in Nat
      BY <1>0, <2>1, <2>2, <3>1, WaitingType DEF NotBehind
    <3>3. WatermarkAhead'
      BY <1>0, <2>1, <2>2, <3>1, <3>2, WaitingType
      DEF Order, WatermarkAhead, NotBehind
    <3>4. WaitingInOrder'
      BY <2>1 DEF WaitingInOrder
    <3>5. InHand'
      BY <2>1, <3>1, <3>2, WaitingType, <1>0 DEF InHand
    <3> QED
      BY <3>3, <3>4, <3>5 DEF Order
  <2> QED
    BY <2>3, <2>4
<1>12. CASE PublishSucceeds
  <2>1. /\ hand.timestamp \in Nat /\ hand.timestamp <= time
        /\ NotBehind(hand.timestamp)
    BY <1>0, <1>12, WaitingType DEF PublishSucceeds, Order, InHand, NotBehind
  <2>2. WatermarkAhead'
    BY <1>0, <1>12, <2>1, WaitingType, NoneAssumption
    DEF PublishSucceeds, Order, WatermarkAhead, NotBehind
  <2>3. WaitingInOrder'
    BY <1>0, <1>12, <2>1, WaitingType
    DEF PublishSucceeds, Order, WaitingInOrder, NotBehind
  <2>4. InHand'
    BY <1>12 DEF PublishSucceeds, InHand
  <2> QED
    BY <2>2, <2>3, <2>4 DEF Order
<1>13. CASE PublishFails
    BY <1>0, <1>13
    DEF PublishFails, Order, WatermarkAhead, WaitingInOrder, InHand, NotBehind
<1>14. CASE SessionFails
    BY <1>0, <1>14
    DEF SessionFails, Order, WatermarkAhead, WaitingInOrder, InHand, NotBehind
<1>15. CASE DisplayReceives
    BY <1>0, <1>15
    DEF DisplayReceives, Order, WatermarkAhead, WaitingInOrder, InHand, NotBehind
<1>16. CASE DisplayDrains
    BY <1>0, <1>16
    DEF DisplayDrains, Order, WatermarkAhead, WaitingInOrder, InHand, NotBehind
<1>17. CASE DisplayQueues
  <2> DEFINE u == [timestamp |-> time, hours |-> history.hours,
                   summary_received_at |->
                       IF display.summary_received THEN time ELSE None]
  <2>1. u \in SummaryUpdates
    BY <1>0 DEF TypeInv, TypeOK, SummaryUpdates, Histories, Option
  <2>2. WatermarkAhead' /\ InHand'
    BY <1>0, <1>17 DEF DisplayQueues, Order, WatermarkAhead, InHand
  <2>3. CASE publications' = publications
    BY <1>0, <1>17, <2>2, <2>3
    DEF DisplayQueues, Order, WaitingInOrder, NotBehind
  <2>4. CASE publications' = queue_summary_update(publications, u)
    <3> DEFINE q == Head(publications')
    <3>1. /\ q.timestamp = time
          /\ \/ q.summary_received_at = u.summary_received_at
             \/ publications # <<>> /\ q.summary_received_at
                                        = Head(publications).summary_received_at
      BY <1>0, <2>1, <2>4, QueueSummaryType DEF TypeInv, TypeOK
    <3>2. /\ mqtt' = mqtt /\ time' = time /\ hand' = hand
          /\ last_summary_update' = last_summary_update
      BY <1>17 DEF DisplayQueues
    <3>3. NotBehind(time) /\ (mqtt = "publishing" => hand.timestamp <= time)
      BY <1>0 DEF Order, WatermarkAhead, InHand, NotBehind
    <3>4. CASE q.summary_received_at = u.summary_received_at
      <4>1. q.summary_received_at # None => q.summary_received_at = time
        BY <3>4
      <4> QED
        BY <1>0, <2>2, <3>1, <3>2, <3>3, <4>1, WaitingType
        DEF Order, WaitingInOrder, NotBehind
    <3>5. CASE publications # <<>> /\ q.summary_received_at
                                        = Head(publications).summary_received_at
      BY <1>0, <2>2, <3>1, <3>2, <3>3, <3>5, WaitingType
      DEF Order, WaitingInOrder, NotBehind
    <3> QED
      BY <3>1, <3>4, <3>5
  <2> QED
    BY <1>17, <2>3, <2>4 DEF DisplayQueues
<1>18. CASE UNCHANGED vars
    BY <1>0, <1>18
    DEF vars, Order, WatermarkAhead, WaitingInOrder, InHand, NotBehind
<1> QED
    BY <1>1, <1>2, <1>3, <1>4, <1>5, <1>6, <1>7, <1>8, <1>9, <1>10, <1>11,
       <1>12, <1>13, <1>14, <1>15, <1>16, <1>17, <1>18
    DEF Next, MqttTask, RestoreEnds, PublishEnds, DisplayTask

\* An hour between two hours of one day is of that day.
LEMMA SameDay ==
    ASSUME NEW r \in Times, NEW s \in Times, NEW t \in Times,
           r <= s, s <= t, LocalDay[r] = LocalDay[t]
    PROVE  LocalDay[s] = LocalDay[r]
<1>1. LocalDay[r] <= LocalDay[s] /\ LocalDay[s] <= LocalDay[t]
    BY CalendarAssumption
<1>2. LocalDay[r] \in Nat /\ LocalDay[s] \in Nat /\ LocalDay[t] \in Nat
    BY CalendarAssumption
<1> QED
    BY <1>1, <1>2

LEMMA AdoptionStep == IInv /\ [Next]_vars => Adoption'
<1> SUFFICES ASSUME IInv, [Next]_vars PROVE Adoption'
    OBVIOUS
<1> USE DEF sessionVars, publishVars, displayVars, clockVars
<1>0. TypeInv /\ Adoption /\ Order
    BY DEF IInv, Order
<1>1. adopted # None => adopted.at \in Nat
    BY <1>0 DEF TypeInv, TypeOK, Option, Adoptions, Times
<1>2. CASE Tick
    BY <1>0, <1>1, <1>2, WaitingType DEF Tick, Adoption
<1>3. CASE ReceiveSummary
    BY <1>0, <1>3, WaitingType
    DEF ReceiveSummary, Adoption, is_for, TodayOf, TypeInv, TypeOK
<1>4. CASE TakeSummary
  <2> DEFINE p == Head(publications)
  <2>1. /\ adopted' = adopted /\ clock_set' = clock_set /\ time' = time
        /\ mqtt' \in {"live", "publishing"}
    BY <1>4 DEF TakeSummary, Suppressed, Watermark, UpToDate
  <2>2. CASE awaiting_restored_snapshot /\ p.summary_received_at = None
    BY <1>0, <1>4, <2>2 DEF TakeSummary, Suppressed, Watermark, UpToDate, Adoption
  <2>3. CASE ~awaiting_restored_snapshot \/ p.summary_received_at # None
    <3>1. /\ ~awaiting_restored_snapshot'
          /\ last_summary_update' =
               IF p.summary_received_at # None THEN p.summary_received_at
                                               ELSE last_summary_update
      BY <1>4, <2>3 DEF TakeSummary, Suppressed, Watermark, UpToDate
    <3>2. (adopted # None /\ p.summary_received_at # None)
            => adopted.at <= p.summary_received_at
      BY <1>4 DEF TakeSummary, Suppressed, Watermark, UpToDate, IInv, WaitingComplete
    <3> QED
      BY <1>0, <1>4, <2>1, <2>3, <3>1, <3>2 DEF TakeSummary, Suppressed, Watermark, UpToDate, Adoption
  <2> QED
    BY <2>2, <2>3
<1>5. CASE PublishSucceeds
  <2>1. adopted # None => ~awaiting_restored_snapshot
    BY <1>0, <1>5 DEF PublishSucceeds, Adoption
  <2>2. adopted # None => adopted.at <= hand.timestamp
    BY <1>0, <1>1, <1>5, <2>1, WaitingType
    DEF PublishSucceeds, Adoption, Order, InHand
  <2>3. hand.timestamp # None
    BY <1>0, <1>5, WaitingType, NoneAssumption DEF PublishSucceeds
  <2> QED
    BY <1>0, <1>5, <2>1, <2>2, <2>3 DEF PublishSucceeds, Adoption
<1>6. CASE adopted' = None
    BY <1>6 DEF Adoption
<1>7. CASE RestoreTimeout
    BY <1>0, <1>7 DEF RestoreTimeout, Adoption
<1>8. CASE ClockSync
    BY <1>0, <1>8 DEF ClockSync, Adoption
<1>9. CASE Connect
    BY <1>0, <1>9 DEF Connect, Adoption
<1>10. CASE SubscribeSummary
    BY <1>0, <1>10 DEF SubscribeSummary, Adoption
<1>11. CASE Unsubscribed
    BY <1>0, <1>11 DEF Unsubscribed, Adoption
<1>12. CASE UNCHANGED <<time, adopted, awaiting_restored_snapshot,
                        last_summary_update, clock_set, mqtt>>
    BY <1>0, <1>12 DEF Adoption
<1>13. ASSUME NEW kind \in LiveKinds, ReceiveLive(kind) PROVE Adoption'
    BY <1>12, <1>13 DEF ReceiveLive
<1>14. CASE IgnoreSummary
    BY <1>12, <1>14 DEF IgnoreSummary
<1>15. CASE DisplayTask
    BY <1>12, <1>15
    DEF DisplayTask, DisplayReceives, DisplayDrains, DisplayQueues
<1>16. CASE UNCHANGED vars
    BY <1>12, <1>16 DEF vars
<1>17. CASE Reboot \/ PublishFails \/ SessionFails
    BY <1>6, <1>17 DEF Reboot, PublishFails, SessionFails
<1> QED
    BY <1>2, <1>3, <1>4, <1>5, <1>7, <1>8, <1>9, <1>10, <1>11, <1>13, <1>14,
       <1>15, <1>16, <1>17
    DEF Next, MqttTask, RestoreEnds, PublishEnds

(***************************************************************************)
(* The display task.                                                       *)
(***************************************************************************)

\* What one update does to the history of a day that adopted a summary: the
\* adopted summary makes it complete, and no other update undoes that.
LEMMA ApplyKeeps ==
    ASSUME TypeInv, adopted # None, updates # <<>>, OnlyAdoptedIn(updates),
           NEW now \in Times, LocalDay[now] = adopted.summary.day,
           NEW a, NEW b, ApplyHead(now, a, b), adopted' = adopted
    PROVE  Applied \/ Head(updates).kind = "summary" => Applied'
<1>1. Head(updates) = updates[1] /\ 1 \in 1..Len(updates)
    BY DEF TypeInv, TypeOK
<1>2. Head(updates).kind = "summary" => Head(updates).summary = adopted.summary
    BY <1>1 DEF OnlyAdoptedIn
<1>3. now # None
    BY NoneAssumption DEF Times
<1>4. adopted \in Adoptions /\ adopted.summary \in Summaries
    BY DEF TypeInv, TypeOK, Option, Adoptions
<1>5. history' = apply(history, Head(updates), now)
    BY DEF ApplyHead
<1>6. CASE Head(updates).kind = "summary"
  <2>1. history' = mark_restored(adopted.summary, now)
    BY <1>2, <1>3, <1>5, <1>6 DEF apply, Current, is_for, TodayOf
  <2> QED
    BY <1>3, <2>1 DEF mark_restored, TodayOf, Applied
<1>7. CASE Head(updates).kind = "grid"
  <2>1. history' = append_value(history, now)
    BY <1>3, <1>5, <1>7 DEF apply
  <2> QED
    BY <1>7, <2>1 DEF append_value, TodayOf, Applied
<1>8. CASE Head(updates).kind # "summary" /\ Head(updates).kind # "grid"
    BY <1>5, <1>8 DEF apply, Applied
<1> QED
    BY <1>6, <1>7, <1>8

LEMMA QueueKinds ==
    ASSUME TypeInv, NEW u \in Updates, updates' = queue_update(updates, u)
    PROVE  /\ NoSummaryIn(updates) /\ u.kind # "summary" => NoSummaryIn(updates')
           /\ OnlyAdoptedIn(updates) /\ u.kind # "summary" /\ adopted' = adopted
                => OnlyAdoptedIn(updates)'
           /\ NoSummaryIn(updates) /\ u.summary = adopted'.summary
                => OnlyAdoptedIn(updates)'
<1> DEFINE q == queue_update(updates, u)
<1>1. updates \in Seq(Updates) /\ Len(updates) <= UPDATE_QUEUE_DEPTH
    BY DEF TypeInv, TypeOK
<1>2. \A i \in 1..Len(q) : q[i] = u \/ \E j \in 1..Len(updates) : q[i] = updates[j]
    BY <1>1, QueueUpdateType
<1>3. \A i \in 1..Len(updates') :
        updates'[i] = u \/ \E j \in 1..Len(updates) : updates'[i] = updates[j]
    BY <1>2
<1> QED
    BY <1>3 DEF NoSummaryIn, OnlyAdoptedIn

LEMMA TailKinds ==
    ASSUME TypeInv, updates # <<>>, updates' = Tail(updates), adopted' = adopted
    PROVE  /\ NoSummaryIn(updates) => NoSummaryIn(updates')
           /\ OnlyAdoptedIn(updates) => OnlyAdoptedIn(updates)'
<1>1. \A i \in 1..Len(updates') :
        i + 1 \in 1..Len(updates) /\ updates'[i] = updates[i + 1]
    BY DEF TypeInv, TypeOK
<1> QED
    BY <1>1 DEF NoSummaryIn, OnlyAdoptedIn

LEMMA DisplayKnowsStep == IInv /\ [Next]_vars => DisplayKnows'
<1> SUFFICES ASSUME IInv, [Next]_vars PROVE DisplayKnows'
    OBVIOUS
<1> USE DEF sessionVars, publishVars, displayVars, clockVars
<1>0. TypeInv /\ DisplayKnows /\ Adoption
    BY DEF IInv
<1>a. /\ time \in Nat
      /\ display.now # None => display.now \in Nat
      /\ adopted # None => adopted.at \in Nat /\ adopted.at <= time
    BY <1>0 DEF TypeInv, TypeOK, Option, Adoptions, Times, Adoption
<1>1. CASE Tick
    BY <1>0, <1>a, <1>1
    DEF Tick, DisplayKnows, NoSummaryIn, OnlyAdoptedIn
<1>2. CASE ClockSync
    BY <1>0, <1>2 DEF ClockSync, DisplayKnows, NoSummaryIn, OnlyAdoptedIn
<1>3. CASE Reboot
    BY <1>3 DEF Reboot, DisplayKnows, WaitingDisplay
<1>4. CASE Connect
    BY <1>0, <1>4
    DEF Connect, DisplayPolled, DisplayKnows, NoSummaryIn, OnlyAdoptedIn
<1>5. CASE SubscribeSummary
    BY <1>0, <1>5 DEF SubscribeSummary, DisplayKnows, NoSummaryIn, OnlyAdoptedIn
<1>6. ASSUME NEW kind \in LiveKinds, ReceiveLive(kind) PROVE DisplayKnows'
  <2>1. /\ Live(kind) \in Updates
        /\ Live(kind).kind # "summary"
    BY DEF Live, LiveKinds, NoSummary, Updates, Summaries, Hours
  <2>2. /\ NoSummaryIn(updates) => NoSummaryIn(updates')
        /\ OnlyAdoptedIn(updates) => OnlyAdoptedIn(updates)'
    BY <1>0, <1>6, <2>1, QueueKinds DEF ReceiveLive
  <2> QED
    BY <1>0, <1>6, <2>2 DEF ReceiveLive, DisplayKnows
<1>7. CASE ReceiveSummary
  <2>1. inflight \in Summaries
    BY <1>0, <1>7 DEF ReceiveSummary, TypeInv, TypeOK, Option
  <2>2. DailySummary(inflight) \in Updates
    BY <2>1 DEF DailySummary, Updates
  <2>3. adopted' # None => adopted'.summary = DailySummary(inflight).summary
    BY <1>7 DEF ReceiveSummary, DailySummary
  <2>4. NoSummaryIn(updates)
    BY <1>0, <1>7 DEF ReceiveSummary, DisplayKnows
  <2>5. adopted' # None => OnlyAdoptedIn(updates)'
    BY <1>0, <1>7, <2>2, <2>3, <2>4, QueueKinds DEF ReceiveSummary
  <2> QED
    BY <1>0, <1>7, <2>5 DEF ReceiveSummary, OtherTaskRuns, DisplayKnows
<1>8. CASE RestoreTimeout
    BY <1>0, <1>8 DEF RestoreTimeout, DisplayKnows, OnlyAdoptedIn
<1>9. CASE Unsubscribed
    BY <1>0, <1>9 DEF Unsubscribed, DisplayKnows, OnlyAdoptedIn
<1>10. CASE IgnoreSummary
    BY <1>0, <1>10 DEF IgnoreSummary, DisplayKnows, NoSummaryIn, OnlyAdoptedIn
<1>11. CASE TakeSummary
    BY <1>0, <1>11 DEF TakeSummary, Suppressed, Watermark, UpToDate, DisplayKnows, NoSummaryIn, OnlyAdoptedIn
<1>12. CASE PublishSucceeds
    BY <1>0, <1>12 DEF PublishSucceeds, DisplayKnows, OnlyAdoptedIn
<1>13. CASE PublishFails
    BY <1>0, <1>13 DEF PublishFails, DisplayKnows
<1>14. CASE SessionFails
    BY <1>0, <1>14 DEF SessionFails, DisplayKnows
<1>15. CASE DisplayReceives
  <2>1. /\ NoSummaryIn(updates) => NoSummaryIn(updates')
        /\ OnlyAdoptedIn(updates) => OnlyAdoptedIn(updates)'
    BY <1>0, <1>15, TailKinds DEF DisplayReceives, ApplyHead
  <2>2. display'.draining /\ display'.now = utc_now
    BY <1>15 DEF DisplayReceives, ApplyHead
  <2>3. utc_now # None => utc_now = time
    BY DEF utc_now
  <2>4. adopted # None => utc_now = time /\ time # None
    BY <1>0, <1>a, NoneAssumption DEF utc_now, Adoption
  <2> QED
    BY <1>0, <1>a, <1>15, <2>1, <2>2, <2>3, <2>4 DEF DisplayReceives, DisplayKnows
<1>16. CASE DisplayDrains
  <2>1. /\ NoSummaryIn(updates) => NoSummaryIn(updates')
        /\ OnlyAdoptedIn(updates) => OnlyAdoptedIn(updates)'
    BY <1>0, <1>16, TailKinds DEF DisplayDrains, ApplyHead
  <2>2. display'.draining /\ display'.now = display.now
    BY <1>16 DEF DisplayDrains, ApplyHead
  <2> QED
    BY <1>0, <1>16, <2>1, <2>2 DEF DisplayDrains, DisplayKnows
<1>17. CASE DisplayQueues
    BY <1>0, <1>17
    DEF DisplayQueues, WaitingDisplay, DisplayKnows, NoSummaryIn, OnlyAdoptedIn
<1>18. CASE UNCHANGED vars
    BY <1>0, <1>18 DEF vars, DisplayKnows, NoSummaryIn, OnlyAdoptedIn
<1> QED
    BY <1>1, <1>2, <1>3, <1>4, <1>5, <1>6, <1>7, <1>8, <1>9, <1>10, <1>11,
       <1>12, <1>13, <1>14, <1>15, <1>16, <1>17, <1>18
    DEF Next, MqttTask, RestoreEnds, PublishEnds, DisplayTask

(***************************************************************************)
(* What the session carries from the summary to the publication.           *)
(***************************************************************************)

\* On the day that adopted a summary, every drain runs at an hour of that day.
LEMMA DrainsToday ==
    ASSUME IInv, RestoredToday
    PROVE  /\ time \in Times /\ utc_now = time
           /\ display.draining =>
                /\ display.now \in Times
                /\ LocalDay[display.now] = adopted.summary.day
<1>1. /\ time \in Times /\ clock_set /\ adopted # None
      /\ adopted.at \in Times /\ adopted.at <= time
      /\ adopted.summary.day = LocalDay[adopted.at]
    BY DEF IInv, TypeInv, TypeOK, Adoption, RestoredToday, Option, Adoptions
<1>2. display.draining =>
        /\ display.now \in Times
        /\ adopted.at <= display.now
        /\ display.now <= time
    BY <1>1 DEF IInv, TypeInv, TypeOK, DisplayKnows, Option
<1>3. LocalDay[adopted.at] = LocalDay[time]
    BY <1>1 DEF RestoredToday
<1> QED
    BY <1>1, <1>2, <1>3, SameDay DEF utc_now

\* A day that still runs after a step ran before it.
LEMMA StillToday ==
    ASSUME IInv, Tick, RestoredToday'
    PROVE  RestoredToday
<1>1. /\ time \in Times /\ time' \in Times /\ time <= time'
      /\ adopted # None /\ adopted' = adopted
      /\ adopted.at \in Times /\ adopted.at <= time
      /\ adopted.summary.day = LocalDay[adopted.at]
    BY CalendarAssumption
    DEF Tick, sessionVars, IInv, TypeInv, TypeOK, Adoption, RestoredToday,
        Option, Adoptions, Times
<1>2. LocalDay[adopted.at] = LocalDay[time']
    BY <1>1 DEF RestoredToday
<1> QED
    BY <1>1, <1>2, SameDay DEF RestoredToday

LEMMA CarriedStep == IInv /\ [Next]_vars => Carried'
<1> SUFFICES ASSUME IInv, [Next]_vars, RestoredToday' PROVE
        /\ ~awaiting_restored_snapshot' => Applied'
        /\ display.summary_received' => Applied'
        /\ (publications' # <<>> /\ Head(publications').summary_received_at # None)
             => Applied'
    BY DEF Carried
<1> USE DEF sessionVars, publishVars, displayVars, clockVars
<1>0. TypeInv /\ Carried /\ DisplayKnows /\ Adoption
    BY DEF IInv
<1>1. CASE Tick
  <2>1. RestoredToday
    BY <1>1, StillToday
  <2> QED
    BY <1>0, <1>1, <2>1 DEF Tick, Carried, Applied
<1>2. CASE ReceiveSummary
  <2>1. awaiting_restored_snapshot' /\ publications' = <<>>
    BY <1>2 DEF ReceiveSummary, RestoredToday
  <2>2. ~display.summary_received'
    BY <1>0, <1>2 DEF ReceiveSummary, OtherTaskRuns, DisplayKnows
  <2> QED
    BY <2>1, <2>2
<1>3. CASE \/ ApplyHead(utc_now, FALSE, FALSE) /\ DisplayReceives
           \/ /\ ApplyHead(display.now, display.non_summary_update,
                           display.summary_received)
              /\ DisplayDrains
  <2>1. /\ UNCHANGED <<adopted, time, awaiting_restored_snapshot, publications>>
        /\ updates # <<>>
    BY <1>3 DEF DisplayReceives, DisplayDrains
  <2>2. RestoredToday /\ adopted # None /\ OnlyAdoptedIn(updates)
    BY <1>0, <2>1 DEF RestoredToday, DisplayKnows
  <2>3. PICK now \in Times :
          /\ LocalDay[now] = adopted.summary.day
          /\ \E a, b : /\ ApplyHead(now, a, b)
                       /\ b => display.summary_received
    <3>1. CASE ApplyHead(utc_now, FALSE, FALSE) /\ DisplayReceives
      BY <2>2, <3>1, DrainsToday DEF RestoredToday
    <3>2. CASE /\ ApplyHead(display.now, display.non_summary_update,
                            display.summary_received)
               /\ DisplayDrains
      BY <2>2, <3>2, DrainsToday DEF DisplayDrains
    <3> QED
      BY <1>3, <3>1, <3>2
  <2>4. Applied \/ Head(updates).kind = "summary" => Applied'
    BY <1>0, <2>1, <2>2, <2>3, ApplyKeeps
  <2>5. display'.summary_received =>
          display.summary_received \/ Head(updates).kind = "summary"
    BY <2>3 DEF ApplyHead
  <2> QED
    BY <1>0, <2>1, <2>2, <2>4, <2>5 DEF Carried
<1>4. CASE DisplayQueues
  <2>1. /\ UNCHANGED <<adopted, time, awaiting_restored_snapshot, history>>
        /\ ~display'.summary_received
    BY <1>4 DEF DisplayQueues, WaitingDisplay
  <2>2. RestoredToday /\ (Applied => Applied')
    BY <2>1 DEF RestoredToday, Applied
  <2> DEFINE u == [timestamp |-> time, hours |-> history.hours,
                   summary_received_at |->
                       IF display.summary_received THEN time ELSE None]
  <2>3. CASE publications' = publications
    BY <1>0, <2>1, <2>2, <2>3 DEF Carried
  <2>4. CASE publications' = queue_summary_update(publications, u)
    <3>1. u \in SummaryUpdates
      BY <1>0 DEF TypeInv, TypeOK, SummaryUpdates, Histories, Option
    <3>2. \/ Head(publications').summary_received_at = u.summary_received_at
          \/ publications # <<>> /\ Head(publications').summary_received_at
                                     = Head(publications).summary_received_at
      BY <1>0, <2>4, <3>1, QueueSummaryType DEF TypeInv, TypeOK
    <3>3. u.summary_received_at # None => display.summary_received
      OBVIOUS
    <3> QED
      BY <1>0, <2>1, <2>2, <3>2, <3>3 DEF Carried
  <2> QED
    BY <1>4, <2>3, <2>4 DEF DisplayQueues
<1>5. CASE TakeSummary
  <2>1. /\ UNCHANGED <<adopted, time, history, display>>
        /\ publications' = <<>>
    BY <1>0, <1>5, WaitingType DEF TakeSummary, Suppressed, Watermark, UpToDate
  <2>2. RestoredToday /\ (Applied => Applied')
    BY <2>1 DEF RestoredToday, Applied
  <2>3. ~awaiting_restored_snapshot' =>
          \/ ~awaiting_restored_snapshot
          \/ /\ publications # <<>>
             /\ Head(publications).summary_received_at # None
    BY <1>5 DEF TakeSummary, Suppressed, Watermark, UpToDate
  <2> QED
    BY <1>0, <2>1, <2>2, <2>3 DEF Carried
<1>6. CASE /\ UNCHANGED <<adopted, time, history, display,
                          awaiting_restored_snapshot>>
           /\ publications' \in {publications, <<>>}
    BY <1>0, <1>6 DEF RestoredToday, Carried, Applied
<1>7. CASE RestoreTimeout
    BY <1>0, <1>7 DEF RestoreTimeout, RestoredToday, Adoption
<1>8. CASE Reboot \/ PublishFails \/ SessionFails
    BY <1>8 DEF Reboot, PublishFails, SessionFails, RestoredToday
<1>9. CASE Connect \/ SubscribeSummary \/ Unsubscribed \/ IgnoreSummary
           \/ PublishSucceeds \/ ClockSync
    BY <1>6, <1>9
    DEF Connect, SubscribeSummary, Unsubscribed, IgnoreSummary, PublishSucceeds,
        ClockSync
<1>10. ASSUME NEW kind \in LiveKinds, ReceiveLive(kind)
       PROVE  /\ UNCHANGED <<adopted, time, history, display,
                             awaiting_restored_snapshot>>
              /\ publications' \in {publications, <<>>}
    BY <1>10 DEF ReceiveLive
<1>11. CASE UNCHANGED vars
    BY <1>6, <1>11 DEF vars
<1> QED
    BY <1>1, <1>2, <1>3, <1>4, <1>5, <1>6, <1>7, <1>8, <1>9, <1>10, <1>11
    DEF Next, MqttTask, RestoreEnds, PublishEnds, DisplayTask, DisplayReceives,
        DisplayDrains

LEMMA WaitingCompleteStep == IInv /\ [Next]_vars => WaitingComplete'
<1> SUFFICES ASSUME IInv, [Next]_vars PROVE WaitingComplete'
    OBVIOUS
<1> USE DEF sessionVars, publishVars, displayVars, clockVars
<1>0. TypeInv /\ Carried /\ Adoption /\ WaitingComplete
    BY DEF IInv
<1>1. CASE publications' = <<>> \/ adopted' = None
    BY <1>1 DEF WaitingComplete
<1>2. CASE UNCHANGED <<publications, adopted, awaiting_restored_snapshot>>
    BY <1>0, <1>2 DEF WaitingComplete, Complete
<1>3. CASE DisplayQueues
  <2> DEFINE u == [timestamp |-> time, hours |-> history.hours,
                   summary_received_at |->
                       IF display.summary_received THEN time ELSE None]
  <2>1. CASE publications' = publications
    BY <1>2, <1>3, <2>1 DEF DisplayQueues
  <2>2. CASE publications' = queue_summary_update(publications, u)
    <3> DEFINE q == Head(publications')
    <3>1. SUFFICES ASSUME adopted # None
                   PROVE  /\ q.summary_received_at # None
                               => adopted.at <= q.summary_received_at
                          /\ (q.summary_received_at # None
                                \/ ~awaiting_restored_snapshot)
                               => Complete(q)
      BY <1>3 DEF DisplayQueues, WaitingComplete, Complete
    <3>2. u \in SummaryUpdates
      BY <1>0 DEF TypeInv, TypeOK, SummaryUpdates, Histories, Option
    <3>3. /\ q.timestamp = time /\ q.hours = history.hours
          /\ \/ q.summary_received_at = u.summary_received_at
             \/ publications # <<>> /\ q.summary_received_at
                                        = Head(publications).summary_received_at
      BY <1>0, <2>2, <3>2, QueueSummaryType DEF TypeInv, TypeOK
    <3>4. q.summary_received_at # None =>
            \/ display.summary_received /\ q.summary_received_at = time
            \/ /\ publications # <<>>
               /\ Head(publications).summary_received_at # None
               /\ q.summary_received_at = Head(publications).summary_received_at
      BY <3>3
    <3>5. q.summary_received_at # None => adopted.at <= q.summary_received_at
      BY <1>0, <3>1, <3>4 DEF WaitingComplete, Adoption
    <3>6. ASSUME q.summary_received_at # None \/ ~awaiting_restored_snapshot,
                 LocalDay[time] = adopted.summary.day
          PROVE  adopted.summary.hours \subseteq history.hours
      <4>1. RestoredToday
        BY <3>1, <3>6 DEF RestoredToday
      <4>2. Applied
        BY <1>0, <3>4, <3>6, <4>1 DEF Carried
      <4> QED
        BY <4>2 DEF Applied
    <3> HIDE DEF q
    <3> QED
      BY <3>3, <3>5, <3>6 DEF Complete
  <2> QED
    BY <1>3, <2>1, <2>2 DEF DisplayQueues
<1>4. CASE Tick \/ ClockSync \/ SubscribeSummary \/ IgnoreSummary
           \/ PublishSucceeds \/ DisplayReceives \/ DisplayDrains
    BY <1>2, <1>4
    DEF Tick, ClockSync, SubscribeSummary, IgnoreSummary, PublishSucceeds,
        DisplayReceives, DisplayDrains
<1>5. CASE Reboot \/ Connect \/ ReceiveSummary \/ PublishFails \/ SessionFails
    BY <1>1, <1>5
    DEF Reboot, Connect, ReceiveSummary, PublishFails, SessionFails
<1>6. ASSUME NEW kind \in LiveKinds, ReceiveLive(kind)
      PROVE  UNCHANGED <<publications, adopted, awaiting_restored_snapshot>>
    BY <1>6 DEF ReceiveLive
<1>7. CASE RestoreTimeout
    BY <1>0, <1>1, <1>7 DEF RestoreTimeout, Adoption
<1>8. CASE Unsubscribed
    BY <1>1, <1>2, <1>8 DEF Unsubscribed
<1>9. CASE TakeSummary
    BY <1>0, <1>1, <1>9, WaitingType DEF TakeSummary, Suppressed, Watermark, UpToDate
<1>10. CASE UNCHANGED vars
    BY <1>2, <1>10 DEF vars
<1> QED
    BY <1>2, <1>3, <1>4, <1>5, <1>6, <1>7, <1>8, <1>9, <1>10
    DEF Next, MqttTask, RestoreEnds, PublishEnds, DisplayTask

LEMMA HandCompleteStep == IInv /\ [Next]_vars => HandComplete'
<1> SUFFICES ASSUME IInv, [Next]_vars PROVE HandComplete'
    OBVIOUS
<1> USE DEF sessionVars, publishVars, displayVars, clockVars
<1>0. HandComplete /\ WaitingComplete
    BY DEF IInv
<1>1. CASE mqtt' # "publishing"
    BY <1>1 DEF HandComplete
<1>2. CASE UNCHANGED <<mqtt, hand, adopted>>
    BY <1>0, <1>2 DEF HandComplete, Complete
<1>3. CASE TakeSummary
  <2>1. CASE mqtt' = "publishing"
    <3> DEFINE p == Head(publications)
    <3>1. /\ publications # <<>> /\ hand' = p /\ adopted' = adopted
          /\ p.summary_received_at # None \/ ~awaiting_restored_snapshot
      BY <1>3, <2>1 DEF TakeSummary, Suppressed, Watermark, UpToDate
    <3>2. adopted # None => Complete(p)
      BY <1>0, <3>1 DEF WaitingComplete
    <3> QED
      BY <3>1, <3>2 DEF HandComplete, Complete
  <2> QED
    BY <1>1, <2>1
<1>4. CASE Tick \/ ClockSync \/ DisplayReceives \/ DisplayDrains \/ DisplayQueues
    BY <1>2, <1>4
    DEF Tick, ClockSync, DisplayReceives, DisplayDrains, DisplayQueues
<1>5. CASE Reboot \/ Connect \/ SubscribeSummary \/ ReceiveSummary
           \/ RestoreTimeout \/ Unsubscribed \/ PublishSucceeds
           \/ PublishFails \/ SessionFails
    BY <1>1, <1>5
    DEF Reboot, Connect, SubscribeSummary, ReceiveSummary, RestoreTimeout,
        Unsubscribed, PublishSucceeds, PublishFails, SessionFails
<1>6. CASE IgnoreSummary
    BY <1>1, <1>6 DEF IgnoreSummary
<1>7. ASSUME NEW kind \in LiveKinds, ReceiveLive(kind)
      PROVE  UNCHANGED <<mqtt, hand, adopted>>
    BY <1>7 DEF ReceiveLive
<1>8. CASE UNCHANGED vars
    BY <1>2, <1>8 DEF vars
<1> QED
    BY <1>2, <1>3, <1>4, <1>5, <1>6, <1>7, <1>8
    DEF Next, MqttTask, RestoreEnds, PublishEnds, DisplayTask

(***************************************************************************)
(* The inductive invariant, and the three safety properties it implies.    *)
(***************************************************************************)
LEMMA InitIInv == Init => IInv
<1> SUFFICES ASSUME Init PROVE IInv
    OBVIOUS
<1>1. TypeInv
    BY InitType
<1>2. Order /\ Adoption /\ WaitingComplete /\ HandComplete
    BY DEF Init, Booted, Order, WatermarkAhead, WaitingInOrder, InHand, Adoption,
           WaitingComplete, HandComplete
<1>3. DisplayKnows /\ Carried
    BY DEF Init, Booted, WaitingDisplay, DisplayKnows, Carried, RestoredToday
<1> QED
    BY <1>1, <1>2, <1>3 DEF IInv, Order

LEMMA NextIInv == IInv /\ [Next]_vars => IInv'
<1> SUFFICES ASSUME IInv, [Next]_vars PROVE IInv'
    OBVIOUS
<1>1. TypeInv' /\ Order'
    BY NextType, OrderStep DEF IInv
<1>2. Adoption' /\ DisplayKnows' /\ Carried'
    BY AdoptionStep, DisplayKnowsStep, CarriedStep
<1>3. WaitingComplete' /\ HandComplete'
    BY WaitingCompleteStep, HandCompleteStep
<1> QED
    BY <1>1, <1>2, <1>3 DEF IInv, Order

\* Of one UTC hour, mqtt.rs publishes at most one summary per boot: the
\* watermark last_summary_update is never behind what was published.
THEOREM AtMostOncePerHour == Spec => []PublishedOncePerHour
<1>1. IInv => PublishedOncePerHour
  <2> SUFFICES ASSUME IInv, mqtt = "publishing"
               PROVE  hand.timestamp \notin published
    BY DEF PublishedOncePerHour
  <2>1. /\ \A hour \in published : hour \in Nat
        /\ last_summary_update # None => last_summary_update \in Nat
        /\ hand.timestamp \in Nat
    BY WaitingType DEF IInv
  <2> QED
    BY <2>1 DEF IInv, WatermarkAhead, InHand
<1> QED
    BY InitIInv, NextIInv, <1>1, PTL DEF Spec

\* A session that restored today's summary publishes no summary of today that
\* lacks one of its hours, whatever the two tasks interleave.
THEOREM NothingRestoredIsLost == Spec => []PublishedIncludesRestored
<1>1. IInv => PublishedIncludesRestored
    BY DEF IInv, HandComplete, Complete, PublishedIncludesRestored
<1> QED
    BY InitIInv, NextIInv, <1>1, PTL DEF Spec

\* What the display restored is published only from the next hour on.
THEOREM NoEcho == Spec => []RestoredIsNotEchoed
<1>1. IInv => RestoredIsNotEchoed
  <2> SUFFICES ASSUME IInv, mqtt = "publishing", adopted # None
               PROVE  hand.timestamp > adopted.at
    BY DEF RestoredIsNotEchoed
  <2>1. /\ last_summary_update # None /\ adopted.at <= last_summary_update
        /\ last_summary_update < hand.timestamp
    BY DEF IInv, Adoption, InHand
  <2>2. /\ adopted.at \in Nat /\ last_summary_update \in Nat
        /\ hand.timestamp \in Nat
    BY <2>1, WaitingType DEF IInv, TypeInv, TypeOK, Option, Adoptions, Times
  <2> QED
    BY <2>1, <2>2
<1> QED
    BY InitIInv, NextIInv, <1>1, PTL DEF Spec

(***************************************************************************)
(* What a session awaits is on its way until a midnight or a burst stops   *)
(* it.                                                                     *)
(***************************************************************************)
Awaits == mqtt \in {"unsubscribing", "live"} /\ awaiting_restored_snapshot

OnItsWay ==
    \/ ~NoSummaryIn(updates)
    \/ display.summary_received
    \/ publications # <<>> /\ Head(publications).summary_received_at # None

Tracked ==
    /\ Awaits => adopted # None
    /\ mqtt = "publishing" => ~awaiting_restored_snapshot
    /\ Awaits /\ RestoredToday => BurstsOverflow \/ OnItsWay

\* A queue that is not full keeps what it holds, and one that is full the new update.
LEMMA QueueHolds ==
    ASSUME TypeInv, NEW u \in Updates, updates' = queue_update(updates, u)
    PROVE  /\ u.kind = "summary" => ~NoSummaryIn(updates')
           /\ Len(updates) < UPDATE_QUEUE_DEPTH /\ ~NoSummaryIn(updates)
                => ~NoSummaryIn(updates')
<1>1. updates \in Seq(Updates) /\ Len(updates) \in Nat
    BY DEF TypeInv, TypeOK
<1>2. PICK t \in Seq(Updates) :
        /\ updates' = Append(t, u)
        /\ Len(updates) < UPDATE_QUEUE_DEPTH => t = updates
  <2>1. CASE Len(updates) < UPDATE_QUEUE_DEPTH
    BY <1>1, <2>1 DEF queue_update
  <2>2. CASE ~(Len(updates) < UPDATE_QUEUE_DEPTH)
    <3>1. Tail(updates) \in Seq(Updates)
      BY <1>1, <2>2, DepthAssumption
    <3> QED
      BY <2>2, <3>1 DEF queue_update
  <2> QED
    BY <2>1, <2>2
<1>3. /\ Len(t) + 1 \in 1..Len(updates') /\ updates'[Len(t) + 1] = u
      /\ \A i \in 1..Len(t) : i \in 1..Len(updates') /\ updates'[i] = t[i]
    BY <1>2
<1> QED
    BY <1>2, <1>3 DEF NoSummaryIn

\* Taking an update of another kind leaves the summary in the queue.
LEMMA TailHolds ==
    ASSUME TypeInv, updates # <<>>, updates' = Tail(updates),
           ~NoSummaryIn(updates), Head(updates).kind # "summary"
    PROVE  ~NoSummaryIn(updates')
<1>1. updates \in Seq(Updates)
    BY DEF TypeInv, TypeOK
<1>2. PICK i \in 1..Len(updates) : updates[i].kind = "summary"
    BY DEF NoSummaryIn
<1>3. Head(updates) = updates[1] /\ i # 1
    BY <1>1, <1>2
<1>4. i - 1 \in 1..Len(updates') /\ updates'[i - 1] = updates[i]
    BY <1>1, <1>3
<1> QED
    BY <1>2, <1>4 DEF NoSummaryIn

\* On the day that adopted it, the display accepts the summary that it takes.
LEMMA TakenIsReceived ==
    ASSUME IInv, RestoredToday, updates # <<>>,
           NEW now \in Times, LocalDay[now] = adopted.summary.day,
           NEW a, NEW b, ApplyHead(now, a, b),
           ~NoSummaryIn(updates) \/ b
    PROVE  ~NoSummaryIn(updates') \/ display'.summary_received
<1>1. /\ updates' = Tail(updates)
      /\ display'.summary_received =
           (\/ b
            \/ /\ Head(updates).kind = "summary"
               /\ Current(Head(updates).summary, now))
    BY DEF ApplyHead
<1>2. CASE b
    BY <1>1, <1>2
<1>3. CASE Head(updates).kind = "summary"
  <2>1. Head(updates) = updates[1] /\ 1 \in 1..Len(updates)
    BY DEF IInv, TypeInv, TypeOK
  <2>2. Head(updates).summary = adopted.summary
    BY <1>3, <2>1 DEF IInv, DisplayKnows, OnlyAdoptedIn, RestoredToday
  <2>3. Current(Head(updates).summary, now)
    BY <2>2, NoneAssumption DEF Current, is_for, TodayOf, Times
  <2> QED
    BY <1>1, <1>3, <2>3
<1>4. CASE ~NoSummaryIn(updates) /\ Head(updates).kind # "summary"
    BY <1>1, <1>4, TailHolds DEF IInv
<1> QED
    BY <1>2, <1>3, <1>4

\* A snapshot brings a watermark of its own or takes over the one it replaces.
LEMMA QueueKeepsWatermark ==
    ASSUME NEW s \in Seq(SummaryUpdates), NEW u \in SummaryUpdates,
           \/ u.summary_received_at # None
           \/ s # <<>> /\ Head(s).summary_received_at # None
    PROVE  /\ queue_summary_update(s, u) # <<>>
           /\ Head(queue_summary_update(s, u)).summary_received_at # None
<1>1. CASE s = <<>>
    BY <1>1 DEF queue_summary_update
<1>2. CASE s # <<>>
  <2> DEFINE v == [u EXCEPT !.summary_received_at =
                     IF @ = None THEN Head(s).summary_received_at ELSE @]
  <2>1. v.summary_received_at # None
    BY <1>2 DEF SummaryUpdates
  <2>2. queue_summary_update(s, u) = <<v>>
    BY <1>2 DEF queue_summary_update
  <2> HIDE DEF v
  <2> QED
    BY <2>1, <2>2
<1> QED
    BY <1>1, <1>2

LEMMA TrackedStep == IInv /\ Tracked /\ [Next]_vars => Tracked'
<1> SUFFICES ASSUME IInv, Tracked, [Next]_vars PROVE Tracked'
    OBVIOUS
<1> USE DEF sessionVars, publishVars, displayVars, clockVars
<1>0. TypeInv
    BY DEF IInv
<1>1. CASE Tick
  <2>1. RestoredToday' => RestoredToday
    BY <1>1, StillToday
  <2> QED
    BY <1>1, <2>1 DEF Tick, Tracked, Awaits, OnItsWay, NoSummaryIn
<1>2. ASSUME NEW kind \in LiveKinds, ReceiveLive(kind) PROVE Tracked'
  <2>1. Live(kind) \in Updates
    BY DEF Live, NoSummary, Updates, Summaries, Hours
  <2>2. ~BurstsOverflow /\ ~NoSummaryIn(updates) => ~NoSummaryIn(updates')
    BY <1>0, <1>2, <2>1, QueueHolds DEF ReceiveLive, BurstFits
  <2> QED
    BY <1>2, <2>2 DEF ReceiveLive, Tracked, Awaits, OnItsWay, RestoredToday
<1>3. CASE ReceiveSummary
  <2>1. inflight \in Summaries
    BY <1>0, <1>3 DEF ReceiveSummary, TypeInv, TypeOK, Option
  <2>2. DailySummary(inflight) \in Updates /\ DailySummary(inflight).kind = "summary"
    BY <2>1 DEF DailySummary, Updates
  <2>3. ~NoSummaryIn(updates')
    BY <1>0, <1>3, <2>2, QueueHolds DEF ReceiveSummary
  <2>4. awaiting_restored_snapshot' => adopted' = [summary |-> inflight, at |-> time]
    BY <1>3 DEF ReceiveSummary
  <2>5. [summary |-> inflight, at |-> time] \in Adoptions
    BY <1>0, <2>1 DEF Adoptions, TypeInv, TypeOK
  <2>6. awaiting_restored_snapshot' => adopted' # None
    BY <2>4, <2>5, NoneAssumption
  <2> QED
    BY <1>3, <2>3, <2>6 DEF ReceiveSummary, Tracked, Awaits, OnItsWay
<1>4. CASE \/ DisplayReceives /\ ApplyHead(utc_now, FALSE, FALSE)
           \/ /\ DisplayDrains
              /\ ApplyHead(display.now, display.non_summary_update,
                           display.summary_received)
  <2>1. /\ UNCHANGED <<time, adopted, mqtt, awaiting_restored_snapshot, publications>>
        /\ updates # <<>>
    BY <1>4 DEF DisplayReceives, DisplayDrains
  <2>2. ASSUME Awaits, RestoredToday, ~BurstsOverflow
        PROVE  OnItsWay'
    <3>1. CASE publications # <<>> /\ Head(publications).summary_received_at # None
      BY <2>1, <3>1 DEF OnItsWay
    <3>2. CASE ~NoSummaryIn(updates) \/ display.summary_received
      <4>1. CASE DisplayReceives /\ ApplyHead(utc_now, FALSE, FALSE)
        <5>1. ~NoSummaryIn(updates)
          BY <3>2, <4>1 DEF DisplayReceives, IInv, DisplayKnows
        <5>2. utc_now \in Times /\ LocalDay[utc_now] = adopted.summary.day
          BY <2>2, DrainsToday DEF RestoredToday
        <5> QED
          BY <2>1, <2>2, <4>1, <5>1, <5>2, TakenIsReceived DEF OnItsWay
      <4>2. CASE /\ DisplayDrains
                 /\ ApplyHead(display.now, display.non_summary_update,
                              display.summary_received)
        <5>1. display.now \in Times /\ LocalDay[display.now] = adopted.summary.day
          BY <2>2, <4>2, DrainsToday DEF DisplayDrains
        <5> QED
          BY <2>1, <2>2, <3>2, <4>2, <5>1, TakenIsReceived DEF OnItsWay
      <4> QED
        BY <1>4, <4>1, <4>2
    <3> QED
      BY <2>2, <3>1, <3>2 DEF Tracked, OnItsWay
  <2> QED
    BY <2>1, <2>2 DEF Tracked, Awaits, RestoredToday
<1>5. CASE DisplayQueues
  <2>1. /\ UNCHANGED <<time, adopted, mqtt, awaiting_restored_snapshot, updates>>
        /\ updates = <<>>
    BY <1>5 DEF DisplayQueues
  <2>2. ASSUME Awaits, RestoredToday, ~BurstsOverflow
        PROVE  publications' # <<>> /\ Head(publications').summary_received_at # None
    <3> DEFINE u == [timestamp |-> time, hours |-> history.hours,
                     summary_received_at |->
                         IF display.summary_received THEN time ELSE None]
    <3>1. clock_set /\ time # None
      BY <1>0, <2>2, NoneAssumption
         DEF IInv, Adoption, RestoredToday, TypeInv, TypeOK, Times
    <3>2. \/ display.summary_received
          \/ publications # <<>> /\ Head(publications).summary_received_at # None
      BY <2>1, <2>2 DEF Tracked, OnItsWay, NoSummaryIn
    <3>3. CASE ~display.non_summary_update /\ ~display.summary_received
      BY <1>5, <3>2, <3>3 DEF DisplayQueues
    <3>4. CASE display.non_summary_update \/ display.summary_received
      <4>1. publications' = queue_summary_update(publications, u)
        BY <1>5, <3>1, <3>4 DEF DisplayQueues
      <4>2. u \in SummaryUpdates /\ publications \in Seq(SummaryUpdates)
        BY <1>0 DEF TypeInv, TypeOK, SummaryUpdates, Histories, Option
      <4>3. display.summary_received => u.summary_received_at # None
        BY <3>1
      <4> HIDE DEF u
      <4> QED
        BY <3>2, <4>1, <4>2, <4>3, QueueKeepsWatermark
    <3> QED
      BY <3>3, <3>4
  <2> QED
    BY <2>1, <2>2 DEF Tracked, Awaits, OnItsWay, RestoredToday
<1>6. CASE TakeSummary
    BY <1>6 DEF TakeSummary, Suppressed, Watermark, UpToDate, Tracked, Awaits, OnItsWay,
                RestoredToday
<1>7. CASE Unsubscribed
    BY <1>7 DEF Unsubscribed, Tracked, Awaits, OnItsWay, RestoredToday
<1>8. CASE ClockSync \/ IgnoreSummary
    BY <1>8 DEF ClockSync, IgnoreSummary, Tracked, Awaits, OnItsWay, RestoredToday
<1>9. CASE \/ Reboot \/ Connect \/ SubscribeSummary \/ RestoreTimeout
           \/ PublishSucceeds \/ PublishFails \/ SessionFails
    BY <1>9 DEF Reboot, Connect, SubscribeSummary, RestoreTimeout, PublishSucceeds,
                PublishFails, SessionFails, Tracked, Awaits
<1>10. CASE UNCHANGED vars
    BY <1>10 DEF vars, Tracked, Awaits, OnItsWay, RestoredToday, NoSummaryIn
<1> QED
    BY <1>1, <1>2, <1>3, <1>4, <1>5, <1>6, <1>7, <1>8, <1>9, <1>10
    DEF Next, MqttTask, RestoreEnds, PublishEnds, DisplayTask, DisplayReceives,
        DisplayDrains

\* A session that waits for the snapshot with the restored summary gets it, unless a
\* burst overflows UPDATES or local midnight passes after queue_incoming_update
\* accepted the summary: main.rs and mqtt.rs read the clock one after the other.
THEOREM StarvedByMidnightAlone == Spec => []StarvedOnlyAtMidnight
<1>1. Init => Tracked
    BY DEF Init, Booted, Tracked, Awaits
<1>2. IInv /\ Tracked => StarvedOnlyAtMidnight
  <2> SUFFICES ASSUME IInv, Tracked, Starved, ~BurstsOverflow
               PROVE  LocalDay[time] # adopted.summary.day
    BY DEF StarvedOnlyAtMidnight
  <2>1. NoSummaryIn(updates)
    BY DEF Starved, NoSummaryIn, IInv, TypeInv, TypeOK
  <2>2. publications # <<>> => Head(publications).summary_received_at = None
    BY DEF Starved, IInv, TypeInv, TypeOK
  <2>3. ~OnItsWay /\ Awaits
    BY <2>1, <2>2 DEF Starved, OnItsWay, Awaits
  <2> QED
    BY <2>3 DEF Tracked, RestoredToday
<1> QED
    BY InitIInv, NextIInv, TrackedStep, <1>1, <1>2, PTL DEF Spec

=============================================================================
