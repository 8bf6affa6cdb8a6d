------------------------- MODULE UpdateDeliveryProofs -------------------------
(***************************************************************************)
(* What UpdateDelivery promises for every set of topics that are heard and *)
(* every depth of the channel: its types, that only a burst as long as the *)
(* channel loses a value, and that it implements LatestValues.             *)
(***************************************************************************)
EXTENDS UpdateDelivery, TLAPS

(***************************************************************************)
(* The value of a topic, with each inverter's in a field of its own.  A    *)
(* status whose total is the sum of the two shows the same.                *)
(***************************************************************************)
Held(status, t) ==
    CASE t = Home   -> status.solar_current_home
      [] t = Garage -> status.solar_current_garage
      [] OTHER      -> status.live[t]

Total(status) ==
    status.solar_today = status.solar_current_home + status.solar_current_garage

Combined(board) ==
    /\ board.status.solar_current_home = board.solar
    /\ board.status.solar_current_garage = board.garage_solar
    /\ Total(board.status)

LEMMA HeldType ==
    ASSUME NEW status \in Statuses, NEW t \in Topics
    PROVE  Held(status, t) \in Nat
BY DEF Held, Statuses

LEMMA HeldIsShown ==
    ASSUME NEW status \in Statuses, NEW t \in Topics, Total(status)
    PROVE  ValueShown(status, t) = Held(status, t)
<1>1. /\ status.solar_current_home \in Nat
      /\ status.solar_current_garage \in Nat
    BY DEF Statuses
<1> QED
    BY <1>1 DEF Held, ValueShown, Total, Home, Garage

\* update_combined_solar copies the two readings and adds them up.
LEMMA CombineSolar ==
    ASSUME NEW board \in Dashboards
    PROVE  /\ update_combined_solar(board) \in Dashboards
           /\ Combined(update_combined_solar(board))
           /\ \A t \in Topics : Held(update_combined_solar(board).status, t) =
                 CASE t = Home   -> board.solar
                   [] t = Garage -> board.garage_solar
                   [] OTHER      -> Held(board.status, t)
<1> DEFINE b == update_combined_solar(board)
<1>1. /\ board.solar \in Nat /\ board.garage_solar \in Nat /\ board.status \in Statuses
      /\ board.solar + board.garage_solar \in Nat
    BY DEF Dashboards
<1>2. b = [board EXCEPT !.status = [board.status EXCEPT
                 !.solar_current_home = board.solar,
                 !.solar_current_garage = board.garage_solar,
                 !.solar_today = board.solar + board.garage_solar]]
    BY DEF update_combined_solar, Dashboards, Statuses
<1>3. /\ b \in Dashboards
      /\ b.solar = board.solar /\ b.garage_solar = board.garage_solar
      /\ b.status.solar_current_home = board.solar
      /\ b.status.solar_current_garage = board.garage_solar
      /\ b.status.solar_today = board.solar + board.garage_solar
      /\ b.status.live = board.status.live
    BY <1>1, <1>2 DEF Dashboards, Statuses
<1> HIDE DEF b
<1>4. Combined(b)
    BY <1>3 DEF Combined, Total
<1>5. Home # Garage
    BY DEF Home, Garage
<1>6. ASSUME NEW t \in Topics
      PROVE  Held(b.status, t) = CASE t = Home   -> board.solar
                                   [] t = Garage -> board.garage_solar
                                   [] OTHER      -> Held(board.status, t)
    BY <1>3, <1>5 DEF Held
<1> QED
    BY <1>3, <1>4, <1>6 DEF b

\* apply sets the value of the update's topic, and no other.
LEMMA ApplySets ==
    ASSUME NEW board \in Dashboards, Combined(board), NEW u \in Updates
    PROVE  /\ apply(board, u) \in Dashboards
           /\ Combined(apply(board, u))
           /\ \A t \in Topics : Held(apply(board, u).status, t) =
                                  IF t = u.topic THEN u.value ELSE Held(board.status, t)
<1>0. u.topic \in Topics /\ u.value \in Nat /\ Home # Garage
    BY DEF Updates, Home, Garage
<1>1. CASE u.topic = Home
  <2> DEFINE b == [board EXCEPT !.solar = u.value]
  <2>1. b \in Dashboards /\ b.solar = u.value /\ b.garage_solar = board.garage_solar
        /\ b.status = board.status
    BY <1>0 DEF Dashboards
  <2>2. apply(board, u) = update_combined_solar(b)
    BY <1>0, <1>1 DEF apply
  <2> HIDE DEF b
  <2>3. Held(board.status, Garage) = board.garage_solar
    BY <1>0 DEF Held, Combined
  <2> QED
    BY <1>0, <1>1, <2>1, <2>2, <2>3, CombineSolar
<1>2. CASE u.topic = Garage
  <2> DEFINE b == [board EXCEPT !.garage_solar = u.value]
  <2>1. b \in Dashboards /\ b.garage_solar = u.value /\ b.solar = board.solar
        /\ b.status = board.status
    BY <1>0 DEF Dashboards
  <2>2. apply(board, u) = update_combined_solar(b)
    BY <1>0, <1>2 DEF apply
  <2> HIDE DEF b
  <2>3. Held(board.status, Home) = board.solar
    BY <1>0 DEF Held, Combined
  <2> QED
    BY <1>0, <1>2, <2>1, <2>2, <2>3, CombineSolar
<1>3. CASE u.topic # Home /\ u.topic # Garage
    BY <1>0, <1>3 DEF apply, update_combined_solar, Dashboards, Statuses, Combined, Total, Held
<1> QED
    BY <1>1, <1>2, <1>3

\* The channel after queue_update: the update is last, the others keep their
\* order, and the oldest gives way only in a full channel.
LEMMA QueueUpdate ==
    ASSUME NEW s \in Seq(Updates), NEW u \in Updates, Len(s) <= UPDATE_QUEUE_DEPTH
    PROVE  \E k \in {0, 1} :
             /\ k = 1 => Len(s) = UPDATE_QUEUE_DEPTH
             /\ queue_update(s, u) \in Seq(Updates)
             /\ Len(queue_update(s, u)) = Len(s) + 1 - k
             /\ Len(s) + 1 - k <= UPDATE_QUEUE_DEPTH
             /\ queue_update(s, u)[Len(s) + 1 - k] = u
             /\ \A i \in 1..(Len(s) - k) :
                  i + k \in 1..Len(s) /\ queue_update(s, u)[i] = s[i + k]
<1>1. CASE Len(s) < UPDATE_QUEUE_DEPTH
  <2> WITNESS 0 \in {0, 1}
  <2> QED
    BY <1>1, DepthAssumption DEF queue_update
<1>2. CASE Len(s) = UPDATE_QUEUE_DEPTH
  <2> WITNESS 1 \in {0, 1}
  <2>1. s # <<>>
    BY <1>2, DepthAssumption
  <2> DEFINE r == Tail(s)
  <2>2. /\ r \in Seq(Updates) /\ Len(r) = Len(s) - 1
        /\ \A i \in 1..Len(r) : i + 1 \in 1..Len(s) /\ r[i] = s[i + 1]
    BY <2>1
  <2>3. queue_update(s, u) = Append(r, u)
    BY <1>2, DepthAssumption DEF queue_update
  <2> HIDE DEF r
  <2> QED
    BY <1>2, <2>2, <2>3, DepthAssumption
<1> QED
    BY <1>1, <1>2, DepthAssumption

(***************************************************************************)
(* The inductive invariant.  Ordered: along the way of a topic, from the   *)
(* panel over the dashboard through the channel, values never decrease.    *)
(* Placed: with fewer than UPDATE_QUEUE_DEPTH updates after it, the latest *)
(* value of a topic is in the dashboard, or in the channel with exactly    *)
(* those updates behind it; this is what makes OnlyBurstsLoseUpdates       *)
(* inductive.                                                              *)
(***************************************************************************)
Totals == Combined(dashboard) /\ Total(panel)

Drawn == display = "waiting" => panel = dashboard.status

Ordered ==
    /\ \A t \in Topics : Held(panel, t) <= Held(dashboard.status, t)
                         /\ Held(dashboard.status, t) <= latest[t]
    /\ \A i \in 1..Len(UPDATES) :
         /\ Held(dashboard.status, UPDATES[i].topic) <= UPDATES[i].value
         /\ UPDATES[i].value <= latest[UPDATES[i].topic]
    /\ \A i, j \in 1..Len(UPDATES) :
         i < j /\ UPDATES[i].topic = UPDATES[j].topic => UPDATES[i].value <= UPDATES[j].value

Placed ==
    \A t \in Topics : since[t] < UPDATE_QUEUE_DEPTH =>
        \/ Held(dashboard.status, t) = latest[t]
        \/ /\ since[t] < Len(UPDATES)
           /\ UPDATES[Len(UPDATES) - since[t]] = [topic |-> t, value |-> latest[t]]

IInv == TypeOK /\ Totals /\ Drawn /\ Ordered /\ Placed

LEMMA InitIInv == Init => IInv
<1> SUFFICES ASSUME Init PROVE IInv
    OBVIOUS
<1> USE DEF Init
<1>1. DefaultDashboard.status \in Statuses /\ DefaultDashboard \in Dashboards
    BY DEF DefaultDashboard, Dashboards, Statuses
<1>2. TypeOK
    BY <1>1, DepthAssumption DEF TypeOK
<1>3. \A t \in Topics : Held(DefaultDashboard.status, t) = 0
    BY DEF Held, DefaultDashboard
<1>4. Totals
    BY DEF Totals, Combined, Total, DefaultDashboard
<1>5. Ordered /\ Placed /\ Drawn
    BY <1>3 DEF Ordered, Placed, Drawn
<1> QED
    BY <1>2, <1>4, <1>5 DEF IInv

\* What the decoders accept is a value of a topic the panel shows.
LEMMA DecodedIsValue ==
    ASSUME NEW topic, NEW payload \in Payloads, decode_update(topic, payload) = "Ok"
    PROVE  topic \in Topics /\ IsValue(topic, payload)
BY DEF decode_update, decode_json, decode_number, decode_relay, Topics, IsValue, Payloads

LEMMA QueuedType ==
    ASSUME TypeOK
    PROVE  /\ Len(UPDATES) \in Nat
           /\ \A i \in 1..Len(UPDATES) : /\ UPDATES[i] \in Updates
                                        /\ UPDATES[i].topic \in Topics
                                        /\ UPDATES[i].value \in Nat
<1>1. UPDATES \in Seq(Updates)
    BY DEF TypeOK
<1>2. Len(UPDATES) \in Nat /\ \A i \in 1..Len(UPDATES) : UPDATES[i] \in Updates
    BY <1>1
<1> QED
    BY <1>2 DEF Updates

\* Queueing the next value of a topic.
LEMMA QueueKeepsIInv ==
    ASSUME IInv, display = "waiting", NEW topic \in Topics, Queue(topic, latest[topic] + 1)
    PROVE  IInv'
<1> USE DEF IInv
<1> DEFINE n == latest[topic] + 1
           u == [topic |-> topic, value |-> n]
<1>1. /\ u \in Updates /\ n \in Nat
      /\ latest' = [latest EXCEPT ![topic] = n]
      /\ since' = [t \in Topics |-> counted(t, topic)]
      /\ UPDATES' = queue_update(UPDATES, u)
      /\ UNCHANGED <<dashboard, display, panel>>
  <2>1. latest \in [Topics -> Nat] /\ n \in Nat /\ n # 0
    BY DEF TypeOK
  <2> QED
    BY <2>1 DEF Queue, Updates
<1>2. PICK k \in {0, 1} :
        /\ k = 1 => Len(UPDATES) = UPDATE_QUEUE_DEPTH
        /\ UPDATES' \in Seq(Updates)
        /\ Len(UPDATES') = Len(UPDATES) + 1 - k
        /\ Len(UPDATES) + 1 - k <= UPDATE_QUEUE_DEPTH
        /\ UPDATES'[Len(UPDATES) + 1 - k] = u
        /\ \A i \in 1..(Len(UPDATES) - k) :
             i + k \in 1..Len(UPDATES) /\ UPDATES'[i] = UPDATES[i + k]
  <2>1. UPDATES \in Seq(Updates) /\ Len(UPDATES) <= UPDATE_QUEUE_DEPTH
    BY DEF TypeOK
  <2> HIDE DEF u, IInv
  <2> QED
    BY <1>1, <2>1, QueueUpdate
<1>3. /\ \A t \in Topics : latest[t] \in Nat /\ latest'[t] = IF t = topic THEN n ELSE latest[t]
      /\ \A t \in Topics : since[t] \in 0..UPDATE_QUEUE_DEPTH
      /\ \A t \in Topics : since'[t] = counted(t, topic)
    BY <1>1 DEF TypeOK
<1>4. TypeOK'
    BY <1>1, <1>2, <1>3, DepthAssumption DEF TypeOK, counted
<1>5. Len(UPDATES) \in Nat /\ \A i \in 1..Len(UPDATES) :
        UPDATES[i].topic \in Topics /\ UPDATES[i].value \in Nat
    BY QueuedType
<1>6. \A t \in Topics : Held(dashboard.status, t) \in Nat
    BY HeldType DEF TypeOK, Dashboards
<1>7. Totals' /\ Drawn'
    BY <1>1 DEF Totals, Drawn
<1> HIDE DEF u
<1>8. u.topic = topic /\ u.value = n
    BY DEF u
<1>9. Ordered'
  <2>1. \A i \in 1..Len(UPDATES') :
          \/ i = Len(UPDATES) + 1 - k /\ UPDATES'[i] = u
          \/ i \in 1..(Len(UPDATES) - k) /\ i + k \in 1..Len(UPDATES) /\ UPDATES'[i] = UPDATES[i + k]
    BY <1>2, <1>5
  <2>2. \A i \in 1..Len(UPDATES') :
          /\ Held(dashboard.status, UPDATES'[i].topic) <= UPDATES'[i].value
          /\ UPDATES'[i].value <= latest'[UPDATES'[i].topic]
    <3> TAKE i \in 1..Len(UPDATES')
    <3>1. CASE UPDATES'[i] = u
      <4>1. Held(dashboard.status, topic) <= latest[topic]
        BY DEF Ordered
      <4> QED
        BY <1>3, <1>6, <1>8, <3>1, <4>1
    <3>2. CASE i + k \in 1..Len(UPDATES) /\ UPDATES'[i] = UPDATES[i + k]
      <4>1. /\ Held(dashboard.status, UPDATES[i + k].topic) <= UPDATES[i + k].value
            /\ UPDATES[i + k].value <= latest[UPDATES[i + k].topic]
        BY <3>2 DEF Ordered
      <4>2. UPDATES[i + k].topic \in Topics /\ UPDATES[i + k].value \in Nat
        BY <1>5, <3>2
      <4> QED
        BY <1>3, <3>2, <4>1, <4>2, SMTT(30)
    <3> QED
      BY <2>1, <3>1, <3>2
  <2>3. \A i, j \in 1..Len(UPDATES') :
          i < j /\ UPDATES'[i].topic = UPDATES'[j].topic => UPDATES'[i].value <= UPDATES'[j].value
    <3> SUFFICES ASSUME NEW i \in 1..Len(UPDATES'), NEW j \in 1..Len(UPDATES'), i < j,
                        UPDATES'[i].topic = UPDATES'[j].topic
                 PROVE  UPDATES'[i].value <= UPDATES'[j].value
        OBVIOUS
    <3>1. i \in 1..(Len(UPDATES) - k) /\ i + k \in 1..Len(UPDATES) /\ UPDATES'[i] = UPDATES[i + k]
        BY <1>2, <1>5, <2>1
    <3>2. CASE UPDATES'[j] = u
        BY <1>3, <1>5, <1>8, <3>1, <3>2 DEF Ordered, n
    <3>3. CASE j + k \in 1..Len(UPDATES) /\ UPDATES'[j] = UPDATES[j + k]
      <4>1. i + k < j + k
        BY <1>2
      <4> QED
        BY <3>1, <3>3, <4>1 DEF Ordered
    <3> QED
        BY <2>1, <3>2, <3>3
  <2>4. \A t \in Topics : Held(panel', t) <= Held(dashboard'.status, t)
                          /\ Held(dashboard'.status, t) <= latest'[t]
    BY <1>1, <1>3, <1>6 DEF Ordered, n
  <2> QED
    BY <1>1, <2>2, <2>3, <2>4 DEF Ordered
<1>10. Placed'
  <2> SUFFICES ASSUME NEW t \in Topics, since'[t] < UPDATE_QUEUE_DEPTH,
                      Held(dashboard.status, t) # latest'[t]
               PROVE  /\ since'[t] < Len(UPDATES')
                      /\ UPDATES'[Len(UPDATES') - since'[t]] = [topic |-> t, value |-> latest'[t]]
    BY <1>1 DEF Placed
  <2>1. CASE t = topic
    BY <1>2, <1>3, <1>5, <2>1 DEF counted, u
  <2>2. CASE t # topic
    <3>1. since'[t] = since[t] + 1 /\ since[t] \in Nat /\ since[t] + 1 < UPDATE_QUEUE_DEPTH
      BY <1>3, <2>2, DepthAssumption DEF counted
    <3>2. latest'[t] = latest[t]
      BY <1>3, <2>2
    <3>3. /\ since[t] < Len(UPDATES)
          /\ UPDATES[Len(UPDATES) - since[t]] = [topic |-> t, value |-> latest[t]]
      BY <3>1, <3>2, DepthAssumption DEF Placed
    <3>4. Len(UPDATES) - since[t] - k \in 1..(Len(UPDATES) - k)
      BY <1>2, <1>5, <3>1, <3>3, DepthAssumption
    <3>5. Len(UPDATES') - since'[t] = Len(UPDATES) - since[t] - k
      BY <1>2, <1>5, <3>1
    <3>6. UPDATES'[Len(UPDATES) - since[t] - k] = UPDATES[Len(UPDATES) - since[t]]
      <4>1. Len(UPDATES) - since[t] - k + k = Len(UPDATES) - since[t]
        BY <1>5, <3>1
      <4> QED
        BY <1>2, <3>4, <4>1
    <3> QED
      BY <1>2, <1>5, <3>1, <3>2, <3>3, <3>4, <3>5, <3>6
  <2> QED
    BY <2>1, <2>2
<1> QED
    BY <1>4, <1>7, <1>9, <1>10

\* Applying the oldest update of the channel.
LEMMA ApplyFirstKeepsIInv ==
    ASSUME IInv, ApplyFirst, display' = "draining"
    PROVE  IInv'
<1> USE DEF IInv
<1> DEFINE u == UPDATES[1]
<1>0. /\ UPDATES \in Seq(Updates) /\ UPDATES # <<>> /\ Len(UPDATES) <= UPDATE_QUEUE_DEPTH
      /\ Head(UPDATES) = u /\ 1 \in 1..Len(UPDATES)
    BY DEF ApplyFirst, TypeOK
<1>1. /\ UPDATES \in Seq(Updates) /\ UPDATES # <<>>
      /\ u \in Updates /\ u.topic \in Topics /\ u.value \in Nat
      /\ dashboard' = apply(dashboard, u) /\ UPDATES' = Tail(UPDATES)
      /\ UNCHANGED <<panel, latest, since>>
    BY <1>0, QueuedType DEF ApplyFirst
<1>2. /\ UPDATES' \in Seq(Updates) /\ Len(UPDATES) \in Nat /\ Len(UPDATES') = Len(UPDATES) - 1
      /\ \A i \in 1..Len(UPDATES') : i + 1 \in 1..Len(UPDATES) /\ UPDATES'[i] = UPDATES[i + 1]
    BY <1>1
<1>3. /\ dashboard' \in Dashboards /\ Combined(dashboard')
      /\ \A t \in Topics : Held(dashboard'.status, t) =
                             IF t = u.topic THEN u.value ELSE Held(dashboard.status, t)
  <2>1. dashboard \in Dashboards /\ Combined(dashboard)
    BY DEF TypeOK, Totals
  <2> HIDE DEF u, IInv
  <2> QED
    BY <1>1, <2>1, ApplySets
<1>4. \A t \in Topics : Held(panel, t) \in Nat /\ Held(dashboard.status, t) \in Nat
    BY HeldType DEF TypeOK, Dashboards
<1>5. 1 \in 1..Len(UPDATES)
    BY <1>0
<1>6. TypeOK'
    BY <1>0, <1>1, <1>2, <1>3, DepthAssumption DEF TypeOK
<1>7. Totals' /\ Drawn'
    BY <1>1, <1>3 DEF Totals, Drawn
<1>8. \A i \in 1..Len(UPDATES) : UPDATES[i].topic \in Topics /\ UPDATES[i].value \in Nat
    BY QueuedType
<1>9. \A t \in Topics : latest[t] \in Nat /\ since[t] \in 0..UPDATE_QUEUE_DEPTH
    BY DEF TypeOK
<1>10. Ordered'
  <2>1. \A t \in Topics : Held(panel', t) <= Held(dashboard'.status, t)
                          /\ Held(dashboard'.status, t) <= latest'[t]
    BY <1>1, <1>3, <1>4, <1>5, <1>9 DEF Ordered
  <2>2. \A i \in 1..Len(UPDATES') :
          /\ Held(dashboard'.status, UPDATES'[i].topic) <= UPDATES'[i].value
          /\ UPDATES'[i].value <= latest'[UPDATES'[i].topic]
    <3> TAKE i \in 1..Len(UPDATES')
    <3>1. i + 1 \in 1..Len(UPDATES) /\ UPDATES'[i] = UPDATES[i + 1] /\ 1 < i + 1
      BY <1>2
    <3> QED
      BY <1>1, <1>3, <1>5, <1>8, <3>1 DEF Ordered
  <2>3. \A i, j \in 1..Len(UPDATES') :
          i < j /\ UPDATES'[i].topic = UPDATES'[j].topic => UPDATES'[i].value <= UPDATES'[j].value
    <3> TAKE i, j \in 1..Len(UPDATES')
    <3>1. i < j => i + 1 < j + 1
      BY <1>2
    <3> QED
      BY <1>2, <3>1 DEF Ordered
  <2> QED
    BY <2>1, <2>2, <2>3 DEF Ordered
<1>11. Placed'
  <2> SUFFICES ASSUME NEW t \in Topics, since[t] < UPDATE_QUEUE_DEPTH,
                      Held(dashboard'.status, t) # latest[t]
               PROVE  /\ since[t] < Len(UPDATES')
                      /\ UPDATES'[Len(UPDATES') - since[t]] = [topic |-> t, value |-> latest[t]]
    BY <1>1 DEF Placed
  <2>1. since[t] \in Nat
    BY <1>9
  <2>2. Held(dashboard.status, t) # latest[t]
    \* Otherwise the update applied has a value no newer, and no older either.
    BY <1>1, <1>3, <1>4, <1>5, <1>8, <1>9 DEF Ordered
  <2>3. /\ since[t] < Len(UPDATES)
        /\ UPDATES[Len(UPDATES) - since[t]] = [topic |-> t, value |-> latest[t]]
    BY <2>2 DEF Placed
  <2>4. Len(UPDATES) - since[t] # 1
    BY <1>3, <2>3
  <2>5. Len(UPDATES') - since[t] \in 1..Len(UPDATES')
    BY <1>2, <2>1, <2>3, <2>4
  <2> QED
    BY <1>2, <2>1, <2>3, <2>5
<1> QED
    BY <1>6, <1>7, <1>10, <1>11

LEMMA DrawsKeepsIInv == ASSUME IInv, DisplayDraws PROVE IInv'
<1> USE DEF IInv, DisplayDraws
<1>1. dashboard.status \in Statuses
    BY DEF TypeOK, Dashboards
<1>2. \A t \in Topics : Held(dashboard.status, t) \in Nat
    BY <1>1, HeldType
<1>3. TypeOK'
    BY <1>1 DEF TypeOK
<1>4. Totals' /\ Drawn'
    BY DEF Totals, Drawn, Combined
<1>5. Ordered' /\ Placed'
    BY <1>2 DEF Ordered, Placed
<1> QED
    BY <1>3, <1>4, <1>5

LEMMA NextIInv == IInv /\ [Next]_vars => IInv'
<1> SUFFICES ASSUME IInv, [Next]_vars PROVE IInv'
    OBVIOUS
<1>1. CASE DisplayReceives \/ DisplayDrains
    BY <1>1, ApplyFirstKeepsIInv DEF DisplayReceives, DisplayDrains
<1>2. CASE DisplayDraws
    BY <1>2, DrawsKeepsIInv
<1>3. ASSUME NEW topic \in Heard, NEW payload \in Payloads, Arrives(topic, payload),
             decode_update(topic, payload) = "Ok"
      PROVE  IInv'
    BY <1>3, DecodedIsValue, QueueKeepsIInv DEF Arrives
<1>4. CASE UNCHANGED vars
    BY <1>4 DEF vars, IInv, TypeOK, Totals, Drawn, Ordered, Placed
<1> QED
    BY <1>1, <1>2, <1>3, <1>4 DEF Next, Display, Arrives

LEMMA Inductive == Spec => []IInv
BY InitIInv, NextIInv, PTL DEF Spec

(***************************************************************************)
(* The theorems.                                                           *)
(***************************************************************************)

\* The variables of UpdateDelivery keep their types, and UPDATES its bound.
THEOREM DeliveryTypeCorrect == Spec => []TypeOK
<1>1. IInv => TypeOK
    BY DEF IInv
<1> QED
    BY <1>1, Inductive, PTL

\* Only a burst as long as the channel keeps the latest value of a topic off the
\* panel: queue_update (mqtt.rs:427) with the display loop (main.rs:231).
THEOREM LossNeedsABurst == Spec => []OnlyBurstsLoseUpdates
<1>1. IInv => OnlyBurstsLoseUpdates
  <2> SUFFICES ASSUME IInv, NEW t \in Topics, display = "waiting", UPDATES = <<>>,
                      since[t] < UPDATE_QUEUE_DEPTH
               PROVE  Shown[t] = latest[t]
    BY DEF OnlyBurstsLoseUpdates
  <2>1. panel \in Statuses /\ Total(panel) /\ panel = dashboard.status
    BY DEF IInv, TypeOK, Totals, Drawn
  <2>2. Shown[t] = Held(panel, t)
    BY <2>1, HeldIsShown DEF Shown
  <2>3. since[t] \in Nat /\ Len(UPDATES) = 0
    BY DEF IInv, TypeOK
  <2>4. Held(dashboard.status, t) = latest[t]
    <3>1. ~(since[t] < Len(UPDATES))
      BY <2>3
    <3> QED
      BY <3>1 DEF IInv, Placed
  <2> QED
    BY <2>1, <2>2, <2>4
<1> QED
    BY <1>1, Inductive, PTL

\* The display task over the lossy channel implements LatestValues: what is shown
\* of a topic was published on it, and never goes back.
THEOREM ImplementsLatestValues == Spec => ShowsSentValuesInOrder
<1>1. Init => Latest!Init
  <2> SUFFICES ASSUME Init PROVE Shown = [t \in Topics |-> 0]
    BY DEF Init, Latest!Init
  <2> QED
    BY DEF Init, Shown, ValueShown, DefaultDashboard
<1>2. IInv /\ IInv' /\ [Next]_vars => [Latest!Next]_<<latest, Shown>>
  <2> SUFFICES ASSUME IInv, IInv', [Next]_vars PROVE [Latest!Next]_<<latest, Shown>>
    OBVIOUS
  <2>0. ASSUME UNCHANGED panel PROVE UNCHANGED Shown
    BY <2>0 DEF Shown
  <2>1. ASSUME NEW topic \in Heard, NEW payload \in Payloads, Arrives(topic, payload),
               decode_update(topic, payload) = "Ok"
        PROVE  Latest!Next
    <3>1. topic \in Topics /\ Queue(topic, latest[topic] + 1)
      BY <2>1, DecodedIsValue DEF Arrives
    <3>2. latest' = [latest EXCEPT ![topic] = @ + 1] /\ UNCHANGED panel
      <4>1. latest \in [Topics -> Nat] /\ latest[topic] + 1 # 0
        BY <3>1 DEF IInv, TypeOK
      <4> QED
        BY <3>1, <4>1 DEF Queue
    <3> QED
      BY <2>0, <3>1, <3>2 DEF Latest!Next, Latest!Send
  <2>2. CASE DisplayDraws
    <3>1. /\ panel \in Statuses /\ panel' \in Statuses /\ Total(panel) /\ Total(panel')
          /\ panel' = dashboard.status /\ UNCHANGED latest
      BY <2>2 DEF IInv, TypeOK, Totals, DisplayDraws
    <3>2. \A t \in Topics : Shown[t] = Held(panel, t)
      BY <3>1, HeldIsShown DEF Shown
    <3>3. Shown' = [t \in Topics |-> Held(panel', t)]
      BY <3>1, HeldIsShown DEF Shown
    <3>4. \A t \in Topics : Shown[t] <= Shown'[t] /\ Shown'[t] <= latest[t] /\ Shown'[t] \in Nat
      BY <3>1, <3>2, <3>3, HeldType DEF IInv, Ordered
    <3>5. Latest!Refresh
      BY <3>1, <3>3, <3>4 DEF Latest!Refresh
    <3> QED
      BY <3>5 DEF Latest!Next
  <2>3. CASE DisplayReceives \/ DisplayDrains
    BY <2>0, <2>3 DEF DisplayReceives, DisplayDrains, ApplyFirst
  <2>4. CASE UNCHANGED vars
    BY <2>0, <2>4 DEF vars
  <2> QED
    BY <2>1, <2>2, <2>3, <2>4 DEF Next, Display, Arrives
<1> QED
    BY <1>1, <1>2, Inductive, PTL DEF Spec, ShowsSentValuesInOrder, Latest!Spec

=============================================================================
