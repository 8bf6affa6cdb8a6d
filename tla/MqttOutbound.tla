----------------------------- MODULE MqttOutbound -----------------------------
(***************************************************************************)
(* What the device sends over MQTT: a press of the key toggles a dimmer    *)
(* (buttons.rs, mqtt.rs), an hour gets its summary.  Both are publications *)
(* of QoS 1, and the client keeps one unacknowledged publication at most   *)
(* (SEND_MAXIMUM), which outlives the connection.  A summary goes out      *)
(* under the identifier of such a publication, a toggle is refused.  A     *)
(* publication that the client or the network refuses ends the session,    *)
(* and the outer loop of run() connects again.                             *)
(*                                                                         *)
(* What becomes of the summaries is the subject of SummarySync; here they  *)
(* compete with the toggles.                                               *)
(***************************************************************************)
EXTENDS WifiConnection

CONSTANTS
    None,           \* Rust's Option::None
    OVENPLAAT_DIMMER_COMMAND_QUEUE_DEPTH,   \* 8
    MaxPresses,     \* bound on the presses of the key
    MaxFailures,    \* bound on the connections that fail although the link is up
    MaxSummaries    \* bound on the summaries that are due

ASSUME OutboundAssumption ==
    /\ OVENPLAAT_DIMMER_COMMAND_QUEUE_DEPTH \in Nat \ {0}
    /\ MaxPresses \in Nat /\ MaxFailures \in Nat /\ MaxSummaries \in Nat
    /\ None \notin {"toggle", "summary"}

Publications == {"toggle", "summary"}

VARIABLES
    commands,   \* how many commands OVENPLAAT_DIMMER_COMMANDS holds
    mqtt,       \* where run() is
    hand,       \* what is being published: None, "toggle" or "summary"
    due,        \* SUMMARY_PUBLICATIONS holds a snapshot of an hour without summary
    pending,    \* outbound_publishes.first(): None, or what was last sent as it
    out,        \* how many publications of each kind are on their way
    acks,       \* how many PUBACKs are on their way back
    presses,    \* the presses of the key so far
    summaries,  \* the summaries that were due so far
    failures,   \* the failures over a link that is up so far
    toggled,    \* history variables: the toggles the broker received,
    overflowed, \* the presses that found the channel full,
    cut,        \* the toggles that were lost with their connection, and
    repeated    \* those that had left when their publication failed

wireVars == <<out, acks>>
boundVars == <<presses, summaries, failures>>
fateVars == <<toggled, overflowed, cut, repeated>>
outboundVars == <<commands, mqtt, hand, due, pending, wireVars, boundVars, fateVars>>
vars == <<wifiVars, outboundVars>>

Init ==
    /\ WifiInit
    /\ commands = 0
    /\ mqtt = "offline" /\ hand = None /\ due = FALSE
    /\ pending = None
    /\ out = [p \in Publications |-> 0] /\ acks = 0
    /\ presses = 0 /\ summaries = 0 /\ failures = 0
    /\ toggled = 0 /\ overflowed = 0 /\ cut = 0 /\ repeated = 0

-----------------------------------------------------------------------------
(* The key and the display. *)

\* try_send: a command that finds the channel full is dropped.
queue_ovenplaat_dimmer_toggle_unbounded ==
    commands' = commands + 1 /\ UNCHANGED overflowed
queue_ovenplaat_dimmer_toggle ==
    IF commands < OVENPLAAT_DIMMER_COMMAND_QUEUE_DEPTH
    THEN commands' = commands + 1 /\ UNCHANGED overflowed
    ELSE overflowed' = overflowed + 1 /\ UNCHANGED commands

\* A turn of monitor_key in which the key is low after the debounce interval.
KeyPressed ==
    /\ presses < MaxPresses
    /\ presses' = presses + 1
    /\ queue_ovenplaat_dimmer_toggle
    /\ UNCHANGED <<mqtt, hand, due, pending, wireVars, summaries, failures,
                   toggled, cut, repeated>>

\* The display queues a snapshot in an hour that has no summary yet.
SummaryDue ==
    /\ ~due
    /\ summaries < MaxSummaries
    /\ summaries' = summaries + 1
    /\ due' = TRUE
    /\ UNCHANGED <<commands, mqtt, hand, pending, wireVars, presses, failures, fateVars>>

-----------------------------------------------------------------------------
(* run(): from wait_config_up to the session and back. *)

\* Without a link everything fails; with one, MaxFailures times.
Fault ==
    IF config_up
    THEN failures < MaxFailures /\ failures' = failures + 1
    ELSE UNCHANGED failures

Enter(stage) ==
    /\ mqtt' = stage
    /\ UNCHANGED <<commands, hand, wireVars, presses, summaries, fateVars>>

ConfigUp ==
    /\ mqtt = "offline" /\ config_up
    /\ Enter("resolving")
    /\ UNCHANGED <<due, pending, failures>>

Resolved ==
    /\ mqtt = "resolving" /\ config_up
    /\ Enter("dialing")
    /\ UNCHANGED <<due, pending, failures>>

Dialed ==
    /\ mqtt = "dialing" /\ config_up
    /\ Enter("greeting")
    /\ UNCHANGED <<due, pending, failures>>

\* The broker still has the session, and so has the client; or both begin anew.
\* run_session starts by emptying SUMMARY_PUBLICATIONS.
Greeted ==
    /\ mqtt = "greeting" /\ config_up
    /\ Enter("restoring")
    /\ pending' \in {pending, None}
    /\ due' = FALSE
    /\ UNCHANGED failures

\* A DNS error, timeout or IPv6 answer; a TCP or handshake error or timeout.  The
\* client's session is kept for the next attempt.
AttemptFails_gives_up ==
    /\ mqtt \in {"resolving", "dialing", "greeting"}
    /\ Fault
    /\ Enter("stopped")
    /\ UNCHANGED <<due, pending>>
AttemptFails ==
    /\ mqtt \in {"resolving", "dialing", "greeting"}
    /\ Fault
    /\ Enter("resting")
    /\ UNCHANGED <<due, pending>>

\* SUMMARY_PUBLICATIONS is emptied again unless a restored snapshot is awaited.
RestoreEnds ==
    /\ mqtt = "restoring" /\ config_up
    /\ Enter("idle")
    /\ due' \in {due, FALSE}
    /\ UNCHANGED <<pending, failures>>

ReconnectDelayOver ==
    /\ mqtt = "resting"
    /\ Enter("offline")
    /\ UNCHANGED <<due, pending, failures>>

\* Whatever is on the way when the socket is aborted arrives or does not; nothing
\* sends a toggle again.
SessionEnds(toggles) ==
    /\ mqtt' = "resting" /\ hand' = None
    /\ \E received \in 0..toggles :
         /\ toggled' = toggled + received
         /\ cut' = cut + (toggles - received)
    /\ out' = [p \in Publications |-> 0] /\ acks' = 0

\* The client reads what the broker sends while it restores, and in a session once
\* the first two arms of select4 have nothing.
Reads == mqtt = "restoring" \/ (mqtt = "idle" /\ ~due /\ commands = 0)

\* poll, ping, or a request of the restore fails.
SessionFails ==
    /\ Reads
    /\ Fault
    /\ SessionEnds(out["toggle"])
    /\ UNCHANGED <<commands, due, pending, presses, summaries, overflowed, repeated>>

-----------------------------------------------------------------------------
(* The arms of select4.  Its order decides when a summary and a command are  *)
(* both there.                                                               *)

TakeSummary ==
    /\ mqtt = "idle" /\ due
    /\ mqtt' = "publishing" /\ hand' = "summary" /\ due' = FALSE
    /\ UNCHANGED <<commands, pending, wireVars, boundVars, fateVars>>

TakeToggle ==
    /\ mqtt = "idle" /\ ~due /\ commands > 0
    /\ mqtt' = "publishing" /\ hand' = "toggle" /\ commands' = commands - 1
    /\ UNCHANGED <<due, pending, wireVars, boundVars, fateVars>>

\* A toggle is always publish()ed, a summary is republish()ed in place of what is
\* pending.  SEND_MAXIMUM = 1: the client takes no second unacknowledged publication.
Accepted_identifier_shared == TRUE
Accepted == hand = "toggle" => pending = None

PublishSucceeds ==
    /\ mqtt = "publishing" /\ config_up /\ Accepted
    /\ pending' = hand
    /\ out' = [out EXCEPT ![hand] = @ + 1]
    /\ mqtt' = "idle" /\ hand' = None
    /\ UNCHANGED <<commands, due, acks, boundVars, fateVars>>

\* What failed is queued again before the session ends.
Requeue_summary_only ==
    IF hand = "toggle" THEN UNCHANGED <<commands, overflowed, due>>
                       ELSE due' = TRUE /\ UNCHANGED <<commands, overflowed>>
Requeue ==
    IF hand = "toggle"
    THEN queue_ovenplaat_dimmer_toggle /\ UNCHANGED due
    ELSE due' = TRUE /\ UNCHANGED <<commands, overflowed>>

PublishRefused ==
    /\ mqtt = "publishing" /\ ~Accepted
    /\ Requeue
    /\ SessionEnds(out["toggle"])
    /\ UNCHANGED <<pending, boundVars, repeated>>

\* The network fails, before the packet leaves or after.
PublishFails ==
    /\ mqtt = "publishing" /\ Accepted
    /\ Fault
    /\ Requeue
    /\ \/ /\ SessionEnds(out["toggle"])
          /\ pending' \in {pending, hand}
          /\ UNCHANGED repeated
       \/ /\ SessionEnds(out["toggle"] + (IF hand = "toggle" THEN 1 ELSE 0))
          /\ pending' = hand
          /\ repeated' = repeated + (IF hand = "toggle" THEN 1 ELSE 0)
    /\ UNCHANGED <<presses, summaries>>

\* The third arm, poll: one PUBACK frees the identifier.  A second one, for a
\* summary that went out after a toggle that was not lost, is ignored or ends
\* the session.
\* Its header and its body are two awaits in the code (mqtt.rs:298 and 321); no press
\* comes between them here.
Puback ==
    /\ Reads /\ acks > 0
    /\ pending' = None
    /\ \/ /\ acks' = acks - 1
          /\ UNCHANGED <<mqtt, hand, out, toggled, cut>>
       \/ /\ pending = None
          /\ SessionEnds(out["toggle"])
    /\ UNCHANGED <<commands, due, boundVars, overflowed, repeated>>

\* The broker takes a publication and acknowledges it.
BrokerReceives(p) ==
    /\ out[p] > 0
    /\ out' = [out EXCEPT ![p] = @ - 1]
    /\ acks' = acks + 1
    /\ toggled' = IF p = "toggle" THEN toggled + 1 ELSE toggled
    /\ UNCHANGED <<commands, mqtt, hand, due, pending, boundVars, overflowed, cut, repeated>>

OutboundNext ==
    \/ KeyPressed \/ SummaryDue
    \/ ConfigUp \/ Resolved \/ Dialed \/ Greeted \/ AttemptFails
    \/ RestoreEnds \/ ReconnectDelayOver \/ SessionFails
    \/ TakeSummary \/ TakeToggle
    \/ PublishSucceeds \/ PublishRefused \/ PublishFails
    \/ Puback
    \/ \E p \in Publications : BrokerReceives(p)

Next ==
    \/ WifiNext /\ UNCHANGED outboundVars
    \/ OutboundNext /\ UNCHANGED wifiVars

Spec == Init /\ [][Next]_vars

\* The executor polls what is ready, timers and timeouts expire, a dead link is
\* noticed, and the broker answers.
Fairness ==
    /\ WifiFairness
    /\ WF_outboundVars(ConfigUp) /\ WF_outboundVars(ReconnectDelayOver)
    /\ WF_outboundVars(AttemptFails \/ Resolved \/ Dialed \/ Greeted)
    /\ WF_outboundVars(RestoreEnds) /\ WF_outboundVars(~config_up /\ SessionFails)
    /\ WF_outboundVars(TakeSummary \/ TakeToggle)
    /\ WF_outboundVars(PublishSucceeds \/ PublishRefused \/ PublishFails)
    /\ WF_outboundVars(Puback)
    /\ \A p \in Publications : WF_outboundVars(BrokerReceives(p))

FairSpec == Spec /\ Fairness

-----------------------------------------------------------------------------
(* Properties. *)

TypeOK ==
    /\ WifiTypeOK
    /\ commands \in 0..OVENPLAAT_DIMMER_COMMAND_QUEUE_DEPTH
    /\ mqtt \in {"offline", "resolving", "dialing", "greeting", "restoring", "idle",
                 "publishing", "resting"}
    /\ hand \in Publications \cup {None} /\ (hand = None <=> mqtt # "publishing")
    /\ due \in BOOLEAN
    /\ pending \in Publications \cup {None}
    /\ out \in [Publications -> Nat] /\ acks \in Nat
    /\ presses \in 0..MaxPresses /\ summaries \in 0..MaxSummaries
    /\ failures \in 0..MaxFailures
    /\ toggled \in Nat /\ overflowed \in Nat /\ cut \in Nat /\ repeated \in Nat

InHand == IF hand = "toggle" THEN 1 ELSE 0

\* Every press is still queued, in hand or on its way, was received, found the
\* channel full, or was lost with its connection; and the broker sees one twice
\* only if its publication failed after it had left.  Nothing else drops or
\* repeats a toggle: mqtt.rs:316 queues it again whatever the error was.
PressesAccountedFor ==
    presses + repeated = commands + InHand + out["toggle"] + toggled + overflowed + cut

\* An unacknowledged publication survives the connection, and the session ends on
\* every toggle that finds one.
Blocked == pending # None /\ commands + InHand > 0

\* A command that meets a publication without PUBACK cannot be published before the
\* broker begins a new session: it is tried again at once in every session, before
\* the client reads a PUBACK, and a summary that goes out in the meantime takes
\* over the identifier with a PUBACK that is not read either (mqtt.rs:517).
BlockedUntilNewSession ==
    [][Blocked => Blocked' \/ mqtt = "greeting"]_vars

\* Once the network stays up, the device gets back into a session and stays in it,
\* and every command is published; or, if a command meets a publication whose
\* PUBACK was lost, the session ends again and again.  Nothing else keeps it
\* from settling.
SessionSettlesOrIsBlocked ==
    \/ <>[](mqtt = "idle" /\ commands = 0 /\ out["toggle"] = 0)
    \/ <>[]Blocked

=============================================================================
