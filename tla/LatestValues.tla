----------------------------- MODULE LatestValues -----------------------------
(***************************************************************************)
(* What the panel promises for the live readings, seen from outside: per   *)
(* topic, it shows a value that was sent on that topic, and never an older *)
(* one than it has shown before.  It may skip values ("the display only    *)
(* needs the latest snapshot", mqtt.rs:429), and several topics may move   *)
(* in one frame.  Values are numbered in the order they are sent, and 0 is *)
(* the default shown before the first.                                     *)
(***************************************************************************)
EXTENDS Naturals

CONSTANT Topics

VARIABLES
    sent,   \* how many values have been sent on each topic
    shown   \* which of them the panel shows

Init ==
    /\ sent = [t \in Topics |-> 0]
    /\ shown = [t \in Topics |-> 0]

Send(t) ==
    /\ sent' = [sent EXCEPT ![t] = @ + 1]
    /\ UNCHANGED shown

\* A frame: no topic goes back, none shows what was not sent.
Refresh ==
    /\ shown' \in [Topics -> Nat]
    /\ \A t \in Topics : shown[t] <= shown'[t] /\ shown'[t] <= sent[t]
    /\ UNCHANGED sent

Next == Refresh \/ \E t \in Topics : Send(t)

Spec == Init /\ [][Next]_<<sent, shown>>

=============================================================================
