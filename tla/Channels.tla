------------------------------- MODULE Channels -------------------------------
(***************************************************************************)
(* The bounded embassy channels through which the tasks of the firmware    *)
(* talk to each other.  Every producer uses try_send, so no producer ever  *)
(* blocks; the producers differ in what they do when the channel is full.  *)
(*                                                                         *)
(* A channel is the sequence of the items it holds, oldest first.          *)
(***************************************************************************)
EXTENDS Naturals, Sequences

CONSTANTS
    None,                 \* Rust's Option::None
    UPDATE_QUEUE_DEPTH    \* capacity of UPDATES: 8 in the firmware

ASSUME DepthAssumption == UPDATE_QUEUE_DEPTH \in Nat \ {0}

(***************************************************************************)
(* A full UPDATES channel gives up its oldest item for the new one.        *)
(***************************************************************************)
queue_update_unbounded(channel, update) == Append(channel, update)
queue_update_newest_dropped(channel, update) ==
    IF Len(channel) < UPDATE_QUEUE_DEPTH THEN Append(channel, update) ELSE channel
queue_update(channel, update) ==
    IF Len(channel) < UPDATE_QUEUE_DEPTH
    THEN Append(channel, update)
    ELSE Append(Tail(channel), update)

(***************************************************************************)
(* SUMMARY_PUBLICATIONS holds one item (SUMMARY_PUBLICATION_QUEUE_DEPTH).  *)
(* An update that finds it taken replaces the waiting one, and inherits    *)
(* its restore watermark unless it brings one itself.                      *)
(***************************************************************************)
queue_summary_replaced(channel, update) == <<update>>
queue_summary_update(channel, update) ==
    IF channel = <<>>
    THEN <<update>>
    ELSE << [update EXCEPT !.summary_received_at =
                 IF @ = None THEN Head(channel).summary_received_at ELSE @] >>

=============================================================================
