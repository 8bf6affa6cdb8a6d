----------------------------- MODULE PanicMailbox -----------------------------
(***************************************************************************)
(* What the device promises about its panics, seen from outside: it is a   *)
(* mailbox with room for one report, which the log server empties.  A      *)
(* report is delivered at least once, is taken out only after that, and    *)
(* gives way only to the report of a newer panic; what gave way or was     *)
(* taken out never comes back.  Panics are numbered in their order.        *)
(***************************************************************************)
EXTENDS Naturals

CONSTANT None

VARIABLES
    panics,    \* how many there have been
    handling,  \* has the last of them not been dealt with yet?
    record,    \* the panic whose report is in the mailbox, or None
    reported   \* the panics whose report the server has got

Init ==
    /\ panics = 0
    /\ handling = FALSE
    /\ record = None
    /\ reported = {}

Panic ==
    /\ ~handling
    /\ panics' = panics + 1
    /\ handling' = TRUE
    /\ UNCHANGED <<record, reported>>

\* The newer panic comes first: the older report is given up before the newer one
\* is there, and even if it never is.
MakeRoom ==
    /\ handling
    /\ record' = None
    /\ UNCHANGED <<panics, handling, reported>>

Deposit ==
    /\ handling
    /\ record' = panics
    /\ handling' = FALSE
    /\ UNCHANGED <<panics, reported>>

GiveUp ==
    /\ handling
    /\ handling' = FALSE
    /\ UNCHANGED <<panics, record, reported>>

\* The device does not always learn that the report has arrived.
Deliver ==
    /\ ~handling
    /\ record # None
    /\ reported' = reported \cup {record}
    /\ UNCHANGED <<panics, handling, record>>

TakeOut ==
    /\ ~handling
    /\ record \in reported
    /\ record' = None
    /\ UNCHANGED <<panics, handling, reported>>

Next == Panic \/ MakeRoom \/ Deposit \/ GiveUp \/ Deliver \/ TakeOut

Spec == Init /\ [][Next]_<<panics, handling, record, reported>>

=============================================================================
