---------------------------- MODULE WifiConnection ----------------------------
(***************************************************************************)
(* The Wi-Fi link (net.rs): connection_task connects, waits for the link   *)
(* to go, and tries again after a delay that doubles up to half a minute.  *)
(* The stack has an address, "config up", once DHCP answered on the link.  *)
(***************************************************************************)
EXTENDS Naturals, Sequences

CONSTANTS
    INITIAL_RECONNECT_DELAY_SECS,   \* 2
    MAX_RECONNECT_DELAY_SECS,       \* 30
    MaxDisconnects                  \* bound on the links lost

ASSUME DelayAssumption ==
    /\ INITIAL_RECONNECT_DELAY_SECS = 2 /\ MAX_RECONNECT_DELAY_SECS = 30
    /\ MaxDisconnects \in Nat

VARIABLES
    wifi,                   \* "connecting", "connected" or "waiting" to retry
    reconnect_delay_secs,
    config_up,              \* the stack has an address
    waits,                  \* history variable: waits since the last connection
    disconnects             \* the links lost so far

wifiVars == <<wifi, reconnect_delay_secs, config_up, waits, disconnects>>

\* The delays of connection_task's waits after a connection: the fifth and all
\* later ones are MAX_RECONNECT_DELAY_SECS.
Delays == <<2, 4, 8, 16, 30>>

WifiInit ==
    /\ wifi = "connecting"
    /\ reconnect_delay_secs = INITIAL_RECONNECT_DELAY_SECS
    /\ config_up = FALSE
    /\ waits = 0
    /\ disconnects = 0

\* The address goes with the link.
MayLoseAddress == config_up' \in {config_up, FALSE}

ConnectSucceeds_delay_kept ==
    /\ wifi = "connecting"
    /\ wifi' = "connected"
    /\ waits' = 0
    /\ MayLoseAddress
    /\ UNCHANGED <<reconnect_delay_secs, disconnects>>
ConnectSucceeds ==
    /\ wifi = "connecting"
    /\ wifi' = "connected"
    /\ reconnect_delay_secs' = INITIAL_RECONNECT_DELAY_SECS
    /\ waits' = 0
    /\ MayLoseAddress
    /\ UNCHANGED disconnects

Wait ==
    /\ wifi' = "waiting"
    /\ waits' = IF waits < Len(Delays) THEN waits + 1 ELSE waits
    /\ UNCHANGED reconnect_delay_secs

ConnectFails ==
    /\ wifi = "connecting"
    /\ Wait
    /\ MayLoseAddress
    /\ UNCHANGED disconnects

\* wait_for_disconnect_async returns: the link is gone, or only the wait failed and the
\* link lasts until one of the next attempts to connect at most.
Disconnects ==
    /\ wifi = "connected"
    /\ disconnects < MaxDisconnects
    /\ disconnects' = disconnects + 1
    /\ MayLoseAddress
    /\ Wait

Doubled == IF reconnect_delay_secs * 2 < MAX_RECONNECT_DELAY_SECS
           THEN reconnect_delay_secs * 2 ELSE MAX_RECONNECT_DELAY_SECS

Retry ==
    /\ wifi = "waiting"
    /\ wifi' = "connecting"
    /\ reconnect_delay_secs' = Doubled
    /\ UNCHANGED <<config_up, waits, disconnects>>

DhcpAnswers ==
    /\ wifi = "connected" /\ ~config_up
    /\ config_up' = TRUE
    /\ UNCHANGED <<wifi, reconnect_delay_secs, waits, disconnects>>

WifiNext == ConnectSucceeds \/ ConnectFails \/ Disconnects \/ Retry \/ DhcpAnswers

\* The tasks run, DHCP answers on a link, and an access point that is tried again
\* and again lets the station in at last.
WifiFairness ==
    /\ WF_wifiVars(ConnectSucceeds \/ ConnectFails) /\ SF_wifiVars(ConnectSucceeds)
    /\ WF_wifiVars(Retry) /\ WF_wifiVars(DhcpAnswers)

-----------------------------------------------------------------------------

WifiTypeOK ==
    /\ wifi \in {"connecting", "connected", "waiting"}
    /\ reconnect_delay_secs \in INITIAL_RECONNECT_DELAY_SECS..MAX_RECONNECT_DELAY_SECS
    /\ config_up \in BOOLEAN
    /\ waits \in 0..Len(Delays)
    /\ disconnects \in 0..MaxDisconnects

\* The n-th wait since the last connection lasts as long as Delays says: the
\* delay starts again from two seconds after a connection, and stays capped
\* however long an outage lasts (net.rs:22 and 38).
DelaysFollowTheOutage == wifi = "waiting" => reconnect_delay_secs = Delays[waits]

=============================================================================
