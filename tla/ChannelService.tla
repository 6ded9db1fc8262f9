--------------------------- MODULE ChannelService ---------------------------
(***************************************************************************)
(* What a channel promises to the sessions that share it: a session is     *)
(* told that the layer is up exactly while it is enabled and there is a    *)
(* connection, the channel connects only for a session that is enabled,    *)
(* and nothing happens on it once its shutdown has been reported.          *)
(***************************************************************************)
EXTENDS FiniteSets

CONSTANT Clients

VARIABLES enabled,   \* the clients that want the connection
          link,      \* is there a connection
          up,        \* the clients that were told so
          finished   \* the shutdown has been reported

vars == <<enabled, link, up, finished>>

Init == enabled = {} /\ link = FALSE /\ up = {} /\ finished = FALSE

Enable(s) ==
    /\ s \notin enabled
    /\ enabled' = enabled \cup {s}
    /\ up' = IF link THEN up \cup {s} ELSE up
    /\ UNCHANGED <<link, finished>>

Disable(s) ==
    /\ s \in enabled
    /\ enabled' = enabled \ {s}
    /\ up' = up \ {s}
    /\ UNCHANGED <<link, finished>>

\* The last client leaves and the connection, idle, goes in the same step.
DisableLast(s) ==
    /\ enabled = {s}
    /\ enabled' = {}
    /\ link' = FALSE
    /\ up' = {}
    /\ UNCHANGED finished

Connect ==
    /\ ~link /\ ~finished
    /\ enabled # {}
    /\ link' = TRUE
    /\ up' = enabled
    /\ UNCHANGED <<enabled, finished>>

Disconnect ==
    /\ link
    /\ link' = FALSE
    /\ up' = {}
    /\ UNCHANGED <<enabled, finished>>

\* The connection goes, if there still is one, and the shutdown is reported.
Finish ==
    /\ enabled = {}
    /\ ~finished
    /\ finished' = TRUE
    /\ link' = FALSE
    /\ up' = {}
    /\ UNCHANGED enabled

Next ==
    \/ \E s \in Clients : Enable(s) \/ Disable(s) \/ DisableLast(s)
    \/ Connect \/ Disconnect \/ Finish

Spec == Init /\ [][Next]_vars
=============================================================================
