---------------------------- MODULE ConsoleStatus -----------------------------
(***************************************************************************)
(* What a console session promises to whoever watches its `conn` events:   *)
(* it announces each attempt, goes live only from an attempt, fails for    *)
(* good, says "closed" once as its last word, and does so after it was     *)
(* asked to stop or has failed.                                            *)
(***************************************************************************)
VARIABLES
    conn,    \* the last event announced
    stop     \* the session was asked to stop

Statuses == {"none", "connecting", "live", "retrying", "failed", "closed"}

Init == conn = "none" /\ stop = FALSE

\* One attempt after another, until the session fails or closes.
Follows(last, next) ==
    \/ next = "connecting" /\ last \in {"none", "connecting", "live", "retrying"}
    \/ next = "live" /\ last = "connecting"
    \/ next \in {"retrying", "failed"} /\ last \in {"connecting", "live"}

Announce == Follows(conn, conn') /\ UNCHANGED stop

MayClose == conn # "closed" /\ (conn = "failed" \/ stop)

Close == MayClose /\ conn' = "closed" /\ UNCHANGED stop

Ask ==
    /\ ~stop /\ stop' = TRUE
    /\ UNCHANGED conn

Next == Announce \/ Close \/ Ask

vars == <<conn, stop>>

Safety == Init /\ [][Next]_vars

Spec == Safety /\ WF_vars(Close)

=============================================================================
