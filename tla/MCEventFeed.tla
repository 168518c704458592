---------------------------- MODULE MCEventFeed -----------------------------
(* EventFeed for TLC. *)
EXTENDS EventFeed

CONSTANTS t1, t2

\* One task that outruns a ring of two events; two tasks; a connection that is
\* lost with and without the host.
SetupsMC ==
    {[tasks |-> {t1}, observer |-> FALSE, statuses |-> 4, conns |-> 1, lives |-> 1],
     [tasks |-> {t1, t2}, observer |-> FALSE, statuses |-> 2, conns |-> 1, lives |-> 1],
     [tasks |-> {t1}, observer |-> FALSE, statuses |-> 3, conns |-> 2, lives |-> 2],
     [tasks |-> {t1}, observer |-> TRUE, statuses |-> 2, conns |-> 1, lives |-> 1]}
=============================================================================
