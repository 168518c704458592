----------------------------- MODULE MCTerminal -----------------------------
(* Terminal for TLC. *)
EXTENDS Terminal

CONSTANTS r1, r2

\* A window that shows two runs in turn, where only one stream fits and where
\* both do; a phone that subscribes twice to one run; and both clients at once.
SetupsMC ==
    {[runs |-> {r1, r2}, cap |-> 1, attaches |-> 1, subs |-> 0],
     [runs |-> {r1, r2}, cap |-> 2, attaches |-> 2, subs |-> 0],
     [runs |-> {r1}, cap |-> 1, attaches |-> 0, subs |-> 2],
     [runs |-> {r1}, cap |-> 1, attaches |-> 1, subs |-> 1]}
=============================================================================
