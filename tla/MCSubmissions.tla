--------------------------- MODULE MCSubmissions ----------------------------
(* Submissions for TLC. *)
EXTENDS Submissions

CONSTANTS h1, h2, i1, i2, i3

Only(hosts, ids) ==
    [hosts |-> hosts, ids |-> ids, deaths |-> 0, faults |-> 0, repeats |-> 0,
     removals |-> 0, quits |-> 0]

\* One page that gets two more identities, with a failed write, a repeated
\* request, two deaths and a quit; and two hosts whose lock file is removed.
SetupsMC ==
    {[Only({h1}, {i1, i2, i3}) EXCEPT !.deaths = 1, !.faults = 1, !.repeats = 1, !.quits = 1],
     [Only({h1, h2}, {i1, i2}) EXCEPT !.deaths = 2, !.repeats = 1],
     [Only({h1, h2}, {i1}) EXCEPT !.deaths = 1, !.removals = 2, !.repeats = 1]}
=============================================================================
