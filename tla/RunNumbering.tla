----------------------------- MODULE RunNumbering -----------------------------
(***************************************************************************)
(* What the generation counter of a task promises to everything that tells *)
(* runs apart by their number (the stale-event rule, the run registry, the *)
(* terminal identity): a run is spawned only under a number that is on     *)
(* disk by then, higher than that of every run spawned before it, and the  *)
(* record never goes back, crashes and failed writes included.             *)
(***************************************************************************)
EXTENDS Naturals

CONSTANTS Tasks,   \* task ids
          MaxGen   \* run numbers handed out per task (bound)

VARIABLES issued,   \* the highest number on disk for each task
          spawned   \* how often each number was spawned

numVars == <<issued, spawned>>

Init ==
    /\ issued = [t \in Tasks |-> 0]
    /\ spawned = [t \in Tasks |-> [g \in 1..MaxGen |-> 0]]

(* Numbers of several tasks may reach the disk together. *)
Issue ==
    /\ issued' \in [Tasks -> Nat]
    /\ \A t \in Tasks : issued[t] <= issued'[t]
    /\ UNCHANGED spawned

Spawn(t, g) ==
    /\ g <= issued[t]
    /\ \A h \in g..MaxGen : spawned[t][h] = 0
    /\ spawned' = [spawned EXCEPT ![t][g] = @ + 1]
    /\ UNCHANGED issued

Next == Issue \/ \E t \in Tasks, g \in 1..MaxGen : Spawn(t, g)

Spec == Init /\ [][Next]_numVars
===============================================================================
