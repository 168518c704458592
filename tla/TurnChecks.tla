----------------------------- MODULE TurnChecks -----------------------------
(***************************************************************************)
(* The turn tracker (sessions/live/turn_changes.rs) and the automatic      *)
(* checks it starts (sessions/live/auto_check.rs), for a set of sessions.  *)
(*                                                                         *)
(* Every session's driver tells the tracker that a turn starts or ended,   *)
(* on the driver's own thread; the tracker passes the call on to the sinks *)
(* beneath it.  At an end it first spawns a thread that compares the two   *)
(* snapshots of the working tree, may start the project's checks on yet    *)
(* another thread, and only then tells its hook that the turn is settled.  *)
(* So for one turn three threads race: the driver's, on its way down the   *)
(* sinks; the settling one; and the checks'.                               *)
(*                                                                         *)
(* The actions below are the tracker's share of a step.  A module that     *)
(* extends this one conjoins what the sinks and the hook do in it.         *)
(***************************************************************************)
EXTENDS Naturals, FiniteSets

CONSTANTS Tasks,      \* the sessions whose drivers tell the tracker
          Tracked,    \* those it watches: the ones that are not remote
          MaxTurns    \* turns of one session in a behaviour

VARIABLES turn,       \* the number of the session's latest turn, 0 before it
          phase,      \* "idle", "active", or "ending": the tracker was told of
                      \* the end, the sinks beneath it were not yet
          settling,   \* the threads turn_ended spawned and that did not end
          checks,     \* the threads of AutoChecker::start that did not end
          running     \* AutoChecker::running: the turn being checked, or 0

turnVars == <<turn, phase, settling, checks, running>>

ASSUME MaxTurnsAssumption == MaxTurns \in Nat \ {0}
ASSUME TrackedAssumption == Tracked \subseteq Tasks

Turns == 1..MaxTurns
Reasons == {"completed", "interrupted"}
Settling == [turn : Turns, reason : Reasons, step : {"diff", "hook"}, diff : BOOLEAN,
             checking : BOOLEAN]
Checks == [turn : Turns, step : {"spawned", "running"}, cancel : BOOLEAN]
Verdicts == {"skipped", "passed", "failed", "cancelled"}

TurnTypeOK ==
    /\ turn \in [Tasks -> 0..MaxTurns]
    /\ phase \in [Tasks -> {"idle", "active", "ending"}]
    /\ settling \in [Tasks -> SUBSET Settling]
    /\ checks \in [Tasks -> SUBSET Checks]
    /\ running \in [Tasks -> 0..MaxTurns]

TurnInit ==
    /\ turn = [t \in Tasks |-> 0]
    /\ phase = [t \in Tasks |-> "idle"]
    /\ settling = [t \in Tasks |-> {}]
    /\ checks = [t \in Tasks |-> {}]
    /\ running = [t \in Tasks |-> 0]

-----------------------------------------------------------------------------
(* AutoChecker::cancel sets the flag of the run that is registered, if any. *)
Cancelled(t) ==
    {IF c.turn = running[t] THEN [c EXCEPT !.cancel = TRUE] ELSE c : c \in checks[t]}

(* TurnStarted: what is being checked is told to stop.                     *)
TurnStarted(t) ==
    /\ phase[t] = "idle"
    /\ turn[t] < MaxTurns
    /\ turn' = [turn EXCEPT ![t] = @ + 1]
    /\ phase' = [phase EXCEPT ![t] = "active"]
    /\ checks' = [checks EXCEPT ![t] = Cancelled(t)]
    /\ running' = [running EXCEPT ![t] = 0]
    /\ UNCHANGED settling

(* TurnEnded at the tracker: the settling thread is spawned before the call *)
(* goes on to the sinks.  A turn of a session it does not watch has no     *)
(* start entry, and nothing settles it.                                    *)
TurnEnded(t, reason) ==
    /\ phase[t] = "active"
    /\ phase' = [phase EXCEPT ![t] = "ending"]
    /\ IF t \in Tracked
       THEN settling' = [settling EXCEPT ![t] = @ \cup
               {[turn |-> turn[t], reason |-> reason, step |-> "diff", diff |-> FALSE,
                 checking |-> FALSE]}]
       ELSE UNCHANGED settling
    /\ UNCHANGED <<turn, checks, running>>

(* The same TurnEnded, now past the sinks beneath the tracker.             *)
TurnEndedAtSinks(t) ==
    /\ phase[t] = "ending"
    /\ phase' = [phase EXCEPT ![t] = "idle"]
    /\ UNCHANGED <<turn, settling, checks, running>>

(* The settling thread compared the snapshots, and nothing is checked: no  *)
(* file changed, the turn did not complete, or the project runs no checks. *)
NothingToCheck(t, s, changed) ==
    /\ s \in settling[t] /\ s.step = "diff"
    /\ settling' = [settling EXCEPT ![t] =
           (@ \ {s}) \cup {[s EXCEPT !.step = "hook", !.diff = changed]}]
    /\ UNCHANGED <<turn, phase, checks, running>>

(* AutoChecker::start for a completed turn that changed files: it cancels  *)
(* the run before, registers its own and spawns its thread.                *)
StartChecks(t, s) ==
    /\ s \in settling[t] /\ s.step = "diff" /\ s.reason = "completed"
    /\ checks' = [checks EXCEPT ![t] = Cancelled(t) \cup
           {[turn |-> s.turn, step |-> "spawned", cancel |-> FALSE]}]
    /\ running' = [running EXCEPT ![t] = s.turn]
    /\ settling' = [settling EXCEPT ![t] =
           (@ \ {s}) \cup {[s EXCEPT !.step = "hook", !.diff = TRUE, !.checking = TRUE]}]
    /\ UNCHANGED <<turn, phase>>

(* The settling thread tells the hook and ends.                            *)
Settled(t, s) ==
    /\ s \in settling[t] /\ s.step = "hook"
    /\ settling' = [settling EXCEPT ![t] = @ \ {s}]
    /\ UNCHANGED <<turn, phase, checks, running>>

(* There is something to run: "running" is reported, and nobody minds.     *)
CheckBegins(t, c) ==
    /\ c \in checks[t] /\ c.step = "spawned"
    /\ checks' = [checks EXCEPT ![t] = (@ \ {c}) \cup {[c EXCEPT !.step = "running"]}]
    /\ UNCHANGED <<turn, phase, settling, running>>

(* The verdict of a run: no specs were found, or the commands ended; a run *)
(* that was told to stop may have ended before it looked.                  *)
MayReport(c, verdict) ==
    \/ c.step = "spawned" /\ verdict = "skipped"
    \/ c.step = "running" /\ verdict \in {"passed", "failed"}
    \/ c.step = "running" /\ verdict = "cancelled" /\ c.cancel

(* AutoChecker::push of the verdict, down the sinks, and finish: the       *)
(* registration is removed unless a later run replaced it.                 *)
CheckReports(t, c, verdict) ==
    /\ c \in checks[t]
    /\ MayReport(c, verdict)
    /\ checks' = [checks EXCEPT ![t] = @ \ {c}]
    /\ running' = [running EXCEPT ![t] = IF @ = c.turn THEN 0 ELSE @]
    /\ UNCHANGED <<turn, phase, settling>>

=============================================================================
