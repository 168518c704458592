-------------------------------- MODULE PtyHost --------------------------------
(***************************************************************************)
(* Tasks that run an agent CLI in a pseudo-terminal:                       *)
(* core/crates/aeroric-host/src/executor.rs (CliPtyExecutor) over the run  *)
(* registry of core/crates/aeroric-core/src/runtime/registry.rs, composed  *)
(* with TaskService.                                                       *)
(*                                                                         *)
(* A run is registered from its spawn until its exit thread retires it.    *)
(* The exit thread takes three steps, and requests fall between them: it   *)
(* retires the run; it consumes the task's cancel and completion marks and *)
(* picks the status; it calls `observe`, which waits for the gate.         *)
(***************************************************************************)
EXTENDS TaskService

CONSTANTS Features,    \* which of FeatureSet the instance exercises
          MaxCrashes   \* times the host process dies (bound)

FeatureSet == {"launch_failure", "delete", "complete", "cancel", "edit",
               "watchers", "reconcile"}

ASSUME HostAssumption == Features \subseteq FeatureSet /\ MaxCrashes \in Nat

VARIABLES runs,       \* TaskRegistry: the registered runs
          cancelled,  \* cancelled_tasks
          completed,  \* manually_completed_tasks
          exits,      \* exit threads that retired their run
          reports,    \* exit threads on their way to observe
          launches,   \* history: how often each run number was spawned
          crashes

hostVars == <<runs, cancelled, completed, exits, reports>>
vars == <<svcVars, hostVars, launches, crashes>>

(* state: live, killed (signalled), or gone with a zero / non-zero code.    *)
(* asked records whether `cancel` was called while the run was registered.  *)
ExitCodes == {"ok", "error"}

Run == [task : Tasks, gen : Nat, state : {"live", "killed"} \cup ExitCodes,
        asked : BOOLEAN]

Report == [task : Tasks, gen : Nat, status : Terminal, asked : BOOLEAN]

TypeOK ==
    /\ SvcTypeOK
    /\ runs \subseteq Run
    /\ cancelled \subseteq Tasks
    /\ completed \subseteq Tasks
    /\ exits \subseteq Run
    /\ reports \subseteq Report
    /\ launches \in [Tasks -> [1..MaxGen -> Nat]]
    /\ crashes \in Nat

Init ==
    /\ SvcInit
    /\ runs = {} /\ cancelled = {} /\ completed = {} /\ exits = {} /\ reports = {}
    /\ launches = [t \in Tasks |-> [g \in 1..MaxGen |-> 0]]
    /\ crashes = 0

RunsOf(t) == {r \in runs : r.task = t}

(* RunRegistry::newest, the run a kill addresses. *)
Newest(t) == {r \in RunsOf(t) : \A q \in RunsOf(t) : q.gen <= r.gen}

(* has_live_run *)
HasLiveRun(t) == RunsOf(t) # {}

(* kill_run: SIGKILL to the newest registered run, if it is still there. *)
Killed(t) ==
    {IF r \in Newest(t) /\ r.state = "live" THEN [r EXCEPT !.state = "killed"] ELSE r :
        r \in runs}

-------------------------------------------------------------------------------
(* What the service asks of the executor. *)

(* launch / resume: activate_pty_session registers the run. *)
Launch ==
    /\ AtStep("gate", "spawn")
    /\ \E c \in work["gate"].claim :
        /\ SpawnOk(c)
        /\ runs' = runs \cup {[task |-> c.task, gen |-> c.gen,
                               state |-> "live", asked |-> FALSE]}
        /\ launches' = [launches EXCEPT ![c.task][c.gen] = @ + 1]
    /\ UNCHANGED <<cancelled, completed, exits, reports, crashes>>

LaunchFails ==
    /\ "launch_failure" \in Features
    /\ AtStep("gate", "spawn")
    /\ \E c \in work["gate"].claim : SpawnFailed(c)
    /\ UNCHANGED <<hostVars, launches, crashes>>

(* cancel: leave the mark, kill, release the claims. *)
Cancel(t) ==
    /\ "cancel" \in Features
    /\ CancelClaims(t)
    /\ cancelled' = cancelled \cup {t}
    /\ runs' = {IF r.task = t THEN [r EXCEPT !.asked = TRUE] ELSE r : r \in Killed(t)}
    /\ UNCHANGED <<completed, exits, reports, launches, crashes>>

(* complete: leave the mark and kill, or settle the row when nothing runs. *)
Complete(t) ==
    /\ "complete" \in Features
    /\ \/ /\ CompleteRunning(t)
          /\ completed' = completed \cup {t}
          /\ runs' = Killed(t)
       \/ /\ CompleteIdle(t)
          /\ UNCHANGED <<completed, runs>>
    /\ UNCHANGED <<cancelled, exits, reports, launches, crashes>>

-------------------------------------------------------------------------------
(* The processes and their exit threads. *)

ProcessExits(r, code) ==
    /\ phase # "down"
    /\ r.state = "live" \/ (r.state = "killed" /\ code = "error")
    /\ runs' = (runs \ {r}) \cup {[r EXCEPT !.state = code]}
    /\ UNCHANGED <<svcVars, cancelled, completed, exits, reports, launches, crashes>>

(* Faulty variant: a failed run is reported in a status that is no outcome. *)
ExitStatus_NotAnOutcome(r) == IF r.state = "ok" THEN "done" ELSE "interrupted"

(* settle_exit without a mark. *)
ExitStatus(r) == IF r.state = "ok" THEN "done" ELSE "failed"

(* remove_pty_handles and retire, the first thing the exit thread does. *)
RetireRun(r) ==
    /\ phase # "down"
    /\ r.state \in ExitCodes
    /\ runs' = runs \ {r}
    /\ exits' = exits \cup {r}
    /\ UNCHANGED <<svcVars, cancelled, completed, reports, launches, crashes>>

ReportOf(r, status) ==
    [task |-> r.task, gen |-> r.gen, asked |-> r.asked, status |-> status]

(* The marks win over the exit code; a completion mark means there is      *)
(* nothing left to report.                                                 *)
Outcome(r) ==
    IF r.task \in cancelled THEN {ReportOf(r, "cancelled")}
    ELSE IF r.task \in completed THEN {}
    ELSE {ReportOf(r, ExitStatus(r))}

(* The exit thread takes both marks off the task and picks the status. *)
ConsumeMarks(r) ==
    /\ phase # "down"
    /\ cancelled' = cancelled \ {r.task}
    /\ completed' = completed \ {r.task}
    /\ exits' = exits \ {r}
    /\ reports' = reports \cup Outcome(r)
    /\ UNCHANGED <<svcVars, runs, launches, crashes>>

(* The exit thread's observe; its origin is Runtime. *)
ReportExit(e) ==
    /\ Observe(e.task, e.gen, e.status, e.status = "failed", FALSE, HasLiveRun(e.task))
    /\ reports' = reports \ {e}
    /\ UNCHANGED <<runs, cancelled, completed, exits, launches, crashes>>

(* A transcript or hook watcher, which may outlive the run it follows. *)
WatcherReport(t, g, status) ==
    /\ "watchers" \in Features
    /\ launches[t][g] > 0
    /\ Observe(t, g, status, FALSE, TRUE, HasLiveRun(t))
    /\ UNCHANGED <<hostVars, launches, crashes>>

-------------------------------------------------------------------------------

(* The host is killed: its registry, marks and threads go with it. *)
Crash ==
    /\ crashes < MaxCrashes
    /\ crashes' = crashes + 1
    /\ Die
    /\ runs' = {} /\ cancelled' = {} /\ completed' = {}
    /\ exits' = {} /\ reports' = {}
    /\ UNCHANGED launches

(* The host as shipped serves right away; an embedding that reconciles    *)
(* ("reconcile") first repairs the project.                               *)
Recover ==
    /\ \/ Restart
       \/ "reconcile" \in Features /\ (Reconcile \/ Serve("repair"))
       \/ "reconcile" \notin Features /\ Serve("boot")
    /\ UNCHANGED <<hostVars, launches, crashes>>

ServiceRequest ==
    /\ \E t \in Tasks :
        \/ \E immediate \in BOOLEAN : Create(t, immediate)
        \/ \E kind \in Kinds, k \in Keys : Begin(t, kind, k)
        \/ "edit" \in Features /\ EditMetadata(t)
        \/ "delete" \in Features /\ Delete(t)
        \/ AcknowledgeTask(t)
    /\ UNCHANGED <<hostVars, launches, crashes>>

ServiceStep(th) == CommitStep(th) /\ UNCHANGED <<hostVars, launches, crashes>>

Next ==
    \/ ServiceRequest
    \/ \E th \in Threads : ServiceStep(th)
    \/ Launch \/ LaunchFails
    \/ \E t \in Tasks : Cancel(t) \/ Complete(t)
    \/ \E r \in runs : RetireRun(r) \/ \E code \in ExitCodes : ProcessExits(r, code)
    \/ \E r \in exits : ConsumeMarks(r)
    \/ \E e \in reports : ReportExit(e)
    \/ \E t \in Tasks, g \in 1..MaxGen, s \in {"running", "input_required"} :
            WatcherReport(t, g, s)
    \/ Crash \/ Recover

Spec == Init /\ [][Next]_vars

(* A thread that holds the gate runs on, a signalled process dies, an exit *)
(* thread reports, a host that went down is started again.  No request and *)
(* no agent's own exit is owed to anybody.                                 *)
Fairness ==
    /\ \A th \in Threads : WF_vars(ServiceStep(th))
    /\ WF_vars(Launch \/ LaunchFails)
    /\ WF_vars(\E r \in runs : r.state = "killed" /\ ProcessExits(r, "error"))
    /\ WF_vars(\E r \in runs : RetireRun(r))
    /\ WF_vars(\E r \in exits : ConsumeMarks(r))
    /\ SF_vars(\E e \in reports : ReportExit(e))
    /\ WF_vars(Recover)

FairSpec == Spec /\ Fairness

-------------------------------------------------------------------------------
(* Properties. *)

(* A run number is spawned at most once, whatever fails and however often   *)
(* the host restarts: begin_under_lock makes the number durable before it   *)
(* spawns, and everything that tells runs apart (the stale-event rule, the  *)
(* registry's RunKey, the terminal identity) rests on it.                   *)
RunNumbersNeverReused ==
    \A t \in Tasks, g \in 1..MaxGen : launches[t][g] <= 1

(* The launch the gate is in the middle of, if any. *)
InLaunch == IF work["gate"].op = "begin" THEN work["gate"].claim ELSE {}

(* Why numbers are not reused: memory is never behind the disk while the    *)
(* host runs, a spawned number is on disk, the number of a launch in        *)
(* progress is above every spawned one, and it is on disk before the spawn. *)
NumbersOnRecord ==
    /\ phase = "down" => work["gate"] = Idle
    /\ phase # "down" => \A t \in Tasks : durable.gens[t] <= ledger.gens[t]
    /\ \A t \in Tasks, g \in 1..MaxGen :
            launches[t][g] <= 1 /\ (launches[t][g] = 1 => g <= durable.gens[t])
    /\ work["gate"].pc \in {"ack", "spawn"} => work["gate"].op = "begin"
    /\ \A c \in InLaunch :
            /\ c.gen \in 1..MaxGen /\ c.gen <= ledger.gens[c.task]
            /\ \A h \in c.gen..MaxGen : launches[c.task][h] = 0
            /\ work["gate"].pc \in {"ack", "spawn"} => c.gen <= durable.gens[c.task]

(* The run numbers of this host are a RunNumbering: the record that         *)
(* survives a crash is the ledger file, and every spawn takes a number that *)
(* is in it and higher than those of all earlier spawns of the task.        *)
Numbering == INSTANCE RunNumbering WITH issued <- durable.gens, spawned <- launches

ImplementsNumbering == Numbering!Spec

(* As long as a run's process is alive and nobody cancelled it, its attempt *)
(* is open in memory (so its exit is not taken for a stale event, and a     *)
(* retry with its key is a duplicate) and on disk (so the next host can     *)
(* tell which runs it cut off).                                             *)
LiveRunIsOnRecord ==
    \A r \in runs : r.state \in {"live", "killed"} /\ ~r.asked =>
        /\ IsLive(ledger, r.task, r.gen)
        /\ IsLive(durable, r.task, r.gen)

GateQuiet == phase = "up" /\ work["gate"] = Idle

(* ADR-017: a task is not finished while another run of it is in flight.   *)
FinishedTaskHasNoOpenAttempt ==
    GateQuiet => \A c \in ledger.claims : rows[c.task].status \notin Terminal

(* A row that shows a run has one: when the last process of a launched task *)
(* is gone, the row leaves the live statuses (or a new run begins).         *)
Launched(t) == \E g \in 1..MaxGen : launches[t][g] > 0

Unattended(t) == Launched(t) /\ rows[t].status \in ActiveStatus /\ RunsOf(t) = {}

UnattendedRowSettles == \A t \in Tasks : Unattended(t) ~> ~Unattended(t)

(* When no operation is under way the cover table names what is on disk, so *)
(* the next operation's load entitles it to write.  (As long as no write    *)
(* has failed: a bump that fails leaves the table behind.)                  *)
IdleIsWritable ==
    (phase = "up" /\ faults = 0 /\ \A th \in Threads : work[th] = Idle) => Covered

(* An operation changes the rows it is about and no others, but for the     *)
(* copy of the run number: a write brings that of every row to the ledger's *)
(* number and never to another, also after a write that failed or a host    *)
(* that died has left a copy behind.                                        *)
Body(row) == [row EXCEPT !.gen = 0]

WritesOnlyItsOwnRows ==
    [][\A t \in Tasks :
          /\ Body(rows'[t]) # Body(rows[t]) =>
                \E th \in Threads : AtStep(th, "write") /\ t \in work[th].ids
          /\ Present(rows'[t]) /\ rows'[t].gen # rows[t].gen =>
                rows'[t].gen = ledger.gens[t]]_vars

(* A row leaves the list only by the delete that names it. *)
OnlyDeleteRemovesRows ==
    [][\A t \in Tasks : Present(rows[t]) /\ ~Present(rows'[t]) =>
          \E th \in Threads : AtStep(th, "write") /\ work[th].op = "delete"
                              /\ t \in work[th].ids]_vars

(* ADR-030: the cancel mark decides the exit of the runs that were          *)
(* cancelled, and of no other.                                              *)
CancelMarkIsForItsRun == \A e \in reports : e.status = "cancelled" => e.asked

(* completedAt of a finished task is the time its last run ended. *)
CompletedAtIsOfTheLastRun ==
    GateQuiet => \A t \in Tasks :
        rows[t].status \in Terminal /\ Launched(t)
            => \A g \in 1..MaxGen : launches[t][g] > 0 => rows[t].ended > g

(* Requests are served only once every attempt the last process left open   *)
(* has been settled: no claim outlives the process that could report it.    *)
NoClaimWithoutARun ==
    GateQuiet => \A c \in ledger.claims :
        \/ \E r \in runs \cup exits : r.task = c.task /\ r.gen = c.gen
        \/ \E e \in reports : e.task = c.task /\ e.gen = c.gen
===============================================================================
