------------------------------ MODULE TaskService ------------------------------
(***************************************************************************)
(* TaskService (core/crates/aeroric-core/src/tasks/service.rs) for one     *)
(* project: the task list on disk, the cover table of runtime.json, the    *)
(* operation ledger in memory and on disk, and the read-modify-write of    *)
(* every operation.  The processes belong to a host; the module PtyHost    *)
(* extends this one with them and conjoins its half of each step.          *)
(*                                                                         *)
(* A read-modify-write is not one step.  An operation loads the list and   *)
(* decides in its first step, and then commits in four more: stamp every   *)
(* row with the ledger's run number and check that the disk holds the      *)
(* bytes this core last published, write the list, bump the cover table,   *)
(* persist the ledger.  The process may die between any   *)
(* two of them, and each write may fail.  Operations that take the         *)
(* `mutations` lock run on the thread "gate", one at a time; `delete` does *)
(* not take it and runs on "bypass".                                       *)
(***************************************************************************)
EXTENDS TaskLedger, TaskReducer

CONSTANTS MaxGen,      \* run numbers handed out per task (bound)
          MaxFaults    \* writes that fail with an I/O error (bound)

ASSUME BoundAssumption == MaxGen \in Nat /\ MaxFaults \in Nat

VARIABLES rows,     \* the project's task list on disk
          table,    \* the list runtime.json records as the last core write
          ledger,   \* the operation ledger in memory
          durable,  \* task-operations.json
          work,     \* what each thread is in the middle of
          faults,   \* how many writes failed so far
          phase     \* see Phases

svcVars == <<rows, table, ledger, durable, work, faults, phase>>

Threads == {"gate", "bypass"}

(* A host process: not running, started, repairing what the last one left, *)
(* serving requests.                                                       *)
Phases == {"down", "boot", "repair", "up"}

Rows == [Tasks -> Row]

NoRows == [t \in Tasks |-> AbsentRow]

(* The fingerprint table entry: known is false until the first core write. *)
Cover == [known : BOOLEAN, rows : Rows]

Ops == {"none", "edit", "delete", "begin", "abandon", "reconcile"}

Steps == {"idle", "check", "write", "bump", "ledger", "ack", "spawn", "settle"}

(* recs is the list the operation writes, ids the tasks it is about, claim *)
(* (at most one) the attempt a launch took out.                            *)
Work == [pc : Steps, op : Ops, recs : Rows, claim : SUBSET Claim, ids : SUBSET Tasks]

Idle == [pc |-> "idle", op |-> "none", recs |-> NoRows, claim |-> {}, ids |-> {}]

SvcTypeOK ==
    /\ rows \in Rows
    /\ table \in Cover
    /\ ledger \in Ledger
    /\ durable \in Ledger
    /\ work \in [Threads -> Work]
    /\ faults \in Nat
    /\ phase \in Phases

SvcInit ==
    /\ rows = NoRows
    /\ table = [known |-> FALSE, rows |-> NoRows]
    /\ ledger = EmptyLedger
    /\ durable = EmptyLedger
    /\ work = [th \in Threads |-> Idle]
    /\ faults = 0
    /\ phase = "up"

-------------------------------------------------------------------------------
(* The commit. *)

Covered == table.known => table.rows = rows

FaultAllowed == faults < MaxFaults

(* The operation leaves its first step with the list it wants on disk. *)
Decide(th, op, recs, claim, ids) ==
    work' = [work EXCEPT ![th] = [pc |-> "check", op |-> op, recs |-> recs,
                                  claim |-> claim, ids |-> ids]]

GoTo(th, pc) == work' = [work EXCEPT ![th].pc = pc]

Return(th) == work' = [work EXCEPT ![th] = Idle]

(* `let _ = ledger.persist(..)`: the memory moved to L, the file may not have. *)
BestEffortPersist(L) ==
    \/ durable' = L /\ faults' = faults
    \/ FaultAllowed /\ durable' = durable /\ faults' = faults + 1

(* Where an operation goes when its commit returned an error. *)
CommitFailed(th) ==
    IF work[th].op \in {"begin", "abandon"} THEN GoTo(th, "settle") ELSE Return(th)

(* Where an operation goes when its commit returned. *)
CommitDone(th) ==
    CASE work[th].op = "begin" -> GoTo(th, "ack")
      [] work[th].op \in {"abandon", "reconcile"} -> GoTo(th, "settle")
      [] OTHER -> Return(th)

AtStep(th, pc) == phase # "down" /\ work[th].pc = pc

(* stamp_generation_copies: every row of the list, not only the            *)
(* operation's, gets the ledger's number.                                  *)
Stamped(recs) ==
    [t \in Tasks |-> IF Present(recs[t]) THEN [recs[t] EXCEPT !.gen = ledger.gens[t]]
                                         ELSE recs[t]]

Stamp(th) ==
    work' = [work EXCEPT ![th].pc = "write", ![th].recs = Stamped(work[th].recs)]

(* The stamps, and check_cover with Cover::LastCoreWrite. *)
CheckCover(th) ==
    /\ AtStep(th, "check")
    /\ IF Covered THEN Stamp(th) ELSE CommitFailed(th)
    /\ UNCHANGED <<rows, table, ledger, durable, faults, phase>>

(* The write of save_covering, or the removal of remove_covering. *)
Write(th) ==
    /\ AtStep(th, "write")
    /\ \/ rows' = work[th].recs /\ GoTo(th, "bump") /\ faults' = faults
       \/ FaultAllowed /\ CommitFailed(th) /\ rows' = rows /\ faults' = faults + 1
    /\ UNCHANGED <<table, ledger, durable, phase>>

(* Faulty variant: the table keeps the list the operation replaced. *)
Bump_Stale(th) ==
    /\ AtStep(th, "bump")
    /\ table' = [table EXCEPT !.known = TRUE]
    /\ GoTo(th, "ledger")
    /\ UNCHANGED <<rows, ledger, durable, faults, phase>>

(* bump_covering: the table names the bytes this operation wrote. *)
Bump(th) ==
    /\ AtStep(th, "bump")
    /\ \/ /\ table' = [known |-> TRUE, rows |-> work[th].recs]
          /\ GoTo(th, "ledger")
          /\ faults' = faults
       \/ FaultAllowed /\ CommitFailed(th) /\ table' = table /\ faults' = faults + 1
    /\ UNCHANGED <<rows, ledger, durable, phase>>

(* Faulty variant: a launch goes on although its claim did not reach the disk. *)
PersistLedger_BestEffort(th) ==
    /\ AtStep(th, "ledger")
    /\ BestEffortPersist(ledger)
    /\ CommitDone(th)
    /\ UNCHANGED <<rows, table, ledger, phase>>

(* ledger.persist, the last step of a commit. *)
PersistLedger(th) ==
    /\ AtStep(th, "ledger")
    /\ \/ durable' = ledger /\ CommitDone(th) /\ faults' = faults
       \/ FaultAllowed /\ CommitFailed(th) /\ durable' = durable /\ faults' = faults + 1
    /\ UNCHANGED <<rows, table, ledger, phase>>

(* Faulty variant: a launch that failed gives its run number back. *)
Released_WithNumber(w) ==
    CASE w.op \in {"begin", "abandon"} ->
            LET L == Settle(ledger, w.claim)
            IN  [L EXCEPT !.gens = [t \in Tasks |->
                    IF t \in w.ids THEN L.gens[t] - 1 ELSE L.gens[t]]]
      [] OTHER -> ledger

(* What an operation releases once its commit is over. *)
Released(w) ==
    CASE w.op \in {"begin", "abandon"} -> Settle(ledger, w.claim)
      [] w.op = "reconcile" -> AwaitAcknowledgement(SettleTasks(ledger, w.ids), w.ids)
      [] OTHER -> ledger

SettleStep(th) ==
    /\ AtStep(th, "settle")
    /\ ledger' = Released(work[th])
    /\ BestEffortPersist(ledger')
    /\ Return(th)
    /\ UNCHANGED <<rows, table, phase>>

(* A start acknowledges the run a restart cut off before it spawns. *)
AcknowledgeByStart(th) ==
    LET cleared == {c.task : c \in {d \in work[th].claim : d.kind = "start"}} \cap ledger.acks
    IN  /\ AtStep(th, "ack")
        /\ GoTo(th, "spawn")
        /\ IF cleared = {}
           THEN UNCHANGED <<ledger, durable, faults>>
           ELSE ledger' = Acknowledge(ledger, cleared) /\ BestEffortPersist(ledger')
        /\ UNCHANGED <<rows, table, phase>>

CommitStep(th) ==
    \/ CheckCover(th) \/ Write(th) \/ Bump(th) \/ PersistLedger(th)
    \/ AcknowledgeByStart(th) \/ SettleStep(th)

-------------------------------------------------------------------------------
(* The operations. *)

GateFree == phase = "up" /\ work["gate"] = Idle

(* The stamp a completedAt written now gets. *)
Now(t) == ledger.gens[t] + 1

(* create: a task id is a fresh uuid, so a task that ever ran is not created again. *)
Create(t, immediate) ==
    /\ GateFree
    /\ ~Present(rows[t]) /\ ledger.gens[t] = 0
    /\ Decide("gate", "edit", [rows EXCEPT ![t] = NewRow(immediate)], {}, {t})
    /\ UNCHANGED <<rows, table, ledger, durable, faults, phase>>

(* Faulty variant: a metadata edit that does not take the lock. *)
EditMetadata_Unserialized(t) ==
    /\ phase = "up" /\ work["bypass"] = Idle
    /\ Present(rows[t])
    /\ Decide("bypass", "edit", [rows EXCEPT ![t] = ToggleStar(@)], {}, {t})
    /\ UNCHANGED <<rows, table, ledger, durable, faults, phase>>

(* toggle_star, for every metadata edit: load, change one row, commit. *)
EditMetadata(t) ==
    /\ GateFree
    /\ Present(rows[t])
    /\ Decide("gate", "edit", [rows EXCEPT ![t] = ToggleStar(@)], {}, {t})
    /\ UNCHANGED <<rows, table, ledger, durable, faults, phase>>

(* begin_under_lock up to the commit: claim, then write the pending row.   *)
(* resume_as refuses a task that still awaits an acknowledgement.          *)
Begin(t, kind, k) ==
    /\ GateFree
    /\ Present(rows[t])
    /\ kind = "resume" => t \notin ledger.acks
    /\ OpenClaims(ledger, t, kind, k) = {}
    /\ ledger.gens[t] < MaxGen
    /\ LET c == NewClaim(ledger, t, kind, k)
       IN  /\ ledger' = TakeClaim(ledger, c)
           /\ Decide("gate", "begin",
                     [rows EXCEPT ![t] = PrepareForLaunch(@, kind)], {c}, {t})
    /\ UNCHANGED <<rows, table, durable, faults, phase>>

Spawning(c) == AtStep("gate", "spawn") /\ work["gate"].claim = {c}

(* Faulty variant: the attempt is settled as soon as the process is up. *)
SpawnOk_Settles(c) ==
    /\ Spawning(c)
    /\ ledger' = Settle(ledger, {c})
    /\ BestEffortPersist(ledger')
    /\ Return("gate")
    /\ UNCHANGED <<rows, table, phase>>

(* The executor brought run c up; persist_before_launch keeps the claim open. *)
SpawnOk(c) ==
    /\ Spawning(c)
    /\ Return("gate")
    /\ UNCHANGED <<rows, table, ledger, durable, faults, phase>>

(* abandon_launch: the list it persists holds the failed row and no other. *)
AbandonRows(t) ==
    [NoRows EXCEPT ![t] = ApplyStatus(rows[t], "failed", TRUE, Now(t))]

SpawnFailed(c) ==
    /\ Spawning(c)
    /\ IF Present(rows[c.task])
       THEN Decide("gate", "abandon", AbandonRows(c.task), {c}, {c.task})
       ELSE GoTo("gate", "settle")
    /\ UNCHANGED <<rows, table, ledger, durable, faults, phase>>

(* apply_observation_under_lock: run g of t reports a status.  taskLive is *)
(* the host's has_live_run, guarded the origin's is_guarded.               *)
Observe(t, g, status, reason, guarded, taskLive) ==
    LET current  == ledger.gens[t]
        stale    == g < current /\ ~IsLive(ledger, t, g)
        noRun    == /\ guarded /\ status \notin Terminal
                    /\ ~taskLive /\ \A c \in ledger.claims : c.task # t
        folded   == IF status \in Terminal /\ LiveOtherThan(ledger, t, g) # {}
                    THEN "running" ELSE status
        row      == ApplyStatus(rows[t], folded, reason, Now(t))
    IN  /\ GateFree
        /\ IF stale \/ g > current \/ noRun
           THEN UNCHANGED <<ledger, durable, faults, work>>
           ELSE /\ IF status \in Terminal
                   THEN /\ ledger' = SettleByGeneration(ledger, t, g)
                        /\ BestEffortPersist(ledger')
                   ELSE UNCHANGED <<ledger, durable, faults>>
                /\ \/ row = rows[t] /\ work' = work
                   \/ /\ row # rows[t] \/ AsksAgain(rows[t], folded)
                      /\ Decide("gate", "edit", [rows EXCEPT ![t] = row], {}, {t})
        /\ UNCHANGED <<rows, table, phase>>

(* cancel, the service's half: the executor was asked, every claim is moot. *)
CancelClaims(t) ==
    /\ GateFree
    /\ Present(rows[t])
    /\ ledger' = SettleTasks(ledger, {t})
    /\ BestEffortPersist(ledger')
    /\ UNCHANGED <<rows, table, work, phase>>

(* complete on a row with a process to stop: only the executor is called. *)
CompleteRunning(t) ==
    /\ GateFree
    /\ rows[t].status \in ActiveStatus
    /\ UNCHANGED svcVars

(* complete on any other row: the row is done now. *)
CompleteIdle(t) ==
    /\ GateFree
    /\ Present(rows[t]) /\ rows[t].status \notin ActiveStatus
    /\ Decide("gate", "edit",
              [rows EXCEPT ![t] = ApplyStatus(@, "done", FALSE, Now(t))], {}, {t})
    /\ UNCHANGED <<rows, table, ledger, durable, faults, phase>>

(* delete, outside the lock: decide on a snapshot, drop claims, commit later. *)
Delete(t) ==
    /\ phase = "up" /\ work["bypass"] = Idle
    /\ Present(rows[t]) /\ ~rows[t].starred /\ rows[t].status \notin LiveStatus
    /\ ledger' = Acknowledge(SettleTasks(ledger, {t}), {t})
    /\ Decide("bypass", "delete", [rows EXCEPT ![t] = AbsentRow], {}, {t})
    /\ UNCHANGED <<rows, table, durable, faults, phase>>

(* acknowledge: the user has seen the cut-off run. *)
AcknowledgeTask(t) ==
    /\ phase = "up"
    /\ t \in ledger.acks
    /\ ledger' = Acknowledge(ledger, {t})
    /\ BestEffortPersist(ledger')
    /\ UNCHANGED <<rows, table, work, phase>>

-------------------------------------------------------------------------------
(* Crash and restart. *)

Die ==
    /\ phase # "down"
    /\ phase' = "down"
    /\ work' = [th \in Threads |-> Idle]
    /\ ledger' = EmptyLedger
    /\ UNCHANGED <<rows, table, durable, faults>>

(* TaskService::new reads the ledger back. *)
Restart ==
    /\ phase = "down"
    /\ phase' = "boot"
    /\ ledger' = durable
    /\ UNCHANGED <<rows, table, durable, work, faults>>

(* reconcile: the rows whose claim the last process left open are interrupted. *)
CutOff == {t \in Tasks : NeedsMark(rows[t]) /\ \E c \in ledger.claims : c.task = t}

Interrupted(T) ==
    [t \in Tasks |-> IF t \in T THEN [rows[t] EXCEPT !.status = "interrupted"]
                                ELSE rows[t]]

(* One pass over the project, before any request is served. *)
Reconcile ==
    /\ phase = "boot"
    /\ phase' = "repair"
    /\ IF CutOff = {}
       THEN work' = work
       ELSE Decide("gate", "reconcile", Interrupted(CutOff), {}, CutOff)
    /\ UNCHANGED <<rows, table, ledger, durable, faults>>

(* The host starts to serve; a repair pass that began has returned. *)
Serve(from) ==
    /\ phase = from /\ work["gate"] = Idle
    /\ phase' = "up"
    /\ UNCHANGED <<rows, table, ledger, durable, work, faults>>
===============================================================================
