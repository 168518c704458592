---------------------------- MODULE PtyHost_proofs ----------------------------
(***************************************************************************)
(* Proofs about PtyHost, for every set of tasks and keys, every feature    *)
(* set and every bound: type correctness, that a run number is never       *)
(* spawned twice, that the host implements RunNumbering, and, for a host   *)
(* whose operations all take the lock, that live runs are on record, rows  *)
(* are written by their own operations and the project stays writable.     *)
(***************************************************************************)
EXTENDS PtyHost, TLAPS

-------------------------------------------------------------------------------
(* The ledger operations. *)

(* What the operations on the ledger keep: they return a ledger, and none  *)
(* of them but TakeClaim touches a run number.                             *)
LEMMA LedgerOperations ==
    ASSUME NEW L \in Ledger, NEW t, NEW g, NEW T, NEW cs
    PROVE  /\ Settle(L, cs) \in Ledger /\ Settle(L, cs).gens = L.gens
           /\ SettleByGeneration(L, t, g) \in Ledger
           /\ SettleByGeneration(L, t, g).gens = L.gens
           /\ SettleTasks(L, T) \in Ledger /\ SettleTasks(L, T).gens = L.gens
           /\ Acknowledge(L, T) \in Ledger /\ Acknowledge(L, T).gens = L.gens
BY DEF Ledger, Settle, SettleByGeneration, SettleTasks, Acknowledge

(* Asking for an acknowledgement touches no run number. *)
LEMMA AwaitKeepsNumbers ==
    ASSUME NEW L \in Ledger, NEW T \in SUBSET Tasks
    PROVE  /\ AwaitAcknowledgement(L, T) \in Ledger
           /\ AwaitAcknowledgement(L, T).gens = L.gens
BY DEF Ledger, AwaitAcknowledgement

(* A new claim carries the number after the last one, and takes it. *)
LEMMA ClaimTakesNextNumber ==
    ASSUME NEW L \in Ledger, NEW t \in Tasks, NEW kind \in Kinds, NEW k \in Keys,
           NEW c, c = NewClaim(L, t, kind, k)
    PROVE  /\ c \in Claim /\ c.task = t /\ c.gen = L.gens[t] + 1
           /\ TakeClaim(L, c) \in Ledger
           /\ TakeClaim(L, c).gens = [L.gens EXCEPT ![t] = c.gen]
<1>1. c \in Claim /\ c.task = t /\ c.gen = L.gens[t] + 1
  BY DEF Ledger, Claim, NewClaim
<1>2. [L.gens EXCEPT ![t] = c.gen] \in [Tasks -> Nat] /\ L.claims \cup {c} \in SUBSET Claim
  BY <1>1 DEF Ledger, Claim
<1> QED BY <1>1, <1>2 DEF Ledger, TakeClaim

(* The ledger a host starts from. *)
LEMMA EmptyLedgerType == EmptyLedger \in Ledger
BY DEF Ledger, EmptyLedger

-------------------------------------------------------------------------------
(* The rows. *)

(* The empty list is a list of rows. *)
LEMMA AbsentRowType == AbsentRow \in Row /\ NoRows \in Rows
BY DEF AbsentRow, Row, Rows, NoRows

(* A metadata edit makes a row of a row. *)
LEMMA ToggleStarType == \A r \in Row : ToggleStar(r) \in Row
BY DEF Row, ToggleStar

(* What a launch writes first is a row. *)
LEMMA PrepareForLaunchType ==
    ASSUME NEW r \in Row, NEW kind
    PROVE  PrepareForLaunch(r, kind) \in Row
<1>1. (r.reason /\ kind # "resume") \in BOOLEAN
  OBVIOUS
<1>2. "pending" \in Statuses \cup {"absent"}
  BY DEF Statuses, LiveStatus
<1> QED BY <1>1, <1>2 DEF Row, PrepareForLaunch

(* What a status transition makes of a row is a row. *)
LEMMA ApplyStatusType ==
    ASSUME NEW r \in Row, NEW status \in Statuses, NEW reason \in BOOLEAN, NEW now \in Nat
    PROVE  ApplyStatus(r, status, reason, now) \in Row
<1> DEFINE ended == IF status \notin Terminal THEN 0
                    ELSE IF r.ended = 0 THEN now ELSE r.ended
           why   == r.reason \/ (status = "failed" /\ reason)
           next  == [r EXCEPT !.status = status, !.reason = why, !.ended = ended]
<1>1. ended \in Nat
  BY DEF Row
<1>2. why \in BOOLEAN
  OBVIOUS
<1> HIDE DEF ended, why
<1>3. next \in Row
  BY <1>1, <1>2 DEF Row
<1>4. ApplyStatus(r, status, reason, now) \in {r, next}
  BY DEF ApplyStatus, ended, why
<1> QED BY <1>3, <1>4

(* What create inserts is a row. *)
LEMMA NewRowType == \A b \in BOOLEAN : NewRow(b) \in Row
BY AbsentRowType DEF NewRow, Row, AbsentRow, Statuses, Terminal, LiveStatus

-------------------------------------------------------------------------------
(* The threads. *)

(* A thread with nothing to do holds no claim. *)
LEMMA IdleType == Idle \in Work /\ Idle.claim = {} /\ Idle.pc = "idle" /\ Idle.op = "none"
BY AbsentRowType DEF Idle, Work, Steps, Ops

(* A thread moves on, returns or takes up an operation. *)
LEMMA ThreadMoves ==
    ASSUME work \in [Threads -> Work], NEW th \in Threads, NEW pc \in Steps, GoTo(th, pc)
    PROVE  /\ work' \in [Threads -> Work]
           /\ work'[th].pc = pc /\ work'[th].op = work[th].op
           /\ work'[th].claim = work[th].claim
           /\ \A o \in Threads \ {th} : work'[o] = work[o]
<1>1. [work[th] EXCEPT !.pc = pc] \in Work
  BY DEF Work
<1>2. work' = [work EXCEPT ![th] = [work[th] EXCEPT !.pc = pc]]
  BY DEF GoTo
<1> QED BY <1>1, <1>2 DEF Work

(* A thread that returns leaves a well-typed work table. *)
LEMMA ThreadReturns ==
    ASSUME work \in [Threads -> Work], NEW th \in Threads, Return(th)
    PROVE  /\ work' \in [Threads -> Work]
           /\ work'[th] = Idle
           /\ \A o \in Threads \ {th} : work'[o] = work[o]
BY IdleType DEF Return

(* So does a thread that takes up an operation. *)
LEMMA ThreadDecides ==
    ASSUME work \in [Threads -> Work], NEW th \in Threads, NEW op \in Ops,
           NEW recs \in Rows, NEW claim \in SUBSET Claim, NEW ids \in SUBSET Tasks,
           Decide(th, op, recs, claim, ids)
    PROVE  /\ work' \in [Threads -> Work]
           /\ work'[th].pc = "check" /\ work'[th].op = op /\ work'[th].claim = claim
           /\ \A o \in Threads \ {th} : work'[o] = work[o]
<1>1. [pc |-> "check", op |-> op, recs |-> recs, claim |-> claim, ids |-> ids] \in Work
  BY DEF Work, Steps
<1> QED BY <1>1 DEF Decide

(* A stamp changes the copy of the run number of the rows there are. *)
LEMMA StampedRows ==
    ASSUME ledger \in Ledger, NEW recs \in Rows
    PROVE  /\ Stamped(recs) \in Rows
           /\ \A t \in Tasks : /\ Stamped(recs)[t].status = recs[t].status
                               /\ Body(Stamped(recs)[t]) = Body(recs[t])
                               /\ Present(recs[t]) => Stamped(recs)[t].gen = ledger.gens[t]
<1>1. ASSUME NEW t \in Tasks
      PROVE  /\ recs[t] \in Row /\ [recs[t] EXCEPT !.gen = ledger.gens[t]] \in Row
             /\ [recs[t] EXCEPT !.gen = ledger.gens[t]].status = recs[t].status
             /\ Body([recs[t] EXCEPT !.gen = ledger.gens[t]]) = Body(recs[t])
             /\ [recs[t] EXCEPT !.gen = ledger.gens[t]].gen = ledger.gens[t]
  BY DEF Rows, Row, Ledger, Body
<1> QED BY <1>1 DEF Stamped, Rows

LEMMA ThreadStamps ==
    ASSUME work \in [Threads -> Work], ledger \in Ledger, NEW th \in Threads, Stamp(th)
    PROVE  /\ work' \in [Threads -> Work]
           /\ work'[th].pc = "write" /\ work'[th].op = work[th].op
           /\ work'[th].claim = work[th].claim /\ work'[th].ids = work[th].ids
           /\ work'[th].recs = Stamped(work[th].recs)
           /\ \A o \in Threads \ {th} : work'[o] = work[o]
<1>1. work[th] \in Work /\ Stamped(work[th].recs) \in Rows
  BY StampedRows DEF Work
<1>2. [work[th] EXCEPT !.pc = "write", !.recs = Stamped(work[th].recs)] \in Work
  BY <1>1 DEF Work, Steps
<1>3. work' = [work EXCEPT ![th] = [work[th] EXCEPT !.pc = "write", !.recs = Stamped(work[th].recs)]]
  BY DEF Stamp
<1> QED BY <1>1, <1>2, <1>3 DEF Work

(* And so does one whose commit failed or is over. *)
LEMMA CommitEnds ==
    ASSUME work \in [Threads -> Work], NEW th \in Threads
    PROVE  /\ CommitFailed(th) =>
                /\ work' \in [Threads -> Work]
                /\ work'[th] = Idle \/ ( /\ work'[th].pc = "settle"
                                         /\ work'[th].op = work[th].op
                                         /\ work'[th].claim = work[th].claim )
                /\ \A o \in Threads \ {th} : work'[o] = work[o]
           /\ CommitDone(th) =>
                /\ work' \in [Threads -> Work]
                /\ \/ work'[th] = Idle
                   \/ /\ work'[th].op = work[th].op
                      /\ work'[th].claim = work[th].claim
                      /\ work'[th].pc \in {"ack", "settle"}
                      /\ work'[th].pc = "ack" => work[th].op = "begin"
                /\ \A o \in Threads \ {th} : work'[o] = work[o]
<1>1. "settle" \in Steps /\ "ack" \in Steps
  BY DEF Steps
<1>2. CommitFailed(th) => GoTo(th, "settle") \/ Return(th)
  BY DEF CommitFailed
<1>3. CommitDone(th) => \/ GoTo(th, "ack") /\ work[th].op = "begin"
                        \/ GoTo(th, "settle")
                        \/ Return(th)
  BY DEF CommitDone
<1> QED BY <1>1, <1>2, <1>3, ThreadMoves, ThreadReturns

-------------------------------------------------------------------------------
(* What a service step that takes no number does to the numbers: the       *)
(* counters in memory stay, the ones on disk stay or catch up, and the     *)
(* launch in progress goes on only over a record that reached the disk.    *)
InSpawn(w) == w.pc \in {"ack", "spawn"}

SvcSteady ==
    /\ phase # "down" /\ phase' # "down"
    /\ ledger'.gens = ledger.gens
    /\ durable'.gens \in {durable.gens, ledger.gens}
    /\ InLaunch' \subseteq InLaunch
    /\ InSpawn(work'["gate"]) =>
          /\ work'["gate"].op = "begin"
          /\ InSpawn(work["gate"]) \/ durable'.gens = ledger.gens

SpawnIsOfALaunch == InSpawn(work["gate"]) => work["gate"].op = "begin"

(* A best-effort persist writes memory to disk or leaves the disk alone. *)
LEMMA BestEffortPersistSteady ==
    ASSUME ledger \in Ledger, durable \in Ledger, faults \in Nat,
           NEW L \in Ledger, L.gens = ledger.gens, BestEffortPersist(L)
    PROVE  /\ durable' \in Ledger /\ faults' \in Nat
           /\ durable'.gens \in {durable.gens, ledger.gens}
BY DEF BestEffortPersist

(* The gate's thread is left alone, returns, or goes on with its claim. *)
LEMMA GateSteady ==
    ASSUME SpawnIsOfALaunch,
           \/ work'["gate"] = work["gate"]
           \/ work'["gate"].op # "begin" /\ ~InSpawn(work'["gate"])
           \/ /\ work'["gate"].op = work["gate"].op
              /\ work'["gate"].claim = work["gate"].claim
              /\ InSpawn(work'["gate"]) =>
                    InSpawn(work["gate"]) \/ (work["gate"].op = "begin" /\ durable'.gens = ledger.gens)
    PROVE  /\ InLaunch' \subseteq InLaunch
           /\ InSpawn(work'["gate"]) =>
                /\ work'["gate"].op = "begin"
                /\ InSpawn(work["gate"]) \/ durable'.gens = ledger.gens
BY DEF SpawnIsOfALaunch, InLaunch

(* Every way a commit step moves its thread is steady. *)
LEMMA ThreadSteady ==
    ASSUME work \in [Threads -> Work], SpawnIsOfALaunch, NEW th \in Threads,
           \/ \E pc \in {"write", "bump", "ledger", "settle"} : GoTo(th, pc)
           \/ Return(th)
           \/ CommitFailed(th)
           \/ CommitDone(th) /\ durable'.gens = ledger.gens
           \/ GoTo(th, "spawn") /\ work[th].pc = "ack"
    PROVE  /\ work' \in [Threads -> Work]
           /\ InLaunch' \subseteq InLaunch
           /\ InSpawn(work'["gate"]) =>
                /\ work'["gate"].op = "begin"
                /\ InSpawn(work["gate"]) \/ durable'.gens = ledger.gens
<1>1. /\ work' \in [Threads -> Work]
      /\ \A o \in Threads \ {th} : work'[o] = work[o]
      /\ \/ work'[th] = Idle
         \/ /\ work'[th].op = work[th].op /\ work'[th].claim = work[th].claim
            /\ InSpawn(work'[th]) =>
                  InSpawn(work[th]) \/ (work[th].op = "begin" /\ durable'.gens = ledger.gens)
  BY ThreadMoves, ThreadReturns, CommitEnds DEF Steps, InSpawn
<1>2. \/ work'["gate"] = work["gate"]
      \/ work'["gate"].op # "begin" /\ ~InSpawn(work'["gate"])
      \/ /\ work'["gate"].op = work["gate"].op
         /\ work'["gate"].claim = work["gate"].claim
         /\ InSpawn(work'["gate"]) =>
               InSpawn(work["gate"]) \/ (work["gate"].op = "begin" /\ durable'.gens = ledger.gens)
  BY <1>1, IdleType DEF Threads, InSpawn
<1> QED BY <1>1, <1>2, GateSteady

(* Every step of a commit is steady. *)
LEMMA CommitStepSteady ==
    ASSUME SvcTypeOK, SpawnIsOfALaunch, NEW th \in Threads, CommitStep(th)
    PROVE  SvcTypeOK' /\ SvcSteady
<1> USE DEF SvcTypeOK, SvcSteady, AtStep
<1>1. CASE CheckCover(th)
  <2>1. CASE Stamp(th)
    <3>1. /\ work' \in [Threads -> Work] /\ work'[th].pc = "write"
          /\ work'[th].op = work[th].op /\ work'[th].claim = work[th].claim
          /\ \A o \in Threads \ {th} : work'[o] = work[o]
      BY <2>1, ThreadStamps
    <3>2. /\ InLaunch' \subseteq InLaunch
          /\ InSpawn(work'["gate"]) =>
                /\ work'["gate"].op = "begin"
                /\ InSpawn(work["gate"]) \/ durable'.gens = ledger.gens
      BY <3>1, GateSteady DEF Threads, InSpawn
    <3> QED BY <1>1, <3>1, <3>2 DEF CheckCover
  <2>2. CASE CommitFailed(th)
    BY <1>1, <2>2, ThreadSteady DEF CheckCover
  <2> QED BY <1>1, <2>1, <2>2 DEF CheckCover
<1>2. CASE Write(th)
  <2>1. work[th].recs \in Rows
    BY DEF Work
  <2> QED BY <1>2, <2>1, ThreadSteady DEF Write
<1>3. CASE Bump(th)
  <2> DEFINE named == [known |-> TRUE, rows |-> work[th].recs]
  <2>1. named \in Cover
    BY DEF Work, Cover
  <2>2. (\E pc \in {"write", "bump", "ledger", "settle"} : GoTo(th, pc)) \/ CommitFailed(th)
    BY <1>3 DEF Bump
  <2>3. /\ table' = named \/ table' = table
        /\ faults' = faults \/ faults' = faults + 1
    BY <1>3 DEF Bump
  <2> HIDE DEF named
  <2> QED BY <1>3, <2>1, <2>2, <2>3, ThreadSteady DEF Bump
<1>4. CASE PersistLedger(th)
  BY <1>4, ThreadSteady DEF PersistLedger
<1>5. CASE AcknowledgeByStart(th)
  <2> DEFINE cleared ==
        {c.task : c \in {d \in work[th].claim : d.kind = "start"}} \cap ledger.acks
  <2>1. \/ UNCHANGED <<ledger, durable, faults>>
        \/ ledger' = Acknowledge(ledger, cleared) /\ BestEffortPersist(ledger')
    BY <1>5 DEF AcknowledgeByStart
  <2> HIDE DEF cleared
  <2>2. /\ ledger' \in Ledger /\ ledger'.gens = ledger.gens
        /\ durable' \in Ledger /\ durable'.gens \in {durable.gens, ledger.gens}
        /\ faults' \in Nat
    BY <2>1, LedgerOperations, BestEffortPersistSteady
  <2> QED BY <1>5, <2>2, ThreadSteady DEF AcknowledgeByStart
<1>6. CASE SettleStep(th)
  <2>1. /\ Released(work[th]) \in Ledger
        /\ Released(work[th]).gens = ledger.gens
    BY LedgerOperations, AwaitKeepsNumbers DEF Released, Work
  <2>2. /\ ledger' \in Ledger /\ ledger'.gens = ledger.gens
        /\ durable' \in Ledger /\ durable'.gens \in {durable.gens, ledger.gens}
        /\ faults' \in Nat
    BY <1>6, <2>1, BestEffortPersistSteady DEF SettleStep
  <2> QED BY <1>6, <2>2, ThreadSteady DEF SettleStep
<1> QED BY <1>1, <1>2, <1>3, <1>4, <1>5, <1>6 DEF CommitStep

(* A thread that takes up an operation other than a launch is steady. *)
LEMMA DecisionSteady ==
    ASSUME work \in [Threads -> Work], SpawnIsOfALaunch,
           NEW th \in Threads, NEW op \in Ops, op # "begin",
           NEW recs \in Rows, NEW claim \in SUBSET Claim, NEW ids \in SUBSET Tasks,
           Decide(th, op, recs, claim, ids)
    PROVE  /\ work' \in [Threads -> Work]
           /\ InLaunch' \subseteq InLaunch
           /\ InSpawn(work'["gate"]) =>
                /\ work'["gate"].op = "begin"
                /\ InSpawn(work["gate"]) \/ durable'.gens = ledger.gens
<1>1. /\ work' \in [Threads -> Work]
      /\ work'["gate"] = work["gate"] \/ (work'["gate"].op # "begin" /\ ~InSpawn(work'["gate"]))
  BY ThreadDecides DEF Threads, InSpawn
<1> QED BY <1>1, GateSteady

(* The stamp a completedAt gets now. *)
LEMMA StampType == ASSUME SvcTypeOK, NEW t \in Tasks PROVE Now(t) \in Nat /\ rows[t] \in Row
BY DEF SvcTypeOK, Ledger, Rows, Now

(* The requests that do not launch. *)
LEMMA RequestSteady ==
    ASSUME SvcTypeOK, SpawnIsOfALaunch, NEW t \in Tasks,
           \/ \E immediate \in BOOLEAN : Create(t, immediate)
           \/ EditMetadata(t) \/ Delete(t) \/ AcknowledgeTask(t)
           \/ CancelClaims(t) \/ CompleteRunning(t) \/ CompleteIdle(t)
    PROVE  SvcTypeOK' /\ SvcSteady
<1> USE DEF SvcTypeOK, SvcSteady, GateFree
<1>1. ASSUME NEW r \in Row PROVE [rows EXCEPT ![t] = r] \in Rows
  BY <1>1 DEF Rows
<1>2. {"edit", "delete"} \subseteq Ops /\ {"gate", "bypass"} \subseteq Threads
  BY DEF Ops, Threads
<1>3. ASSUME NEW immediate \in BOOLEAN, Create(t, immediate) PROVE SvcTypeOK' /\ SvcSteady
  BY <1>1, <1>2, <1>3, NewRowType, DecisionSteady DEF Create
<1>4. CASE EditMetadata(t)
  BY <1>1, <1>2, <1>4, ToggleStarType, StampType, DecisionSteady DEF EditMetadata
<1>5. CASE Delete(t)
  <2>1. SettleTasks(ledger, {t}) \in Ledger /\ SettleTasks(ledger, {t}).gens = ledger.gens
    BY LedgerOperations
  <2>2. ledger' \in Ledger /\ ledger'.gens = ledger.gens
    BY <1>5, <2>1, LedgerOperations DEF Delete
  <2> QED BY <1>1, <1>2, <1>5, <2>2, AbsentRowType, DecisionSteady DEF Delete
<1>6. CASE AcknowledgeTask(t)
  <2>1. ledger' \in Ledger /\ ledger'.gens = ledger.gens
    BY <1>6, LedgerOperations DEF AcknowledgeTask
  <2> QED BY <1>6, <2>1, BestEffortPersistSteady, GateSteady DEF AcknowledgeTask
<1>7. CASE CancelClaims(t)
  <2>1. ledger' \in Ledger /\ ledger'.gens = ledger.gens
    BY <1>7, LedgerOperations DEF CancelClaims
  <2> QED BY <1>7, <2>1, BestEffortPersistSteady, GateSteady DEF CancelClaims
<1>8. CASE CompleteRunning(t)
  BY <1>8, GateSteady DEF CompleteRunning, svcVars
<1>9. CASE CompleteIdle(t)
  <2>1. ApplyStatus(rows[t], "done", FALSE, Now(t)) \in Row
    BY StampType, ApplyStatusType DEF Statuses, Terminal
  <2> QED BY <1>1, <1>2, <1>9, <2>1, DecisionSteady DEF CompleteIdle
<1> QED BY <1>3, <1>4, <1>5, <1>6, <1>7, <1>8, <1>9

(* A report of a run. *)
LEMMA ObserveSteady ==
    ASSUME SvcTypeOK, SpawnIsOfALaunch, NEW t \in Tasks, NEW g \in Nat,
           NEW status \in Statuses, NEW reason \in BOOLEAN, NEW guarded, NEW taskLive,
           Observe(t, g, status, reason, guarded, taskLive)
    PROVE  SvcTypeOK' /\ SvcSteady
<1> DEFINE folded == IF status \in Terminal /\ LiveOtherThan(ledger, t, g) # {}
                     THEN "running" ELSE status
           row == ApplyStatus(rows[t], folded, reason, Now(t))
           list == [rows EXCEPT ![t] = row]
<1>1. folded \in Statuses
  BY DEF Statuses, LiveStatus
<1>2. row \in Row
  BY <1>1, StampType, ApplyStatusType
<1>3. list \in Rows
  BY <1>2 DEF SvcTypeOK, Rows
<1>4. /\ GateFree
      /\ UNCHANGED <<rows, table, phase>>
      /\ \/ UNCHANGED <<ledger, durable, faults>>
         \/ ledger' = SettleByGeneration(ledger, t, g) /\ BestEffortPersist(ledger')
      /\ work' = work \/ Decide("gate", "edit", list, {}, {t})
  BY DEF Observe
<1> HIDE DEF list
<1>5. /\ ledger' \in Ledger /\ ledger'.gens = ledger.gens
      /\ durable' \in Ledger /\ durable'.gens \in {durable.gens, ledger.gens}
      /\ faults' \in Nat
  BY <1>4, LedgerOperations, BestEffortPersistSteady DEF SvcTypeOK
<1>6. "edit" \in Ops /\ "gate" \in Threads /\ work \in [Threads -> Work]
  BY DEF Ops, Threads, SvcTypeOK
<1> DEFINE Kept == /\ work' \in [Threads -> Work]
                   /\ InLaunch' \subseteq InLaunch
                   /\ InSpawn(work'["gate"]) =>
                        /\ work'["gate"].op = "begin"
                        /\ InSpawn(work["gate"]) \/ durable'.gens = ledger.gens
<1>7. Kept
  <2>1. CASE work' = work
    BY <1>6, <2>1, GateSteady
  <2>2. CASE Decide("gate", "edit", list, {}, {t})
    BY <1>3, <1>6, <2>2, DecisionSteady
  <2> QED BY <1>4, <2>1, <2>2
<1>8. phase # "down" /\ UNCHANGED <<rows, table, phase>>
  BY <1>4 DEF GateFree
<1>9. SvcTypeOK'
  BY <1>5, <1>7, <1>8 DEF SvcTypeOK
<1> QED BY <1>5, <1>7, <1>8, <1>9 DEF SvcSteady

(* The end of a launch. *)
LEMMA SpawnSteady ==
    ASSUME SvcTypeOK, SpawnIsOfALaunch, NEW c \in Claim, SpawnOk(c) \/ SpawnFailed(c)
    PROVE  SvcTypeOK' /\ SvcSteady
<1> USE DEF SvcTypeOK, SvcSteady, Spawning, AtStep
<1>1. "gate" \in Threads /\ "abandon" \in Ops /\ c.task \in Tasks
  BY DEF Threads, Ops, Claim
<1>2. CASE SpawnOk(c)
  BY <1>1, <1>2, ThreadSteady DEF SpawnOk
<1>3. CASE SpawnFailed(c)
  <2>1. AbandonRows(c.task) \in Rows
    <3>1. ApplyStatus(rows[c.task], "failed", TRUE, Now(c.task)) \in Row
      BY <1>1, StampType, ApplyStatusType DEF Statuses, Terminal
    <3> QED BY <1>1, <3>1, AbsentRowType DEF AbandonRows, Rows
  <2>2. \/ Decide("gate", "abandon", AbandonRows(c.task), {c}, {c.task})
        \/ GoTo("gate", "settle")
    BY <1>3 DEF SpawnFailed
  <2> QED BY <1>1, <1>3, <2>1, <2>2, DecisionSteady, ThreadSteady DEF SpawnFailed
<1> QED BY <1>2, <1>3

(* The repair pass and the start of service. *)
LEMMA RepairSteady ==
    ASSUME SvcTypeOK, SpawnIsOfALaunch, NEW from \in {"boot", "repair"},
           Reconcile \/ Serve(from)
    PROVE  SvcTypeOK' /\ SvcSteady
<1> USE DEF SvcTypeOK, SvcSteady
<1>1. Interrupted(CutOff) \in Rows /\ CutOff \in SUBSET Tasks
  <2>1. \A t \in Tasks : [rows[t] EXCEPT !.status = "interrupted"] \in Row /\ rows[t] \in Row
    BY DEF Rows, Row, Statuses
  <2> QED BY <2>1 DEF Interrupted, CutOff, Rows
<1>2. "gate" \in Threads /\ "reconcile" \in Ops
  BY DEF Threads, Ops
<1>3. CASE Reconcile
  BY <1>1, <1>2, <1>3, DecisionSteady, GateSteady DEF Reconcile, Phases
<1>4. CASE Serve(from)
  BY <1>4, GateSteady DEF Serve, Phases
<1> QED BY <1>3, <1>4

-------------------------------------------------------------------------------
(* The steps that are not steady: a launch takes a number, the host dies,  *)
(* the host comes back.                                                    *)

(* begin_under_lock takes the next number and holds exactly that claim. *)
LEMMA BeginTakesNumber ==
    ASSUME SvcTypeOK, NEW t \in Tasks, NEW kind \in Kinds, NEW k \in Keys, Begin(t, kind, k)
    PROVE  /\ SvcTypeOK'
           /\ phase = "up" /\ phase' = "up" /\ durable' = durable
           /\ ledger.gens[t] < MaxGen
           /\ ledger'.gens = [ledger.gens EXCEPT ![t] = ledger.gens[t] + 1]
           /\ work'["gate"].pc = "check"
           /\ \A c \in InLaunch' : c.task = t /\ c.gen = ledger.gens[t] + 1
<1> DEFINE c == NewClaim(ledger, t, kind, k)
           list == [rows EXCEPT ![t] = PrepareForLaunch(rows[t], kind)]
<1>1. /\ c \in Claim /\ c.task = t /\ c.gen = ledger.gens[t] + 1
      /\ TakeClaim(ledger, c) \in Ledger
      /\ TakeClaim(ledger, c).gens = [ledger.gens EXCEPT ![t] = c.gen]
  BY ClaimTakesNextNumber DEF SvcTypeOK
<1>2. list \in Rows
  BY PrepareForLaunchType DEF SvcTypeOK, Rows
<1>3. /\ ledger' = TakeClaim(ledger, c)
      /\ Decide("gate", "begin", list, {c}, {t})
      /\ phase = "up" /\ ledger.gens[t] < MaxGen
      /\ UNCHANGED <<rows, table, durable, faults, phase>>
  BY DEF Begin, GateFree
<1> HIDE DEF c, list
<1>4. "gate" \in Threads /\ "begin" \in Ops
  BY DEF Threads, Ops
<1>5. /\ work' \in [Threads -> Work]
      /\ work'["gate"].pc = "check" /\ work'["gate"].op = "begin"
      /\ work'["gate"].claim = {c}
  BY <1>1, <1>2, <1>3, <1>4, ThreadDecides DEF SvcTypeOK
<1>6. SvcTypeOK'
  BY <1>1, <1>3, <1>5 DEF SvcTypeOK
<1>7. InLaunch' = {c}
  BY <1>5 DEF InLaunch
<1> QED BY <1>1, <1>3, <1>5, <1>6, <1>7

(* A crash keeps the types of what it resets. *)
LEMMA DieType ==
    ASSUME SvcTypeOK, Die
    PROVE  /\ SvcTypeOK' /\ phase' = "down" /\ durable' = durable
           /\ work'["gate"] = Idle /\ InLaunch' = {}
<1>1. work' \in [Threads -> Work] /\ work'["gate"] = Idle
  BY IdleType DEF Die, Threads
<1>2. InLaunch' = {}
  BY <1>1, IdleType DEF InLaunch
<1> QED BY <1>1, <1>2, EmptyLedgerType DEF SvcTypeOK, Die, Phases

(* A restart reads back a ledger. *)
LEMMA RestartType ==
    ASSUME SvcTypeOK, Restart
    PROVE  /\ SvcTypeOK' /\ phase = "down" /\ phase' # "down"
           /\ ledger' = durable /\ durable' = durable /\ work' = work
BY DEF SvcTypeOK, Restart, Phases

-------------------------------------------------------------------------------
(* The numbers. *)

(* A steady step that spawns nothing keeps the numbers on record. *)
LEMMA SteadyKeepsNumbers ==
    ASSUME TypeOK, NumbersOnRecord, SvcTypeOK', SvcSteady, launches' = launches
    PROVE  NumbersOnRecord' /\ Numbering!Issue
<1> USE BoundAssumption
<1>1. /\ ledger.gens \in [Tasks -> Nat] /\ durable.gens \in [Tasks -> Nat]
      /\ durable'.gens \in [Tasks -> Nat]
      /\ \A t \in Tasks : durable.gens[t] <= durable'.gens[t] /\ durable'.gens[t] <= ledger'.gens[t]
  BY DEF TypeOK, SvcTypeOK, Ledger, NumbersOnRecord, SvcSteady
<1>2. \A t \in Tasks, g \in 1..MaxGen :
        launches'[t][g] <= 1 /\ (launches'[t][g] = 1 => g <= durable'.gens[t])
  BY <1>1 DEF NumbersOnRecord
<1>3. \A c \in InLaunch : c \in Claim
  BY DEF InLaunch, TypeOK, SvcTypeOK, Work, Threads
<1>4. ASSUME NEW c \in InLaunch'
      PROVE  /\ c.gen \in 1..MaxGen /\ c.gen <= ledger'.gens[c.task]
             /\ \A h \in c.gen..MaxGen : launches'[c.task][h] = 0
             /\ work'["gate"].pc \in {"ack", "spawn"} => c.gen <= durable'.gens[c.task]
  <2>1. c \in InLaunch /\ c.task \in Tasks
    BY <1>3, <1>4 DEF SvcSteady, Claim
  <2>2. /\ c.gen \in 1..MaxGen /\ c.gen <= ledger.gens[c.task]
        /\ \A h \in c.gen..MaxGen : launches[c.task][h] = 0
        /\ work["gate"].pc \in {"ack", "spawn"} => c.gen <= durable.gens[c.task]
    BY <2>1 DEF NumbersOnRecord
  <2>3. work'["gate"].pc \in {"ack", "spawn"} => c.gen <= durable'.gens[c.task]
    BY <1>1, <2>1, <2>2 DEF SvcSteady, InSpawn
  <2> QED BY <2>2, <2>3 DEF SvcSteady
<1>5. Numbering!Issue
  BY <1>1 DEF Numbering!Issue
<1> QED BY <1>1, <1>2, <1>4, <1>5 DEF NumbersOnRecord, SvcSteady, InSpawn

(* A launch takes a number that nobody has spawned. *)
LEMMA BeginKeepsNumbers ==
    ASSUME TypeOK, NumbersOnRecord, NEW t \in Tasks, NEW kind \in Kinds, NEW k \in Keys,
           Begin(t, kind, k), launches' = launches
    PROVE  NumbersOnRecord' /\ UNCHANGED <<durable.gens, launches>>
<1> USE BoundAssumption
<1>1. /\ phase = "up" /\ phase' = "up" /\ durable' = durable
      /\ ledger.gens[t] < MaxGen
      /\ ledger'.gens = [ledger.gens EXCEPT ![t] = ledger.gens[t] + 1]
      /\ work'["gate"].pc = "check"
      /\ \A c \in InLaunch' : c.task = t /\ c.gen = ledger.gens[t] + 1
  BY BeginTakesNumber DEF TypeOK
<1>2. /\ ledger.gens \in [Tasks -> Nat] /\ durable.gens \in [Tasks -> Nat]
      /\ launches \in [Tasks -> [1..MaxGen -> Nat]]
  BY DEF TypeOK, SvcTypeOK, Ledger
<1>3. \A u \in Tasks : durable.gens[u] <= ledger.gens[u] /\ durable.gens[u] <= ledger'.gens[u]
  BY <1>1, <1>2 DEF NumbersOnRecord
<1>4. \A h \in (ledger.gens[t] + 1)..MaxGen : launches[t][h] = 0
  <2>1. SUFFICES ASSUME NEW h \in (ledger.gens[t] + 1)..MaxGen
                 PROVE  launches[t][h] = 0
    OBVIOUS
  <2>2. h \in 1..MaxGen /\ h > ledger.gens[t]
    BY <1>2
  <2>3. ~(h <= durable.gens[t])
    BY <1>2, <1>3, <2>2
  <2>4. launches[t][h] \in Nat /\ launches[t][h] <= 1 /\ launches[t][h] # 1
    BY <1>2, <2>2, <2>3 DEF NumbersOnRecord
  <2> QED BY <2>4
<1>5. ASSUME NEW c \in InLaunch'
      PROVE  /\ c.gen \in 1..MaxGen /\ c.gen <= ledger'.gens[c.task]
             /\ \A h \in c.gen..MaxGen : launches'[c.task][h] = 0
  BY <1>1, <1>2, <1>4
<1> QED BY <1>1, <1>3, <1>5 DEF NumbersOnRecord

(* The spawn itself is a step of the abstract numbering. *)
LEMMA LaunchKeepsNumbers ==
    ASSUME TypeOK, NumbersOnRecord, NEW c \in work["gate"].claim, SpawnOk(c),
           launches' = [launches EXCEPT ![c.task][c.gen] = @ + 1]
    PROVE  /\ NumbersOnRecord'
           /\ launches' \in [Tasks -> [1..MaxGen -> Nat]]
           /\ \E t \in Tasks, g \in 1..MaxGen : Numbering!Spawn(t, g)
<1> USE BoundAssumption
<1>1. c \in Claim /\ c.task \in Tasks
  BY DEF TypeOK, SvcTypeOK, Work, Claim, Threads
<1>2. c \in InLaunch /\ work["gate"].pc = "spawn" /\ phase # "down"
  BY DEF SpawnOk, Spawning, AtStep, NumbersOnRecord, InLaunch
<1>3. /\ c.gen \in 1..MaxGen /\ c.gen <= durable.gens[c.task]
      /\ \A h \in c.gen..MaxGen : launches[c.task][h] = 0
  BY <1>2 DEF NumbersOnRecord
<1>4. launches \in [Tasks -> [1..MaxGen -> Nat]] /\ durable.gens \in [Tasks -> Nat]
  BY DEF TypeOK, SvcTypeOK, Ledger
<1>5. /\ work'["gate"] = Idle /\ UNCHANGED <<ledger, durable, phase>>
  BY ThreadReturns DEF SpawnOk, TypeOK, SvcTypeOK, Threads
<1>6. InLaunch' = {}
  BY <1>5, IdleType DEF InLaunch
<1>7. /\ launches' \in [Tasks -> [1..MaxGen -> Nat]]
      /\ launches[c.task][c.gen] = 0 /\ launches'[c.task][c.gen] = 1
      /\ \A t \in Tasks, g \in 1..MaxGen :
            t # c.task \/ g # c.gen => launches'[t][g] = launches[t][g]
  <2>1. launches[c.task] \in [1..MaxGen -> Nat] /\ launches[c.task][c.gen] = 0
    BY <1>1, <1>3, <1>4
  <2>2. launches' = [launches EXCEPT ![c.task] =
                        [launches[c.task] EXCEPT ![c.gen] = launches[c.task][c.gen] + 1]]
    OBVIOUS
  <2> DEFINE row == [launches[c.task] EXCEPT ![c.gen] = launches[c.task][c.gen] + 1]
  <2>3. /\ row \in [1..MaxGen -> Nat] /\ row[c.gen] = 1
        /\ \A g \in 1..MaxGen : g # c.gen => row[g] = launches[c.task][g]
    BY <1>3, <2>1
  <2> HIDE DEF row
  <2>4. launches' = [launches EXCEPT ![c.task] = row]
    BY <2>2 DEF row
  <2> QED BY <1>1, <1>3, <1>4, <2>1, <2>3, <2>4
<1>8. \A t \in Tasks, g \in 1..MaxGen :
        launches'[t][g] <= 1 /\ (launches'[t][g] = 1 => g <= durable'.gens[t])
  <2>1. TAKE t \in Tasks, g \in 1..MaxGen
  <2>2. durable' = durable
    BY <1>5
  <2>3. CASE t = c.task /\ g = c.gen
    BY <1>3, <1>7, <2>2, <2>3
  <2>4. CASE t # c.task \/ g # c.gen
    <3>1. launches'[t][g] = launches[t][g]
      BY <1>7, <2>4
    <3> QED BY <2>2, <3>1 DEF NumbersOnRecord
  <2> QED BY <2>3, <2>4
<1>9. NumbersOnRecord'
  BY <1>2, <1>5, <1>6, <1>8, IdleType DEF NumbersOnRecord
<1>10. Numbering!Spawn(c.task, c.gen)
  BY <1>3, <1>5 DEF Numbering!Spawn
<1> QED BY <1>1, <1>3, <1>7, <1>9, <1>10

(* A crash leaves the disk and the spawns alone. *)
LEMMA DieKeepsNumbers ==
    ASSUME TypeOK, NumbersOnRecord, Die, launches' = launches
    PROVE  NumbersOnRecord' /\ UNCHANGED <<durable.gens, launches>>
BY DieType, IdleType DEF TypeOK, NumbersOnRecord

(* A restart brings memory level with the disk. *)
LEMMA RestartKeepsNumbers ==
    ASSUME TypeOK, NumbersOnRecord, Restart, launches' = launches
    PROVE  NumbersOnRecord' /\ UNCHANGED <<durable.gens, launches>>
<1>1. /\ phase = "down" /\ phase' # "down"
      /\ ledger' = durable /\ durable' = durable /\ work' = work
  BY RestartType DEF TypeOK
<1>2. work'["gate"] = Idle /\ InLaunch' = {}
  BY <1>1, IdleType DEF NumbersOnRecord, InLaunch
<1>3. durable.gens \in [Tasks -> Nat]
  BY DEF TypeOK, SvcTypeOK, Ledger
<1> QED BY <1>1, <1>2, <1>3, IdleType DEF NumbersOnRecord

(* A step of the host alone leaves the numbers alone. *)
LEMMA HostOnlyKeepsNumbers ==
    ASSUME TypeOK, NumbersOnRecord, UNCHANGED <<svcVars, launches>>
    PROVE  /\ SvcTypeOK' /\ NumbersOnRecord'
           /\ UNCHANGED <<durable.gens, launches>>
BY DEF TypeOK, SvcTypeOK, svcVars, NumbersOnRecord, InLaunch, Idle

-------------------------------------------------------------------------------
(* The inductive step, one case per action.  NumberStep is what a step is  *)
(* to the abstract numbering.                                              *)
NumberStep == [Numbering!Next]_(Numbering!numVars)

(* A steady step without a spawn keeps the invariant and issues numbers. *)
LEMMA SteadyStep ==
    ASSUME TypeOK, NumbersOnRecord, SvcTypeOK', SvcSteady, launches' = launches
    PROVE  NumbersOnRecord' /\ NumberStep
BY SteadyKeepsNumbers DEF NumberStep, Numbering!Next

(* A step that touches neither ledger nor spawns stutters. *)
LEMMA QuietStep ==
    ASSUME UNCHANGED <<durable.gens, launches>>
    PROVE  NumberStep
BY DEF NumberStep, Numbering!numVars

(* A thread about to spawn is in a launch. *)
LEMMA NumbersSpawn ==
    ASSUME TypeOK, NumbersOnRecord PROVE SpawnIsOfALaunch
BY DEF NumbersOnRecord, SpawnIsOfALaunch, InSpawn

(* Requests keep the invariant and implement a step of the numbering. *)
LEMMA ServiceRequestStep ==
    ASSUME TypeOK, NumbersOnRecord, ServiceRequest
    PROVE  TypeOK' /\ NumbersOnRecord' /\ NumberStep
<1>1. UNCHANGED <<hostVars, launches, crashes>>
  BY DEF ServiceRequest
<1>2. SvcTypeOK' => TypeOK'
  BY <1>1 DEF TypeOK, hostVars
<1>3. SvcTypeOK /\ SpawnIsOfALaunch
  BY NumbersSpawn DEF TypeOK
<1>4. PICK t \in Tasks :
        \/ \E immediate \in BOOLEAN : Create(t, immediate)
        \/ \E kind \in Kinds, k \in Keys : Begin(t, kind, k)
        \/ EditMetadata(t) \/ Delete(t) \/ AcknowledgeTask(t)
  BY DEF ServiceRequest
<1>5. CASE \E kind \in Kinds, k \in Keys : Begin(t, kind, k)
  BY <1>1, <1>2, <1>3, <1>5, BeginTakesNumber, BeginKeepsNumbers, QuietStep
<1>6. CASE ~ \E kind \in Kinds, k \in Keys : Begin(t, kind, k)
  BY <1>1, <1>2, <1>3, <1>4, <1>6, RequestSteady, SteadyStep
<1> QED BY <1>5, <1>6

(* So do the two ends of a launch. *)
LEMMA LaunchStep ==
    ASSUME TypeOK, NumbersOnRecord, Launch \/ LaunchFails
    PROVE  TypeOK' /\ NumbersOnRecord' /\ NumberStep
<1>1. \A c \in work["gate"].claim : c \in Claim
  BY DEF TypeOK, SvcTypeOK, Work, Threads
<1>2. SvcTypeOK /\ SpawnIsOfALaunch
  BY NumbersSpawn DEF TypeOK
<1>3. CASE Launch
  <2>1. PICK c \in work["gate"].claim :
          /\ SpawnOk(c)
          /\ runs' = runs \cup {[task |-> c.task, gen |-> c.gen,
                                 state |-> "live", asked |-> FALSE]}
          /\ launches' = [launches EXCEPT ![c.task][c.gen] = @ + 1]
    BY <1>3 DEF Launch
  <2>2. SvcTypeOK'
    BY <1>1, <1>2, <2>1, SpawnSteady
  <2>3. /\ NumbersOnRecord'
        /\ launches' \in [Tasks -> [1..MaxGen -> Nat]]
        /\ \E t \in Tasks, g \in 1..MaxGen : Numbering!Spawn(t, g)
    BY <2>1, LaunchKeepsNumbers
  <2>4. [task |-> c.task, gen |-> c.gen, state |-> "live", asked |-> FALSE] \in Run
    BY <1>1 DEF Run, Claim
  <2>5. runs' \subseteq Run
    BY <2>1, <2>4 DEF TypeOK
  <2>6. TypeOK'
    BY <1>3, <2>2, <2>3, <2>5 DEF TypeOK, Launch
  <2> QED BY <2>3, <2>6 DEF NumberStep, Numbering!Next
<1>4. CASE LaunchFails
  <2>1. PICK c \in work["gate"].claim : SpawnFailed(c)
    BY <1>4 DEF LaunchFails
  <2>2. SvcTypeOK' /\ SvcSteady
    BY <1>1, <1>2, <2>1, SpawnSteady
  <2>3. TypeOK' /\ launches' = launches
    BY <1>4, <2>2 DEF LaunchFails, TypeOK, hostVars
  <2> QED BY <2>2, <2>3, SteadyStep
<1> QED BY <1>3, <1>4

(* A kill changes the state of one run; a cancel marks the task's runs. *)
LEMMA KilledType ==
    ASSUME runs \subseteq Run, NEW t
    PROVE  /\ Killed(t) \subseteq Run
           /\ {IF r.task = t THEN [r EXCEPT !.asked = TRUE] ELSE r : r \in Killed(t)}
                \subseteq Run
<1>1. \A r \in Run : [r EXCEPT !.state = "killed"] \in Run
  BY DEF Run
<1>2. \A r \in Run : [r EXCEPT !.asked = TRUE] \in Run
  BY DEF Run
<1>3. Killed(t) \subseteq Run
  BY <1>1 DEF Killed
<1> QED BY <1>2, <1>3

(* So do cancel and complete. *)
LEMMA CancelCompleteStep ==
    ASSUME TypeOK, NumbersOnRecord, NEW t \in Tasks, Cancel(t) \/ Complete(t)
    PROVE  TypeOK' /\ NumbersOnRecord' /\ NumberStep
<1>1. SvcTypeOK /\ SpawnIsOfALaunch /\ runs \subseteq Run
  BY NumbersSpawn DEF TypeOK
<1>2. CancelClaims(t) \/ CompleteRunning(t) \/ CompleteIdle(t)
  BY DEF Cancel, Complete
<1>3. SvcTypeOK' /\ SvcSteady
  BY <1>1, <1>2, RequestSteady
<1>4. CASE Cancel(t)
  BY <1>1, <1>3, <1>4, KilledType, SteadyStep DEF TypeOK, Cancel
<1>5. CASE Complete(t)
  BY <1>1, <1>3, <1>5, KilledType, SteadyStep DEF TypeOK, Complete
<1> QED BY <1>4, <1>5

(* So do a process's end and its exit thread up to the report. *)
LEMMA ExitThreadStep ==
    ASSUME TypeOK, NumbersOnRecord,
           \/ \E r \in runs : RetireRun(r) \/ \E code \in ExitCodes : ProcessExits(r, code)
           \/ \E r \in exits : ConsumeMarks(r)
    PROVE  TypeOK' /\ NumbersOnRecord' /\ NumberStep
<1>1. \A r \in runs \cup exits : r \in Run /\ r.task \in Tasks /\ r.gen \in Nat /\ r.asked \in BOOLEAN
  BY DEF TypeOK, Run
<1>2. UNCHANGED <<svcVars, launches, crashes>>
  BY DEF RetireRun, ProcessExits, ConsumeMarks
<1>3. SvcTypeOK' /\ NumbersOnRecord' /\ NumberStep
  BY <1>2, HostOnlyKeepsNumbers, QuietStep
<1>4. ASSUME NEW r \in runs, RetireRun(r) PROVE TypeOK'
  BY <1>1, <1>2, <1>3, <1>4 DEF RetireRun, TypeOK
<1>5. ASSUME NEW r \in runs, NEW code \in ExitCodes, ProcessExits(r, code) PROVE TypeOK'
  <2>1. [r EXCEPT !.state = code] \in Run
    BY <1>1 DEF Run
  <2> QED BY <1>2, <1>3, <1>5, <2>1 DEF ProcessExits, TypeOK
<1>6. ASSUME NEW r \in exits, ConsumeMarks(r) PROVE TypeOK'
  <2>1. ExitStatus(r) \in Terminal /\ "cancelled" \in Terminal
    BY DEF ExitStatus, Terminal
  <2>2. \A status \in Terminal : ReportOf(r, status) \in Report
    BY <1>1 DEF ReportOf, Report
  <2>3. Outcome(r) \subseteq Report
    BY <2>1, <2>2 DEF Outcome
  <2> QED BY <1>2, <1>3, <1>6, <2>3 DEF ConsumeMarks, TypeOK
<1> QED BY <1>3, <1>4, <1>5, <1>6

(* So do the reports of exit threads and watchers. *)
LEMMA ReportStep ==
    ASSUME TypeOK, NumbersOnRecord,
           \/ \E e \in reports : ReportExit(e)
           \/ \E t \in Tasks, g \in 1..MaxGen, st \in {"running", "input_required"} :
                    WatcherReport(t, g, st)
    PROVE  TypeOK' /\ NumbersOnRecord' /\ NumberStep
<1>1. SvcTypeOK /\ SpawnIsOfALaunch
  BY NumbersSpawn DEF TypeOK
<1>2. ASSUME NEW e \in reports, ReportExit(e) PROVE TypeOK' /\ NumbersOnRecord' /\ NumberStep
  <2>1. e.task \in Tasks /\ e.gen \in Nat /\ e.status \in Statuses
    BY DEF TypeOK, Report, Statuses
  <2>2. SvcTypeOK' /\ SvcSteady
    BY <1>1, <1>2, <2>1, ObserveSteady DEF ReportExit
  <2> QED BY <1>2, <2>2, SteadyStep DEF ReportExit, TypeOK
<1>3. ASSUME NEW t \in Tasks, NEW g \in 1..MaxGen, NEW st \in {"running", "input_required"},
             WatcherReport(t, g, st)
      PROVE  TypeOK' /\ NumbersOnRecord' /\ NumberStep
  <2>1. g \in Nat /\ st \in Statuses
    BY BoundAssumption DEF Statuses, LiveStatus
  <2>2. SvcTypeOK' /\ SvcSteady
    BY <1>1, <1>3, <2>1, ObserveSteady DEF WatcherReport
  <2> QED BY <1>3, <2>2, SteadyStep DEF WatcherReport, TypeOK, hostVars
<1> QED BY <1>2, <1>3

(* So do a crash and every step of the recovery. *)
LEMMA CrashRecoverStep ==
    ASSUME TypeOK, NumbersOnRecord, Crash \/ Recover
    PROVE  TypeOK' /\ NumbersOnRecord' /\ NumberStep
<1>1. SvcTypeOK /\ SpawnIsOfALaunch
  BY NumbersSpawn DEF TypeOK
<1>2. CASE Crash
  <2>1. SvcTypeOK' /\ launches' = launches
    BY <1>1, <1>2, DieType DEF Crash
  <2>2. NumbersOnRecord' /\ NumberStep
    BY <1>2, <2>1, DieKeepsNumbers, QuietStep DEF Crash
  <2> QED BY <1>2, <2>1, <2>2 DEF Crash, TypeOK
<1>3. CASE Recover
  <2>1. SvcTypeOK' => TypeOK'
    BY <1>3 DEF Recover, TypeOK, hostVars
  <2>2. CASE Restart
    BY <1>1, <1>3, <2>1, <2>2, RestartType, RestartKeepsNumbers, QuietStep DEF Recover
  <2>3. CASE Reconcile \/ Serve("repair") \/ Serve("boot")
    BY <1>1, <1>3, <2>1, <2>3, RepairSteady, SteadyStep DEF Recover
  <2> QED BY <1>3, <2>2, <2>3 DEF Recover
<1> QED BY <1>2, <1>3

(* Every step keeps the invariant and implements a step or a stutter. *)
LEMMA StepInvariant ==
    ASSUME TypeOK, NumbersOnRecord, [Next]_vars
    PROVE  TypeOK' /\ NumbersOnRecord' /\ NumberStep
<1>1. CASE UNCHANGED vars
  <2>1. UNCHANGED <<svcVars, launches>>
    BY <1>1 DEF vars
  <2> QED BY <1>1, <2>1, HostOnlyKeepsNumbers, QuietStep DEF vars, hostVars, TypeOK
<1>2. ASSUME NEW th \in Threads, ServiceStep(th)
      PROVE  TypeOK' /\ NumbersOnRecord' /\ NumberStep
  <2>1. SvcTypeOK' /\ SvcSteady
    BY <1>2, NumbersSpawn, CommitStepSteady DEF ServiceStep, TypeOK
  <2> QED BY <1>2, <2>1, SteadyStep DEF ServiceStep, TypeOK, hostVars
<1>3. CASE ~ UNCHANGED vars
  BY <1>2, <1>3, ServiceRequestStep, LaunchStep, CancelCompleteStep, ExitThreadStep,
     ReportStep, CrashRecoverStep DEF Next
<1> QED BY <1>1, <1>3

(* The invariant holds at the start, which maps to a start of the numbering. *)
LEMMA InitInvariant == Init => TypeOK /\ NumbersOnRecord /\ Numbering!Init
<1> SUFFICES ASSUME Init PROVE TypeOK /\ NumbersOnRecord /\ Numbering!Init
  OBVIOUS
<1> USE BoundAssumption
<1>1. SvcTypeOK
  <2>1. table \in Cover
    BY AbsentRowType DEF Init, SvcInit, Cover
  <2>2. work \in [Threads -> Work]
    BY IdleType DEF Init, SvcInit
  <2> QED BY <2>1, <2>2, AbsentRowType, EmptyLedgerType DEF Init, SvcInit, SvcTypeOK, Phases
<1>2. TypeOK
  BY <1>1 DEF Init, TypeOK
<1>3. work["gate"] = Idle /\ InLaunch = {}
  BY IdleType DEF Init, SvcInit, Threads, InLaunch
<1>4. NumbersOnRecord
  BY <1>3, IdleType DEF Init, SvcInit, NumbersOnRecord, EmptyLedger
<1>5. Numbering!Init
  BY DEF Init, SvcInit, EmptyLedger, Numbering!Init
<1> QED BY <1>2, <1>4, <1>5

-------------------------------------------------------------------------------
(* The theorems. *)

(* Every variable keeps its type, in every behaviour of the host: the       *)
(* service's four-step commits, the exit threads, crashes and restarts.     *)
THEOREM TypeCorrect == Spec => []TypeOK
<1>1. TypeOK /\ NumbersOnRecord /\ [Next]_vars => (TypeOK /\ NumbersOnRecord)'
  BY StepInvariant
<1> QED BY <1>1, InitInvariant, PTL DEF Spec

(* begin_under_lock's order (claim, write, persist the ledger, only then    *)
(* spawn) keeps the numbers on record through failed writes and crashes.    *)
THEOREM NumbersStayOnRecord == Spec => []NumbersOnRecord
<1>1. TypeOK /\ NumbersOnRecord /\ [Next]_vars => (TypeOK /\ NumbersOnRecord)'
  BY StepInvariant
<1> QED BY <1>1, InitInvariant, PTL DEF Spec

(* No run number is ever spawned twice. *)
THEOREM NumbersNeverReused == Spec => []RunNumbersNeverReused
<1>1. NumbersOnRecord => RunNumbersNeverReused
  BY DEF NumbersOnRecord, RunNumbersNeverReused
<1> QED BY <1>1, NumbersStayOnRecord, PTL

(* The host implements RunNumbering, with task-operations.json as the       *)
(* record and the spawns as they happen.                                    *)
THEOREM HostImplementsNumbering == Spec => ImplementsNumbering
<1>1. TypeOK /\ NumbersOnRecord /\ [Next]_vars => (TypeOK /\ NumbersOnRecord)'
  BY StepInvariant
<1>2. TypeOK /\ NumbersOnRecord /\ [Next]_vars => [Numbering!Next]_(Numbering!numVars)
  BY StepInvariant DEF NumberStep
<1> QED BY <1>1, <1>2, InitInvariant, PTL DEF Spec, ImplementsNumbering, Numbering!Spec

-------------------------------------------------------------------------------
(* The rows, the claims and the cover table of a host whose operations all *)
(* take the `mutations` lock.                                              *)

(* delete is the operation that does not take it. *)
Serialized == "delete" \notin Features

Gate == work["gate"]

Alone == work["bypass"] = Idle

(* What an operation is about to write differs from the disk in the rows   *)
(* it is about, and once it is stamped in the copies of the run numbers,   *)
(* which are then the ledger's.  abandon_launch breaks this.               *)
OwnRows ==
    /\ Gate.pc = "check" => \A t \in Tasks \ Gate.ids : Gate.recs[t] = rows[t]
    /\ Gate.pc = "write" =>
          \A t \in Tasks : /\ t \in Gate.ids \/ Body(Gate.recs[t]) = Body(rows[t])
                           /\ Present(Gate.recs[t]) => Gate.recs[t].gen = ledger.gens[t]

(* The table lags behind the disk between a write and its bump only, as    *)
(* long as no write fails and the host does not die in between.            *)
CoverInv ==
    faults = 0 /\ crashes = 0 =>
        phase = "up" /\ IF Gate.pc = "bump" THEN rows = Gate.recs ELSE Covered

(* A row that shows a run.                                                 *)
Shows(list, c) == list[c.task].status \in ActiveStatus

(* Nothing has gone wrong that leaves a claim behind on disk.              *)
Calm == faults = 0 \/ crashes = 0

(* Every open claim's row shows a run, on disk and in what is about to be  *)
(* written, except for the claim a launch has just taken; what is on disk  *)
(* of the claims is among them.                                            *)
OpenInv ==
    /\ crashes = 0 => phase = "up"
    /\ ledger.acks = {} /\ durable.acks = {}
    /\ Gate.op \in {"none", "edit", "begin"}
    /\ Gate.op # "begin" => Gate.claim = {} /\ Gate.pc # "settle"
    /\ Calm => /\ \A c \in ledger.claims \ Gate.claim : Shows(rows, c)
               /\ Gate.pc \in {"check", "write"} =>
                     \A c \in ledger.claims \cup Gate.claim : Shows(Gate.recs, c)
               /\ Gate.pc \in {"bump", "ledger", "ack", "spawn"} =>
                     \A c \in Gate.claim : Shows(rows, c)
               /\ faults = 0 => /\ \A c \in durable.claims : Shows(rows, c)
                                /\ phase # "down" => durable.claims \subseteq ledger.claims

(* The request that a run serves, and the run an exit thread is about.     *)
SameRun(x, y) == x.task = y.task /\ x.gen = y.gen

KeysDiffer(L) == \A c, d \in L.claims : AttemptKey(c) = AttemptKey(d) => c = d

(* A host that does not serve has no runs; it repairs or does nothing.     *)
PhaseInv ==
    /\ phase # "up" => /\ runs = {} /\ exits = {} /\ reports = {}
                       /\ Gate.op \in {"none", "reconcile"}
    /\ Gate.op = "reconcile" => phase = "repair"

(* The claim in the gate's hand is open, its number has not been spawned,  *)
(* and it is on disk when the spawn is due.                                *)
HandInv ==
    /\ Gate.op \notin {"begin", "abandon"} => Gate.claim = {}
    /\ \A c \in Gate.claim :
          /\ c \in ledger.claims /\ c.gen \in 1..MaxGen /\ launches[c.task][c.gen] = 0
          /\ Gate.pc \in {"ack", "spawn"} => c \in durable.claims

(* A run, its exit thread and its report have a spawned number; a number   *)
(* has one of the three.                                                   *)
RunInv ==
    /\ \A x \in runs \cup exits \cup reports :
          x.gen \in 1..MaxGen /\ launches[x.task][x.gen] > 0
    /\ \A r, q \in runs : SameRun(r, q) => r = q
    /\ \A r \in runs, x \in exits \cup reports : ~SameRun(r, x)

RecordInv ==
    /\ PhaseInv /\ HandInv /\ RunInv
    /\ KeysDiffer(ledger) /\ KeysDiffer(durable)
    /\ LiveRunIsOnRecord

-------------------------------------------------------------------------------
(* The gate's thread. *)

(* An idle thread is about nothing. *)
LEMMA IdleGate == Idle.pc = "idle" /\ Idle.op = "none" /\ Idle.claim = {} /\ Idle.ids = {}
BY DEF Idle

(* The gate's thread moves on with what it has in hand, *)
LEMMA GateMoves ==
    ASSUME work \in [Threads -> Work], NEW pc, GoTo("gate", pc)
    PROVE  /\ Gate'.pc = pc /\ Gate'.op = Gate.op /\ Gate'.recs = Gate.recs
           /\ Gate'.claim = Gate.claim /\ Gate'.ids = Gate.ids
           /\ work'["bypass"] = work["bypass"]
<1>1. Gate \in Work /\ "gate" \in Threads
  BY DEF Gate, Threads
<1>2. Gate' = [Gate EXCEPT !.pc = pc] /\ work'["bypass"] = work["bypass"]
  BY <1>1 DEF GoTo, Gate, Threads
<1> QED BY <1>1, <1>2 DEF Work

(* returns with empty hands, *)
LEMMA GateReturns ==
    ASSUME work \in [Threads -> Work], Return("gate")
    PROVE  Gate' = Idle /\ work'["bypass"] = work["bypass"]
BY DEF Return, Gate, Threads

(* stamps what it is about to write, *)
LEMMA GateStamps ==
    ASSUME work \in [Threads -> Work], ledger \in Ledger, Stamp("gate")
    PROVE  /\ Gate'.pc = "write" /\ Gate'.op = Gate.op /\ Gate'.recs = Stamped(Gate.recs)
           /\ Gate'.claim = Gate.claim /\ Gate'.ids = Gate.ids
           /\ work'["bypass"] = work["bypass"]
BY ThreadStamps DEF Gate, Threads

(* or takes up an operation. *)
LEMMA GateDecides ==
    ASSUME work \in [Threads -> Work], NEW op, NEW recs, NEW claim, NEW ids,
           Decide("gate", op, recs, claim, ids)
    PROVE  /\ Gate'.pc = "check" /\ Gate'.op = op /\ Gate'.recs = recs
           /\ Gate'.claim = claim /\ Gate'.ids = ids
           /\ work'["bypass"] = work["bypass"]
BY DEF Decide, Gate, Threads

(* A commit that failed: the launch settles, others return. *)
LEMMA GateFails ==
    ASSUME work \in [Threads -> Work], CommitFailed("gate")
    PROVE  \/ GoTo("gate", "settle") /\ Gate.op \in {"begin", "abandon"}
           \/ Return("gate") /\ Gate.op \notin {"begin", "abandon"}
BY DEF CommitFailed, Gate

(* A commit that is over. *)
LEMMA GateDone ==
    ASSUME work \in [Threads -> Work], CommitDone("gate")
    PROVE  \/ GoTo("gate", "ack") /\ Gate.op = "begin"
           \/ GoTo("gate", "settle") /\ Gate.op \in {"abandon", "reconcile"}
           \/ Return("gate") /\ Gate.op \notin {"begin", "abandon", "reconcile"}
BY DEF CommitDone, Gate

-------------------------------------------------------------------------------
(* What a step of a serialized host is to the service. *)

ObservedStatus == Terminal \cup {"running", "input_required"}

RequestOf(t) ==
    \/ \E immediate \in BOOLEAN : Create(t, immediate)
    \/ \E kind \in Kinds, k \in Keys : Begin(t, kind, k)
    \/ EditMetadata(t) \/ AcknowledgeTask(t) \/ CancelClaims(t) \/ CompleteIdle(t)

ObservedOf(t) ==
    \E g \in Nat, status \in ObservedStatus, reason, guarded, taskLive \in BOOLEAN :
        Observe(t, g, status, reason, guarded, taskLive)

SpawnEnds ==
    \E c \in Gate.claim : SpawnOk(c) \/ ("launch_failure" \in Features /\ SpawnFailed(c))

ComesBack ==
    \/ Restart \/ Serve("repair") \/ Serve("boot")
    \/ "reconcile" \in Features /\ Reconcile

ServiceMove ==
    \/ UNCHANGED svcVars
    \/ CommitStep("gate")
    \/ \E t \in Tasks : RequestOf(t) \/ ObservedOf(t)
    \/ SpawnEnds
    \/ ComesBack

ServiceShare ==
    \/ ServiceMove /\ crashes' = crashes
    \/ Die /\ crashes' = crashes + 1

(* The second thread has nothing to do. *)
LEMMA BypassRests == ASSUME Alone PROVE ~CommitStep("bypass")
BY IdleGate DEF Alone, CommitStep, CheckCover, Write, Bump, PersistLedger, AcknowledgeByStart,
   SettleStep, AtStep

(* Every step has its share in the service. *)
LEMMA SerialStep ==
    ASSUME TypeOK, Alone, Serialized, [Next]_vars
    PROVE  ServiceShare
<1> USE DEF ServiceShare, ServiceMove
<1>1. CASE UNCHANGED vars
  BY <1>1 DEF vars
<1>2. CASE ServiceRequest
  BY <1>2 DEF ServiceRequest, Serialized, RequestOf
<1>3. ASSUME NEW th \in Threads, ServiceStep(th) PROVE ServiceShare
  BY <1>3, BypassRests DEF ServiceStep, Threads
<1>4. CASE Launch \/ LaunchFails
  BY <1>4 DEF Launch, LaunchFails, SpawnEnds, Gate
<1>5. ASSUME NEW t \in Tasks, Cancel(t) \/ Complete(t) PROVE ServiceShare
  BY <1>5 DEF Cancel, Complete, CompleteRunning, RequestOf
<1>6. CASE \/ \E r \in runs : RetireRun(r) \/ \E code \in ExitCodes : ProcessExits(r, code)
           \/ \E r \in exits : ConsumeMarks(r)
  BY <1>6 DEF RetireRun, ProcessExits, ConsumeMarks
<1>7. ASSUME NEW e \in reports, ReportExit(e) PROVE ServiceShare
  <2>1. /\ e.task \in Tasks /\ e.gen \in Nat /\ e.status \in ObservedStatus
        /\ (e.status = "failed") \in BOOLEAN /\ FALSE \in BOOLEAN
        /\ HasLiveRun(e.task) \in BOOLEAN
    BY DEF TypeOK, Report, ObservedStatus, HasLiveRun
  <2>2. Observe(e.task, e.gen, e.status, e.status = "failed", FALSE, HasLiveRun(e.task))
        /\ crashes' = crashes
    BY <1>7 DEF ReportExit
  <2>3. ObservedOf(e.task)
    BY <2>1, <2>2 DEF ObservedOf
  <2> QED BY <2>1, <2>2, <2>3
<1>8. ASSUME NEW t \in Tasks, NEW g \in 1..MaxGen, NEW st \in {"running", "input_required"},
             WatcherReport(t, g, st)
      PROVE  ServiceShare
  <2>1. /\ g \in Nat /\ st \in ObservedStatus
        /\ FALSE \in BOOLEAN /\ TRUE \in BOOLEAN /\ HasLiveRun(t) \in BOOLEAN
    BY BoundAssumption DEF ObservedStatus, HasLiveRun
  <2>2. Observe(t, g, st, FALSE, TRUE, HasLiveRun(t)) /\ crashes' = crashes
    BY <1>8 DEF WatcherReport
  <2>3. ObservedOf(t)
    BY <2>1, <2>2 DEF ObservedOf
  <2> QED BY <2>2, <2>3
<1>9. CASE Crash \/ Recover
  BY <1>9 DEF Crash, Recover, ComesBack
<1> QED BY <1>1, <1>2, <1>3, <1>4, <1>5, <1>6, <1>7, <1>8, <1>9 DEF Next

(* What a report comes to: nothing, or an end is taken off the ledger, and *)
(* the row may be due for a write.                                         *)
LEMMA ObservedSplit ==
    ASSUME NEW t, ObservedOf(t)
    PROVE  /\ GateFree /\ UNCHANGED <<rows, table, phase>>
           /\ \/ UNCHANGED <<ledger, durable, faults, work>>
              \/ \E g \in Nat, status \in ObservedStatus, reason \in BOOLEAN :
                  LET folded == IF status \in Terminal /\ LiveOtherThan(ledger, t, g) # {}
                                THEN "running" ELSE status
                      row == ApplyStatus(rows[t], folded, reason, Now(t))
                  IN /\ \/ /\ status \in Terminal
                           /\ ledger' = SettleByGeneration(ledger, t, g)
                           /\ BestEffortPersist(ledger')
                        \/ status \notin Terminal /\ UNCHANGED <<ledger, durable, faults>>
                     /\ \/ row = rows[t] /\ work' = work
                        \/ Decide("gate", "edit", [rows EXCEPT ![t] = row], {}, {t})
BY DEF ObservedOf, Observe

(* A commit step of the gate moves its thread, returns it, or takes it to  *)
(* its end.                                                                *)
LEMMA CommitMoves ==
    ASSUME CommitStep("gate")
    PROVE  \/ \E pc : GoTo("gate", pc)
           \/ Return("gate")
           \/ Stamp("gate")
BY DEF CommitStep, CheckCover, Write, Bump, PersistLedger, AcknowledgeByStart, SettleStep,
   CommitFailed, CommitDone

(* Without delete the second thread never has work. *)
LEMMA AloneStays ==
    ASSUME TypeOK, Alone, ServiceShare
    PROVE  Alone'
<1> USE DEF Alone
<1>1. work \in [Threads -> Work] /\ ledger \in Ledger
  BY DEF TypeOK, SvcTypeOK
<1>2. ASSUME \/ work' = work \/ Return("gate") \/ Stamp("gate")
             \/ \E pc : GoTo("gate", pc)
             \/ \E op, recs, claim, ids : Decide("gate", op, recs, claim, ids)
      PROVE  Alone'
  BY <1>1, <1>2, GateMoves, GateReturns, GateStamps, GateDecides
<1>3. CASE UNCHANGED svcVars
  BY <1>2, <1>3 DEF svcVars
<1>4. CASE CommitStep("gate")
  BY <1>2, <1>4, CommitMoves
<1>5. ASSUME NEW t \in Tasks, RequestOf(t) PROVE Alone'
  BY <1>2, <1>5 DEF RequestOf, Create, Begin, EditMetadata, AcknowledgeTask, CancelClaims,
     CompleteIdle
<1>6. ASSUME NEW t \in Tasks, ObservedOf(t) PROVE Alone'
  BY <1>2, <1>6, ObservedSplit
<1>7. CASE SpawnEnds
  BY <1>2, <1>7 DEF SpawnEnds, SpawnOk, SpawnFailed
<1>8. CASE ComesBack
  BY <1>2, <1>8 DEF ComesBack, Restart, Serve, Reconcile
<1>9. CASE Die
  BY <1>9 DEF Die, Threads
<1> QED BY <1>3, <1>4, <1>5, <1>6, <1>7, <1>8, <1>9 DEF ServiceShare, ServiceMove

-------------------------------------------------------------------------------
(* Own rows. *)

OwnWrites ==
    \A t \in Tasks :
        /\ Body(rows'[t]) # Body(rows[t]) =>
              \E th \in Threads : AtStep(th, "write") /\ t \in work[th].ids
        /\ Present(rows'[t]) /\ rows'[t].gen # rows[t].gen => rows'[t].gen = ledger.gens[t]

(* Where the gate's thread takes up an operation it has just read the rows. *)
LEMMA FreshRows ==
    ASSUME TypeOK, rows' = rows, NEW op, NEW recs, NEW ids, NEW claim,
           Decide("gate", op, recs, claim, ids),
           \A t \in Tasks \ ids : recs[t] = rows[t]
    PROVE  OwnRows' /\ OwnWrites
BY GateDecides DEF TypeOK, SvcTypeOK, OwnRows, OwnWrites

(* A thread that goes on past its write, returns, or rests. *)
LEMMA PastWrite ==
    ASSUME TypeOK, rows' = rows,
           \/ Return("gate")
           \/ \E pc \in {"bump", "ledger", "ack", "spawn", "settle"} : GoTo("gate", pc)
    PROVE  OwnRows' /\ OwnWrites
BY GateMoves, GateReturns, IdleGate DEF TypeOK, SvcTypeOK, OwnRows, OwnWrites

(* A service without failing launches writes the rows its operation is     *)
(* about and no others.                                                    *)
LEMMA OwnRowsStay ==
    ASSUME TypeOK, NumbersOnRecord, OwnRows, "launch_failure" \notin Features, ServiceShare
    PROVE  OwnRows' /\ OwnWrites
<1> USE DEF OwnWrites
<1>1. /\ work \in [Threads -> Work] /\ rows \in [Tasks -> Row] /\ ledger \in Ledger
      /\ Gate.recs \in Rows
  BY DEF TypeOK, SvcTypeOK, Rows, Gate, Threads, Work
<1>2. ASSUME UNCHANGED <<rows, work>>, ledger'.gens = ledger.gens \/ Gate = Idle
      PROVE  OwnRows' /\ OwnWrites
  BY <1>2, IdleGate DEF OwnRows, Gate
<1>3. CASE CommitStep("gate")
  <2>1. CASE CheckCover("gate")
    <3>1. /\ rows' = rows /\ ledger' = ledger /\ Gate.pc = "check"
          /\ Stamp("gate") \/ CommitFailed("gate")
      BY <2>1 DEF CheckCover, AtStep, Gate
    <3>2. CASE Stamp("gate")
      <4>1. \A t \in Tasks : /\ Body(Stamped(Gate.recs)[t]) = Body(Gate.recs[t])
                             /\ Stamped(Gate.recs)[t].status = Gate.recs[t].status
                             /\ Present(Gate.recs[t]) =>
                                   Stamped(Gate.recs)[t].gen = ledger.gens[t]
        BY <1>1, StampedRows
      <4>2. Gate'.pc = "write" /\ Gate'.recs = Stamped(Gate.recs) /\ Gate'.ids = Gate.ids
        BY <1>1, <3>2, GateStamps
      <4> QED BY <3>1, <4>1, <4>2 DEF OwnRows, Present
    <3>3. CASE CommitFailed("gate")
      BY <1>1, <3>1, <3>3, GateFails, PastWrite
    <3> QED BY <3>1, <3>2, <3>3
  <2>2. CASE Write("gate")
    <3>1. /\ AtStep("gate", "write") /\ Gate.pc = "write"
          /\ \/ rows' = Gate.recs /\ GoTo("gate", "bump")
             \/ rows' = rows /\ CommitFailed("gate")
      BY <2>2 DEF Write, AtStep, Gate
    <3>2. CASE rows' = Gate.recs /\ GoTo("gate", "bump")
      <4>1. OwnRows'
        BY <1>1, <3>2, GateMoves DEF OwnRows
      <4>2. OwnWrites
        BY <3>1, <3>2 DEF OwnRows, Gate, Threads
      <4> QED BY <4>1, <4>2
    <3>3. CASE rows' = rows /\ CommitFailed("gate")
      BY <1>1, <3>3, GateFails, PastWrite
    <3> QED BY <3>1, <3>2, <3>3
  <2>3. CASE Bump("gate") \/ PersistLedger("gate")
    <3>1. /\ rows' = rows
          /\ GoTo("gate", "ledger") \/ CommitFailed("gate") \/ CommitDone("gate")
      BY <2>3 DEF Bump, PersistLedger
    <3> QED BY <1>1, <3>1, GateFails, GateDone, PastWrite
  <2>4. CASE AcknowledgeByStart("gate") \/ SettleStep("gate")
    BY <2>4, PastWrite DEF AcknowledgeByStart, SettleStep
  <2> QED BY <1>3, <2>1, <2>2, <2>3, <2>4 DEF CommitStep
<1>4. ASSUME NEW t \in Tasks, NEW op, NEW row, NEW claim,
             Decide("gate", op, [rows EXCEPT ![t] = row], claim, {t}), rows' = rows
      PROVE  OwnRows' /\ OwnWrites
  <2>1. PICK recs : recs = [rows EXCEPT ![t] = row]
    OBVIOUS
  <2>2. \A u \in Tasks \ {t} : recs[u] = rows[u]
    BY <1>1, <2>1
  <2>3. Decide("gate", op, recs, claim, {t})
    BY <1>4, <2>1
  <2> QED BY <1>4, <2>2, <2>3, FreshRows
<1>5. ASSUME NEW t \in Tasks, RequestOf(t) PROVE OwnRows' /\ OwnWrites
  <2>1. CASE AcknowledgeTask(t) \/ CancelClaims(t)
    BY <1>1, <1>2, <2>1 DEF AcknowledgeTask, CancelClaims, Acknowledge, SettleTasks, Ledger
  <2>2. CASE ~(AcknowledgeTask(t) \/ CancelClaims(t))
    BY <1>4, <1>5, <2>2 DEF RequestOf, Create, Begin, EditMetadata, CompleteIdle
  <2> QED BY <2>1, <2>2
<1>6. ASSUME NEW t \in Tasks, ObservedOf(t) PROVE OwnRows' /\ OwnWrites
  <2>1. /\ rows' = rows
        /\ work' = work \/ \E row : Decide("gate", "edit", [rows EXCEPT ![t] = row], {}, {t})
    BY <1>6, ObservedSplit
  <2>2. Gate = Idle
    BY <1>6, ObservedSplit DEF GateFree, Gate
  <2> QED BY <1>2, <1>4, <2>1, <2>2
<1>7. CASE SpawnEnds
  BY <1>7, PastWrite DEF SpawnEnds, SpawnOk
<1>8. CASE ComesBack
  <2>1. CASE Serve("repair") \/ Serve("boot")
    BY <1>2, <2>1 DEF Serve
  <2>2. CASE Restart
    BY <1>2, <2>2 DEF Restart, NumbersOnRecord, Gate
  <2>3. CASE Reconcile
    <3>1. /\ rows' = rows /\ ledger' = ledger
          /\ work' = work \/ Decide("gate", "reconcile", Interrupted(CutOff), {}, CutOff)
      BY <2>3 DEF Reconcile
    <3>2. \A t \in Tasks \ CutOff : Interrupted(CutOff)[t] = rows[t]
      BY DEF Interrupted
    <3> QED BY <1>2, <3>1, <3>2, FreshRows
  <2> QED BY <1>8, <2>1, <2>2, <2>3 DEF ComesBack
<1>9. CASE Die
  <2>1. rows' = rows /\ Gate' = Idle
    BY <1>9 DEF Die, Gate, Threads
  <2> QED BY <2>1, IdleGate DEF OwnRows
<1>10. CASE UNCHANGED svcVars
  BY <1>2, <1>10 DEF svcVars
<1> QED BY <1>3, <1>5, <1>6, <1>7, <1>8, <1>9, <1>10 DEF ServiceShare, ServiceMove

-------------------------------------------------------------------------------
(* The cover table. *)

(* A step that writes neither the list nor the table. *)
LEMMA CoverKept ==
    ASSUME CoverInv, UNCHANGED <<rows, table>>,
           work' = work \/ (Gate.pc # "bump" /\ Gate'.pc # "bump"),
           faults' = 0 => faults = 0, crashes' = 0 => crashes = 0,
           phase = "up" => phase' = "up"
    PROVE  CoverInv'
BY DEF CoverInv, Covered, Gate

(* Failed writes and crashes are not forgotten. *)
LEMMA FaultsGrow ==
    ASSUME TypeOK, NEW L, BestEffortPersist(L)
    PROVE  faults' = 0 => faults = 0
BY DEF BestEffortPersist, TypeOK, SvcTypeOK

(* Between the bump of one operation and the write of the next the table   *)
(* names what is on disk.                                                  *)
LEMMA CoverStays ==
    ASSUME TypeOK, CoverInv, ServiceShare
    PROVE  CoverInv'
<1>1. /\ work \in [Threads -> Work] /\ ledger \in Ledger
      /\ faults \in Nat /\ crashes \in Nat
  BY DEF TypeOK, SvcTypeOK
<1>2. CASE Die /\ crashes' = crashes + 1
  BY <1>1, <1>2 DEF CoverInv
<1>3. CASE UNCHANGED svcVars /\ crashes' = crashes
  BY <1>3 DEF svcVars, CoverInv, Covered, Gate
<1>4. ASSUME \/ Return("gate")
             \/ \E pc : pc # "bump" /\ GoTo("gate", pc)
             \/ \E op, recs, claim, ids : Decide("gate", op, recs, claim, ids)
      PROVE  Gate'.pc # "bump"
  BY <1>1, <1>4, GateMoves, GateReturns, GateDecides, IdleGate
<1>5. CASE CommitStep("gate") /\ crashes' = crashes
  <2>1. ASSUME CommitFailed("gate") \/ CommitDone("gate") PROVE Gate'.pc # "bump"
    BY <1>1, <1>4, <2>1, GateFails, GateDone
  <2>2. CASE CheckCover("gate")
    <3>1. Gate.pc = "check" /\ (Stamp("gate") \/ CommitFailed("gate"))
      BY <2>2 DEF CheckCover, AtStep, Gate
    <3>2. Gate'.pc # "bump"
      BY <1>1, <2>1, <3>1, GateStamps
    <3> QED BY <1>5, <2>2, <3>1, <3>2, CoverKept DEF CheckCover
  <2>3. CASE Write("gate")
    <3>1. CASE rows' = Gate.recs /\ GoTo("gate", "bump") /\ faults' = faults /\ phase' = phase
      BY <1>1, <1>5, <3>1, GateMoves DEF CoverInv
    <3>2. CASE faults' = faults + 1
      BY <1>1, <3>2 DEF CoverInv
    <3> QED BY <2>3, <3>1, <3>2 DEF Write, Gate
  <2>4. CASE Bump("gate")
    <3>1. CASE /\ table' = [known |-> TRUE, rows |-> Gate.recs] /\ GoTo("gate", "ledger")
               /\ faults' = faults /\ UNCHANGED <<rows, phase>> /\ Gate.pc = "bump"
      <4>1. SUFFICES ASSUME faults' = 0, crashes' = 0 PROVE phase' = "up" /\ Covered'
        BY <1>4, <3>1 DEF CoverInv
      <4>2. phase = "up" /\ rows = Gate.recs
        BY <1>5, <3>1, <4>1 DEF CoverInv
      <4> QED BY <3>1, <4>2 DEF Covered
    <3>2. CASE faults' = faults + 1
      BY <1>1, <3>2 DEF CoverInv
    <3> QED BY <2>4, <3>1, <3>2 DEF Bump, Gate, AtStep
  <2>5. CASE PersistLedger("gate")
    <3>1. Gate.pc = "ledger" /\ (CommitFailed("gate") \/ CommitDone("gate"))
      BY <2>5 DEF PersistLedger, AtStep, Gate
    <3> QED BY <1>1, <1>5, <2>1, <2>5, <3>1, CoverKept DEF PersistLedger
  <2>6. CASE AcknowledgeByStart("gate")
    <3>1. Gate.pc = "ack" /\ GoTo("gate", "spawn") /\ (faults' = faults \/ BestEffortPersist(ledger'))
      BY <2>6 DEF AcknowledgeByStart, AtStep, Gate
    <3> QED BY <1>4, <1>5, <2>6, <3>1, FaultsGrow, CoverKept DEF AcknowledgeByStart
  <2>7. CASE SettleStep("gate")
    <3>1. Gate.pc = "settle" /\ Return("gate") /\ BestEffortPersist(ledger')
      BY <2>7 DEF SettleStep, AtStep, Gate
    <3> QED BY <1>4, <1>5, <2>7, <3>1, FaultsGrow, CoverKept DEF SettleStep
  <2> QED BY <1>5, <2>2, <2>3, <2>4, <2>5, <2>6, <2>7 DEF CommitStep
<1>6. ASSUME NEW t \in Tasks, RequestOf(t), crashes' = crashes PROVE CoverInv'
  <2>1. CASE AcknowledgeTask(t) \/ CancelClaims(t)
    BY <1>6, <2>1, FaultsGrow, CoverKept DEF AcknowledgeTask, CancelClaims
  <2>2. CASE ~(AcknowledgeTask(t) \/ CancelClaims(t))
    <3>1. /\ \E op, recs, claim, ids : Decide("gate", op, recs, claim, ids)
          /\ GateFree /\ UNCHANGED <<rows, table, faults, phase>>
      BY <1>6, <2>2 DEF RequestOf, Create, Begin, EditMetadata, CompleteIdle
    <3>2. Gate.pc # "bump"
      BY <3>1, IdleGate DEF GateFree, Gate
    <3> QED BY <1>4, <1>6, <3>1, <3>2, CoverKept
  <2> QED BY <2>1, <2>2
<1>7. ASSUME NEW t \in Tasks, ObservedOf(t), crashes' = crashes PROVE CoverInv'
  <2>1. /\ GateFree /\ UNCHANGED <<rows, table, phase>>
        /\ work' = work \/ \E op, recs, claim, ids : Decide("gate", op, recs, claim, ids)
        /\ faults' = faults \/ BestEffortPersist(ledger')
    BY <1>7, ObservedSplit
  <2>2. Gate.pc # "bump"
    BY <2>1, IdleGate DEF GateFree, Gate
  <2> QED BY <1>4, <1>7, <2>1, <2>2, FaultsGrow, CoverKept
<1>8. CASE SpawnEnds /\ crashes' = crashes
  <2>1. /\ Gate.pc = "spawn" /\ UNCHANGED <<rows, table, faults, phase>>
        /\ \/ Return("gate") \/ GoTo("gate", "settle")
           \/ \E op, recs, claim, ids : Decide("gate", op, recs, claim, ids)
    BY <1>8 DEF SpawnEnds, SpawnOk, SpawnFailed, Spawning, AtStep, Gate
  <2> QED BY <1>4, <1>8, <2>1, CoverKept
<1>9. CASE ComesBack /\ crashes' = crashes
  <2>1. phase # "up" /\ faults' = faults
    BY <1>9 DEF ComesBack, Restart, Serve, Reconcile
  <2> QED BY <1>9, <2>1 DEF CoverInv
<1> QED BY <1>2, <1>3, <1>5, <1>6, <1>7, <1>8, <1>9 DEF ServiceShare, ServiceMove

-------------------------------------------------------------------------------
(* Open claims and the rows that show them. *)

(* A best-effort write of a ledger with the same acknowledgements. *)
LEMMA BestEffortClaims ==
    ASSUME NEW L, BestEffortPersist(L), faults \in Nat
    PROVE  /\ durable' = L \/ (durable' = durable /\ faults' # 0)
           /\ faults' = 0 => faults = 0
BY DEF BestEffortPersist

(* The ledger's operations and its claims. *)
LEMMA LedgerClaims ==
    ASSUME NEW L \in Ledger, NEW t, NEW g, NEW T, NEW cs
    PROVE  /\ Settle(L, cs).claims = {c \in L.claims : \A d \in cs : AttemptKey(c) # AttemptKey(d)}
           /\ Settle(L, cs).acks = L.acks
           /\ SettleByGeneration(L, t, g).claims = {c \in L.claims : ~(c.task = t /\ c.gen = g)}
           /\ SettleByGeneration(L, t, g).acks = L.acks
           /\ SettleTasks(L, T).claims = {c \in L.claims : c.task \notin T}
           /\ SettleTasks(L, T).acks = L.acks
BY DEF Ledger, Settle, SettleByGeneration, SettleTasks

(* Acknowledgements leave the claims alone. *)
LEMMA AckClaims ==
    ASSUME NEW L \in Ledger, NEW T
    PROVE  /\ Acknowledge(L, T).claims = L.claims
           /\ AwaitAcknowledgement(L, T).claims = L.claims
BY DEF Ledger, Acknowledge, AwaitAcknowledgement

(* An operation that begins with the gate free keeps every claim shown in  *)
(* the list it is about to write.                                          *)
LEMMA OpenDecides ==
    ASSUME TypeOK, OpenInv, GateFree, NEW op \in {"edit", "begin"}, NEW recs, NEW claim, NEW ids,
           Decide("gate", op, recs, claim, ids), op # "begin" => claim = {},
           UNCHANGED <<rows, phase, crashes>>, faults' = 0 => faults = 0,
           ledger'.acks = {}, durable'.acks = {},
           ledger'.claims \subseteq ledger.claims \cup claim,
           Calm => \A c \in ledger'.claims \cup claim : Shows(recs, c),
           faults' = 0 => /\ durable'.claims \subseteq ledger'.claims
                          /\ durable'.claims \subseteq ledger.claims
    PROVE  OpenInv'
<1>1. /\ Gate'.pc = "check" /\ Gate'.op = op /\ Gate'.recs = recs /\ Gate'.claim = claim
  BY GateDecides DEF TypeOK, SvcTypeOK
<1>2. Gate.claim = {} /\ phase = "up"
  BY IdleGate DEF GateFree, Gate
<1>3. Calm' => Calm
  BY DEF Calm
<1>4. ASSUME Calm
      PROVE  /\ \A c \in ledger.claims : Shows(rows, c)
             /\ \A c \in ledger'.claims \ claim : Shows(rows', c)
             /\ \A c \in ledger'.claims \cup claim : Shows(recs, c)
             /\ faults' = 0 => \A c \in durable'.claims : Shows(rows', c)
  BY <1>2, <1>4 DEF OpenInv
<1> QED BY <1>1, <1>2, <1>3, <1>4 DEF OpenInv

(* So does a step with the gate free that only takes claims off.           *)
LEMMA OpenRests ==
    ASSUME TypeOK, OpenInv, GateFree,
           UNCHANGED <<work, rows, phase, crashes>>, faults' = 0 => faults = 0,
           ledger'.acks = {}, durable'.acks = {},
           ledger'.claims \subseteq ledger.claims,
           faults' = 0 => durable'.claims \subseteq ledger'.claims
    PROVE  OpenInv'
<1>1. Gate.claim = {} /\ Gate.pc = "idle" /\ Gate' = Gate /\ phase = "up"
  BY IdleGate DEF GateFree, Gate
<1>2. Calm' => Calm
  BY DEF Calm
<1>3. ASSUME Calm
      PROVE  /\ \A c \in ledger'.claims : Shows(rows', c)
             /\ faults' = 0 => \A c \in durable'.claims : Shows(rows', c)
  BY <1>1, <1>3 DEF OpenInv
<1> QED BY <1>1, <1>2, <1>3 DEF OpenInv

(* And a step of the commit that leaves rows and ledgers alone, when it    *)
(* does not go back to before the write.                                   *)
LEMMA OpenGoesOn ==
    ASSUME TypeOK, OpenInv, UNCHANGED <<rows, ledger, durable, phase, crashes>>,
           faults' = 0 => faults = 0,
           \/ Return("gate") /\ Gate.op # "begin"
           \/ GoTo("gate", "settle") /\ Gate.op = "begin"
           \/ Return("gate") /\ Gate.pc \in {"bump", "ledger", "ack", "spawn"}
           \/ Stamp("gate") /\ Gate.pc = "check"
           \/ \E pc \in {"ledger", "ack", "spawn"} :
                GoTo("gate", pc) /\ Gate.pc \in {"bump", "ledger", "ack", "spawn"}
    PROVE  OpenInv'
<1>1. /\ work \in [Threads -> Work] /\ ledger \in Ledger /\ Gate \in Work
  BY DEF TypeOK, SvcTypeOK, Gate, Threads
<1>2. Calm' => Calm
  BY DEF Calm
<1>3. \/ Gate' = Idle /\ (Gate.claim = {} \/ Gate.pc \in {"bump", "ledger", "ack", "spawn"})
      \/ /\ Gate'.op = Gate.op /\ Gate'.claim = Gate.claim
         /\ \A t \in Tasks : Gate'.recs[t].status = Gate.recs[t].status
         /\ \/ Gate'.pc = "settle" /\ Gate.op = "begin"
            \/ Gate'.pc = "write" /\ Gate.pc = "check"
            \/ Gate'.pc \in {"ledger", "ack", "spawn"} /\ Gate.pc \in {"bump", "ledger", "ack", "spawn"}
  <2>1. \A t \in Tasks : Stamped(Gate.recs)[t].status = Gate.recs[t].status
    BY <1>1, StampedRows DEF Work
  <2> QED BY <1>1, <2>1, GateMoves, GateReturns, GateStamps DEF OpenInv
<1>4. CASE Gate' = Idle
  <2>1. Calm => \A c \in ledger.claims : Shows(rows, c)
    BY <1>3, <1>4, IdleGate DEF OpenInv
  <2> QED BY <1>2, <1>4, <2>1, IdleGate DEF OpenInv
<1>5. CASE Gate' # Idle
  <2>1. /\ Gate'.op = Gate.op /\ Gate'.claim = Gate.claim
        /\ \A c \in ledger.claims \cup Gate.claim : Shows(Gate.recs, c) => Shows(Gate'.recs, c)
    <3>1. \A c \in ledger.claims \cup Gate.claim : c.task \in Tasks
      BY <1>1 DEF Ledger, Work, Claim
    <3> QED BY <1>3, <1>5, <3>1 DEF Shows
  <2> QED BY <1>2, <1>3, <1>5, <2>1 DEF OpenInv
<1> QED BY <1>4, <1>5

(* Each step of a commit keeps the claims shown.                           *)
LEMMA OpenCommits ==
    ASSUME TypeOK, OpenInv, CommitStep("gate"), crashes' = crashes
    PROVE  OpenInv'
<1>1. work \in [Threads -> Work] /\ faults \in Nat /\ ledger \in Ledger
  BY DEF TypeOK, SvcTypeOK
<1>2. faults' = 0 => faults = 0
  BY <1>1, BestEffortClaims DEF CommitStep, CheckCover, Write, Bump, PersistLedger,
     AcknowledgeByStart, SettleStep
<1>3. phase # "down" /\ phase' = phase
  BY DEF CommitStep, CheckCover, Write, Bump, PersistLedger, AcknowledgeByStart, SettleStep, AtStep
<1>4. Gate.op \in {"none", "edit", "begin"}
  BY DEF OpenInv
<1>5. ASSUME CommitFailed("gate"), UNCHANGED <<rows, ledger, durable>> PROVE OpenInv'
  BY <1>1, <1>2, <1>3, <1>4, <1>5, GateFails, OpenGoesOn
<1>6. CASE CheckCover("gate")
  <2>1. /\ Gate.pc = "check" /\ UNCHANGED <<rows, ledger, durable>>
        /\ Stamp("gate") \/ CommitFailed("gate")
    BY <1>6 DEF CheckCover, AtStep, Gate
  <2> QED BY <1>2, <1>3, <1>5, <2>1, OpenGoesOn
<1>7. CASE Write("gate")
  <2>1. /\ Gate.pc = "write" /\ UNCHANGED <<ledger, durable>>
        /\ \/ rows' = Gate.recs /\ GoTo("gate", "bump") /\ faults' = faults
           \/ rows' = rows /\ CommitFailed("gate")
    BY <1>7 DEF Write, AtStep, Gate
  <2>2. CASE rows' = Gate.recs /\ GoTo("gate", "bump") /\ faults' = faults
    <3>1. /\ Gate'.pc = "bump" /\ Gate'.op = Gate.op /\ Gate'.claim = Gate.claim
      BY <1>1, <2>2, GateMoves
    <3>2. Calm => \A c \in ledger.claims \cup Gate.claim : Shows(rows', c)
      BY <2>1, <2>2 DEF OpenInv
    <3>3. Calm' => Calm
      BY <2>2 DEF Calm
    <3>4. Calm /\ faults = 0 => durable.claims \subseteq ledger.claims
      BY <1>3 DEF OpenInv
    <3> QED BY <1>3, <2>1, <2>2, <3>1, <3>2, <3>3, <3>4 DEF OpenInv
  <2> QED BY <1>5, <2>1, <2>2
<1>8. CASE Bump("gate")
  <2>1. /\ Gate.pc = "bump" /\ UNCHANGED <<rows, ledger, durable>>
        /\ GoTo("gate", "ledger") \/ CommitFailed("gate")
    BY <1>8 DEF Bump, AtStep, Gate
  <2> QED BY <1>2, <1>3, <1>5, <2>1, OpenGoesOn
<1>9. CASE PersistLedger("gate")
  <2>1. /\ Gate.pc = "ledger" /\ UNCHANGED <<rows, ledger>>
        /\ \/ durable' = ledger /\ CommitDone("gate") /\ faults' = faults
           \/ durable' = durable /\ CommitFailed("gate")
    BY <1>9 DEF PersistLedger, AtStep, Gate
  <2>2. CASE durable' = ledger /\ CommitDone("gate") /\ faults' = faults
    <3>1. Calm => \A c \in ledger.claims \cup Gate.claim : Shows(rows, c)
      BY <2>1 DEF OpenInv
    <3>2. \/ Gate' = Idle
          \/ Gate'.pc = "ack" /\ Gate'.op = Gate.op /\ Gate'.claim = Gate.claim
      BY <1>1, <1>4, <2>2, GateDone, GateMoves, GateReturns
    <3>3. Calm' => Calm
      BY <2>2 DEF Calm
    <3> QED BY <1>3, <2>1, <2>2, <3>1, <3>2, <3>3, IdleGate DEF OpenInv
  <2> QED BY <1>5, <2>1, <2>2
<1>10. CASE AcknowledgeByStart("gate")
  <2>1. ledger.acks = {} /\ Gate.pc = "ack"
    BY <1>10 DEF OpenInv, AcknowledgeByStart, AtStep, Gate
  <2>2. UNCHANGED <<rows, ledger, durable>> /\ GoTo("gate", "spawn")
    BY <1>10, <2>1 DEF AcknowledgeByStart
  <2> QED BY <1>2, <1>3, <2>1, <2>2, OpenGoesOn
<1>11. CASE SettleStep("gate")
  <2>1. /\ Gate.pc = "settle" /\ rows' = rows /\ ledger' = Released(Gate)
        /\ BestEffortPersist(ledger') /\ Return("gate")
    BY <1>11 DEF SettleStep, AtStep, Gate
  <2>2. Gate.op = "begin"
    BY <2>1 DEF OpenInv
  <2>3. ledger' = Settle(ledger, Gate.claim)
    BY <2>1, <2>2 DEF Released
  <2>4. ledger'.claims \subseteq ledger.claims \ Gate.claim /\ ledger'.acks = ledger.acks
    BY <1>1, <2>3, LedgerClaims
  <2>5. Gate' = Idle
    BY <1>1, <2>1, GateReturns
  <2>6. Calm' => Calm
    BY <1>2 DEF Calm
  <2>7. durable' = ledger' \/ (durable' = durable /\ faults' # 0)
    BY <1>1, <2>1, BestEffortClaims
  <2>8. Calm => \A c \in ledger'.claims : Shows(rows', c)
    BY <2>1, <2>4 DEF OpenInv
  <2>9. ledger'.acks = {} /\ durable'.acks = {}
    BY <2>4, <2>7 DEF OpenInv
  <2> QED BY <1>3, <2>5, <2>6, <2>7, <2>8, <2>9, IdleGate DEF OpenInv
<1> QED BY <1>6, <1>7, <1>8, <1>9, <1>10, <1>11 DEF CommitStep

(* What a transition makes of a row has the old status or the new one.     *)
LEMMA ApplyStatusGives ==
    ASSUME NEW r \in Row, NEW status, NEW reason, NEW now
    PROVE  \/ ApplyStatus(r, status, reason, now) = r
           \/ ApplyStatus(r, status, reason, now).status = status
BY DEF ApplyStatus, Row

(* A list that differs in one row, of a task that has no claim or whose    *)
(* row shows a run.                                                        *)
LEMMA OneRowChanged ==
    ASSUME TypeOK, NEW t \in Tasks, NEW row, NEW claims \in SUBSET Claim,
           \A c \in claims : c.task # t => Shows(rows, c),
           row.status \in ActiveStatus \/ \A c \in claims : c.task # t
    PROVE  \A c \in claims : Shows([rows EXCEPT ![t] = row], c)
<1> SUFFICES ASSUME NEW c \in claims PROVE Shows([rows EXCEPT ![t] = row], c)
  OBVIOUS
<1>1. rows \in [Tasks -> Row] /\ c.task \in Tasks
  BY DEF TypeOK, SvcTypeOK, Rows, Claim
<1>2. CASE c.task = t
  BY <1>1, <1>2 DEF Shows
<1>3. CASE c.task # t
  <2>1. [rows EXCEPT ![t] = row][c.task] = rows[c.task]
    BY <1>1, <1>3
  <2> QED BY <1>3, <2>1 DEF Shows
<1> QED BY <1>2, <1>3

(* With the gate free every open claim is shown.                           *)
LEMMA FreeGateShows ==
    ASSUME TypeOK, OpenInv, GateFree
    PROVE  /\ Calm => \A c \in ledger.claims : Shows(rows, c)
           /\ Calm /\ faults = 0 => durable.claims \subseteq ledger.claims
           /\ faults = 0 => durable.claims \subseteq ledger.claims
           /\ ledger.acks = {} /\ durable.acks = {} /\ ledger.claims \in SUBSET Claim
BY IdleGate DEF GateFree, Gate, OpenInv, Calm, TypeOK, SvcTypeOK, Ledger

(* Requests keep every claim shown: they write only a row that has none,   *)
(* or one that shows a run.                                                *)
LEMMA OpenRequests ==
    ASSUME TypeOK, OpenInv, NEW t \in Tasks, RequestOf(t), crashes' = crashes
    PROVE  OpenInv'
<1>1. /\ rows \in [Tasks -> Row] /\ rows[t] \in Row /\ ledger \in Ledger /\ faults \in Nat
  BY DEF TypeOK, SvcTypeOK, Rows
<1>2. ASSUME GateFree, UNCHANGED <<rows, ledger, durable, faults, phase>>, NEW row,
             Decide("gate", "edit", [rows EXCEPT ![t] = row], {}, {t}),
             row.status = rows[t].status \/ rows[t].status \notin ActiveStatus
      PROVE  OpenInv'
  <2>1. PICK recs : recs = [rows EXCEPT ![t] = row]
    OBVIOUS
  <2>2. ASSUME Calm PROVE \A c \in ledger'.claims \cup {} : Shows(recs, c)
    <3>1. \A c \in ledger.claims : Shows(rows, c)
      BY <1>2, <2>2, FreeGateShows
    <3>2. row.status \in ActiveStatus \/ \A c \in ledger.claims : c.task # t
      BY <1>2, <3>1 DEF Shows
    <3>3. ledger.claims \in SUBSET Claim
      BY <1>2, FreeGateShows
    <3> QED BY <1>2, <2>1, <3>1, <3>2, <3>3, OneRowChanged
  <2>3. Decide("gate", "edit", recs, {}, {t})
    BY <1>2, <2>1
  <2> QED BY <1>2, <2>2, <2>3, FreeGateShows, OpenDecides
<1>3. ASSUME NEW immediate \in BOOLEAN, Create(t, immediate) PROVE OpenInv'
  <2>1. rows[t].status \notin ActiveStatus
    BY <1>3 DEF Create, Present, ActiveStatus
  <2> QED BY <1>2, <1>3, <2>1 DEF Create
<1>4. CASE EditMetadata(t)
  <2>1. ToggleStar(rows[t]).status = rows[t].status
    BY <1>1 DEF ToggleStar, Row
  <2> QED BY <1>2, <1>4, <2>1 DEF EditMetadata
<1>5. CASE CompleteIdle(t)
  BY <1>2, <1>5 DEF CompleteIdle
<1>6. CASE AcknowledgeTask(t)
  BY <1>6 DEF AcknowledgeTask, OpenInv
<1>7. CASE CancelClaims(t)
  <2>1. /\ GateFree /\ UNCHANGED <<work, rows, phase>>
        /\ ledger' = SettleTasks(ledger, {t}) /\ BestEffortPersist(ledger')
    BY <1>7 DEF CancelClaims
  <2>2. ledger'.claims \subseteq ledger.claims /\ ledger'.acks = ledger.acks
    BY <1>1, <2>1, LedgerClaims
  <2>3. /\ durable' = ledger' \/ (durable' = durable /\ faults' # 0)
        /\ faults' = 0 => faults = 0
    BY <1>1, <2>1, BestEffortClaims
  <2> QED BY <2>1, <2>2, <2>3, FreeGateShows, OpenRests
<1>8. ASSUME NEW kind \in Kinds, NEW k \in Keys, Begin(t, kind, k) PROVE OpenInv'
  <2>1. PICK c, recs : c = NewClaim(ledger, t, kind, k)
                    /\ recs = [rows EXCEPT ![t] = PrepareForLaunch(rows[t], kind)]
    OBVIOUS
  <2>2. /\ GateFree /\ ledger' = TakeClaim(ledger, c) /\ Decide("gate", "begin", recs, {c}, {t})
        /\ UNCHANGED <<rows, durable, faults, phase>>
    BY <1>8, <2>1 DEF Begin
  <2>3. c \in Claim /\ c.task = t
    <3>1. c = NewClaim(ledger, t, kind, k)
      BY <2>1
    <3>2. ledger.gens[t] + 1 \in Nat
      BY <1>1 DEF Ledger
    <3> QED BY <3>1, <3>2 DEF NewClaim, Claim
  <2>4. ledger'.claims = ledger.claims \cup {c} /\ ledger'.acks = ledger.acks
    BY <1>1, <2>2 DEF TakeClaim, Ledger
  <2>5. PrepareForLaunch(rows[t], kind).status \in ActiveStatus
    BY <1>1 DEF PrepareForLaunch, ActiveStatus, Row
  <2>6. ASSUME Calm PROVE \A d \in ledger'.claims \cup {c} : Shows(recs, d)
    <3>1. \A d \in ledger.claims : Shows(rows, d)
      BY <2>2, <2>6, FreeGateShows
    <3>3. ledger.claims \cup {c} \in SUBSET Claim
      BY <2>2, <2>3, FreeGateShows
    <3>4. \A d \in ledger.claims \cup {c} : d.task # t => Shows(rows, d)
      BY <2>3, <3>1
    <3>5. \A d \in ledger.claims \cup {c} : Shows(recs, d)
      BY <2>1, <2>5, <3>3, <3>4, OneRowChanged
    <3> QED BY <2>4, <3>5
  <2>7. ledger'.acks = {} /\ durable'.acks = {}
    BY <2>2, <2>4, FreeGateShows
  <2>8. faults' = 0 => durable'.claims \subseteq ledger'.claims /\ durable'.claims \subseteq ledger.claims
    BY <2>2, <2>4, FreeGateShows
  <2> QED BY <2>2, <2>4, <2>6, <2>7, <2>8, OpenDecides
<1> QED BY <1>3, <1>4, <1>5, <1>6, <1>7, <1>8 DEF RequestOf

(* A report keeps every claim shown: an end is folded to running while     *)
(* another run of the task is in flight.                                   *)
LEMMA OpenReports ==
    ASSUME TypeOK, OpenInv, NEW t \in Tasks, ObservedOf(t), crashes' = crashes
    PROVE  OpenInv'
<1>1. /\ rows \in [Tasks -> Row] /\ rows[t] \in Row /\ ledger \in Ledger /\ faults \in Nat
  BY DEF TypeOK, SvcTypeOK, Rows
<1>2. GateFree /\ UNCHANGED <<rows, table, phase>>
  BY ObservedSplit
<1>3. CASE UNCHANGED <<ledger, durable, faults, work>>
  BY <1>2, <1>3, FreeGateShows, OpenRests
<1>4. ASSUME NEW g \in Nat, NEW status \in ObservedStatus, NEW reason \in BOOLEAN, NEW folded, NEW row,
             folded = IF status \in Terminal /\ LiveOtherThan(ledger, t, g) # {}
                      THEN "running" ELSE status,
             row = ApplyStatus(rows[t], folded, reason, Now(t)),
             \/ /\ status \in Terminal
                /\ ledger' = SettleByGeneration(ledger, t, g)
                /\ BestEffortPersist(ledger')
             \/ status \notin Terminal /\ UNCHANGED <<ledger, durable, faults>>,
             \/ row = rows[t] /\ work' = work
             \/ Decide("gate", "edit", [rows EXCEPT ![t] = row], {}, {t})
      PROVE  OpenInv'
  <2>1. /\ ledger'.claims \subseteq ledger.claims /\ ledger'.acks = ledger.acks
        /\ status \in Terminal => ledger'.claims = {c \in ledger.claims : ~(c.task = t /\ c.gen = g)}
        /\ status \notin Terminal => ledger' = ledger
    BY <1>1, <1>4, LedgerClaims
  <2>2. /\ faults' = 0 => faults = 0
        /\ durable' = ledger' \/ (durable' = durable /\ (faults' # 0 \/ ledger' = ledger))
    BY <1>1, <1>4, BestEffortClaims
  <2>3. ledger'.acks = {} /\ durable'.acks = {}
    BY <1>2, <2>1, <2>2, FreeGateShows
  <2>4. faults' = 0 => durable'.claims \subseteq ledger'.claims
    BY <1>2, <2>1, <2>2, FreeGateShows
  <2>5. CASE work' = work
    BY <1>2, <2>1, <2>2, <2>3, <2>4, <2>5, OpenRests
  <2>6. CASE Decide("gate", "edit", [rows EXCEPT ![t] = row], {}, {t})
    <3>1. PICK recs : recs = [rows EXCEPT ![t] = row]
      OBVIOUS
    <3>2. ASSUME Calm PROVE \A c \in ledger'.claims \cup {} : Shows(recs, c)
      <4>1. \A c \in ledger'.claims : Shows(rows, c)
        BY <1>2, <2>1, <3>2, FreeGateShows
      <4>2. ledger'.claims \in SUBSET Claim
        BY <1>2, <2>1, FreeGateShows
      <4>3. CASE \A c \in ledger'.claims : c.task # t
        BY <3>1, <4>1, <4>2, <4>3, OneRowChanged
      <4>4. CASE \E c \in ledger'.claims : c.task = t
        <5>1. rows[t].status \in ActiveStatus
          BY <4>1, <4>4 DEF Shows
        <5>2. status \in Terminal => LiveOtherThan(ledger, t, g) # {}
          BY <2>1, <4>4 DEF LiveOtherThan
        <5>3. folded \in ActiveStatus
          BY <1>4, <5>2 DEF ObservedStatus, ActiveStatus
        <5>4. row.status \in ActiveStatus
          BY <1>1, <1>4, <5>1, <5>3, ApplyStatusGives
        <5> QED BY <3>1, <4>1, <4>2, <5>4, OneRowChanged
      <4> QED BY <4>3, <4>4
    <3>3. Decide("gate", "edit", recs, {}, {t})
      BY <2>6, <3>1
    <3>4. faults' = 0 => durable'.claims \subseteq ledger.claims
      BY <2>1, <2>4
    <3> QED BY <1>2, <2>1, <2>2, <2>3, <2>4, <3>2, <3>3, <3>4, OpenDecides
  <2> QED BY <1>4, <2>5, <2>6
<1> QED BY <1>3, <1>4, ObservedSplit

(* Every step keeps every claim shown, when no launch fails.               *)
LEMMA OpenStays ==
    ASSUME TypeOK, NumbersOnRecord, OpenInv, ServiceShare,
           "launch_failure" \notin Features, "reconcile" \notin Features
    PROVE  OpenInv'
<1>1. work \in [Threads -> Work] /\ faults \in Nat /\ crashes \in Nat
  BY DEF TypeOK, SvcTypeOK
<1>2. CASE UNCHANGED svcVars /\ crashes' = crashes
  BY <1>2 DEF svcVars, OpenInv, Gate, Calm, Shows
<1>3. CASE SpawnEnds /\ crashes' = crashes
  <2>1. /\ Gate.pc = "spawn" /\ Return("gate")
        /\ UNCHANGED <<rows, ledger, durable, faults, phase>>
    BY <1>3 DEF SpawnEnds, SpawnOk, Spawning, AtStep, Gate
  <2> QED BY <1>3, <2>1, OpenGoesOn
<1>4. CASE ComesBack /\ crashes' = crashes
  <2>1. CASE Restart
    <3>1. /\ phase = "down" /\ ledger' = durable /\ phase' # "down"
          /\ UNCHANGED <<rows, durable, work, faults>>
      BY <2>1 DEF Restart
    <3>2. Gate = Idle /\ Gate' = Idle
      BY <3>1 DEF NumbersOnRecord, Gate
    <3>3. crashes # 0
      BY <3>1 DEF OpenInv
    <3>4. Calm' => Calm /\ faults = 0
      BY <1>4, <3>1, <3>3 DEF Calm
    <3>5. Calm /\ faults = 0 => \A c \in durable.claims : Shows(rows, c)
      BY DEF OpenInv
    <3>6. Calm' => \A c \in ledger'.claims \cup durable'.claims : Shows(rows', c)
      BY <3>1, <3>4, <3>5
    <3> QED BY <1>4, <3>1, <3>2, <3>3, <3>6, IdleGate DEF OpenInv
  <2>2. CASE Serve("repair") \/ Serve("boot")
    BY <1>4, <2>2 DEF Serve, OpenInv, Gate, Calm, Shows
  <2> QED BY <1>4, <2>1, <2>2 DEF ComesBack
<1>5. CASE Die /\ crashes' = crashes + 1
  <2>1. /\ Gate' = Idle /\ ledger' = EmptyLedger /\ phase' = "down"
        /\ UNCHANGED <<rows, durable, faults>>
    BY <1>5 DEF Die, Gate, Threads
  <2>2. crashes' # 0
    BY <1>1, <1>5
  <2>3. Calm' => Calm /\ faults = 0
    BY <2>1, <2>2 DEF Calm
  <2>4. ledger'.claims = {} /\ ledger'.acks = {} /\ durable'.acks = {}
    BY <2>1 DEF EmptyLedger, OpenInv
  <2>5. Calm' => \A c \in durable'.claims : Shows(rows', c)
    BY <2>1, <2>3 DEF OpenInv
  <2> QED BY <2>1, <2>2, <2>4, <2>5, IdleGate DEF OpenInv
<1> QED BY <1>2, <1>3, <1>4, <1>5, OpenCommits, OpenRequests, OpenReports
        DEF ServiceShare, ServiceMove

-------------------------------------------------------------------------------
(* The theorems about rows, claims and the cover table. *)

(* Nothing is under way at the start. *)
LEMMA InitSerial == ASSUME Init PROVE Alone /\ OwnRows /\ CoverInv /\ OpenInv
<1>1. Gate = Idle /\ Alone
  BY DEF Init, SvcInit, Gate, Alone, Threads
<1>2. ledger.claims = {} /\ durable.claims = {} /\ ledger.acks = {} /\ durable.acks = {}
  BY DEF Init, SvcInit, EmptyLedger
<1>3. table.known = FALSE /\ phase = "up"
  BY DEF Init, SvcInit
<1> QED BY <1>1, <1>2, <1>3, IdleGate DEF OwnRows, CoverInv, OpenInv, Covered

Based == TypeOK /\ NumbersOnRecord /\ Alone

(* Without delete, no thread works beside the gate.                        *)
LEMMA BasedStays == ASSUME Serialized, Based, [Next]_vars PROVE Based' /\ ServiceShare
BY StepInvariant, SerialStep, AloneStays DEF Based

(* An operation that takes the lock and whose launch does not fail changes *)
(* the rows it is about and no others, however requests, reports, crashes  *)
(* and failed writes interleave: load, decision and write are of one state.*)
(* Other rows get the ledger's run number (stamp_generation_copies), which *)
(* they lack after a failed write or a crash, and nothing else.            *)
THEOREM AlwaysWritesOnlyItsOwnRows ==
    ASSUME "delete" \notin Features, "launch_failure" \notin Features
    PROVE  Spec => WritesOnlyItsOwnRows
<1>1. Init => Based /\ OwnRows
  BY InitInvariant, InitSerial DEF Based
<1>2. Based /\ OwnRows /\ [Next]_vars => (Based /\ OwnRows)' /\ [OwnWrites]_vars
  <2> SUFFICES ASSUME Based, OwnRows, [Next]_vars PROVE Based' /\ OwnRows' /\ OwnWrites
    OBVIOUS
  <2>1. Based' /\ ServiceShare
    BY BasedStays DEF Serialized
  <2> QED BY <2>1, OwnRowsStay DEF Based
<1> QED BY <1>1, <1>2, PTL DEF Spec, WritesOnlyItsOwnRows, OwnWrites

(* Unless a write failed or the host died, a project that nothing works on *)
(* can be written: save_covering and bump_covering of one operation are    *)
(* never separated by another's.                                           *)
THEOREM AlwaysIdleIsWritable ==
    ASSUME "delete" \notin Features
    PROVE  Spec => [](crashes = 0 => IdleIsWritable)
<1>1. Init => Based /\ CoverInv
  BY InitInvariant, InitSerial DEF Based
<1>2. Based /\ CoverInv /\ [Next]_vars => (Based /\ CoverInv)'
  BY BasedStays, CoverStays DEF Based, Serialized
<1>3. CoverInv => (crashes = 0 => IdleIsWritable)
  BY IdleGate DEF CoverInv, IdleIsWritable, Gate, Threads
<1> QED BY <1>1, <1>2, <1>3, PTL DEF Spec

(* A task is not shown as finished while a run of it is in flight, with    *)
(* any number of overlapping runs, cancels, completions, watchers and      *)
(* either failed writes or crashes, in the host as shipped (no reconcile). *)
THEOREM AlwaysFinishedTaskHasNoOpenAttempt ==
    ASSUME "delete" \notin Features, "launch_failure" \notin Features, "reconcile" \notin Features
    PROVE  Spec => [](Calm => FinishedTaskHasNoOpenAttempt)
<1>1. Init => Based /\ OpenInv
  BY InitInvariant, InitSerial DEF Based
<1>2. Based /\ OpenInv /\ [Next]_vars => (Based /\ OpenInv)'
  BY BasedStays, OpenStays DEF Based, Serialized
<1>3. OpenInv => (Calm => FinishedTaskHasNoOpenAttempt)
  BY IdleGate DEF OpenInv, FinishedTaskHasNoOpenAttempt, GateQuiet, Gate, Shows, ActiveStatus, Terminal
<1> QED BY <1>1, <1>2, <1>3, PTL DEF Spec

-------------------------------------------------------------------------------
(* The runs and their record. *)

Alive(r) == r.state \in {"live", "killed"} /\ ~r.asked

(* A claim is released only when no live run rests on it; the disk follows *)
(* the memory or stays.                                                    *)
LEMMA RecordKept ==
    ASSUME LiveRunIsOnRecord, KeysDiffer(ledger), KeysDiffer(durable),
           \A r \in runs' : Alive(r) => \E q \in runs : Alive(q) /\ SameRun(q, r),
           ledger'.claims \subseteq ledger.claims,
           \A r \in runs', c \in ledger.claims \ ledger'.claims : Alive(r) => ~SameRun(c, r),
           durable'.claims \in {durable.claims, ledger'.claims}
    PROVE  LiveRunIsOnRecord' /\ KeysDiffer(ledger)' /\ KeysDiffer(durable)'
<1>1. KeysDiffer(ledger)' /\ KeysDiffer(durable)'
  BY DEF KeysDiffer
<1>2. ASSUME NEW r \in runs', Alive(r)
      PROVE  IsLive(ledger', r.task, r.gen) /\ IsLive(durable', r.task, r.gen)
  <2>1. PICK q \in runs : Alive(q) /\ SameRun(q, r)
    BY <1>2
  <2>2. IsLive(ledger, r.task, r.gen) /\ IsLive(durable, r.task, r.gen)
    BY <2>1 DEF LiveRunIsOnRecord, Alive, SameRun
  <2>3. IsLive(ledger', r.task, r.gen)
    BY <1>2, <2>2 DEF IsLive, SameRun
  <2> QED BY <2>2, <2>3 DEF IsLive
<1> QED BY <1>1, <1>2 DEF LiveRunIsOnRecord, Alive

(* The gate's thread keeps its claim, or lets go of it.                    *)
LEMMA HandKept ==
    ASSUME HandInv, launches' = launches,
           \/ Gate'.claim = {}
           \/ /\ Gate'.op \in {Gate.op, "abandon"} /\ Gate'.claim \subseteq Gate.claim
              /\ Gate'.claim \subseteq ledger'.claims
              /\ Gate'.pc \in {"ack", "spawn"} => Gate'.claim \subseteq durable'.claims
    PROVE  HandInv'
BY DEF HandInv

(* A run that has a spawned number does not serve the claim in hand.       *)
LEMMA HandIsNotRun ==
    ASSUME HandInv, RunInv, NEW c \in Gate.claim, NEW r \in runs
    PROVE  ~SameRun(c, r)
BY DEF HandInv, RunInv, SameRun

HostRests == UNCHANGED <<hostVars, launches, crashes>>

(* What stays with the host's variables.                                   *)
LEMMA RunsRest ==
    ASSUME RunInv, HostRests
    PROVE  RunInv' /\ \A r \in runs' : Alive(r) => \E q \in runs : Alive(q) /\ SameRun(q, r)
BY DEF HostRests, hostVars, RunInv, SameRun

(* Where the gate goes in a commit step, phase and runs are as before.     *)
LEMMA PhaseKept ==
    ASSUME PhaseInv, HostRests, phase' = phase,
           \/ Gate'.op = "none" \/ Gate'.op = Gate.op
           \/ phase = "up" /\ Gate'.op # "reconcile"
    PROVE  PhaseInv'
BY DEF PhaseInv, HostRests, hostVars

(* A commit step releases only what no run rests on.                       *)
LEMMA RecordCommits ==
    ASSUME TypeOK, NumbersOnRecord, RecordInv, CommitStep("gate"), HostRests
    PROVE  RecordInv'
<1> USE DEF RecordInv
<1>1. work \in [Threads -> Work] /\ faults \in Nat /\ ledger \in Ledger /\ durable \in Ledger
  BY DEF TypeOK, SvcTypeOK
<1>2. /\ RunInv' /\ launches' = launches
      /\ \A r \in runs' : Alive(r) => \E q \in runs : Alive(q) /\ SameRun(q, r)
  BY RunsRest DEF HostRests
<1>3. phase' = phase
  BY DEF CommitStep, CheckCover, Write, Bump, PersistLedger, AcknowledgeByStart, SettleStep
<1>4. ASSUME ledger' = ledger, durable' \in {durable, ledger},
             \/ Return("gate") \/ Stamp("gate")
             \/ \E pc : /\ GoTo("gate", pc)
                        /\ pc \in {"ack", "spawn"} => Gate.claim \subseteq durable'.claims
      PROVE  RecordInv'
  <2>1. \/ Gate' = Idle
        \/ /\ Gate'.op = Gate.op /\ Gate'.claim = Gate.claim
           /\ Gate'.pc \in {"ack", "spawn"} => Gate.claim \subseteq durable'.claims
    BY <1>1, <1>4, GateMoves, GateReturns, GateStamps
  <2>2. HandInv'
    <3>1. Gate.claim \subseteq ledger.claims
      BY DEF HandInv
    <3> QED BY <1>2, <1>4, <2>1, <3>1, IdleGate, HandKept
  <2>3. PhaseInv'
    BY <1>3, <2>1, IdleGate, PhaseKept
  <2>4. LiveRunIsOnRecord' /\ KeysDiffer(ledger)' /\ KeysDiffer(durable)'
    BY <1>2, <1>4, RecordKept
  <2> QED BY <1>2, <2>2, <2>3, <2>4
<1>5. ASSUME ledger' = ledger, durable' = durable, CommitFailed("gate") PROVE RecordInv'
  BY <1>1, <1>4, <1>5, GateFails
<1>6. CASE CheckCover("gate") \/ Write("gate") \/ Bump("gate")
  <2>1. /\ ledger' = ledger /\ durable' = durable
        /\ \/ CommitFailed("gate") \/ Stamp("gate")
           \/ \E pc : GoTo("gate", pc) /\ pc \notin {"ack", "spawn"}
    BY <1>6 DEF CheckCover, Write, Bump
  <2> QED BY <1>4, <1>5, <2>1
<1>7. CASE PersistLedger("gate")
  <2>1. /\ ledger' = ledger
        /\ \/ durable' = ledger /\ CommitDone("gate")
           \/ durable' = durable /\ CommitFailed("gate")
    BY <1>7 DEF PersistLedger
  <2>2. CASE durable' = ledger /\ CommitDone("gate")
    <3>1. Gate.claim \subseteq ledger.claims
      BY DEF HandInv
    <3>2. Return("gate") \/ \E pc : GoTo("gate", pc)
      BY <1>1, <2>2, GateDone
    <3> QED BY <1>4, <2>1, <2>2, <3>1, <3>2
  <2> QED BY <1>5, <2>1, <2>2
<1>8. CASE AcknowledgeByStart("gate")
  <2> DEFINE cleared ==
        {c.task : c \in {d \in work["gate"].claim : d.kind = "start"}} \cap ledger.acks
  <2>1. /\ Gate.pc = "ack" /\ GoTo("gate", "spawn")
        /\ \/ UNCHANGED <<ledger, durable>>
           \/ ledger' = Acknowledge(ledger, cleared) /\ BestEffortPersist(ledger')
    BY <1>8 DEF AcknowledgeByStart, AtStep, Gate
  <2> HIDE DEF cleared
  <2>2. ledger'.claims = ledger.claims /\ (durable' = durable \/ durable' = ledger')
    BY <1>1, <2>1, AckClaims, BestEffortClaims
  <2>3. Gate.claim \subseteq ledger.claims /\ Gate.claim \subseteq durable.claims
    BY <2>1 DEF HandInv
  <2>4. Gate'.op = Gate.op /\ Gate'.claim = Gate.claim
    BY <1>1, <2>1, GateMoves
  <2>5. HandInv' /\ PhaseInv'
    BY <1>2, <1>3, <2>2, <2>3, <2>4, HandKept, PhaseKept
  <2>6. LiveRunIsOnRecord' /\ KeysDiffer(ledger)' /\ KeysDiffer(durable)'
    BY <1>2, <2>2, RecordKept
  <2> QED BY <1>2, <2>5, <2>6
<1>9. CASE SettleStep("gate")
  <2>1. /\ ledger' = Released(Gate) /\ BestEffortPersist(ledger') /\ Return("gate")
    BY <1>9 DEF SettleStep, Gate
  <2>2. Gate' = Idle
    BY <1>1, <2>1, GateReturns
  <2>3. HandInv' /\ PhaseInv'
    BY <1>2, <1>3, <2>2, IdleGate, HandKept, PhaseKept
  <2>4. durable' = durable \/ durable' = ledger'
    BY <1>1, <2>1, BestEffortClaims
  <2>5. runs' = runs
    BY DEF HostRests, hostVars
  <2>6. CASE Gate.op \in {"begin", "abandon"}
    <3>1. ledger'.claims = {c \in ledger.claims : \A d \in Gate.claim : AttemptKey(c) # AttemptKey(d)}
      BY <1>1, <2>1, <2>6, LedgerClaims DEF Released
    <3>2. \A c \in ledger.claims \ ledger'.claims : c \in Gate.claim
      BY <3>1 DEF KeysDiffer, HandInv
    <3>3. \A r \in runs', c \in ledger.claims \ ledger'.claims : ~SameRun(c, r)
      BY <2>5, <3>2, HandIsNotRun
    <3> QED BY <1>2, <2>3, <2>4, <3>1, <3>3, RecordKept
  <2>7. CASE Gate.op = "reconcile"
    <3>1. runs' = {}
      BY <2>5, <2>7 DEF PhaseInv
    <3>2. ledger' = AwaitAcknowledgement(SettleTasks(ledger, Gate.ids), Gate.ids)
      BY <2>1, <2>7 DEF Released
    <3>3. SettleTasks(ledger, Gate.ids) \in Ledger
      BY <1>1, LedgerOperations
    <3>4. ledger'.claims \subseteq ledger.claims
      <4>1. ledger'.claims = SettleTasks(ledger, Gate.ids).claims
        BY <3>2, <3>3, AckClaims
      <4> QED BY <1>1, <4>1, LedgerClaims
    <3> QED BY <1>2, <2>3, <2>4, <3>1, <3>4, RecordKept
  <2>8. CASE Gate.op \notin {"begin", "abandon", "reconcile"}
    <3>1. ledger' = ledger
      BY <2>1, <2>8 DEF Released
    <3> QED BY <1>2, <2>3, <2>4, <3>1, RecordKept
  <2> QED BY <2>6, <2>7, <2>8
<1> QED BY <1>6, <1>7, <1>8, <1>9 DEF CommitStep

(* An operation that begins with the gate free and empty hands, or that    *)
(* only takes claims off.                                                  *)
LEMMA RecordRests ==
    ASSUME TypeOK, RecordInv, RunInv', UNCHANGED <<runs, launches>>, phase = "up", phase' = phase,
           \/ work' = work
           \/ GateFree /\ \E op, recs, ids : op # "reconcile" /\ Decide("gate", op, recs, {}, ids),
           ledger'.claims \subseteq ledger.claims, Gate.claim \subseteq ledger'.claims,
           \A r \in runs, c \in ledger.claims \ ledger'.claims : Alive(r) => ~SameRun(c, r),
           durable'.claims \in {durable.claims, ledger'.claims}
    PROVE  RecordInv'
<1> USE DEF RecordInv
<1>1. work \in [Threads -> Work]
  BY DEF TypeOK, SvcTypeOK
<1>2. \A r \in runs' : Alive(r) => \E q \in runs : Alive(q) /\ SameRun(q, r)
  BY DEF SameRun
<1>3. Gate' = Gate \/ (Gate'.op # "reconcile" /\ Gate'.claim = {})
  BY <1>1, GateDecides DEF Gate
<1>4. HandInv'
  <2>1. Gate.pc \in {"ack", "spawn"} => Gate.claim \subseteq durable'.claims
    BY DEF HandInv
  <2> QED BY <1>3, <2>1, HandKept
<1>5. PhaseInv'
  BY <1>3 DEF PhaseInv
<1>6. LiveRunIsOnRecord' /\ KeysDiffer(ledger)' /\ KeysDiffer(durable)'
  BY <1>2, RecordKept
<1> QED BY <1>4, <1>5, <1>6

(* begin_under_lock: the claim in hand is new, under a key of its own.     *)
LEMMA RecordBegins ==
    ASSUME TypeOK, NumbersOnRecord, NumbersOnRecord', RecordInv, HostRests,
           NEW t \in Tasks, NEW kind \in Kinds, NEW k \in Keys, Begin(t, kind, k)
    PROVE  RecordInv'
<1> USE DEF RecordInv
<1>1. /\ work \in [Threads -> Work] /\ ledger \in Ledger
      /\ launches \in [Tasks -> [1..MaxGen -> Nat]]
  BY DEF TypeOK, SvcTypeOK
<1>2. PICK c, recs : c = NewClaim(ledger, t, kind, k)
                  /\ recs = [rows EXCEPT ![t] = PrepareForLaunch(rows[t], kind)]
  OBVIOUS
<1>3. /\ GateFree /\ ledger' = TakeClaim(ledger, c) /\ Decide("gate", "begin", recs, {c}, {t})
      /\ UNCHANGED <<durable, phase>> /\ OpenClaims(ledger, t, kind, k) = {}
  BY <1>2 DEF Begin
<1>4. /\ Gate'.pc = "check" /\ Gate'.op = "begin" /\ Gate'.claim = {c} /\ phase = "up"
  BY <1>1, <1>3, GateDecides DEF GateFree
<1>5. ledger'.claims = ledger.claims \cup {c}
  BY <1>1, <1>3 DEF TakeClaim, Ledger
<1>6. AttemptKey(c) = <<t, kind, k>>
  BY <1>2 DEF NewClaim, AttemptKey
<1>7. \A d \in ledger.claims : AttemptKey(d) # AttemptKey(c)
  BY <1>3, <1>6 DEF OpenClaims
<1>8. KeysDiffer(ledger)' /\ KeysDiffer(durable)'
  BY <1>3, <1>5, <1>7 DEF KeysDiffer
<1>9. /\ RunInv' /\ launches' = launches /\ runs' = runs
  BY RunsRest DEF HostRests, hostVars
<1>10. HandInv'
  <2>1. c \in InLaunch'
    BY <1>4 DEF InLaunch, Gate
  <2>2. c.gen \in 1..MaxGen /\ \A h \in c.gen..MaxGen : launches'[c.task][h] = 0
    BY <2>1 DEF NumbersOnRecord
  <2>3. c.gen \in c.gen..MaxGen
    BY <2>2, BoundAssumption
  <2> QED BY <1>4, <1>5, <2>2, <2>3 DEF HandInv
<1>11. PhaseInv'
  BY <1>3, <1>4, PhaseKept
<1>12. LiveRunIsOnRecord'
  BY <1>3, <1>5, <1>9 DEF LiveRunIsOnRecord, IsLive
<1> QED BY <1>8, <1>9, <1>10, <1>11, <1>12

(* The requests, but for cancel.                                           *)
LEMMA RecordRequests ==
    ASSUME TypeOK, NumbersOnRecord, NumbersOnRecord', RecordInv, HostRests, NEW t \in Tasks,
           \/ \E immediate \in BOOLEAN : Create(t, immediate)
           \/ \E kind \in Kinds, k \in Keys : Begin(t, kind, k)
           \/ EditMetadata(t) \/ AcknowledgeTask(t) \/ CompleteIdle(t)
    PROVE  RecordInv'
<1>1. /\ ledger \in Ledger /\ faults \in Nat /\ Gate.claim \subseteq ledger.claims
      /\ RunInv' /\ UNCHANGED <<runs, launches>>
  BY RunsRest DEF TypeOK, SvcTypeOK, RecordInv, HandInv, HostRests, hostVars
<1>2. CASE \E kind \in Kinds, k \in Keys : Begin(t, kind, k)
  BY <1>2, RecordBegins
<1>3. CASE AcknowledgeTask(t)
  <2>1. /\ phase = "up" /\ phase' = phase /\ work' = work
        /\ ledger' = Acknowledge(ledger, {t}) /\ BestEffortPersist(ledger')
    BY <1>3 DEF AcknowledgeTask
  <2>2. ledger'.claims = ledger.claims /\ (durable' = durable \/ durable' = ledger')
    BY <1>1, <2>1, AckClaims, BestEffortClaims
  <2> QED BY <1>1, <2>1, <2>2, RecordRests
<1>4. CASE (\E immediate \in BOOLEAN : Create(t, immediate)) \/ EditMetadata(t) \/ CompleteIdle(t)
  <2>1. /\ GateFree /\ UNCHANGED <<ledger, durable, phase>>
        /\ \E recs : Decide("gate", "edit", recs, {}, {t})
    BY <1>4 DEF Create, EditMetadata, CompleteIdle
  <2>2. phase = "up"
    BY <2>1 DEF GateFree
  <2> QED BY <1>1, <2>1, <2>2, RecordRests
<1> QED BY <1>2, <1>3, <1>4

(* A report that ends no live run.                                         *)
LEMMA RecordReports ==
    ASSUME TypeOK, RecordInv, NEW t, NEW g, NEW status, NEW reason, NEW guarded, NEW taskLive,
           Observe(t, g, status, reason, guarded, taskLive),
           status \in Terminal => \A r \in runs : ~(r.task = t /\ r.gen = g),
           RunInv', UNCHANGED <<runs, launches>>
    PROVE  RecordInv'
<1>1. ledger \in Ledger /\ faults \in Nat
  BY DEF TypeOK, SvcTypeOK
<1>2. /\ GateFree /\ phase' = phase
      /\ work' = work \/ \E recs : Decide("gate", "edit", recs, {}, {t})
      /\ \/ UNCHANGED <<ledger, durable>>
         \/ /\ status \in Terminal /\ ledger' = SettleByGeneration(ledger, t, g)
            /\ BestEffortPersist(ledger')
  BY DEF Observe
<1>3. phase = "up" /\ Gate.claim = {}
  BY <1>2, IdleGate DEF GateFree, Gate
<1>4. CASE UNCHANGED <<ledger, durable>>
  BY <1>2, <1>3, <1>4, RecordRests
<1>5. CASE /\ status \in Terminal /\ ledger' = SettleByGeneration(ledger, t, g)
           /\ BestEffortPersist(ledger')
  <2>1. ledger'.claims = {c \in ledger.claims : ~(c.task = t /\ c.gen = g)}
    BY <1>1, <1>5, LedgerClaims
  <2>2. durable' = durable \/ durable' = ledger'
    BY <1>1, <1>5, BestEffortClaims
  <2>3. \A r \in runs, c \in ledger.claims \ ledger'.claims : Alive(r) => ~SameRun(c, r)
    BY <1>5, <2>1 DEF SameRun
  <2> QED BY <1>2, <1>3, <2>1, <2>2, <2>3, RecordRests
<1> QED BY <1>2, <1>4, <1>5

-------------------------------------------------------------------------------
(* The host's own steps. *)

(* Runs that stay what they are, but for their state and mark.             *)
LEMMA RunsKept ==
    ASSUME RunInv, launches' = launches, exits' = exits, reports' \subseteq reports,
           \A x \in runs' : \E r \in runs : SameRun(r, x),
           \A x, y \in runs' : SameRun(x, y) => x = y
    PROVE  RunInv'
<1>1. ASSUME NEW x \in runs' \cup exits' \cup reports'
      PROVE  x.gen \in 1..MaxGen /\ launches'[x.task][x.gen] > 0
  <2>1. \E r \in runs \cup exits \cup reports : SameRun(r, x)
    BY DEF SameRun
  <2> QED BY <2>1 DEF RunInv, SameRun
<1>2. ASSUME NEW r \in runs', NEW x \in exits' \cup reports' PROVE ~SameRun(r, x)
  <2>1. PICK q \in runs : SameRun(q, r)
    BY <1>2
  <2> QED BY <1>2, <2>1 DEF RunInv, SameRun
<1> QED BY <1>1, <1>2 DEF RunInv

(* A kill and a mark leave a run the run it is.                            *)
LEMMA KilledRuns ==
    ASSUME TypeOK, RunInv, NEW t
    PROVE  /\ \A x \in Killed(t) : \E r \in runs :
                /\ SameRun(r, x) /\ x.asked = r.asked /\ (Alive(x) => Alive(r))
           /\ \A x, y \in Killed(t) : SameRun(x, y) => x = y
<1> DEFINE F(r) == IF r \in Newest(t) /\ r.state = "live" THEN [r EXCEPT !.state = "killed"] ELSE r
<1>1. ASSUME NEW r \in runs
      PROVE  SameRun(r, F(r)) /\ F(r).asked = r.asked /\ (Alive(F(r)) => Alive(r))
  <2>1. r \in Run
    BY DEF TypeOK
  <2>2. CASE r \in Newest(t) /\ r.state = "live"
    <3>1. F(r) = [r EXCEPT !.state = "killed"]
      BY <2>2
    <3> QED BY <2>1, <2>2, <3>1 DEF Run, SameRun, Alive
  <2>3. CASE ~(r \in Newest(t) /\ r.state = "live")
    BY <2>3 DEF SameRun
  <2> QED BY <2>2, <2>3
<1>2. \A x \in Killed(t) : \E r \in runs : x = F(r)
  BY DEF Killed
<1> HIDE DEF F
<1>3. ASSUME NEW x \in Killed(t), NEW y \in Killed(t), SameRun(x, y) PROVE x = y
  <2>1. PICK r \in runs, q \in runs : x = F(r) /\ y = F(q)
    BY <1>2
  <2>2. SameRun(r, q)
    BY <1>1, <1>3, <2>1 DEF SameRun
  <2>3. r = q
    BY <2>2 DEF RunInv
  <2> QED BY <2>1, <2>3
<1> QED BY <1>1, <1>2, <1>3

(* A cancel marks the runs of its task and leaves the others what they are. *)
LEMMA MarkedRuns ==
    ASSUME TypeOK, RunInv, NEW t,
           runs' = {IF r.task = t THEN [r EXCEPT !.asked = TRUE] ELSE r : r \in Killed(t)}
    PROVE  /\ \A x \in runs' : \E r \in runs :
                SameRun(r, x) /\ (Alive(x) => Alive(r) /\ x.task # t)
           /\ \A x, y \in runs' : SameRun(x, y) => x = y
<1> DEFINE F(r) == IF r.task = t THEN [r EXCEPT !.asked = TRUE] ELSE r
<1>1. Killed(t) \subseteq Run
  BY KilledType DEF TypeOK
<1>2. ASSUME NEW r \in Killed(t)
      PROVE  SameRun(r, F(r)) /\ (Alive(F(r)) => Alive(r) /\ F(r).task # t)
  <2>1. r \in Run
    BY <1>1
  <2>2. CASE r.task = t
    <3>1. F(r) = [r EXCEPT !.asked = TRUE]
      BY <2>2
    <3> QED BY <2>1, <3>1 DEF Run, SameRun, Alive
  <2>3. CASE r.task # t
    BY <2>3 DEF SameRun
  <2> QED BY <2>2, <2>3
<1>3. \A x \in runs' : \E r \in Killed(t) : x = F(r)
  OBVIOUS
<1> HIDE DEF F
<1>4. ASSUME NEW x \in runs', NEW y \in runs', SameRun(x, y) PROVE x = y
  <2>1. PICK r \in Killed(t), q \in Killed(t) : x = F(r) /\ y = F(q)
    BY <1>3
  <2>2. SameRun(r, q)
    BY <1>2, <1>4, <2>1 DEF SameRun
  <2>3. r = q
    BY <2>2, KilledRuns
  <2> QED BY <2>1, <2>3
<1>5. ASSUME NEW x \in runs'
      PROVE  \E r \in runs : SameRun(r, x) /\ (Alive(x) => Alive(r) /\ x.task # t)
  <2>1. PICK q \in Killed(t) : x = F(q)
    BY <1>3
  <2>2. PICK r \in runs : SameRun(r, q) /\ (Alive(q) => Alive(r))
    BY KilledRuns
  <2> QED BY <1>2, <2>1, <2>2 DEF SameRun
<1> QED BY <1>4, <1>5

(* A step that leaves the service alone.                                   *)
LEMMA RecordAside ==
    ASSUME RecordInv, UNCHANGED svcVars, launches' = launches, RunInv',
           phase # "up" => runs' = {} /\ exits' = {} /\ reports' = {},
           \A r \in runs' : Alive(r) => \E q \in runs : Alive(q) /\ SameRun(q, r)
    PROVE  RecordInv'
<1>1. UNCHANGED <<ledger, durable, phase, work>> /\ Gate' = Gate
  BY DEF svcVars, Gate
<1>2. PhaseInv' /\ HandInv'
  BY <1>1 DEF RecordInv, PhaseInv, HandInv
<1>3. LiveRunIsOnRecord' /\ KeysDiffer(ledger)' /\ KeysDiffer(durable)'
  BY <1>1, RecordKept DEF RecordInv
<1> QED BY <1>2, <1>3 DEF RecordInv

(* A process ends, its exit thread retires the run and takes the marks.    *)
LEMMA RecordExits ==
    ASSUME TypeOK, RecordInv,
           \/ \E r \in runs : RetireRun(r) \/ \E code \in ExitCodes : ProcessExits(r, code)
           \/ \E r \in exits : ConsumeMarks(r)
    PROVE  RecordInv'
<1>1. RunInv /\ (phase # "up" => runs = {} /\ exits = {} /\ reports = {})
  BY DEF RecordInv, PhaseInv
<1>2. UNCHANGED svcVars /\ launches' = launches
  BY DEF RetireRun, ProcessExits, ConsumeMarks
<1>3. phase = "up"
  BY <1>1
<1>4. ASSUME NEW r \in runs, RetireRun(r) PROVE RecordInv'
  <2>1. runs' = runs \ {r} /\ exits' = exits \cup {r} /\ reports' = reports
    BY <1>4 DEF RetireRun
  <2>2. RunInv'
    <3>1. \A x \in runs' \cup exits' \cup reports' : x \in runs \cup exits \cup reports
      BY <2>1
    <3>2. \A x \in runs' : ~SameRun(x, r)
      BY <1>1, <2>1 DEF RunInv
    <3>3. \A x \in runs', y \in exits' \cup reports' : ~SameRun(x, y)
      BY <1>1, <2>1, <3>2 DEF RunInv
    <3> QED BY <1>1, <1>2, <2>1, <3>1, <3>3 DEF RunInv
  <2> QED BY <1>2, <1>3, <2>1, <2>2, RecordAside DEF SameRun
<1>5. ASSUME NEW r \in runs, NEW code \in ExitCodes, ProcessExits(r, code) PROVE RecordInv'
  <2>1. PICK x : x = [r EXCEPT !.state = code]
    OBVIOUS
  <2>2. runs' = (runs \ {r}) \cup {x} /\ exits' = exits /\ reports' = reports
    BY <1>5, <2>1 DEF ProcessExits
  <2>3. SameRun(r, x) /\ ~Alive(x)
    BY <2>1 DEF TypeOK, Run, SameRun, Alive, ExitCodes
  <2>4. \A y, z \in runs' : SameRun(y, z) => y = z
    <3>1. \A y \in runs \ {r} : ~SameRun(y, r)
      BY <1>1 DEF RunInv
    <3>2. \A y \in runs \ {r} : ~SameRun(y, x) /\ ~SameRun(x, y)
      BY <2>3, <3>1 DEF SameRun
    <3> QED BY <1>1, <2>2, <3>2 DEF RunInv
  <2>5. \A y \in runs' : \E q \in runs : SameRun(q, y) /\ (Alive(y) => Alive(q))
    BY <2>2, <2>3 DEF SameRun
  <2>6. RunInv'
    BY <1>1, <1>2, <2>2, <2>4, <2>5, RunsKept
  <2> QED BY <1>2, <1>3, <2>5, <2>6, RecordAside
<1>6. ASSUME NEW r \in exits, ConsumeMarks(r) PROVE RecordInv'
  <2>1. runs' = runs /\ exits' = exits \ {r} /\ reports' = reports \cup Outcome(r)
    BY <1>6 DEF ConsumeMarks
  <2>2. \A e \in Outcome(r) : SameRun(r, e)
    BY DEF Outcome, ReportOf, SameRun
  <2>3. \A x \in exits' \cup reports' : \E y \in exits \cup reports : SameRun(y, x)
    BY <2>1, <2>2 DEF SameRun
  <2>4. RunInv'
    <3>1. ASSUME NEW x \in runs' \cup exits' \cup reports'
          PROVE  x.gen \in 1..MaxGen /\ launches'[x.task][x.gen] > 0
      <4>1. \E y \in runs \cup exits \cup reports : SameRun(y, x)
        BY <2>1, <2>3 DEF SameRun
      <4> QED BY <1>1, <1>2, <4>1 DEF RunInv, SameRun
    <3>2. ASSUME NEW q \in runs', NEW x \in exits' \cup reports' PROVE ~SameRun(q, x)
      <4>1. PICK y \in exits \cup reports : SameRun(y, x)
        BY <2>3
      <4>2. ~SameRun(q, y)
        BY <1>1, <2>1 DEF RunInv
      <4> QED BY <4>1, <4>2 DEF SameRun
    <3> QED BY <1>1, <2>1, <3>1, <3>2 DEF RunInv
  <2> QED BY <1>2, <1>3, <2>1, <2>4, RecordAside DEF SameRun
<1> QED BY <1>4, <1>5, <1>6

(* cancel marks every run whose claim it releases.                         *)
LEMMA RecordCancels ==
    ASSUME TypeOK, RecordInv, NEW t \in Tasks, Cancel(t)
    PROVE  RecordInv'
<1> USE DEF RecordInv
<1>1. /\ GateFree /\ UNCHANGED <<work, phase, launches, exits, reports>>
      /\ ledger' = SettleTasks(ledger, {t}) /\ BestEffortPersist(ledger')
      /\ runs' = {IF r.task = t THEN [r EXCEPT !.asked = TRUE] ELSE r : r \in Killed(t)}
  BY DEF Cancel, CancelClaims
<1>2. /\ \A x \in runs' : \E r \in runs : SameRun(r, x) /\ (Alive(x) => Alive(r) /\ x.task # t)
      /\ \A x, y \in runs' : SameRun(x, y) => x = y
  BY <1>1, MarkedRuns
<1>3. RunInv'
  BY <1>1, <1>2, RunsKept
<1>4. /\ ledger'.claims = {c \in ledger.claims : c.task \notin {t}}
      /\ durable' = durable \/ durable' = ledger'
  BY <1>1, LedgerClaims, BestEffortClaims DEF TypeOK, SvcTypeOK
<1>5. LiveRunIsOnRecord' /\ KeysDiffer(ledger)' /\ KeysDiffer(durable)'
  <2>1. \A r \in runs', c \in ledger.claims \ ledger'.claims : Alive(r) => ~SameRun(c, r)
    BY <1>2, <1>4 DEF SameRun
  <2> QED BY <1>2, <1>4, <2>1, RecordKept
<1>6. Gate' = Gate /\ Gate.claim = {} /\ Gate.op = "none" /\ phase = "up"
  BY <1>1, IdleGate DEF GateFree, Gate
<1>7. PhaseInv' /\ HandInv'
  BY <1>1, <1>6 DEF PhaseInv, HandInv
<1> QED BY <1>3, <1>5, <1>7

(* complete kills, or begins an edit.                                      *)
LEMMA RecordCompletes ==
    ASSUME TypeOK, NumbersOnRecord, NumbersOnRecord', RecordInv, NEW t \in Tasks, Complete(t)
    PROVE  RecordInv'
<1>1. CASE CompleteRunning(t) /\ runs' = Killed(t)
  <2>1. UNCHANGED <<svcVars, exits, reports, launches>> /\ phase = "up"
    BY <1>1 DEF CompleteRunning, GateFree, Complete
  <2>2. RunInv
    BY DEF RecordInv
  <2>3. RunInv'
    BY <1>1, <2>1, <2>2, KilledRuns, RunsKept
  <2> QED BY <1>1, <2>1, <2>2, <2>3, KilledRuns, RecordAside
<1>2. CASE CompleteIdle(t) /\ UNCHANGED <<completed, runs>>
  BY <1>2, RecordRequests DEF Complete, HostRests, hostVars
<1> QED BY <1>1, <1>2 DEF Complete

(* A spawn: its claim is open in memory and on disk.                       *)
LEMMA RecordLaunches ==
    ASSUME TypeOK, NumbersOnRecord, RecordInv, Launch
    PROVE  RecordInv'
<1> USE DEF RecordInv
<1>1. PICK c \in Gate.claim :
        /\ SpawnOk(c)
        /\ runs' = runs \cup {[task |-> c.task, gen |-> c.gen, state |-> "live", asked |-> FALSE]}
        /\ launches' = [launches EXCEPT ![c.task][c.gen] = @ + 1]
  BY DEF Launch, Gate
<1>2. PICK x : x = [task |-> c.task, gen |-> c.gen, state |-> "live", asked |-> FALSE]
  OBVIOUS
<1>3. /\ Gate.pc = "spawn" /\ Return("gate") /\ UNCHANGED <<ledger, durable, phase, exits, reports>>
  BY <1>1 DEF SpawnOk, Spawning, AtStep, Launch, Gate
<1>4. Gate.op = "begin" /\ phase = "up"
  BY <1>3 DEF NumbersOnRecord, PhaseInv, Gate
<1>5. /\ c \in ledger.claims /\ c \in durable.claims
      /\ c.gen \in 1..MaxGen /\ launches[c.task][c.gen] = 0
  BY <1>3 DEF HandInv
<1>6. Gate' = Idle
  BY <1>3, GateReturns DEF TypeOK, SvcTypeOK
<1>7. c.task \in Tasks /\ launches \in [Tasks -> [1..MaxGen -> Nat]]
  BY <1>5 DEF TypeOK, SvcTypeOK, Ledger, Claim
<1>8. /\ launches'[c.task][c.gen] = 1
      /\ \A u \in Tasks, h \in 1..MaxGen : launches[u][h] > 0 => launches'[u][h] > 0
  <2>1. PICK row : row = [launches[c.task] EXCEPT ![c.gen] = launches[c.task][c.gen] + 1]
    OBVIOUS
  <2>2. launches' = [launches EXCEPT ![c.task] = row]
    BY <1>1, <2>1
  <2>3. launches[c.task] \in [1..MaxGen -> Nat]
    BY <1>7
  <2>4. row[c.gen] = 1 /\ \A h \in 1..MaxGen : h # c.gen => row[h] = launches[c.task][h]
    <3>1. launches[c.task][c.gen] + 1 = 1
      BY <1>5
    <3>2. PICK f : f = launches[c.task]
      OBVIOUS
    <3>3. row = [f EXCEPT ![c.gen] = 1] /\ f \in [1..MaxGen -> Nat]
      BY <2>1, <2>3, <3>1, <3>2
    <3>4. row[c.gen] = 1 /\ \A h \in 1..MaxGen : h # c.gen => row[h] = f[h]
      BY <1>5, <3>3
    <3> QED BY <3>2, <3>4
  <2> QED BY <1>5, <1>7, <2>2, <2>4
<1>9. x.task = c.task /\ x.gen = c.gen /\ x.state = "live" /\ SameRun(c, x)
  BY <1>2 DEF SameRun
<1>10. \A y \in runs \cup exits \cup reports : y.task \in Tasks /\ ~SameRun(x, y) /\ ~SameRun(y, x)
  <2>1. \A y \in runs \cup exits \cup reports : y.task \in Tasks /\ launches[y.task][y.gen] > 0
    BY DEF TypeOK, Run, Report, RunInv
  <2> QED BY <1>5, <1>9, <2>1 DEF SameRun
<1>11. runs' = runs \cup {x}
  BY <1>1, <1>2
<1>12. RunInv'
  <2>1. \A y \in runs' \cup exits' \cup reports' : y.gen \in 1..MaxGen /\ launches'[y.task][y.gen] > 0
    <3>1. TAKE y \in runs' \cup exits' \cup reports'
    <3>2. CASE y = x
      BY <1>5, <1>8, <1>9, <3>2
    <3>3. CASE y # x
      <4>1. y \in runs \cup exits \cup reports
        BY <1>3, <1>11, <3>3
      <4>2. y.task \in Tasks /\ y.gen \in 1..MaxGen /\ launches[y.task][y.gen] > 0
        BY <1>10, <4>1 DEF RunInv
      <4> QED BY <1>8, <4>2
    <3> QED BY <3>2, <3>3
  <2>2. \A r, q \in runs' : SameRun(r, q) => r = q
    BY <1>10, <1>11 DEF RunInv
  <2>3. \A r \in runs', y \in exits' \cup reports' : ~SameRun(r, y)
    BY <1>3, <1>10, <1>11 DEF RunInv
  <2> QED BY <2>1, <2>2, <2>3 DEF RunInv
<1>13. LiveRunIsOnRecord'
  <2>1. IsLive(ledger, x.task, x.gen) /\ IsLive(durable, x.task, x.gen)
    BY <1>5, <1>9 DEF IsLive
  <2> QED BY <1>3, <1>11, <2>1 DEF LiveRunIsOnRecord
<1>14. PhaseInv' /\ HandInv'
  BY <1>3, <1>4, <1>6, IdleGate DEF PhaseInv, HandInv
<1> QED BY <1>3, <1>12, <1>13, <1>14 DEF KeysDiffer

(* A launch that failed keeps its claim in hand until it has settled.      *)
LEMMA RecordLaunchFails ==
    ASSUME TypeOK, NumbersOnRecord, RecordInv, LaunchFails
    PROVE  RecordInv'
<1> USE DEF RecordInv
<1>1. PICK c \in Gate.claim : SpawnFailed(c)
  BY DEF LaunchFails, Gate
<1>2. /\ Gate.pc = "spawn" /\ UNCHANGED <<ledger, durable, phase>> /\ Gate.claim = {c}
      /\ \/ \E recs : Decide("gate", "abandon", recs, {c}, {c.task})
         \/ GoTo("gate", "settle")
  BY <1>1 DEF SpawnFailed, Spawning, AtStep, Gate
<1>3. Gate.op = "begin" /\ phase = "up" /\ Gate.claim \subseteq ledger.claims
  BY <1>2 DEF NumbersOnRecord, PhaseInv, HandInv, Gate
<1>4. Gate'.op \in {Gate.op, "abandon"} /\ Gate'.claim = Gate.claim /\ Gate'.pc \notin {"ack", "spawn"}
  BY <1>2, GateDecides, GateMoves DEF TypeOK, SvcTypeOK
<1>5. HostRests
  BY DEF LaunchFails, HostRests
<1>6. /\ RunInv' /\ launches' = launches
      /\ \A r \in runs' : Alive(r) => \E q \in runs : Alive(q) /\ SameRun(q, r)
  BY <1>5, RunsRest DEF HostRests
<1>7. HandInv'
  BY <1>2, <1>3, <1>4, <1>6, HandKept
<1>8. PhaseInv'
  BY <1>2, <1>3, <1>4, <1>5, PhaseKept
<1>9. LiveRunIsOnRecord' /\ KeysDiffer(ledger)' /\ KeysDiffer(durable)'
  BY <1>2, <1>6, RecordKept
<1> QED BY <1>6, <1>7, <1>8, <1>9

(* The host dies with its runs, and the next one reads their claims back.  *)
LEMMA RecordRestarts ==
    ASSUME TypeOK, NumbersOnRecord, RecordInv, Crash \/ Recover
    PROVE  RecordInv'
<1> USE DEF RecordInv
<1>1. CASE Crash
  <2>1. /\ runs' = {} /\ exits' = {} /\ reports' = {} /\ Gate' = Idle
        /\ ledger' = EmptyLedger /\ durable' = durable
    BY <1>1 DEF Crash, Die, Gate, Threads
  <2>2. ledger'.claims = {}
    BY <2>1 DEF EmptyLedger
  <2> QED BY <2>1, <2>2, IdleGate
          DEF PhaseInv, HandInv, RunInv, KeysDiffer, LiveRunIsOnRecord
<1>2. CASE Recover
  <2>1. /\ HostRests /\ phase # "up" /\ durable' = durable
        /\ \/ Restart \/ Reconcile \/ Serve("repair") \/ Serve("boot")
    BY <1>2 DEF Recover, HostRests, Restart, Reconcile, Serve
  <2>2. /\ runs' = {} /\ exits' = {} /\ reports' = {}
        /\ Gate.op \in {"none", "reconcile"} /\ Gate.claim = {}
    BY <2>1 DEF PhaseInv, HandInv, HostRests, hostVars
  <2>3. RunInv' /\ LiveRunIsOnRecord'
    BY <2>2 DEF RunInv, LiveRunIsOnRecord
  <2>4. KeysDiffer(ledger)' /\ KeysDiffer(durable)'
    BY <2>1 DEF Restart, Reconcile, Serve, KeysDiffer
  <2>5. CASE Restart
    <3>1. phase = "down" /\ Gate' = Gate
      BY <2>5 DEF Restart, Gate
    <3>2. Gate = Idle
      BY <3>1 DEF NumbersOnRecord, Gate
    <3> QED BY <2>2, <2>3, <2>4, <3>1, <3>2, IdleGate DEF PhaseInv, HandInv
  <2>6. CASE Reconcile
    <3>1. /\ phase = "boot" /\ phase' = "repair"
          /\ work' = work \/ \E recs, ids : Decide("gate", "reconcile", recs, {}, ids)
      BY <2>6 DEF Reconcile
    <3>2. Gate' = Gate \/ (Gate'.op = "reconcile" /\ Gate'.claim = {})
      BY <3>1, GateDecides DEF TypeOK, SvcTypeOK, Gate
    <3> QED BY <2>2, <2>3, <2>4, <3>1, <3>2 DEF PhaseInv, HandInv
  <2>7. CASE Serve("repair") \/ Serve("boot")
    <3>1. Gate = Idle /\ Gate' = Gate
      BY <2>7 DEF Serve, Gate
    <3> QED BY <2>2, <2>3, <2>4, <3>1, IdleGate DEF PhaseInv, HandInv
  <2> QED BY <2>1, <2>5, <2>6, <2>7
<1> QED BY <1>1, <1>2

(* Every step keeps the record of the runs.                                *)
LEMMA RecordStays ==
    ASSUME Serialized, Based, Based', RecordInv, [Next]_vars
    PROVE  RecordInv'
<1> USE DEF Based
<1>1. RunInv /\ (phase # "up" => runs = {} /\ exits = {} /\ reports = {})
  BY DEF RecordInv, PhaseInv
<1>2. CASE UNCHANGED vars
  BY <1>1, <1>2, RecordAside DEF vars, hostVars, RunInv, SameRun
<1>3. CASE ServiceRequest
  BY <1>3, RecordRequests DEF ServiceRequest, Serialized, HostRests
<1>4. ASSUME NEW th \in Threads, ServiceStep(th) PROVE RecordInv'
  BY <1>4, BypassRests, RecordCommits DEF ServiceStep, Threads, HostRests
<1>5. ASSUME NEW e \in reports, ReportExit(e) PROVE RecordInv'
  <2>1. /\ Observe(e.task, e.gen, e.status, e.status = "failed", FALSE, HasLiveRun(e.task))
        /\ UNCHANGED <<runs, exits, launches>> /\ reports' \subseteq reports
    BY <1>5 DEF ReportExit
  <2>2. RunInv'
    BY <1>1, <2>1 DEF RunInv
  <2>3. PICK t, g, st, why, up : /\ t = e.task /\ g = e.gen /\ st = e.status
                                 /\ why = (e.status = "failed") /\ up = HasLiveRun(e.task)
    OBVIOUS
  <2>4. Observe(t, g, st, why, FALSE, up)
    BY <2>1, <2>3
  <2>5. st \in Terminal => \A r \in runs : ~(r.task = t /\ r.gen = g)
    BY <1>1, <2>3 DEF RunInv, SameRun
  <2>6. UNCHANGED <<runs, launches>>
    BY <2>1
  <2> QED BY <2>2, <2>4, <2>5, <2>6, RecordReports
<1>6. ASSUME NEW t \in Tasks, NEW g \in 1..MaxGen, NEW st \in {"running", "input_required"},
             WatcherReport(t, g, st)
      PROVE  RecordInv'
  <2>1. Observe(t, g, st, FALSE, TRUE, HasLiveRun(t)) /\ UNCHANGED <<hostVars, launches>>
    BY <1>6 DEF WatcherReport
  <2>2. st \notin Terminal
    BY DEF Terminal
  <2>3. RunInv' /\ UNCHANGED <<runs, launches>>
    BY <1>1, <2>1 DEF RunInv, hostVars
  <2> QED BY <2>1, <2>2, <2>3, RecordReports
<1> QED BY <1>2, <1>3, <1>4, <1>5, <1>6, RecordLaunches, RecordLaunchFails, RecordCancels,
        RecordCompletes, RecordExits, RecordRestarts DEF Next

(* A live run that nobody cancelled has its attempt open in memory and on  *)
(* disk, whatever writes fail and however often the host dies: the ledger  *)
(* is persisted before the spawn, and what is released afterwards is the   *)
(* attempt of a failed launch, of a run that ended, or of a cancelled task.*)
THEOREM AlwaysLiveRunIsOnRecord ==
    ASSUME "delete" \notin Features
    PROVE  Spec => []LiveRunIsOnRecord
<1>1. Init => Based /\ RecordInv
  <2> SUFFICES ASSUME Init PROVE Based /\ RecordInv
    OBVIOUS
  <2>1. Based
    BY InitInvariant, InitSerial DEF Based
  <2>2. /\ Gate = Idle /\ phase = "up" /\ runs = {} /\ exits = {} /\ reports = {}
        /\ ledger.claims = {} /\ durable.claims = {}
    BY DEF Init, SvcInit, EmptyLedger, Gate, Threads
  <2>3. RecordInv
    BY <2>2, IdleGate DEF RecordInv, PhaseInv, HandInv, RunInv, KeysDiffer, LiveRunIsOnRecord
  <2> QED BY <2>1, <2>3
<1>2. Based /\ RecordInv /\ [Next]_vars => (Based /\ RecordInv)'
  BY BasedStays, RecordStays DEF Serialized
<1>3. RecordInv => LiveRunIsOnRecord
  BY DEF RecordInv
<1> QED BY <1>1, <1>2, <1>3, PTL DEF Spec
===============================================================================
