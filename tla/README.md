# Verification of Aeroric's core protocols

Aeroric manages AI coding agents: a host process (`aeroric-cli serve`) keeps
projects and tasks in `~/.aeroric`, starts agent processes for them, drives
structured agent sessions, and serves a macOS and an iOS client. All business
logic and every write is in the Rust crates under `core/`; the clients read
models and send typed actions.

This directory models the parts in which several threads, processes or devices
meet on state that must survive a crash or a race: the life of a task's runs,
the queue of messages sent into a session, delegation and review between
sessions, the way of terminal output and task events to the clients, the
submission of new sessions, and the synchronisation of notes. It holds the TLA+
modules, their TLC instances, and proofs checked by TLAPS. `PROJECT.json` maps
every definition to the lines it models and lists runs, faulty variants,
hazards and theorems. Paths below are relative to
`src/core/crates/aeroric-core/src/` unless they say otherwise.

## The system

| Part | State | Operations | What is hard | What makes it correct |
|---|---|---|---|---|
| Operation ledger (`tasks/operations.rs`) | open claims, highest run number per task, tasks awaiting an acknowledgement; a copy in `task-operations.json` | claim, settle by key, run or task, acknowledge, reconcile | written best effort in most places; a crash brings the file's state back | numbers are never reused; a live run is on record |
| Task reducer (`tasks/reducer.rs`) | one task row | status transition, metadata edits | fields that survive a transition | a row tells the last run's story |
| Task service (`tasks/service.rs`, `storage/`) | the task list of a project, the cover table of `runtime.json`, the ledger, the `mutations` lock | create, edit, start, resume, observe, cancel, complete, delete, acknowledge, reconcile | a read-modify-write of four writes, each of which may fail or be the last before a crash; delete outside the lock | rows are changed only by operations about them; the project stays writable |
| PTY executor and run registry (`aeroric-host/src/executor.rs`, `runtime/registry.rs`) | registered runs, cancel and completion marks, exit threads | launch, kill, the exit thread | overlapping runs of a task; requests between the steps of an exit thread | a task is finished when, and only when, its last run is |
| Delivery queue (`sessions/live/delivery/`) | messages in memory and in `delivery.db`, sender threads, `in_hand`, `died_in_hand`, `no_receipt` | enqueue, pump, receipt, timeout, lookup, stop, resume, discard, resend, reopen | no lock is held across a pump; a send outlives its timeout; the session, the agent or the host dies at any step | one copy per request; what the queue says of a message is true; the queue moves |
| Session drivers (`sessions/live/{codex,claude,omp}`) | process, turn, pending commands | prompt, receipt, turn start and end, close | an answer that never comes; a turn announced before or after the receipt | a refusal is a refusal |
| Turn tracker and automatic checks (`sessions/live/turn_changes.rs`, `auto_check.rs`) | the running turn, settling threads, the registered check run | turn started, ended, settled; start, cancel, verdict | three threads race for one turn | a verdict belongs to its turn |
| Delegation (`sessions/live/delegation/`) | cards of a parent, budget watchers, `pending_return` | start, stop, redo, send, report, return | the lock is released around every call to a session | every delegation ends; its result goes back once and is its own |
| Review (`sessions/live/review/`) | the loop of a writer, the reviewer, the last diff and verdict | request, send, retry, settle, read an answer | two halves of an answer, verdicts before or after they are waited for | an open loop always has somebody who moves it on |
| Event log (`events/`), the desktop's pump (`LiveSessions.swift`) | ring of numbered events, a cursor, the sidebar | append, since, list | eviction, a restarted host, a list read beside the pump | no gap, or a list that repairs it |
| Terminal (`terminal/`), poll loop and forwarder (`AppServices.swift`, `aeroric-host/src/remote_headless.rs`) | a byte window per run, cursors, the view | publish, plan_replay, draw, subscribe, forward | the window moves under its readers; cancelled loops | one unbroken piece; the end arrives |
| Submissions (`tasks/submissions.rs`) and draft (`NewSessionDrafts.swift`) | receipts on disk, the page's identity and state | submit, get, edit, quit | a crash between the receipt and the effect; lost answers | one task per page |
| Data-directory lease (`storage_lock.rs`) | lock file, its inode | acquire, verify, drop | a removed lock file; a second process | one writer |
| Notebook sync (`notebook/sync/`) | a note here and there, baseline, tombstone, decisions | scan, list, plan, upload, download, delete, fork, resolve | edits during a round, rounds cut short, several devices | no edit lost, no deletion undone, agreement |
| Turn ledger, checkpoints, isolated copies | snapshots of turns | capture, revert | file and git work | |
| Remote server, relay, push (`remote/`, `remote-relay/`, `remote-push/`) | devices, pending connections, bindings | pair, connect, forward, notify | timeouts against late arrivals, limits | each connection is matched once |
| Router, git, files, databases, settings, metrics, host RPC, apps | files and caches | single-step reads and writes | I/O | not protocol-like |

The service calls the executor (launch, resume, cancel, complete) while it
holds its lock; the executor's exit threads call back with `observe`, which
waits for the lock. The delivery queue sits in the sink chain of the session
drivers: drivers report updates and statuses into it on their own thread, it
calls `DeliveryHost::send` on a thread per attempt, and that call reaches the
driver's command channel, starting the driver first if there is none. Above the
queue in the same chain sit the turn tracker, delegation and review: they see
every turn start and end, spawn threads that settle a turn, check it and report
on it, and prompt other sessions through the queue. The desktop learns of
statuses by polling the event log beside the task list, of output by polling a
run's byte window, and asks for new sessions through receipts.

## Modules

| Module | Models | Extends |
|---|---|---|
| `TaskLedger` | the ledger as operators on ledger values | |
| `TaskReducer` | what a row becomes | |
| `TaskService` | the service for one project: load-and-decide, then check cover, write, bump, persist the ledger; crash and restart | `TaskLedger`, `TaskReducer` |
| `RunNumbering` | abstract: what the run numbers promise | |
| `PtyHost` | the executor, the registry, processes and exit threads, composed with the service; properties | `TaskService` |
| `PtyHost_proofs` | types, run numbers and their refinement, live runs on record, finished tasks, own rows, cover table, as theorems | `PtyHost`, TLAPS |
| `DeliveryItem` | the state machine `step` of one message as a table of rules | |
| `Delivery` | the queue of one session, its threads, the driver and the agent; properties | `DeliveryItem` |
| `Delivery_proofs` | types, one copy per request, failed did not arrive, delivered did, as theorems | `Delivery`, TLAPS |
| `TurnChecks` | the turn tracker and the automatic checks, as shares of steps | |
| `Contract` | what a delegation's contract comes to | |
| `Delegation` | the delegations of one parent and their threads | `TurnChecks`, `Contract` |
| `Delegation_proofs` | results are told once, of closed runs, and are their own; permission decay; as theorems | `Delegation`, TLAPS |
| `Review` | one review loop | `TurnChecks` |
| `Review_proofs` | an open loop is moved on, as theorems | `Review`, TLAPS |
| `EventFeed` | event ring, `since`, status pump and task list | |
| `EventFeed_proofs` | types, no gap, a reset is repaired, as theorems | `EventFeed`, TLAPS |
| `Terminal` | streams, replay, the window's poll loop, the phone's forwarders | |
| `Terminal_proofs` | types, one piece, only dropped bytes are missed, as theorems | `Terminal`, TLAPS |
| `Submissions` | lease, receipts and draft | |
| `Submissions_proofs` | one writer, one run, one task per page as theorems | `Submissions`, TLAPS |
| `NotebookSync` | rounds over one note | |
| `NotebookSync_proofs` | no edit is lost, no deleted note comes back by itself, as theorems | `NotebookSync`, TLAPS |
| `MC*` | the instances for TLC | |

Most of the newer modules take a set `Setups` of instances (records of bounds
and features) and choose one in the initial state, so that one run covers
several small instances that would be too large together.

### Tasks and runs

`rows` is the task list on disk, `table` the list whose bytes the cover table
names, `ledger` and `durable` the ledger in memory and on disk. `work` says
what each of two threads is in the middle of: `gate` runs the operations that
take the `mutations` lock, one at a time, and `bypass` runs `delete`, which does
not. An operation's first step is its load and its decision; then follow
`CheckCover`, `Write`, `Bump` and `PersistLedger`, the four effects of
`commit`. Each write may fail (up to `MaxFaults`), the process may die before
any of them (up to `MaxCrashes`). Where the code ignores the error of a ledger
write, `BestEffortPersist` moves the memory and maybe the file. A start or
resume goes on with the acknowledgement and the spawn, still under the lock.

A row keeps `status`, whether a failure reason is set, the star (standing for
all metadata), `ended`, the run number that was current when `completedAt` was
stamped, and `gen`, its copy of the run number. Every commit rewrites that copy
in every row of the list (`Stamped`, `stamp_generation_copies`), so after a
failed write or a crash a write also changes rows it is not about. The list's
bytes are the list: a fingerprint is compared for equality only. A launch that
fails leaves no process. `Observe` follows `apply_observation_under_lock`: the
stale rule, the guard on watchers, the folding of an end to `running` while
another run is in flight, the repeated `input_required` that only renews
`attentionRequestedAt` and is written all the same (`AsksAgain`), the release of
the claim. Its branch for `TerminalReady` is left out: only tests send that
event. The shipped host reports only exits (origin Runtime); watchers are
callers of the same entry point outside this code and are marked external.
The exit thread is three steps: retire the run, take the marks, report.

Left out: `switch_config`, hosts that keep the list themselves (`ViaHost`,
`DecideOnly`), DSH, and writes by another client (one writer is assumed).

### Delivery

`items` and `disk` are the store. A job is a thread inside the queue's code: the
driver's own thread when it reports, or a caller. `pump` is four steps, since it
reads `idle`, picks, moves the item and hands it over under separate lock
acquisitions. A sender is in `DeliveryHost::send` or has what it learned still
to record. `held` is what the driver holds of the session's commands, and
`copies` counts what the agent took into its conversation; it is the truth
that the queue's claims are compared with. The driver differs by `Agent`: Codex
and omp answer a command and their thread waits for it; Claude's input is
written and its echo comes when it comes; Codex announces a turn by a later
message, clears it after it announced the end; omp and Claude begin a turn with
the command. `handoff` is a run that is to start with a handoff text: its
prompt has no receipt and a turn's start is the only proof.

Abstractions: commands held by the driver are a set, so the order among them is
any order, except that a run's first prompt is first. Between Close and its
effect a send is dropped, or waits until the driver is gone; an old driver that
winds up beside a new one is not modelled. A cancel with no driver is a stop.
Moves of a session's source that set a new handoff, the leftover of Claude's
echo queue after an exit, and turns that Claude merges are not modelled. Old
settled rows are deleted at open; no property reads them. The lookup in the
agent's record searches every user message for the first 120 characters of the
lost one; `SameText` says whether they occur in the other messages (all or none).

### Turns, delegation and review

`TurnChecks` has, for each session, its latest turn, the phase of the driver's
call (`active`, `ending` between the tracker and the sinks beneath it, `idle`),
the settling threads `turn_ended` spawned and the check threads
`AutoChecker::start` spawned. Its actions are the tracker's share of a step;
`Delegation` and `Review` conjoin what their sink and their hook do in it. The
diff and the outcome of the commands are free choices, the order of the three
threads is any order. `Tracked` are the sessions whose working tree is here:
nothing snapshots or settles a turn of a remote one. `Review` takes a tracked
writer, because a loop begins with a diff and a remote writer never has one.

`Delegation`: a card per delegation; `starting` is the thread in `start_child`,
`watching` the budget watchers, `reports` threads that will take the lock in
`report`, `fails` threads on their way into `fail` (a child's turn that ended
badly is Running for a moment, between two locks), `due` and `returns` the threads
in `try_return` before and after their first look. Texts are the turn they come from. `parent` is the parent's turn
with the two steps of its end in the order of the driver (`ClearsFirst`).
`told`, `dropped` and `began` are history. A refused contract never gets a card
(`Contract`). `Review`: one loop's card; `acts` counts the threads `run` has
spawned per kind, `prompting` those on their way to a reviewer that is there,
`asked` and `prompts` the messages the reviewers and the writer have not begun a
turn with. Reviewers are numbered in the order of their start. A loop that opens
with the same choice of reviewer takes over the old one; a changed choice starts
another, while the replaced one may still finish a turn that nobody hears
(`Heard`). Both leave out the files `publish` writes and the cards that a
restarted host reads back as interrupted.

### Events, terminal, submissions

`EventFeed`: a status is the task's n-th; `Observe` writes the row, `LogAppend`
is the critical section of `append`, `Notify` the observer's call after it. The
pump asks and handles in two steps; a list is read by the host and shown later;
`Reconnect` and `HostRestarts` start a new pump while the old one may still have
an answer in hand. A list may fail on a live connection (`ListFails`), and nothing
asks again until the next reset or connection. Every task is in the sidebar from
the start: the refresh that an event of an unknown task begins
(`LiveSessions.swift:424`), and the one that is repeated after a failed
`project.list`, are left out; either is one more list.

`Terminal`: a byte is its position. A reader thread reads, opens the stream (or
is refused at the limit) and appends; the window's loop asks with its cursor and
draws; a forwarder is a task of its own that looks up the run when it starts,
sends a snapshot (64 KiB at most, `ChunkMax`, as an answer to the window), then
frames (32 KiB, `FrameMax`), and sleeps. `PlanReplay` is `plan_replay` and the
classification of an unknown stream in one step, which no other step divides:
they only read. Nothing in the
program calls `mark_finished`, so streams are never retired.

`Submissions`: a file is its inode, an identity a submission id with its
fingerprint. A host locks, writes the hint and notes the identity in three
steps; opening the file and locking it is one, because whatever comes in between
leaves the host with the file it opened. `StillHeld` is the check before every
write, by existence only where no identity was found. A submission is load,
pending receipt, execute, last receipt. The draft page is editable, sending,
failed or unknown and gets a new identity when it is edited after a failure or
comes back after a quit. There is one page in one window, and its memo is saved
as it is when the application quits: an application that dies between `begin` and
the saved memo is not modelled.

### Notes

`NotebookSync`: contents are numbered, the hash of a content is its number. A
round's steps are the calls of `engine.rs` that read or write the vault, the
cloud folder or the store; `ActionFor` is `diff.rs`. Two rounds of one device
(the daemon's and one asked for by hand) may overlap, and a round may end at any
step. Before it writes to the cloud folder a round looks once more
(`remote_identity_drifted`); that look takes a directory that cannot be listed
for one without the note (`HeadFails`, `entry_at`), so a round whose plan saw no
note goes on and writes over whatever is there. A fork copies what the cloud
folder holds to a path the user names, which nothing checks to be free: `copies`
are the forked copies, and a fork may take the path of an earlier one. (A path
that holds another note is beyond this model of one note.) `gone` holds what the
user gave up: what was written over, deleted, or decided against by `keepLocal`
or `keepRemote`; a fork gives up nothing. `exposed` holds what the code does
lose: what came between a round's last look at a file and its write or was in
the folder when that look failed, a copy at the path of a later fork, and the
content a fork was decided about when something else was there to be copied.
`WriteTombstones` reads the baselines and adds the tombstone in one step; both
are the device's own database. Left out: the fixed strategies, oversize files, the
manifest's sequence numbers, back-off and the network clients.

## Runs

Every run is a `.cfg` beside its `MC` module; all must pass.

| Run | Shows |
|---|---|
| `pty_numbers` | types; a number is on disk before its spawn and never spawned twice; the host implements `RunNumbering`; with failed launches, cancels, deletes, a failed write and a crash |
| `pty_overlap` | a live run's attempt is open in memory and on disk; a task is not finished while another run is in flight; with cancels, completions, watchers, crash and reconciliation |
| `pty_settles` | a row that shows a run settles once the last process is gone (liveness) |
| `pty_serial` | two tasks in one file, edited, started, completed and reported on, with one failed write: operations change their own rows only, but for the stamped run numbers, and the project stays writable until a write fails |
| `delivery_evidence` | delivered means arrived, failed means did not arrive, one copy per request of the user; Claude with every request and a crash at any step, Codex with a failed write and a crash |
| `delivery_moves` | nothing waits for ever in an idle session, nothing is sending for ever, a lost message is looked for (liveness); Codex across a crash, omp with every way to lose an answer |
| `delegation` | a result is told once, only of a run that ended, and is that run's; every delegation ends and results go back (liveness); five instances, one of them with a remote child whose turns nothing settles |
| `review` | an open loop always has a thread, a turn or a check that will move it on; with two reviewers, the second after a changed choice |
| `terminal` | types; the window is one piece and catches up; the phone misses dropped bytes only and gets the end (liveness) |
| `event_feed` | types; no gap; a reset is repaired by its list; the pump reaches the end (liveness); across restarts |
| `submissions` | one writer; executed once; receipts true and final; one task per page; with deaths, failed writes, repeats, a removed lock file |
| `notebook_sync` | no edit lost but for the named windows; a deleted note stays deleted; agreement or a question (liveness); five instances, one with a folder that cannot be listed before a write, one with two forks |

The bounds. Two run numbers are enough for a reuse and for a report that is
overtaken by the next run; three for an end between two other runs. One key
gives two attempts in flight at once (a start and a resume differ in kind), and
a cancel frees the key for a third. Nothing relates three rows of a list, so
two tasks show a lost update; they are interchangeable, and `pty_serial` uses
that. Two messages give a message in front and one
behind, one caller beside the driver's thread gives every interleaving of two
threads in the queue's code, and sender threads are not bounded by it. One
crash and one failed write are each a single fault; combinations of two faults
are checked where a run has both. A delegation is redone once, so that a run
has one before it, and two threads return results. Three turns of the writer
give the reviewed one, the answer and one the user slips in between; two
reviewers give the one that was replaced and the one that counts. A stream
of three bytes with a window of two is compacted while it is read, in snapshots
of two bytes and frames of one; a ring of
two events overflows with three. Two devices and the folder are all parties a
note has at one time; three contents make a conflict and an edit during its
resolution, a fourth a second conflict at the path of the first one's fork. Each run turns on the features its question needs; taken together
the runs exercise every action. Features that are missing from a run are mostly
the ones for which the property does not hold, and the section below shows why:
`pty_serial` has no `delete`, no `launch_failure` and no crash, `pty_settles` no
`complete` and no `cancel`, the Codex instance of `delivery_evidence` no
`resend`, no `stop` and no message of class `internal`, `delegation` a parent
that clears its turn before it announces the end.

Several runs allow states without a successor: a system whose bounded numbers,
turns or requests are used up simply waits. `notebook_sync`, `pty_overlap`,
`pty_settles` and `pty_serial` check for deadlock.

### Fairness

`PtyHost!Fairness`: a thread that holds the lock runs on, a spawn returns, a
killed process dies, an exit thread retires its run and takes the marks (weak
fairness, these steps stay enabled once they are); its `observe` waits for the
lock, which others may take again and again, so it gets strong fairness (the
mutex is not starved for ever); a host that went down is started again. No user
request, and no exit of an agent that nobody killed, is assumed.

`Delivery!Fairness`: a thread in the queue's code goes on, a sender that came
back records what it learned, a timeout fires (strong fairness for the last
two, because the one modelled caller may be busy with other work in between),
Claude's driver begins the turn it owes as part of the same handler, a close is
carried out, a restart completes. Nothing is assumed of the agent, of
`DeliveryHost::send` or of the user: a send may hang for ever, an agent may
never answer.

`Delegation!Fairness`: threads of the host run on, a start call returns, a driver
in the middle of ending a turn gets on with it, and a budget runs out (the watch
is a loop with a timer and a limit). No turn is assumed to end.
`EventFeed`, `Terminal`: the pump, the poll loop and the forwarders are loops
with a timer, a request on a live connection is answered or fails, a thread that holds
something to append or publish does it; nothing makes a run print or end.
`NotebookSync`: a device runs rounds at least every fallback interval, and a
round gets on. That is the daemon's doing and holds of a vault with automatic
sync on; it is off until the user turns it on (`notebook/sync/store.rs:84`), and
`Converges` says nothing of a vault that is synchronised by hand. Nothing else is
assumed of the user, and nothing of the network: a look that fails is never owed. `Review` and `Submissions` state
safety only.

## What the code does otherwise than it says

The disagreements met while modelling have no run of their own. For tasks and
messages each is a counterexample TLC gives to the property in the table. For
tasks start from `MCPtyHost_serial.cfg` without its `SYMMETRY`, with one task
unless the table says two, and set `Features` and the bounds to what is named,
the other bounds to 0 (`MaxGen` to 1). For messages write a setup of `MCDelivery` with the features
named and one message unless the table says two. "Fair" means
`SPECIFICATION FairSpec` without `SYMMETRY`.

| What happens | Where | Property | Instance |
|---|---|---|---|
| a failed launch persists a list with its own row only; the project's other tasks are gone | `tasks/service.rs:1473`, against `:741` | `OnlyDeleteRemovesRows` | launch_failure; two tasks |
| `complete` and the exit thread each leave the final status to the other, and the row stays running | `aeroric-host/src/executor.rs:844`, against `tasks/service.rs:1888` | `UnattendedRowSettles` | Fair; complete |
| a second run of a running task fails to start, and the row says failed while the first lives | `tasks/service.rs:1475` | `FinishedTaskHasNoOpenAttempt` | launch_failure; MaxGen 2 |
| the host dies between the list's write and the table's bump: every later write of the project is refused, reload or not | `storage/fingerprint.rs:98`, against `:20` | `IdleIsWritable` | none; MaxCrashes 1 |
| a delete's write and bump interleave with another operation's: the table names bytes that are not on disk | `tasks/service.rs:2036` | `IdleIsWritable` | delete, edit |
| a delete writes back rows it read before another operation's write | `tasks/service.rs:1980` | `WritesOnlyItsOwnRows` | delete; two tasks |
| a newer run's end is folded to running while an older one is in flight; a cancel then releases all claims while the older's exit thread waits: its report is stale and the row stays running | `tasks/service.rs:1941` | `UnattendedRowSettles` | Fair; cancel; MaxGen 2 |
| a cancel mark decides the exit of a run that nobody cancelled | `aeroric-host/src/executor.rs:836`, against `runtime/registry.rs:477` | `CancelMarkIsForItsRun` | cancel |
| a task that is resumed and ends again keeps the end time of its first run | `tasks/service.rs:2866`, against `tasks/reducer.rs:95` | `CompletedAtIsOfTheLastRun` | none; MaxGen 2 |
| a restarted host serves with the claims of dead runs open; nothing calls `reconcile` | `tasks/service.rs:2778` | `NoClaimWithoutARun` | none; MaxCrashes 1 |
| the host dies inside `reconcile` between its two writes, and the next one skips the rows | `tasks/service.rs:2789` | `NoClaimWithoutARun` | reconcile; MaxCrashes 2 |
| a message that is to wait for the turn's end is sent into a turn that began after idle was read | `sessions/live/delivery/mod.rs:300` | `OthersWaitForTheTurn` | internal, steer; two messages |
| a stop pauses a message that its sender then hands over all the same | `delivery/mod.rs:322`, against `:241` | `PausedIsNotHandedOver` | internal, stop |
| the first attempt fails late and is booked on the second, which arrived | `delivery/mod.rs:338` | `FailedDidNotArrive` | internal, resend, errors; MaxAsks 1 |
| a lost message is found in the record because another had the same text | `aeroric-host/src/session_live_services/delivery.rs:65` | `DeliveredArrived` | steer, fails; two messages; SameText TRUE |
| the turn of another message proves one whose run was refused | `delivery/mod.rs:436` | `DeliveredArrived` | later, rejects, quiet, stop; two messages |
| the write that records a send fails and the host dies: the message is sent again | `delivery/store.rs:66` | `OneCopyUnlessAsked` | internal; MaxFaults 1, MaxCrashes 1 |
| a pump that loses its item to a discard does not try the next one | `delivery/mod.rs:315` | `IdleQueueMoves` | Fair; internal, discard; two messages |
| the host dies between recording a loss and looking it up; the restart looks up losses without a reason only | `delivery/mod.rs:140` | `LostIsLookedFor` | Fair; internal; MaxCrashes 1 |
| a close leaves a message written to Claude and not echoed accepted for ever | `sessions/live/claude/driver.rs:881` | `AcceptedIsSettled` | Fair; claude; internal, close |
| the turn a handoff message starts is announced before the queue knows that no receipt will come | `delivery/mod.rs:332` | `AcceptedIsSettled` | Fair; steer, quiet |
| two pumps both find nothing in sending, and two messages are out at once | `delivery/mod.rs:301`, against `:291` | `OneSendingAtATime` | internal; two messages |
| omp's driver calls a dead process a refusal, and a message that arrived is retried | `sessions/live/omp/driver.rs:741` | `FailedDidNotArrive` | omp; internal, fails |

In the newer modules the properties name the exception (`dropped`, `missed`,
`mixed`, `crossed`, `raced`, `exposed`), so that they hold everywhere else; to
see one, take the exception out. The second column gives the property to check
where there is one of its own.

| What happens | Property | Where |
|---|---|---|
| two threads in `try_return`: the second's note in `pending_return` is removed by the first, which does not carry its card; the result waits for the next occasion | `ResultsGoBack` without `dropped` | `delegation/mod.rs:1021` |
| a Codex parent announces its turn's end before it clears it, so the return at the end finds it busy | `ResultsGoBack` with `ClearsFirst = FALSE` | `delegation/mod.rs:1017` |
| a verdict that comes before `turn_settled` has made the card wait for it is not seen; without a watch the card is checking for ever | `OpenEnds` without `MissedVerdict` | `delegation/mod.rs:867` |
| a report or a late settle of the run before is taken for the redone run's | `ResultIsThisRuns` with `began` always the turn | `delegation/mod.rs:905`, against `:704` |
| a stop is overwritten by a failed start, by the budget's end or by a report | | `delegation/mod.rs:600`, `:827`, `:905` |
| `redo` does not look for an open writer beside it, as `start` does | | `delegation/mod.rs:673` |
| a verdict for a later round's turn, one replaced in `checks_done`, and the verdict of a reviewer that ended before `start_reviewer` returned are missed; the loop stays reviewing | `ReviewIsUnderWay` without `missed` | `review/mod.rs:415`, `:317`, `:532` |
| the settle of the user's own turn is taken for the answer's diff; any turn of the writer's while its answer is awaited counts as the answer | `DiffIsTheTurns` | `review/mod.rs:291` |
| a prompt that fails late marks a loop failed that has moved on | | `review/mod.rs:532` |
| a phone's subscription goes on over bytes the stream dropped, although a gap must clear the view | `PhoneIsOnePiece` | `aeroric-host/src/remote_headless.rs:1228`, against `terminal/stream.rs:24` |
| a run is refused a stream because of runs that ended long ago: nothing calls `mark_finished` | `RefusedOnlyWhileManyWrite` | `terminal/pty.rs:26` |
| a cancelled poll loop draws its last answer into the terminal that is shown now | `ViewIsOnePiece` without `mixed` | `macos/AeroricApp/Sources/AppServices.swift:873` |
| a status between the list's read and the pump's first read is not shown until the next; nor is one that only the failed list of a reset would have brought | `ShownIsCurrent` | `LiveSessions.swift:410`, `AppServices.swift:442` |
| a cancelled pump writes the cursor of its successor | `PumpIsGapless` without `crossed` | `LiveSessions.swift:404` |
| two appends reach the observer in the other order | `ObserverInOrder` | `events/log.rs:102`, against `:101` |
| the lock file is replaced while a host takes the lease: two hosts pass the check | `OneBeliever` | `storage_lock.rs`, against `:88` |
| a put between another round's last look and its own put overwrites that edit; the comment expects the next round to repair it | `NoEditLost` without `exposed` | `notebook/sync/engine.rs:299` |
| an edit between the second look and the write is lost | the same | `engine.rs:353` |
| the folder cannot be listed before a put and the plan saw no note there: the put overwrites the note another device has just made, and that device downloads it over its own | the same | `notebook/sync/remote.rs:284`, against `:281` |
| a fork's path is not checked: a second fork of the note to the same path writes over the first one's copy | the same | `engine.rs:567`, `aeroric-host/src/notebook_services.rs:1047`, against `engine.rs:548` |
| a fork copies what the folder holds now and not what the user decided about; if the latter comes back before the put, by a third device's round, the put writes over the only copy | the same, with three devices and a round cut short | `engine.rs:558` |
| a note deleted between an update's second look and its write comes back | `NotResurrected` without `AsUpdate` | `engine.rs:353` |
| the daemon's round and one by hand overlap: a deleted note comes back, or the two swap the two sides for ever | `NotResurrected`, `Converges` without `OneAtATime` | `aeroric-host/src/notebook_services.rs:966` |
| a decision to fork a note that one side deleted fails in every round | `Converges` without `ForksNothing` | `engine.rs:472` |

Met while reading, outside what the models state: results sent back are marked
in memory first, so a restart may send one again; the audit snapshots of
`publish` may be written out of order; the history writer drops a chunk that
splits a character; control tickets restart after an eviction and guard no
input; a forwarder of a run that has printed nothing ends; a first receipt whose
write fails leaves the page unknown for good; the sync daemon drops the watcher
events of an edit made during its round and notices it with the fallback
interval only.

## Proofs

`PtyHost_proofs` holds for every finite or infinite set of tasks and keys, every
feature set and every bound, under `BoundAssumption` and `HostAssumption`
(the bounds are naturals, the features are among those named).

- `TypeCorrect`: `Spec => []TypeOK`.
- `NumbersStayOnRecord`: `Spec => []NumbersOnRecord`.
- `NumbersNeverReused`: `Spec => []RunNumbersNeverReused`.
- `HostImplementsNumbering`: `Spec => ImplementsNumbering`, with
  `issued <- durable.gens` and `spawned <- launches`.

`RunNumbersNeverReused` is not inductive: a state in which the next number to
spawn has been spawned already satisfies it. `NumbersOnRecord` adds what the
code relies on: the file is never ahead of the memory while the host runs; every
spawned number is at most the one on file, so a restart resumes above it; the
number of the launch under the lock is above every spawned one; and it is on
file before the spawn, which is where `commit` must not be best effort. The
proof splits the steps of the host into those that leave the numbers alone and
move the file towards the memory or not at all (`SteadyKeepsNumbers`, one lemma
per group of operations shows that its steps are of this kind), the claim
(`BeginKeepsNumbers`), the spawn (`LaunchKeepsNumbers`), the crash and the
restart. The same split gives the refinement: a steady step is `Issue` or a
stutter, a spawn is `Spawn`.

Four theorems are about a host whose operations all take the `mutations` lock.
Their hypotheses name the features under which the table above shows the
property to fail, and no others:

- `AlwaysLiveRunIsOnRecord` (no `delete`): `Spec => []LiveRunIsOnRecord`, with
  failing writes, failing launches, crashes and reconciliation.
- `AlwaysFinishedTaskHasNoOpenAttempt` (no `delete`, no `launch_failure`, no
  `reconcile`): `Spec => [](Calm => FinishedTaskHasNoOpenAttempt)`, where `Calm`
  says that no write has failed or the host has not died: a claim whose release
  was not written comes back with the next host. A reconciliation that is cut
  off between its two writes leaves an interrupted row with an open claim, which
  `complete` then finishes; the shipped host never reconciles.
- `AlwaysIdleIsWritable` (no `delete`):
  `Spec => [](crashes = 0 => IdleIsWritable)`; the property itself speaks of a host
  none of whose writes has failed.
- `AlwaysWritesOnlyItsOwnRows` (no `delete`, no `launch_failure`): the action
  property `WritesOnlyItsOwnRows`, with failing writes, crashes and reconciliation.
  It has two halves: apart from its `gen` a row changes only in the write of an
  operation about it, and a `gen` that changes becomes the ledger's number.

All start from `Alone`, that the second thread has nothing to do, and from the
share a step has in the service (`ServiceShare`, `SerialStep`). What they need
beyond it: for the rows, that the list an operation is about to write still
agrees with the disk outside its own rows, apart from the stamps, and that after
`CheckCover` the stamps in it are the ledger's (`OwnRows`); for the table, that
between a write and its bump the disk holds what the operation wrote
(`CoverInv`); for finished tasks, that every open claim's row shows a run, on
disk, in the list about to be written, and for the claims on disk (`OpenInv`,
where the folding of an end to `running` is needed); for live runs, that a claim
in the gate's hand is open and has never been spawned, that attempt keys are
unique, so that settling one releases no other, and that a number has one of a
run, an exit thread and a report, so that a report never releases the claim of a
registered run (`RecordInv`).

`Submissions_proofs` holds for every set of hosts and identities and every bound,
under `SubmissionAssumption` (the bounds are naturals).

- `AlwaysOneWriter`: `Spec => []OneWriter`.
- `AlwaysRunsOnce`, `ReceiptsAreTrue`, `AlwaysOneTaskPerPage`: the invariants
  `RunsOnce`, `ReceiptIsTrue`, `OneTaskPerPage`.
- `ReceiptsAlwaysStay`: the action property `ReceiptsStay`.

None of them is inductive. The invariant `IInv` has these parts:

- `LeaseInv`: a file is locked by one host, and unless the path was cleared while
  a host took the lease it led to the locked file all that time, so the file the
  host notes is the one it locked. That is all `OneWriter` needs.
- `OneFile`: while nobody removes the lock file, every host that is not down has
  locked the one file there is; so one host at most is up (`OnlyOneHost`), and the
  receipts do not change between a host's load and its write.
- `JobInv`: a job belongs to a host that is up and has one identity.
- `ReceiptInv`: the three claims about receipts and runs, and for a job between
  its steps, that what it loaded is still on disk and its identity is pending
  there before execute and until the result is written.

`PageInv`, proved on top of it (`AlwaysPageInv`), calls an identity dead when it
never ran and was refused or has nothing under way, and says that all of the
page's identities are dead but the one it has, that one too while the page can be
sent, and that an answer that says refused is true of the disk. A dead identity
stays dead because a refusal is final (`Moved`) and a step of a host runs and
answers what it has in hand only (`OwnBusiness`). The steps are split into those
of the lease, of a job and of the page (`NextSplit`), with one lemma per part and
group.

`Delivery_proofs` holds for every set of messages, every finite set of callers,
every agent, feature set and bound, under `DeliveryAssumption`.

- `AlwaysTypeOK`: `Spec => []TypeOK`.
- `AlwaysOneCopyUnlessAsked`: `Spec => [](Sound => OneCopyUnlessAsked)`.
- `AlwaysFailedDidNotArrive`: `Spec => [](Sound => FailedDidNotArrive)`.

`Sound` excludes the two limits of the table above that break these claims: a
row that was not written before the host died (`delivery/store.rs:66`), and
omp's driver calling a dead process a refusal (`omp/driver.rs:741`). It is a
state predicate, so a run with failing writes is covered until its host dies,
and one with deaths as long as every write succeeds.

Neither claim is inductive: what arrives in a step left the queue long before.
The invariant counts, for each message, the copies that arrived and the
attempts that may still arrive: a pump that is about to hand it over, a sender
that calls or has a refusal to book, and what the driver has not read. Their sum
is at most the number of times the user asked for it again, plus one when the
message's state says that it went out (`Counted`). Booking a refusal gives one
attempt back and puts the message where it may go out again; a loss gives none
back, which is why a lost message must not be sent by the queue itself. Two
parts make the count possible: two messages have different places in the queue,
so a pump takes one (`PlacesDiffer`, `TakesOne`), and a thread, a sender and a
command each carry one message. What the disk holds after a death is the memory
or, when a write failed, excluded by `Sound`.

- `AlwaysDeliveredArrived`: `ASSUME ~SameText PROVE Spec => [](Plainly =>
  DeliveredArrived)`, with failed writes, deaths, stops and resends and for all
  three agents.

Its two hypotheses are two limits of the table: without `SameText` no two
messages hold the same text, and `Plainly` says that no run starts with a
handoff, whose prompt gets no receipt and is proved by whatever turn begins.
The invariant `ArrivedInv` follows the evidence: nobody enters a message in
`no_receipt` (`HasReceipts`), what the driver holds as read has arrived
(`ReadIsThere`), and what is delivered in memory or on disk has arrived
(`StoreTrue`), the disk because a row that failed to be written is an older one.

`Delegation_proofs` holds for every set of delegations and every bound.

- `AlwaysToldOnce`, `AlwaysSentIsClosed`, `AlwaysResultIsThisRuns`: the
  invariants `ToldOnce`, `SentIsClosed`, `ResultIsThisRuns`.
- `PermissionDecays`, for every contract, role and mode of the parent: what
  `resolve` does not refuse has a known permission not above the parent's, and
  `plan` in a read-only workspace. It rests on `LesserIsLess`, the clamping of
  what a role wants.

`CardInv` says that `told` is the number the mark on the card says: a thread in
`try_return` looks a second time under the lock, and a redone run loses the mark.
`TextInv` follows a text through its stations, the turn being run, the text
collected and the report: each is from after the run began, because `redo`
clears what was collected before.

`Review_proofs` holds for every bound on turns, rounds and reviewers:
`AlwaysReviewIsUnderWay` and `AlwaysAnswerIsUnderWay`. The first needs `KnownInv`: a
reviewer the loop names, or a prompt is on its way to, is registered, and one whose
start has not returned has its first turn before it or in it, unless its verdict was
missed; so a loop that gets its reviewer late gets one that is at work. `AnswerInv` is what the second needs: the two
halves of an answer (the turn's end and its diff) are put together as soon as
both are there, the first is there when the turn is over, and while the second
is missing the settling thread that brings it exists.

`EventFeed_proofs` holds for every ring, every number of tasks, statuses,
connections and restarts: `AlwaysTypeOK`, `AlwaysPumpIsGapless`, and the action
property `ResetIsRepaired` (`AlwaysResetIsRepaired`). `RingInv` says that the
ring holds the numbers after the evicted ones without a hole and that a row is
never older than its event (it is written first); `PumpInv` that an answer in
the pump's hand goes on from its cursor; `ListInv` that a list read for a reset
is no older than an event the reset passed over.

`Terminal_proofs` holds for every number of runs and every size of output, read,
window and chunk: `AlwaysTypeOK`, `AlwaysViewIsOnePiece`,
`AlwaysPhoneMissesOnlyDropped`. `StreamInv` says that a stream holds one piece
that ends where the reader's buffer begins, `AnswerInv` that a seamless answer
follows on from the cursor the loop has when it draws it, `SentInv` that what a
forwarder counts as behind it was sent or had been dropped.

`NotebookSync_proofs` holds for every set of devices, any number of rounds at
once, rounds cut short at any step and looks that fail: `AlwaysNoEditLost`. It
exempts what is `exposed` (see Notes above), and no content because a fork was
chosen. A content is safe when
it is saved elsewhere, given up by the user or exposed; that is stable.
`StoreInv` says that what a device believes to be synchronised is here and there
or safe; `ChoiceInv`, `PlanInv` and `CarryInv` that whatever a round is about to
write over is safe or will be when it finds the note as its plan takes it to be.
`DecisionInv` says of a round that carries out a decision by writing to the cloud
folder that the user decided against the content there (`keepLocal`) or it is safe,
which is what a fork's copy makes it.
A step of another round may change the note under a round in its middle; `Kept`
says that every step leaves what was there safe, `Window` that what comes between
a last look and a write is exposed, and from the two the invariant of every
round that did not move follows.

The second result is the action property `NotResurrected`
(`AlwaysNotResurrected`), of a device whose rounds come one at a time; it takes
from `SyncAssumption` that the rounds are finitely many. `DeletionInv` says what a
device knows of a deletion: it has a baseline or a tombstone of the note, never
both (`RowInv`), and as long as no tombstone expired it has one of them once a
synchronised content was deleted (`HeardInv`); so a round that finds no note here
and would download it without a decision was planned on a device that had nothing
to forget. The proof had to exclude two ways a note comes back that an earlier
form of the property did not name and that a larger instance then showed: the
user's decision for the cloud's copy, and a deletion under the write of an update
(`ByDecision`, `AsUpdate`; the second is in the table).

Only model-checked: all liveness (`FairSpec => ...`, out of the prover's reach)
and `DeliveredArrived` where a run starts with a handoff, which holds only for some
combinations of agent and features and needs the lineage of `no_receipt`.

## Not modelled

The repository has over two hundred thousand lines; most are user interface,
protocol translation (local router), settings, metrics, and calls to git, SQLite,
parsers and the file system, where an operation is one read or one write and
nothing else meets it. `PROJECT.json` lists every component with its reason.
Control that is there and left out so far: the relay's matching of connections
and the push bindings, the push plane and the remote event log, the control
lease of a terminal, the structured executor of `sessions/live/executor.rs`,
reverts of a turn against a running one, the restart of delegation and review.

## Plan

Done: the ledger, the service and the PTY host with their theorems, the delivery
queue with its three drivers, turns and checks, delegation, review, the event
feed, the terminal, submissions with the lease, notebook synchronisation.

Next modules: the relay's registry with its timeouts; `LiveHost`, the structured
executor over `TaskService`, as `PtyHost` is for terminals; the control lease
with input; delegation across a restart.

Next theorems: an abstract specification of a message's life (asked, arrived,
reported) that `Delivery` implements, and one of a submission (asked, done at most
once); `DeliveredArrived` with a handoff, for the agents and features where it holds.

## Running

    tlc -workers 2 -config MCPtyHost_numbers.cfg MCPtyHost
    for m in *_proofs.tla; do tlapm $m; done
