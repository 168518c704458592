---------------------------- MODULE Submissions -----------------------------
(***************************************************************************)
(* A new session, from the composer's draft to the task: the draft         *)
(* (NewSessionDrafts.swift), the receipts a host keeps of what was         *)
(* submitted (tasks/submissions.rs), and the lease on the data directory   *)
(* that lets one host write them (storage_lock.rs).                        *)
(*                                                                         *)
(* A host takes the lease in three steps (open and lock the file, write    *)
(* the hint, note which file it is) and then asks before each write        *)
(* whether the path still leads to that file.  A submission is one closure *)
(* under the host's gate: load, write "pending", create and start the      *)
(* task, write the result.  Hosts die anywhere, writes fail, requests are  *)
(* repeated, answers get lost.  An identity stands for the submission id   *)
(* with its fingerprint; a file is its inode.                              *)
(***************************************************************************)
EXTENDS Naturals, FiniteSets

CONSTANTS Hosts,         \* host processes
          Ids,           \* submission identities
          Setups         \* the instances (bounds): hosts, deaths of hosts, failed
                         \* writes, repeated requests, removals of the lock file,
                         \* times the application is quit

ASSUME SubmissionAssumption ==
    Setups \subseteq [hosts : SUBSET Hosts, ids : SUBSET Ids, deaths : Nat, faults : Nat,
                      repeats : Nat, removals : Nat, quits : Nat]

VARIABLES setup,
          lockFile,      \* the file at the lock's path, 0 for none
          files,         \* how many files there have been at the path
          host,          \* each host's lease: stage, the file it locked and the
                         \* file it takes for that one
          raced,         \* the path changed while a host took the lease
          receipts,      \* task-submissions.json
          job,           \* the submission in each host's hands
          runs,          \* how often execute ran for an identity
          begun,         \* the identities whose execute returned Ok
          draft,         \* the composer's page
          used,          \* the identities the page has had
          wire,          \* requests under way
          answers,       \* answers under way
          spent          \* deaths, faults, repeats, removals, quits so far

leaseVars == <<lockFile, files, host, raced>>
draftVars == <<draft, used>>
vars == <<setup, leaseVars, receipts, job, runs, begun, draftVars, wire, answers, spent>>

Costs == {"deaths", "faults", "repeats", "removals", "quits"}
Spend(c) == spent[c] < setup[c] /\ spent' = [spent EXCEPT ![c] = @ + 1]

States == {"none", "pending", "accepted", "unknown", "rejected"}
NoJob == [stage |-> "none", id |-> {}, valid |-> TRUE, seen |-> [i \in Ids |-> "none"]]
Down == [stage |-> "down", locked |-> 0, identity |-> 0]

Init ==
    /\ setup \in Setups
    /\ lockFile = 0 /\ files = 0 /\ raced = FALSE
    /\ host = [h \in Hosts |-> Down] /\ job = [h \in Hosts |-> NoJob]
    /\ receipts = [i \in Ids |-> "none"]
    /\ runs = [i \in Ids |-> 0] /\ begun = {}
    /\ \E i \in setup.ids : draft = [state |-> "editing", id |-> i] /\ used = {i}
    /\ wire = {} /\ answers = {}
    /\ spent = [c \in Costs |-> 0]

-----------------------------------------------------------------------------
(* The lease *)

Acquiring == {h \in Hosts : host[h].stage \in {"locked", "hinted"}}

(* open with create, then try_lock: a file another host has locked is      *)
(* refused, and the host does not come up.  One step: what comes between   *)
(* the two leaves the host with the file it opened, as if it came after.   *)
Lock(h) ==
    LET f == IF lockFile = 0 THEN files + 1 ELSE lockFile
    IN  /\ host[h].stage = "down"
        /\ \A g \in Hosts : host[g].locked # f
        /\ lockFile' = f /\ files' = IF lockFile = 0 THEN f ELSE files
        /\ host' = [host EXCEPT ![h] = [stage |-> "locked", locked |-> f, identity |-> 0]]
        /\ UNCHANGED <<setup, raced, receipts, job, runs, begun, draftVars, wire, answers, spent>>

(* write_holder writes to the path, and makes a file if there is none.     *)
WriteHint(h) ==
    /\ host[h].stage = "locked"
    /\ lockFile' = IF lockFile = 0 THEN files + 1 ELSE lockFile
    /\ files' = IF lockFile = 0 THEN files + 1 ELSE files
    /\ host' = [host EXCEPT ![h].stage = "hinted"]
    /\ UNCHANGED <<setup, raced, receipts, job, runs, begun, draftVars, wire, answers, spent>>

NoteIdentity(h) ==
    /\ host[h].stage = "hinted"
    /\ host' = [host EXCEPT ![h].stage = "up", ![h].identity = lockFile]
    /\ UNCHANGED <<setup, lockFile, files, raced, receipts, job, runs, begun, draftVars,
                   wire, answers, spent>>

(* Something else removes the lock file. *)
LockFileRemoved ==
    /\ lockFile # 0 /\ Spend("removals")
    /\ lockFile' = 0 /\ raced' = (raced \/ Acquiring # {})
    /\ UNCHANGED <<setup, files, host, receipts, job, runs, begun, draftVars, wire, answers>>

(* The process ends: the system closes its files and with them the lock.   *)
HostDies(h) ==
    /\ host[h].stage # "down" /\ Spend("deaths")
    /\ host' = [host EXCEPT ![h] = Down] /\ job' = [job EXCEPT ![h] = NoJob]
    /\ UNCHANGED <<setup, lockFile, files, raced, receipts, runs, begun, draftVars, wire, answers>>

\* Existence is taken for proof.
StillHeld_Exists(h) == host[h].stage = "up" /\ lockFile # 0

(* require_writer: verify_still_held of the host's own lease.  A host that *)
(* found no file when it noted the identity only asks whether there is one.*)
StillHeld(h) == host[h].stage = "up" /\ lockFile # 0 /\ host[h].identity \in {0, lockFile}

-----------------------------------------------------------------------------
(* The host's side of a submission *)

Goes(h, stage) == job' = [job EXCEPT ![h].stage = stage]
Answer(h, kind) ==
    /\ job' = [job EXCEPT ![h] = NoJob]
    /\ answers' = answers \cup {[id |-> i, kind |-> kind] : i \in job[h].id}

(* TaskService::submit takes the settings and submissions locks; whether   *)
(* the catalog refuses the request is the request's and the settings'.     *)
Accept(h, i) ==
    /\ i \in wire /\ job[h] = NoJob /\ host[h].stage = "up"
    /\ wire' = wire \ {i}
    /\ \E valid \in BOOLEAN :
          job' = [job EXCEPT ![h] = [NoJob EXCEPT !.stage = "gate", !.id = {i}, !.valid = valid]]
    /\ UNCHANGED <<setup, leaseVars, receipts, runs, begun, draftVars, answers, spent>>

\* A host that submits again what it finds pending.
Known_NotPending(state) == state \notin {"none", "pending"}

(* Whether load found a receipt: it is the answer, whatever it says. *)
Known(state) == state # "none"

(* require_writer, load, and the answer for an identity that is known. *)
Load(h) ==
    \E i \in job[h].id :
        /\ job[h].stage = "gate"
        /\ IF ~StillHeld(h) THEN Answer(h, "error")
           ELSE IF Known(receipts[i]) THEN Answer(h, receipts[i])
           ELSE /\ job' = [job EXCEPT ![h].stage = "pending", ![h].seen = receipts]
                /\ UNCHANGED answers
        /\ UNCHANGED <<setup, leaseVars, receipts, runs, begun, draftVars, wire, spent>>

(* persist: require_writer, then the file is replaced by what was loaded   *)
(* with this receipt in it; `then' follows.                                *)
Persist(h, state, after) ==
    /\ job[h].stage = after.from
    /\ \/ /\ StillHeld(h)
          /\ receipts' = [i \in Ids |-> IF i \in job[h].id THEN state ELSE job[h].seen[i]]
          /\ IF after.to = "none" THEN Answer(h, state) ELSE Goes(h, after.to) /\ UNCHANGED answers
          /\ UNCHANGED spent
       \/ /\ ~StillHeld(h) /\ Answer(h, "error") /\ UNCHANGED <<receipts, spent>>
       \/ /\ Spend("faults") /\ Answer(h, "error") /\ UNCHANGED receipts
    /\ UNCHANGED <<setup, leaseVars, runs, begun, draftVars, wire>>

PersistFirst(h) ==
    IF job[h].valid THEN Persist(h, "pending", [from |-> "pending", to |-> "execute"])
                    ELSE Persist(h, "rejected", [from |-> "pending", to |-> "none"])

(* execute creates the row and starts the run; either may fail, and what   *)
(* had been done by then stays.                                            *)
Execute(h) ==
    \E i \in job[h].id :
        /\ job[h].stage = "execute"
        /\ runs' = [runs EXCEPT ![i] = @ + 1]
        /\ \/ begun' = begun \cup {i} /\ Goes(h, "accepted")
           \/ UNCHANGED begun /\ Goes(h, "unknown")
        /\ UNCHANGED <<setup, leaseVars, receipts, draftVars, wire, answers, spent>>

PersistLast(h) ==
    /\ job[h].stage \in {"accepted", "unknown"}
    /\ Persist(h, job[h].stage, [from |-> job[h].stage, to |-> "none"])

-----------------------------------------------------------------------------
(* The composer *)

Fresh == setup.ids \ used
Becomes(state) == draft' = [draft EXCEPT !.state = state] /\ UNCHANGED used
Renews(i) == draft' = [state |-> "editing", id |-> i] /\ used' = used \cup {i}

(* submit: the page cannot be edited or sent again until the answer.  With *)
(* no connection nothing is sent, which the page takes for a failure.      *)
Send ==
    /\ draft.state \in {"editing", "failed"}
    /\ \/ Becomes("sending") /\ wire' = wire \cup {draft.id}
       \/ Becomes("failed") /\ UNCHANGED wire
    /\ UNCHANGED <<setup, leaseVars, receipts, job, runs, begun, answers, spent>>

(* The same request once more: a client that retries, a connection that    *)
(* sends what it had.                                                      *)
Repeat ==
    /\ draft.state \in {"sending", "unknown"} /\ Spend("repeats")
    /\ wire' = wire \cup {draft.id}
    /\ UNCHANGED <<setup, leaseVars, receipts, job, runs, begun, draftVars, answers>>

\* Any answer but "accepted" lets the user send again.
AfterAnswer_ErrorFails(kind) == IF kind = "accepted" THEN "done" ELSE "failed"

(* What the page becomes: only a receipt that says refused before any side *)
(* effect makes it editable again.                                         *)
AfterAnswer(kind) ==
    CASE kind = "accepted" -> "done"
      [] kind = "rejected" -> "failed"
      [] OTHER -> "unknown"

Answered(a) ==
    /\ answers' = answers \ {a}
    /\ IF draft.state = "sending" /\ a.id = draft.id THEN Becomes(AfterAnswer(a.kind))
       ELSE UNCHANGED draftVars
    /\ UNCHANGED <<setup, leaseVars, receipts, job, runs, begun, wire, spent>>

(* The connection is lost: the request fails, answered or not. *)
AnswerLost ==
    /\ draft.state = "sending" /\ Becomes("unknown")
    /\ UNCHANGED <<setup, leaseVars, receipts, job, runs, begun, wire, answers, spent>>

(* checkSubmission: task.submission.get reads the receipts, with the gate. *)
Check(h) ==
    /\ draft.state = "unknown" /\ host[h].stage = "up" /\ job[h] = NoJob
    /\ Becomes(AfterAnswer(receipts[draft.id]))
    /\ UNCHANGED <<setup, leaseVars, receipts, job, runs, begun, wire, answers, spent>>

(* An edit of a page that failed gives it a new identity. *)
Edit(i) ==
    /\ draft.state = "failed" /\ i \in Fresh /\ Renews(i)
    /\ UNCHANGED <<setup, leaseVars, receipts, job, runs, begun, wire, answers, spent>>

(* NewSessionDraftBook::memos leaves out a page whose outcome is open. *)
Kept == draft.state \in {"editing", "failed"}

(* The application is quit and opened: a page that was kept comes back     *)
(* with a new identity.                                                    *)
Quit(i) ==
    /\ Spend("quits")
    /\ IF Kept THEN i \in Fresh /\ Renews(i) ELSE Becomes("done")
    /\ UNCHANGED <<setup, leaseVars, receipts, job, runs, begun, wire, answers>>

-----------------------------------------------------------------------------
Next ==
    \/ \E h \in setup.hosts :
          \/ Lock(h) \/ WriteHint(h) \/ NoteIdentity(h) \/ HostDies(h)
          \/ Load(h) \/ PersistFirst(h) \/ Execute(h) \/ PersistLast(h)
          \/ Check(h)
          \/ \E i \in setup.ids : Accept(h, i)
    \/ LockFileRemoved \/ Send \/ Repeat \/ AnswerLost
    \/ \E a \in answers : Answered(a)
    \/ \E i \in setup.ids : Edit(i) \/ Quit(i)

Spec == Init /\ [][Next]_vars

-----------------------------------------------------------------------------
Leases == [stage : {"down", "locked", "hinted", "up"}, locked : Nat, identity : Nat]
Jobs == [stage : {"none", "gate", "pending", "execute", "accepted", "unknown"},
         id : SUBSET Ids, valid : BOOLEAN, seen : [Ids -> States]]

TypeOK ==
    /\ setup \in Setups /\ spent \in [Costs -> Nat]
    /\ lockFile \in Nat /\ files \in Nat /\ raced \in BOOLEAN
    /\ host \in [Hosts -> Leases] /\ job \in [Hosts -> Jobs]
    /\ receipts \in [Ids -> States] /\ runs \in [Ids -> Nat]
    /\ begun \subseteq Ids /\ used \subseteq Ids
    /\ draft \in [state : {"editing", "sending", "failed", "unknown", "done"}, id : Ids]
    /\ wire \subseteq Ids /\ answers \subseteq [id : Ids, kind : States \cup {"error"}]

(* While a host's lease passes its own check no other host's does, also    *)
(* after something removed the lock file, unless it did so while a host    *)
(* was taking the lease (see the README).                                  *)
OneWriter ==
    ~raced => \A g, h \in Hosts : StillHeld(g) /\ StillHeld(h) => g = h

(* A submission is executed once, however often it is sent and wherever    *)
(* its host dies: the pending receipt is on disk before execute and is     *)
(* never taken as leave to run again.  The lock file is left in place.     *)
RunsOnce == spent["removals"] = 0 => \A i \in Ids : runs[i] <= 1

(* What the user wrote becomes one task at most, over all the identities   *)
(* the page has had: a page that can be sent again was never executed.     *)
OneTaskPerPage ==
    spent["removals"] = 0 =>
        /\ \A i, j \in Ids : runs[i] > 0 /\ runs[j] > 0 => i = j
        /\ draft.state \in {"editing", "failed"} => \A i \in used : runs[i] = 0

(* A receipt tells the truth for good: accepted ran to the end, rejected   *)
(* never ran, none never ran.                                              *)
ReceiptIsTrue ==
    spent["removals"] = 0 =>
        \A i \in Ids : /\ receipts[i] = "accepted" => i \in begun
                       /\ receipts[i] \in {"none", "rejected"} => runs[i] = 0

(* A receipt is never lost, and what it settled never changes.             *)
ReceiptsStay ==
    [][spent'["removals"] = 0 =>
         \A i \in Ids : receipts[i] # "none" /\ receipts'[i] # receipts[i] =>
             receipts[i] = "pending" /\ receipts'[i] \in {"accepted", "unknown"}]_vars

(* storage_lock.rs: the note of the file's inode is there so that two      *)
(* processes do not "both believe they are alone".                         *)
OneBeliever == \A g, h \in Hosts : StillHeld(g) /\ StillHeld(h) => g = h
=============================================================================
