------------------------------ MODULE TaskReducer ------------------------------
(***************************************************************************)
(* The part of core/crates/aeroric-core/src/tasks/reducer.rs that decides  *)
(* what a task row becomes.  A row keeps the fields the rules read:        *)
(*   status  - TaskStatus, or "absent" when the list has no such row,      *)
(*   reason  - whether failureReason holds a non-blank text,               *)
(*   starred - starred,                                                    *)
(*   ended   - completedAt: 0 when the field is missing, otherwise one     *)
(*             more than the run number that was current when it was       *)
(*             stamped (the order of two stamps is all the rules see),     *)
(*   gen     - generation, the copy of the ledger's run number.            *)
(* attentionRequestedAt is a time of now in every input_required report,   *)
(* so it is kept only as the fact that such a report repeats (AsksAgain).  *)
(***************************************************************************)
EXTENDS Naturals

Terminal == {"done", "failed", "cancelled"}

(* TaskStatus::is_live. *)
LiveStatus == {"pending", "running", "input_required", "detached"}

(* isLiveTerminalTaskStatus: is_live without detached. *)
ActiveStatus == {"pending", "running", "input_required"}

Statuses == Terminal \cup LiveStatus \cup {"todo", "interrupted"}

Row == [status : Statuses \cup {"absent"}, reason : BOOLEAN,
        starred : BOOLEAN, ended : Nat, gen : Nat]

AbsentRow == [status |-> "absent", reason |-> FALSE, starred |-> FALSE, ended |-> 0, gen |-> 0]

Present(row) == row.status # "absent"

(* build_new_records: an immediate task is pending, a planned one is todo. *)
NewRow(immediate) ==
    [AbsentRow EXCEPT !.status = IF immediate THEN "pending" ELSE "todo"]

(* should_ignore_transition *)
ShouldIgnoreTransition(current, next) ==
    current = "detached" /\ next \in {"running", "input_required"}

(* apply_status_transition on one row; now is the stamp a first completedAt gets. *)
ApplyStatus(row, status, reason, now) ==
    LET ended == IF status \notin Terminal THEN 0
                 ELSE IF row.ended = 0 THEN now ELSE row.ended
        untouched == row.status = status /\ row.ended = ended
    IN  IF ~Present(row) \/ ShouldIgnoreTransition(row.status, status) \/ untouched
        THEN row
        ELSE [row EXCEPT !.status = status,
                         !.reason = @ \/ (status = "failed" /\ reason),
                         !.ended  = ended]

(* A report that leaves the row as it is but for a new                     *)
(* attentionRequestedAt: it counts as a change all the same.               *)
AsksAgain(row, status) == row.status = "input_required" /\ status = "input_required"

(* prepare_for_launch (service.rs): what start and resume write first. *)
PrepareForLaunch(row, kind) ==
    [row EXCEPT !.status = "pending", !.reason = @ /\ kind # "resume"]

(* toggle_star *)
ToggleStar(row) == [row EXCEPT !.starred = ~@]

(* operations::reconcile on a row with an open claim: which rows it marks. *)
NeedsMark(row) ==
    Present(row) /\ row.status \notin {"detached", "interrupted", "done", "failed"}
===============================================================================
