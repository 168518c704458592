----------------------------- MODULE DeliveryItem -----------------------------
(***************************************************************************)
(* One message of the delivery queue and the state machine `step` of       *)
(* core/crates/aeroric-core/src/sessions/live/delivery/state.rs.  A record *)
(* keeps what the queue reads:                                             *)
(*   state   - DeliveryState, or "absent" before it is queued,             *)
(*   class   - kind and mode: "internal" (ours, after the turn), "later"   *)
(*             (the user's, after the turn), "steer" (the user's, now),    *)
(*   tries   - attempts,                                                   *)
(*   reason  - why it is where it is; only "none" is ever asked for,       *)
(*   blocked - only the user can fix why it failed,                        *)
(*   at      - its place in the queue (created_ms, strictly increasing).   *)
(***************************************************************************)
EXTENDS Naturals

Classes == {"internal", "later", "steer"}

States == {"waiting", "sending", "accepted", "delivered", "failed", "unknown",
           "paused", "withdrawn"}

Reasons == {"none", "error", "lost", "missing", "unreadable", "restarted"}

Delivery == [state : States \cup {"absent"}, class : Classes, tries : Nat,
             reason : Reasons, blocked : BOOLEAN, at : Nat]

AbsentDelivery == [state |-> "absent", class |-> "internal", tries |-> 0,
                   reason |-> "none", blocked |-> FALSE, at |-> 0]

(* The transitions of step: where an event applies, where it leads, and the *)
(* reason it leaves ("same": the one that was there).  "failed" and        *)
(* "blocked" are SendFailed, "lost" is Lost(Some), "cut_off" Lost(None).   *)
Rule(from, to, why) == [from |-> from, to |-> to, why |-> why]

Rules ==
    [send         |-> Rule({"waiting"}, "sending", "none"),
     accepted     |-> Rule({"sending", "paused"}, "accepted", "same"),
     delivered    |-> Rule({"sending", "accepted", "paused", "unknown"}, "delivered", "none"),
     rejected     |-> Rule({"sending", "accepted"}, "failed", "error"),
     turn_started |-> Rule({"accepted"}, "delivered", "same"),
     failed       |-> Rule({"sending"}, "failed", "error"),
     blocked      |-> Rule({"sending"}, "failed", "error"),
     lost         |-> Rule({"sending", "accepted"}, "unknown", "lost"),
     cut_off      |-> Rule({"sending", "accepted"}, "unknown", "none"),
     recorded     |-> Rule({"unknown"}, "delivered", "none"),
     unrecorded   |-> Rule({"unknown"}, "unknown", "missing"),
     unreadable   |-> Rule({"unknown"}, "unknown", "unreadable"),
     stop         |-> Rule({"waiting", "sending"}, "paused", "same"),
     restarted    |-> Rule({"waiting"}, "paused", "restarted"),
     resume       |-> Rule({"paused"}, "waiting", "none"),
     discard      |-> Rule({"waiting", "paused", "failed", "unknown"}, "withdrawn", "same"),
     resend       |-> Rule({"failed", "unknown"}, "waiting", "none"),
     retry        |-> Rule({"failed"}, "waiting", "none")]

Applies(d, e) == d.state \in Rules[e].from /\ (e = "retry" => ~d.blocked)

(* Faulty variant: the reason is overwritten where the event has none to give. *)
Step_AlwaysGivesReason(d, e) ==
    IF ~Applies(d, e) THEN d
    ELSE [d EXCEPT !.state   = Rules[e].to,
                   !.tries   = IF e = "send" THEN @ + 1 ELSE @,
                   !.reason  = Rules[e].why,
                   !.blocked = IF e \in {"failed", "blocked", "resend"} THEN e = "blocked"
                               ELSE @]

(* step: the item after event e, unchanged when e does not apply. *)
Step(d, e) ==
    IF ~Applies(d, e) THEN d
    ELSE [d EXCEPT !.state   = Rules[e].to,
                   !.tries   = IF e = "send" THEN @ + 1 ELSE @,
                   !.reason  = IF Rules[e].why = "same" THEN @ ELSE Rules[e].why,
                   !.blocked = IF e \in {"failed", "blocked", "resend"} THEN e = "blocked"
                               ELSE @]
===============================================================================
