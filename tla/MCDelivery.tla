------------------------------- MODULE MCDelivery -------------------------------
(***************************************************************************)
(* The instances of Delivery.  One message of Claude's through every       *)
(* request and a restart, and two of Codex's with what proves or disproves *)
(* them; for liveness two messages of Codex's across a restart, and one of *)
(* omp's whose answer may get lost.                                        *)
(***************************************************************************)
EXTENDS Delivery, TLC

Restarted == [agent |-> "claude", messages |-> 1, asks |-> 1, faults |-> 0, crashes |-> 1,
              features |-> {"internal", "steer", "stop", "resume", "resend", "discard",
                            "fails", "rejects", "errors", "quiet"}]
Evidence == [agent |-> "codex", messages |-> 2, asks |-> 0, faults |-> 1, crashes |-> 1,
             features |-> {"later", "errors", "rejects", "fails", "quiet"}]
TwoMove == [agent |-> "codex", messages |-> 2, asks |-> 0, faults |-> 0, crashes |-> 1,
            features |-> {"internal", "fails"}]
OneLost == [agent |-> "omp", messages |-> 1, asks |-> 0, faults |-> 0, crashes |-> 0,
            features |-> {"internal", "steer", "fails", "errors", "blocks", "unreadable",
                          "stop", "rejects", "close"}]

SafeSetups == {Restarted, Evidence}
LiveSetups == {TwoMove, OneLost}

(* The messages are alike until they are queued, and so are the callers.   *)
Symmetry == Permutations(Items) \cup Permutations(Callers)
===============================================================================
