---------------------------- MODULE MCDelegation ----------------------------
(***************************************************************************)
(* The instances of Delegation: one delegation of the user's with the      *)
(* turns and checks of its child, redone once; one of the agent's whose    *)
(* result goes back; one whose child is remote, so that nothing settles    *)
(* its turns; one that is put back to work while two threads return its    *)
(* result; and two whose results are returned by overlapping threads while *)
(* the parent takes turns.                                                 *)
(***************************************************************************)
EXTENDS Delegation
CONSTANTS d1, d2

OneChild == [ids |-> {d1}, asked |-> {d1}, turns |-> TRUE, parentTurns |-> FALSE,
             reworks |-> 0, returns |-> 1]
OneRedone == [OneChild EXCEPT !.asked = {}, !.reworks = 1]
OneTakenBack == [OneChild EXCEPT !.turns = FALSE, !.reworks = 1, !.returns = 2]
OneUntracked == [OneChild EXCEPT !.ids = {d2}, !.asked = {d2}]
TwoCards == [OneChild EXCEPT !.ids = {d1, d2}, !.asked = {d1, d2}, !.turns = FALSE,
                             !.parentTurns = TRUE, !.returns = 2]

(* d1 writes the directory it shares, d2 reads.                            *)
Contract1 == [instruction |-> TRUE, role |-> "none", permission |-> "auto_edit",
              workspace |-> "shared"]
Contract2 == [instruction |-> TRUE, role |-> "known", permission |-> "unset",
              workspace |-> "unset"]
MCContractOf == [d \in {d1, d2} |-> IF d = d1 THEN Contract1 ELSE Contract2]
MCRoleOf == [d \in {d1, d2} |-> NoRole]

SetupsMC == {OneChild, OneUntracked, OneRedone, OneTakenBack, TwoCards}
=============================================================================
