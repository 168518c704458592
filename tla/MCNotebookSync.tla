--------------------------- MODULE MCNotebookSync ---------------------------
(***************************************************************************)
(* The instances of NotebookSync: two devices that begin in step, with     *)
(* edits and a decision, or with a deletion; two rounds of one device at   *)
(* once; a tombstone that expires; two devices that each begin a note, one *)
(* of which cannot list the cloud folder, or that fork it twice.           *)
(***************************************************************************)
EXTENDS NotebookSync

CONSTANTS a, b

RoundsMC == {<<a, 1>>, <<a, 2>>, <<b, 1>>}
Two == [rounds |-> {<<a, 1>>, <<b, 1>>}, edits |-> 3, deletes |-> 1, decisions |-> 1,
        cuts |-> 0, expiries |-> 0, blinds |-> 0, start |-> 1, kinds |-> Kinds]
Deleted == [Two EXCEPT !.edits = 2, !.decisions = 2, !.cuts = 1, !.expiries = 1]
Beside == [Two EXCEPT !.rounds = {<<a, 1>>, <<a, 2>>}, !.edits = 2, !.deletes = 0,
                      !.decisions = 0, !.start = 0]
Unseen == [Two EXCEPT !.edits = 2, !.deletes = 0, !.decisions = 0, !.blinds = 1, !.start = 0]
Forked == [Two EXCEPT !.edits = 4, !.deletes = 0, !.decisions = 2, !.start = 0,
                      !.kinds = {"fork"}]
SetupsMC == {Two, Deleted, Beside, Unseen, Forked}
=============================================================================
