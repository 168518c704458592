------------------------------- MODULE MCPtyHost -------------------------------
(* PtyHost for TLC; the instances are the cfg files. *)
EXTENDS PtyHost, TLC

(* Tasks are told apart by nothing but their rows and runs. *)
AnyTask == Permutations(Tasks)
===============================================================================
