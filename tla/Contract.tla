------------------------------ MODULE Contract ------------------------------
(***************************************************************************)
(* What a delegation's contract comes to (Delegations::resolve,            *)
(* sessions/live/delegation/mod.rs): the role's defaults are filled in,    *)
(* the child's permission is decided, and contracts that break a rule are  *)
(* refused.  "unset" is a field the contract or the role leaves out.       *)
(***************************************************************************)
EXTENDS Naturals

Permissions == {"plan", "ask", "auto_edit", "full_access"}
Workspaces == {"readOnly", "shared", "copy"}

(* permission_rank: the position in PERMISSIONS.                           *)
Rank(p) ==
    IF p = "plan" THEN 0 ELSE IF p = "ask" THEN 1 ELSE IF p = "auto_edit" THEN 2 ELSE 3

(* A parent in a mode without a rank counts as "ask".                      *)
ParentRank(p) == IF p \in Permissions THEN Rank(p) ELSE 1

(* A role of the library; NoRole when the contract names none.             *)
Roles == [permission : Permissions \cup {"other"}, workspace : Workspaces]
NoRole == [permission |-> "other", workspace |-> "readOnly"]

Contracts == [instruction : BOOLEAN,            \* something is left of it when trimmed
              role : {"none", "unknown", "known"},
              permission : Permissions \cup {"unset", "other"},
              workspace : Workspaces \cup {"unset"}]

WorkspaceOf(contract, role) ==
    IF contract.workspace = "unset" THEN role.workspace ELSE contract.workspace

(* PERMISSIONS[wanted.min(parent_rank)]: what the role wants, no more than *)
(* the parent has.                                                         *)
Lesser(p, parent) ==
    LET most == IF parent \in Permissions THEN parent ELSE "ask"
    IN IF p \in Permissions /\ Rank(p) < Rank(most) THEN p ELSE most

PermissionOf(contract, role, parent) ==
    IF contract.permission # "unset" THEN contract.permission
    ELSE IF WorkspaceOf(contract, role) = "readOnly" THEN "plan"
    ELSE Lesser(role.permission, parent)

(* The early returns of resolve.                                           *)
Refused(contract, role, parent) ==
    \/ ~contract.instruction
    \/ contract.role = "unknown"
    \/ contract.permission = "other"
    \/ contract.permission \in Permissions /\ Rank(contract.permission) > ParentRank(parent)
    \/ /\ contract.permission \in Permissions \ {"plan"}
       /\ WorkspaceOf(contract, role) = "readOnly"

(* start's `writes`: the child may change the directory it shares.         *)
Writes(contract, role, parent) ==
    /\ WorkspaceOf(contract, role) = "shared"
    /\ PermissionOf(contract, role, parent) # "plan"

-----------------------------------------------------------------------------
(* A child never has more permission than its parent, and one that works   *)
(* in the parent's directory read-only may not write (Q-B10, "permission   *)
(* decay": resolve).                                                       *)
Decays(contract, role, parent) ==
    ~Refused(contract, role, parent) =>
        LET p == PermissionOf(contract, role, parent) IN
        /\ p \in Permissions
        /\ Rank(p) <= ParentRank(parent)
        /\ WorkspaceOf(contract, role) = "readOnly" => p = "plan"

=============================================================================
