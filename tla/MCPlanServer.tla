---------------------------- MODULE MCPlanServer ----------------------------
(* Small instances of PlanServer for TLC. *)
EXTENDS PlanServer, TLC

CONSTANTS d1, d2, p1, p2, r1, r2, n1, n2, f1

FullGrant == {"read", "write", "mirror_delete"}
OneGrant == {FullGrant}
TwoGrants == {FullGrant, {"read", "write"}}

Symmetry == Permutations(Devices) \cup Permutations(PlanIds) \cup Permutations(Requests)

=============================================================================
