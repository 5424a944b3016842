---------------------------- MODULE MCApprovals -----------------------------
(* A small instance of Approvals for TLC. *)
EXTENDS Approvals, TLC

CONSTANTS u1, u2

\* Three steps, the fewest a template may have; the second needs two users.
MCRequired == <<1, 2, 1>>
MCMayApprove == <<{u1}, {u1, u2}, {u2}>>
TaskSymmetry == Permutations(Tasks)
=============================================================================
