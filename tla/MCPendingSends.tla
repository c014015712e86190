---------------------------- MODULE MCPendingSends ----------------------------
(* Small instances of the follow-up sends.                                   *)
EXTENDS PendingSends, TLC

TaskSymmetry == Permutations(Tasks)

=============================================================================
