----------------------------- MODULE MCMonitorHome -----------------------------
(* Small instances of the daemon's home.  Runs are interchangeable, so are      *)
(* hooks, and no property is about liveness.                                  *)
EXTENDS MonitorHome, TLC

HomeSymmetry == Permutations(Runs) \union Permutations(Hooks)

=============================================================================
