--------------------------- MODULE MCLifecycleReplay ---------------------------
(* Small instances of the lifecycle replay.                                  *)
EXTENDS LifecycleReplay

(* Jobs are interchangeable: no action or property names one of them.        *)
JobSymmetry == Permutations(Jobs)

=============================================================================
