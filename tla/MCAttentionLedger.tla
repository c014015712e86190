--------------------------- MODULE MCAttentionLedger ---------------------------
(* Small instances of the attention ledger.  The runs of add and update are    *)
(* interchangeable, so are the reasons, and no property is about liveness.    *)
EXTENDS AttentionLedger, TLC

LedgerSymmetry == Permutations(Writers) \union Permutations(Reasons)

=============================================================================
