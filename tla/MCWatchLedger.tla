----------------------------- MODULE MCWatchLedger -----------------------------
(* Small instances of the watchers and their ledger.                          *)
EXTENDS WatchLedger

=============================================================================
