------------------------------ MODULE MCPiAdapter ------------------------------
(* A small instance of the Pi adapter over the delivery ledger.                  *)
EXTENDS PiAdapter

=============================================================================
