--------------------------- MODULE MCDeliveryLedger ---------------------------
(* Small instances of the delivery ledger.                                   *)
EXTENDS DeliveryLedger, TLC

(* Drivers are interchangeable: no action or property names one of them.     *)
DriverSymmetry == Permutations(Drivers)

=============================================================================
