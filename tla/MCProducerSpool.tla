---------------------------- MODULE MCProducerSpool ----------------------------
(* Small instances of the producer's outbox.  No symmetry: one run checks a   *)
(* liveness property.                                                        *)
EXTENDS ProducerSpool

=============================================================================
