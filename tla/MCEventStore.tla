----------------------------- MODULE MCEventStore -----------------------------
(* Small instances of the event store: one task, jobs left to the replay     *)
(* (the .cfg files give Jobs the empty set).  Two sessions are never          *)
(* interchangeable: rows are kept in the order they were first persisted.     *)
EXTENDS EventStore

=============================================================================
