------------------------------ MODULE MCMembership ------------------------------
(* A small instance of the membership monitor.  TLC's symmetry is unsound for the *)
(* liveness property; but tasks and panes are interchangeable, so it is enough to   *)
(* start from one of the states that differ by their names only.                  *)
EXTENDS Membership

FirstTask == CHOOSE t \in Tasks : TRUE
FirstPane == CHOOSE p \in Panes : TRUE

MCInit ==
    /\ Init
    /\ \/ meta = Nothing
       \/ meta[FirstTask] = FirstPane

MCSpec == MCInit /\ [][Next]_vars /\ Fairness

=============================================================================
