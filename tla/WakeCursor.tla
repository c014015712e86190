------------------------------ MODULE WakeCursor ------------------------------
(***************************************************************************)
(* What the delivery ledger promises, without offers, epochs or             *)
(* connections: each driver is woken for one generation at a time, a wake   *)
(* covers everything published since its last acknowledgement, the next     *)
(* wake waits for that acknowledgement, an acknowledgement never passes the *)
(* wake, and a driver is released from duty only when nothing is pending.   *)
(***************************************************************************)
EXTENDS Naturals

CONSTANT Drivers

VARIABLES
    published,   \* newest actionable generation
    standing,    \* [Drivers -> {"unknown", "active", "disabled"}]
    delivered,   \* [Drivers -> Nat] the last generation a wake announced
    acked        \* [Drivers -> Nat] everything up to here was consumed

wcvars == <<published, standing, delivered, acked>>

Init ==
    /\ published = 0
    /\ standing = [d \in Drivers |-> "unknown"]
    /\ delivered = [d \in Drivers |-> 0]
    /\ acked = [d \in Drivers |-> 0]

Publish ==
    /\ published' = published + 1
    /\ UNCHANGED <<standing, delivered, acked>>

Enrol(d) ==
    /\ standing[d] = "unknown"
    /\ standing' = [standing EXCEPT ![d] = "active"]
    /\ UNCHANGED <<published, delivered, acked>>

Wake(d) ==
    /\ standing[d] = "active"
    /\ delivered[d] = acked[d]
    /\ \E g \in (acked[d] + 1)..published :
          delivered' = [delivered EXCEPT ![d] = g]
    /\ UNCHANGED <<published, standing, acked>>

Acknowledge(d) ==
    /\ standing[d] = "active"
    /\ \E g \in (acked[d] + 1)..delivered[d] :
          acked' = [acked EXCEPT ![d] = g]
    /\ UNCHANGED <<published, standing, delivered>>

Release(d) ==
    /\ standing[d] = "active"
    /\ acked[d] = published
    /\ standing' = [standing EXCEPT ![d] = "disabled"]
    /\ delivered' = [delivered EXCEPT ![d] = 0]
    /\ acked' = [acked EXCEPT ![d] = 0]
    /\ UNCHANGED published

Next ==
    \/ Publish
    \/ \E d \in Drivers : Enrol(d) \/ Wake(d) \/ Acknowledge(d) \/ Release(d)

Spec == Init /\ [][Next]_wcvars

=============================================================================
