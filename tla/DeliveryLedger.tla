---------------------------- MODULE DeliveryLedger ----------------------------
(***************************************************************************)
(* The per-driver delivery ledger of lib/rozoro_monitor/store.py: the       *)
(* tables daemon_metadata.latest_generation, watchtower_registrations,      *)
(* watchtower_deliveries, delivery_offers and disabled_drivers, with every  *)
(* operation that writes them.  Each operation is one SQLite transaction    *)
(* under the store's lock, so each is one action; what interleaves is the   *)
(* calls of the adapters (one connection per registration epoch, the older  *)
(* ones possibly still alive), of the reconciliation command line client    *)
(* and of the event intake that bumps the generation.                       *)
(*                                                                         *)
(* A delivery_offers row is identified by its driver, epoch and generation  *)
(* (the primary key).  Its session column always equals the session bound   *)
(* at that epoch, so the epoch stands for both.                             *)
(***************************************************************************)
EXTENDS Naturals

CONSTANTS
    Drivers,         \* driver ids
    MaxGeneration,   \* bound: action generations published
    MaxEpoch         \* bound: registrations of one driver

ASSUME BoundsAssumption == MaxGeneration \in Nat /\ MaxEpoch \in Nat

VARIABLES
    latest,      \* daemon_metadata 'latest_generation'
    epoch,       \* [Drivers -> Nat] registration_epoch, 0 without a row
    disabled,    \* disabled_drivers
    ledger,      \* [Drivers -> cursors] the watchtower_deliveries row
    offered,     \* [Drivers -> SUBSET Offer] rows of delivery_offers
    confirmed,   \* [Drivers -> SUBSET Offer] those with confirmed = 1
    cli,         \* [Drivers -> Nat] `through` a running client must ACK, or 0
    reported     \* [Drivers -> SUBSET Nat] history: generations it printed

vars == <<latest, epoch, disabled, ledger, offered, confirmed, cli, reported>>

-----------------------------------------------------------------------------
Offer == [epoch : Nat, gen : Nat]

DeliveryState == {"pending", "deferred", "error", "delivered"}

Ledger == [latest : Nat, delivered : Nat, acked : Nat, state : DeliveryState]

NoLedger == [latest |-> 0, delivered |-> 0, acked |-> 0, state |-> "pending"]

TypeOK ==
    /\ latest \in Nat
    /\ epoch \in [Drivers -> Nat]
    /\ disabled \in SUBSET Drivers
    /\ ledger \in [Drivers -> Ledger]
    /\ offered \in [Drivers -> SUBSET Offer]
    /\ confirmed \in [Drivers -> SUBSET Offer]
    /\ cli \in [Drivers -> Nat]
    /\ reported \in [Drivers -> SUBSET Nat]

Init ==
    /\ latest = 0
    /\ epoch = [d \in Drivers |-> 0]
    /\ disabled = {}
    /\ ledger = [d \in Drivers |-> NoLedger]
    /\ offered = [d \in Drivers |-> {}]
    /\ confirmed = [d \in Drivers |-> {}]
    /\ cli = [d \in Drivers |-> 0]
    /\ reported = [d \in Drivers |-> {}]

(* A driver with a watchtower_deliveries row (driver_authority "active").  *)
Active(d) == epoch[d] > 0

(* Mutant: the binding check forgets that a newer registration replaced it. *)
BoundAnyEpoch(d, e) == Active(d) /\ e \in 1..epoch[d]

(* _require_registration: the caller's bound epoch is the current one.     *)
Bound(d, e) == Active(d) /\ e = epoch[d]

Key(e, g) == [epoch |-> e, gen |-> g]

-----------------------------------------------------------------------------
(* Mutant: a driver that has not read its last wake is not told of news.    *)
BumpSkipsBusyDrivers ==
    /\ latest < MaxGeneration
    /\ latest' = latest + 1
    /\ ledger' = [d \in Drivers |->
                    IF Active(d) /\ ledger[d].delivered = ledger[d].acked
                    THEN [ledger[d] EXCEPT !.latest = latest + 1]
                    ELSE ledger[d]]
    /\ UNCHANGED <<epoch, disabled, offered, confirmed, cli, reported>>

(* bump_actionable: a new generation, visible to every driver with a row.  *)
Bump ==
    /\ latest < MaxGeneration
    /\ latest' = latest + 1
    /\ ledger' = [d \in Drivers |->
                    IF Active(d) THEN [ledger[d] EXCEPT !.latest = latest + 1]
                                 ELSE ledger[d]]
    /\ UNCHANGED <<epoch, disabled, offered, confirmed, cli, reported>>

(* register_driver: the first registration creates the delivery row at the *)
(* global generation; every later one only moves the epoch.                *)
Register(d) ==
    /\ d \notin disabled
    /\ epoch[d] < MaxEpoch
    /\ epoch' = [epoch EXCEPT ![d] = @ + 1]
    /\ ledger' = IF Active(d) THEN ledger
                 ELSE [ledger EXCEPT ![d] = [NoLedger EXCEPT !.latest = latest]]
    /\ UNCHANGED <<latest, disabled, offered, confirmed, cli, reported>>

(* Offers of the current epoch that are neither confirmed nor acknowledged. *)
Outstanding(d) ==
    {o \in offered[d] \ confirmed[d] :
        o.epoch = epoch[d] /\ o.gen > ledger[d].acked}

(* Mutant: the newest generation is offered although N is still unread.     *)
FrontierIgnoresUnread(d) ==
    {g \in {ledger[d].latest} :
        /\ Outstanding(d) = {}
        /\ g > ledger[d].acked
        /\ Key(epoch[d], g) \notin confirmed[d]}

(* Mutant: an unread generation is redelivered in the epoch that has it.    *)
FrontierRepeats(d) ==
    LET l == ledger[d]
    IN  {g \in {IF l.delivered > l.acked THEN l.delivered ELSE l.latest} :
            Outstanding(d) = {} /\ l.latest > l.acked}

(* notification_frontier: the generations an offer may carry now (none or  *)
(* one).  An outstanding offer is repeated; otherwise a delivered but       *)
(* unacknowledged generation is redelivered once per epoch; otherwise the  *)
(* newest generation is offered.                                            *)
Frontier(d) ==
    LET l == ledger[d]
        due == IF l.delivered > l.acked THEN l.delivered ELSE l.latest
    IN  IF Outstanding(d) # {}
        THEN {o.gen : o \in {p \in Outstanding(d) :
                               \A q \in Outstanding(d) : p.gen <= q.gen}}
        ELSE {g \in {due} :
                /\ l.latest > l.acked
                /\ l.delivered > l.acked => Key(epoch[d], g) \notin confirmed[d]}

(* offer_notification: inserts the offer; repeating an outstanding one      *)
(* writes nothing.  An insert whose key exists aborts the transaction.      *)
OfferNotification(d, e) ==
    /\ Bound(d, e)
    /\ Outstanding(d) = {}
    /\ \E g \in Frontier(d) :
         /\ Key(e, g) \notin offered[d]
         /\ offered' = [offered EXCEPT ![d] = @ \union {Key(e, g)}]
    /\ UNCHANGED <<latest, epoch, disabled, ledger, confirmed, cli, reported>>

(* Mutant: the DELETE does not spare a confirmed row.                       *)
WithdrawAnyOffer(d, e, g) ==
    /\ Bound(d, e)
    /\ Key(e, g) \in offered[d]
    /\ offered' = [offered EXCEPT ![d] = @ \ {Key(e, g)}]
    /\ confirmed' = [confirmed EXCEPT ![d] = @ \ {Key(e, g)}]
    /\ UNCHANGED <<latest, epoch, disabled, ledger, cli, reported>>

(* withdraw_unconfirmed_offer.                                              *)
WithdrawUnconfirmedOffer(d, e, g) ==
    /\ Bound(d, e)
    /\ Key(e, g) \in offered[d] \ confirmed[d]
    /\ offered' = [offered EXCEPT ![d] = @ \ {Key(e, g)}]
    /\ UNCHANGED <<latest, epoch, disabled, ledger, confirmed, cli, reported>>

(* record_delivery_outcome: diagnostics only, the offer stays.              *)
RecordDeliveryOutcome(d, e, g, s) ==
    /\ Bound(d, e)
    /\ s \in {"deferred", "error"}
    /\ Key(e, g) \in offered[d] \ confirmed[d]
    /\ ledger' = [ledger EXCEPT ![d].state = s]
    /\ UNCHANGED <<latest, epoch, disabled, offered, confirmed, cli, reported>>

(* confirm_delivery: only the highest offer of the current epoch; a second *)
(* confirmation returns False and writes nothing.                           *)
ConfirmDelivery(d, e, g) ==
    /\ Bound(d, e)
    /\ Key(e, g) \in offered[d]
    /\ \A o \in offered[d] : o.epoch = e => o.gen <= g
    /\ Key(e, g) \notin confirmed[d]
    /\ confirmed' = [confirmed EXCEPT ![d] = @ \union {Key(e, g)}]
    /\ ledger' = [ledger EXCEPT ![d].delivered = IF g > @ THEN g ELSE @,
                                ![d].state = "delivered"]
    /\ UNCHANGED <<latest, epoch, disabled, offered, cli, reported>>


-----------------------------------------------------------------------------
(* Mutant: the offers of replaced epochs are not retired.                   *)
ReconcileKeepsOldEpochs(d) ==
    LET l == ledger[d]
    IN  /\ Active(d)
        /\ \A x \in Drivers : cli[x] = 0
        /\ l.delivered > l.acked
        /\ \E o \in confirmed[d] : o.gen = l.delivered
        /\ confirmed' = [confirmed EXCEPT
                           ![d] = @ \union {o \in offered[d] : o.gen = l.delivered}]
        /\ cli' = [cli EXCEPT ![d] = l.delivered]
        /\ reported' = [reported EXCEPT
                          ![d] = @ \union ((l.acked + 1)..l.delivered)]
        /\ UNCHANGED <<latest, epoch, disabled, ledger, offered>>

(* reconcile_delivered, called by the command line client, which prints the *)
(* changed tasks of (acked, delivered] before it acknowledges.  The         *)
(* transaction retires the unconfirmed offers of older epochs and of the    *)
(* delivered generation, and is rolled back when an older one remains.  The *)
(* client holds the home's authority lock while it runs, so one runs at a   *)
(* time.                                                                    *)
CliReconcile(d) ==
    LET l == ledger[d]
        retired == {o \in offered[d] :
                       \/ o.epoch < epoch[d]
                       \/ o.gen = l.delivered}
    IN  /\ Active(d)
        /\ \A x \in Drivers : cli[x] = 0
        /\ l.delivered > l.acked
        /\ \E o \in confirmed[d] : o.gen = l.delivered
        /\ \A o \in offered[d] \ (confirmed[d] \union retired) :
              o.gen >= l.delivered
        /\ confirmed' = [confirmed EXCEPT ![d] = @ \union retired]
        /\ cli' = [cli EXCEPT ![d] = l.delivered]
        /\ reported' = [reported EXCEPT
                          ![d] = @ \union ((l.acked + 1)..l.delivered)]
        /\ UNCHANGED <<latest, epoch, disabled, ledger, offered>>

(* ack_delivered's refusals.                                                *)
AckAccepted(d, through) ==
    /\ Active(d)
    /\ through = ledger[d].delivered
    /\ through > ledger[d].acked
    /\ \A o \in offered[d] \ confirmed[d] : o.gen > through

(* Mutant: the ACK takes whatever is delivered by now.                      *)
CliAckTakesDelivered(d) ==
    /\ cli[d] # 0
    /\ cli' = [cli EXCEPT ![d] = 0]
    /\ ledger' = [ledger EXCEPT ![d].acked = ledger[d].delivered,
                                ![d].state = "pending"]
    /\ UNCHANGED <<latest, epoch, disabled, offered, confirmed, reported>>

(* ack_delivered: the client's ACK of what it printed, which ends its run   *)
(* whether the daemon accepts, repeats or refuses it.                       *)
CliAck(d) ==
    /\ cli[d] # 0
    /\ cli' = [cli EXCEPT ![d] = 0]
    /\ \/ /\ AckAccepted(d, cli[d])
          /\ ledger' = [ledger EXCEPT ![d].acked = cli[d],
                                      ![d].state = "pending"]
       \/ /\ ~AckAccepted(d, cli[d])
          /\ UNCHANGED ledger
    /\ UNCHANGED <<latest, epoch, disabled, offered, confirmed, reported>>

(* The client dies, or loses the daemon, between printing and its ACK.      *)
CliCrash(d) ==
    /\ cli[d] # 0
    /\ cli' = [cli EXCEPT ![d] = 0]
    /\ UNCHANGED <<latest, epoch, disabled, ledger, offered, confirmed, reported>>

(* ack_generation: an adapter's ACK of any delivered generation; it retires *)
(* every offer at or below it.                                              *)
AckGeneration(d, e, through) ==
    /\ Bound(d, e)
    /\ through > ledger[d].acked
    /\ through <= ledger[d].delivered
    /\ ledger' = [ledger EXCEPT ![d].acked = through, ![d].state = "pending"]
    /\ confirmed' = [confirmed EXCEPT
                       ![d] = @ \union {o \in offered[d] : o.gen <= through}]
    /\ UNCHANGED <<latest, epoch, disabled, offered, cli, reported>>

(* Mutant: a delivered but unread generation does not hold the driver.      *)
DisableUnread(d) ==
    /\ Active(d)
    /\ ledger[d].latest = ledger[d].delivered
    /\ disabled' = disabled \union {d}
    /\ epoch' = [epoch EXCEPT ![d] = 0]
    /\ ledger' = [ledger EXCEPT ![d] = NoLedger]
    /\ offered' = [offered EXCEPT ![d] = {}]
    /\ confirmed' = [confirmed EXCEPT ![d] = {}]
    /\ UNCHANGED <<latest, cli, reported>>

(* disable_driver_authority: only a driver with nothing pending; its rows   *)
(* go, its offers by cascade.  Repeating it writes nothing.                 *)
DisableDriverAuthority(d) ==
    /\ Active(d)
    /\ ledger[d].latest = ledger[d].delivered
    /\ ledger[d].delivered = ledger[d].acked
    /\ disabled' = disabled \union {d}
    /\ epoch' = [epoch EXCEPT ![d] = 0]
    /\ ledger' = [ledger EXCEPT ![d] = NoLedger]
    /\ offered' = [offered EXCEPT ![d] = {}]
    /\ confirmed' = [confirmed EXCEPT ![d] = {}]
    /\ UNCHANGED <<latest, cli, reported>>

AdapterStep(d) ==
    \E e \in 1..MaxEpoch :
        \/ OfferNotification(d, e)
        \/ \E g \in 1..MaxGeneration :
              \/ WithdrawUnconfirmedOffer(d, e, g)
              \/ \E s \in DeliveryState : RecordDeliveryOutcome(d, e, g, s)
              \/ ConfirmDelivery(d, e, g)
              \/ AckGeneration(d, e, g)

Next ==
    \/ Bump
    \/ \E d \in Drivers :
          \/ Register(d)
          \/ AdapterStep(d)
          \/ CliReconcile(d)
          \/ CliAck(d)
          \/ CliCrash(d)
          \/ DisableDriverAuthority(d)

Spec == Init /\ [][Next]_vars

(* A live adapter keeps polling and is not deferred for ever; a client that *)
(* is run again and again is not killed before its ACK every time.          *)
Fairness ==
    \A d \in Drivers :
        /\ WF_vars(OfferNotification(d, epoch[d]))
        /\ SF_vars(\E g \in 1..MaxGeneration : ConfirmDelivery(d, epoch[d], g))
        /\ WF_vars(CliReconcile(d))
        /\ SF_vars(CliAck(d))

LiveSpec == Spec /\ Fairness

-----------------------------------------------------------------------------
(* Safety.                                                                  *)

(* The cursors of every active driver stay ordered (the two CHECKs of the   *)
(* watchtower_deliveries table never abort a transaction), its copy of the  *)
(* newest generation is the global one, and nobody is acknowledged past     *)
(* what was published.                                                      *)
CursorOrder ==
    \A d \in Drivers :
        /\ ledger[d].acked <= ledger[d].delivered
        /\ ledger[d].delivered <= ledger[d].latest
        /\ Active(d) => ledger[d].latest = latest

(* A delivered but unacknowledged generation always has its exact confirmed *)
(* offer, of whichever epoch: reconcile_delivered never raises "delivered   *)
(* cursor has no exact confirmed offer", whatever reconnects, withdrawals   *)
(* and redeliveries came in between.                                        *)
DeliveredHasConfirmedOffer ==
    \A d \in Drivers :
        ledger[d].delivered > ledger[d].acked =>
            \E o \in confirmed[d] : o.gen = ledger[d].delivered

(* The current epoch has at most one unconfirmed offer; it is ahead of the  *)
(* ACK cursor and, while a delivery is unacknowledged, is exactly that      *)
(* generation.  So generation N+1 is never on offer while N is unread, and  *)
(* reconcile_delivered never meets "an older valid delivery offer".         *)
OneOutstandingOffer ==
    \A d \in Drivers :
        LET open == {o \in offered[d] \ confirmed[d] : o.epoch = epoch[d]}
        IN  /\ \A o, p \in open : o = p
            /\ \A o \in open :
                  /\ o.gen > ledger[d].acked
                  /\ ledger[d].delivered > ledger[d].acked =>
                        o.gen = ledger[d].delivered

(* An offer the ledger decides to insert never collides with a row already  *)
(* there: the primary key never aborts offer_notification, which would      *)
(* leave the driver without a wake for good.                                *)
OfferNeverCollides ==
    \A d \in Drivers :
        Active(d) /\ Outstanding(d) = {} =>
            \A g \in Frontier(d) : Key(epoch[d], g) \notin offered[d]

(* The rows that make the others inductive: offers carry an epoch the driver *)
(* has had and a generation it was told of, what the current epoch confirmed *)
(* is covered by the delivered cursor (so a generation above it is new to    *)
(* the epoch), and a driver without a registration has no rows at all.       *)
RowsConsistent ==
    \A d \in Drivers :
        /\ confirmed[d] \subseteq offered[d]
        /\ \A o \in offered[d] : o.epoch \in 1..epoch[d] /\ o.gen \in 1..latest
        /\ \A o \in confirmed[d] :
              o.epoch = epoch[d] => o.gen <= ledger[d].delivered
        /\ ~Active(d) => ledger[d] = NoLedger /\ offered[d] = {}
        /\ d \in disabled => ~Active(d)

(* A disabled driver keeps no row that a late call could find.              *)
DisabledHasNoAuthority ==
    \A d \in disabled : epoch[d] = 0 /\ offered[d] = {}

(* The delivered cursor moves only to a generation offered to the current   *)
(* registration epoch, and only when the previous one was acknowledged: a   *)
(* connection replaced by a reconnect can never consume a wake.             *)
DeliveredByCurrentEpochOnly ==
    [][\A d \in Drivers :
          ledger'[d].delivered > ledger[d].delivered =>
              /\ Key(epoch[d], ledger'[d].delivered) \in offered[d]
              /\ ledger[d].delivered = ledger[d].acked]_vars

(* The client's ACK covers only generations whose changes it has printed,   *)
(* also when bumps, reconnects, confirmations or an adapter's ACK come      *)
(* between its two requests.                                                *)
CliAcksOnlyReported ==
    [][\A d \in Drivers :
          (cli[d] # 0 /\ cli'[d] = 0 /\ ledger'[d].acked > ledger[d].acked) =>
              (ledger[d].acked + 1)..ledger'[d].acked \subseteq reported[d]]_vars

(* Liveness: every generation published while a driver is active is         *)
(* eventually acknowledged by it, through any finite number of reconnects.  *)
EveryGenerationAcked ==
    \A d \in Drivers, g \in 1..MaxGeneration :
        (Active(d) /\ ledger[d].latest >= g) ~> (ledger[d].acked >= g)

(* The ledger seen as the abstract cursor: epochs, offers and the client's  *)
(* run are internal.                                                        *)
Cursor == INSTANCE WakeCursor WITH
    published <- latest,
    standing  <- [d \in Drivers |-> IF d \in disabled THEN "disabled"
                                    ELSE IF Active(d) THEN "active"
                                    ELSE "unknown"],
    delivered <- [d \in Drivers |-> ledger[d].delivered],
    acked     <- [d \in Drivers |-> ledger[d].acked]

(* Every step of the ledger is a step of the abstract cursor or invisible   *)
(* to it: one wake outstanding per driver, no ACK beyond it, release only   *)
(* when clean.                                                              *)
ImplementsWakeCursor == Cursor!Spec

=============================================================================
