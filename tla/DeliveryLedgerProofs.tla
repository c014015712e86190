------------------------- MODULE DeliveryLedgerProofs -------------------------
(***************************************************************************)
(* Machine-checked safety of the delivery ledger for every set of drivers   *)
(* and every bound: type correctness, the cursor and offer invariants, and  *)
(* the refinement of WakeCursor.  Then the same for the ledger as the Pi    *)
(* adapter drives it, for any number of connections, broken ones, events    *)
(* and generations: PiAdapter implements DeliveryLedger, and a delivered    *)
(* generation was put into the session by the connection that confirmed it. *)
(***************************************************************************)
EXTENDS PiAdapter, SequenceTheorems, FiniteSetTheorems, WellFoundedInduction, TLAPS

(* The invariant driver by driver.                                          *)
DriverInv(d) ==
    /\ ledger[d].acked <= ledger[d].delivered
    /\ ledger[d].delivered <= ledger[d].latest
    /\ Active(d) => ledger[d].latest = latest
    /\ ledger[d].delivered > ledger[d].acked =>
          \E o \in confirmed[d] : o.gen = ledger[d].delivered
    /\ \A o, p \in offered[d] \ confirmed[d] :
          o.epoch = epoch[d] /\ p.epoch = epoch[d] => o = p
    /\ \A o \in offered[d] \ confirmed[d] :
          o.epoch = epoch[d] =>
             /\ o.gen > ledger[d].acked
             /\ ledger[d].delivered > ledger[d].acked =>
                   o.gen = ledger[d].delivered
    /\ confirmed[d] \subseteq offered[d]
    /\ \A o \in offered[d] : o.epoch \in 1..epoch[d] /\ o.gen \in 1..latest
    /\ \A o \in confirmed[d] :
          o.epoch = epoch[d] => o.gen <= ledger[d].delivered
    /\ ~Active(d) => ledger[d] = NoLedger /\ offered[d] = {}
    /\ d \in disabled => ~Active(d)

(* The inductive invariant: the run's invariants, driver by driver.         *)
IInv == TypeOK /\ \A d \in Drivers : DriverInv(d)

LEMMA IInvParts ==
  IInv <=> /\ TypeOK
           /\ CursorOrder
           /\ DeliveredHasConfirmedOffer
           /\ OneOutstandingOffer
           /\ RowsConsistent
  BY DEF IInv, DriverInv, CursorOrder, DeliveredHasConfirmedOffer,
         OneOutstandingOffer, RowsConsistent

LEMMA InitInv == Init => IInv
  BY DEF Init, IInv, DriverInv, TypeOK, Active, NoLedger, Ledger,
         DeliveryState, Offer

(* An offer the frontier names is new, ahead of the ACK cursor and, while a *)
(* delivery is unacknowledged, that delivery.                               *)
LEMMA FrontierFresh ==
  ASSUME IInv, NEW d \in Drivers, Active(d), Outstanding(d) = {},
         NEW g \in Frontier(d)
  PROVE  /\ g \in Nat
         /\ g > ledger[d].acked
         /\ g \in 1..latest
         /\ ledger[d].delivered > ledger[d].acked => g = ledger[d].delivered
         /\ Key(epoch[d], g) \notin offered[d]
  <1> USE IInvParts
  <1> DEFINE l == ledger[d]
  <1>1. /\ l \in Ledger /\ latest \in Nat /\ epoch[d] \in Nat
        /\ offered[d] \subseteq Offer
        /\ l.latest = latest
    BY DEF TypeOK, CursorOrder
  <1>2. /\ l.acked <= l.delivered /\ l.delivered <= l.latest
        /\ l.acked \in Nat /\ l.delivered \in Nat /\ l.latest \in Nat
    BY <1>1 DEF CursorOrder, Ledger
  <1>3. /\ g = IF l.delivered > l.acked THEN l.delivered ELSE l.latest
        /\ l.latest > l.acked
        /\ l.delivered > l.acked => Key(epoch[d], g) \notin confirmed[d]
    BY DEF Frontier
  <1>4. g \in Nat /\ g > l.acked /\ g \in 1..latest
    BY <1>1, <1>2, <1>3
  <1>5. Key(epoch[d], g) \notin confirmed[d]
    <2>1. CASE l.delivered > l.acked
      BY <2>1, <1>3
    <2>2. CASE ~(l.delivered > l.acked)
      <3>1. g > l.delivered
        BY <2>2, <1>2, <1>3
      <3>2. Key(epoch[d], g).gen = g /\ Key(epoch[d], g).epoch = epoch[d]
        BY DEF Key
      <3> QED BY <3>1, <3>2, <1>2, <1>4 DEF RowsConsistent
    <2> QED BY <2>1, <2>2
  <1>6. Key(epoch[d], g) \notin offered[d]
    <2>1. Key(epoch[d], g).gen = g /\ Key(epoch[d], g).epoch = epoch[d]
      BY DEF Key
    <2> QED BY <2>1, <1>4, <1>5 DEF Outstanding
  <1> QED BY <1>3, <1>4, <1>6

-----------------------------------------------------------------------------
(* A driver no row of which a step touches keeps its invariant.             *)
LEMMA Frame ==
  ASSUME NEW d \in Drivers, DriverInv(d), latest' = latest,
         ledger'[d] = ledger[d], epoch'[d] = epoch[d],
         offered'[d] = offered[d], confirmed'[d] = confirmed[d],
         d \in disabled' <=> d \in disabled
  PROVE  DriverInv(d)'
  BY DEF DriverInv, Active

LEMMA BumpInv == IInv /\ Bump => IInv'
  <1> SUFFICES ASSUME TypeOK, \A d \in Drivers : DriverInv(d), Bump
               PROVE  TypeOK' /\ \A d \in Drivers : DriverInv(d)'
    BY DEF IInv
  <1>1. TypeOK'
    BY DEF TypeOK, Bump, Ledger
  <1>2. ASSUME NEW d \in Drivers PROVE DriverInv(d)'
    BY <1>2 DEF TypeOK, Bump, DriverInv, Active, Ledger, Offer
  <1> QED BY <1>1, <1>2

LEMMA RegisterInv == ASSUME NEW d \in Drivers, IInv, Register(d) PROVE IInv'
  <1> USE DEF Register
  <1>1. TypeOK /\ \A x \in Drivers : DriverInv(x)
    BY DEF IInv
  <1>2. TypeOK'
    BY <1>1 DEF TypeOK, Ledger, NoLedger, DeliveryState
  <1>3. ASSUME NEW x \in Drivers, x # d PROVE DriverInv(x)'
    BY <1>1, <1>3, Frame DEF TypeOK
  <1>4. DriverInv(d)'
    BY <1>1 DEF TypeOK, DriverInv, Active, Ledger, NoLedger, Offer, DeliveryState
  <1> QED BY <1>2, <1>3, <1>4 DEF IInv

LEMMA OfferInv ==
  ASSUME NEW d \in Drivers, NEW e \in Nat, IInv, OfferNotification(d, e)
  PROVE  IInv'
  <1> USE DEF OfferNotification
  <1>1. TypeOK /\ \A x \in Drivers : DriverInv(x)
    BY DEF IInv
  <1>2. PICK g \in Frontier(d) :
           offered' = [offered EXCEPT ![d] = @ \union {Key(epoch[d], g)}]
    BY DEF Bound
  <1>3. /\ g \in Nat /\ g > ledger[d].acked /\ g \in 1..latest
        /\ ledger[d].delivered > ledger[d].acked => g = ledger[d].delivered
        /\ Key(epoch[d], g) \notin offered[d]
    BY FrontierFresh DEF Bound
  <1>4. TypeOK'
    BY <1>1, <1>2, <1>3 DEF TypeOK, Offer, Key
  <1>5. ASSUME NEW x \in Drivers, x # d PROVE DriverInv(x)'
    BY <1>1, <1>2, <1>5, Frame DEF TypeOK
  <1>6. DriverInv(d)'
    <2>1. \A o \in offered[d] \ confirmed[d] : o.epoch # epoch[d]
      BY <1>1 DEF Outstanding, DriverInv
    <2>2. offered'[d] = offered[d] \union {Key(epoch[d], g)}
      BY <1>1, <1>2 DEF TypeOK
    <2> QED
      BY <1>1, <1>3, <2>1, <2>2
      DEF TypeOK, DriverInv, Active, Bound, Key, Ledger, Offer
  <1> QED BY <1>4, <1>5, <1>6 DEF IInv

LEMMA WithdrawInv ==
  ASSUME NEW d \in Drivers, NEW e \in Nat, NEW g \in Nat, IInv, WithdrawUnconfirmedOffer(d, e, g)
  PROVE  IInv'
  <1> USE DEF WithdrawUnconfirmedOffer
  <1>1. TypeOK /\ \A x \in Drivers : DriverInv(x)
    BY DEF IInv
  <1>2. TypeOK'
    BY <1>1 DEF TypeOK, Ledger, DeliveryState, Offer, Key, Bound, NoLedger
  <1>3. ASSUME NEW x \in Drivers, x # d PROVE DriverInv(x)'
    BY <1>1, <1>3, Frame DEF TypeOK
  <1>4. DriverInv(d)'
    BY <1>1 DEF TypeOK, DriverInv, Active, Bound, Key, Ledger, Offer,
                NoLedger
  <1> QED BY <1>2, <1>3, <1>4 DEF IInv

LEMMA RecordInv ==
  ASSUME NEW d \in Drivers, NEW e \in Nat, NEW g \in Nat,
         NEW s \in DeliveryState, IInv, RecordDeliveryOutcome(d, e, g, s)
  PROVE  IInv'
  <1> USE DEF RecordDeliveryOutcome
  <1>1. TypeOK /\ \A x \in Drivers : DriverInv(x)
    BY DEF IInv
  <1>2. TypeOK'
    BY <1>1 DEF TypeOK, Ledger, DeliveryState, Offer, Key, Bound, NoLedger
  <1>3. ASSUME NEW x \in Drivers, x # d PROVE DriverInv(x)'
    BY <1>1, <1>3, Frame DEF TypeOK
  <1>4. DriverInv(d)'
    BY <1>1 DEF TypeOK, DriverInv, Active, Bound, Key, Ledger, Offer,
                NoLedger
  <1> QED BY <1>2, <1>3, <1>4 DEF IInv

LEMMA ConfirmInv ==
  ASSUME NEW d \in Drivers, NEW e \in Nat, NEW g \in Nat, IInv, ConfirmDelivery(d, e, g)
  PROVE  IInv'
  <1> USE DEF ConfirmDelivery
  <1>1. TypeOK /\ \A x \in Drivers : DriverInv(x)
    BY DEF IInv
  <1>2. TypeOK'
    <2>1. Key(e, g) \in Offer /\ "delivered" \in DeliveryState
      BY DEF Key, Offer, DeliveryState
    <2>2. confirmed' \in [Drivers -> SUBSET Offer]
      BY <1>1, <2>1 DEF TypeOK
    <2>3. ledger' \in [Drivers -> Ledger]
      BY <1>1, <2>1 DEF TypeOK, Ledger
    <2> QED BY <1>1, <2>2, <2>3 DEF TypeOK
  <1>3. ASSUME NEW x \in Drivers, x # d PROVE DriverInv(x)'
    BY <1>1, <1>3, Frame DEF TypeOK
  <1>4. DriverInv(d)'
    BY <1>1 DEF TypeOK, DriverInv, Active, Bound, Key, Ledger, Offer,
                NoLedger
  <1> QED BY <1>2, <1>3, <1>4 DEF IInv

LEMMA ReconcileInv ==
  ASSUME NEW d \in Drivers, IInv, CliReconcile(d)
  PROVE  IInv'
  <1> USE DEF CliReconcile
  <1>1. TypeOK /\ \A x \in Drivers : DriverInv(x)
    BY DEF IInv
  <1>2. TypeOK'
    BY <1>1 DEF TypeOK, Ledger, DeliveryState, Offer, Key, Bound, NoLedger
  <1>3. ASSUME NEW x \in Drivers, x # d PROVE DriverInv(x)'
    BY <1>1, <1>3, Frame DEF TypeOK
  <1>4. DriverInv(d)'
    BY <1>1 DEF TypeOK, DriverInv, Active, Bound, Key, Ledger, Offer,
                NoLedger
  <1> QED BY <1>2, <1>3, <1>4 DEF IInv

LEMMA CliAckInv ==
  ASSUME NEW d \in Drivers, IInv, CliAck(d)
  PROVE  IInv'
  <1> USE DEF CliAck, AckAccepted
  <1>1. TypeOK /\ \A x \in Drivers : DriverInv(x)
    BY DEF IInv
  <1>2. TypeOK'
    BY <1>1 DEF TypeOK, Ledger, DeliveryState, Offer, Key, Bound, NoLedger
  <1>3. ASSUME NEW x \in Drivers, x # d PROVE DriverInv(x)'
    BY <1>1, <1>3, Frame DEF TypeOK
  <1>4. DriverInv(d)'
    BY <1>1 DEF TypeOK, DriverInv, Active, Bound, Key, Ledger, Offer,
                NoLedger
  <1> QED BY <1>2, <1>3, <1>4 DEF IInv

LEMMA AckGenerationInv ==
  ASSUME NEW d \in Drivers, NEW e \in Nat, NEW g \in Nat, IInv, AckGeneration(d, e, g)
  PROVE  IInv'
  <1> USE DEF AckGeneration
  <1>1. TypeOK /\ \A x \in Drivers : DriverInv(x)
    BY DEF IInv
  <1>2. TypeOK'
    BY <1>1 DEF TypeOK, Ledger, DeliveryState, Offer, Key, Bound, NoLedger
  <1>3. ASSUME NEW x \in Drivers, x # d PROVE DriverInv(x)'
    BY <1>1, <1>3, Frame DEF TypeOK
  <1>4. DriverInv(d)'
    BY <1>1 DEF TypeOK, DriverInv, Active, Bound, Key, Ledger, Offer,
                NoLedger
  <1> QED BY <1>2, <1>3, <1>4 DEF IInv

LEMMA DisableInv ==
  ASSUME NEW d \in Drivers, IInv, DisableDriverAuthority(d)
  PROVE  IInv'
  <1> USE DEF DisableDriverAuthority
  <1>1. TypeOK /\ \A x \in Drivers : DriverInv(x)
    BY DEF IInv
  <1>2. TypeOK'
    BY <1>1 DEF TypeOK, Ledger, DeliveryState, Offer, Key, Bound, NoLedger
  <1>3. ASSUME NEW x \in Drivers, x # d PROVE DriverInv(x)'
    BY <1>1, <1>3, Frame DEF TypeOK
  <1>4. DriverInv(d)'
    BY <1>1 DEF TypeOK, DriverInv, Active, Bound, Key, Ledger, Offer,
                NoLedger
  <1> QED BY <1>2, <1>3, <1>4 DEF IInv

LEMMA NextInv == IInv /\ [Next]_vars => IInv'
  <1> SUFFICES ASSUME IInv, [Next]_vars PROVE IInv'
    OBVIOUS
  <1>1. CASE Bump
    BY <1>1, BumpInv
  <1>2. ASSUME NEW d \in Drivers, Register(d) PROVE IInv'
    BY <1>2, RegisterInv
  <1>3. ASSUME NEW d \in Drivers, AdapterStep(d) PROVE IInv'
    <2> USE BoundsAssumption
    <2>1. PICK e \in 1..MaxEpoch :
             \/ OfferNotification(d, e)
             \/ \E g \in 1..MaxGeneration :
                   \/ WithdrawUnconfirmedOffer(d, e, g)
                   \/ \E s \in DeliveryState : RecordDeliveryOutcome(d, e, g, s)
                   \/ ConfirmDelivery(d, e, g)
                   \/ AckGeneration(d, e, g)
      BY <1>3 DEF AdapterStep
    <2>2. e \in Nat /\ \A g \in 1..MaxGeneration : g \in Nat
      OBVIOUS
    <2> QED
      BY <2>1, <2>2, OfferInv, WithdrawInv, RecordInv, ConfirmInv,
         AckGenerationInv
  <1>4. ASSUME NEW d \in Drivers, CliReconcile(d) \/ CliAck(d) PROVE IInv'
    BY <1>4, ReconcileInv, CliAckInv
  <1>5. ASSUME NEW d \in Drivers, CliCrash(d) PROVE IInv'
    BY <1>5 DEF CliCrash, IInv, TypeOK, DriverInv, Active
  <1>6. ASSUME NEW d \in Drivers, DisableDriverAuthority(d) PROVE IInv'
    BY <1>6, DisableInv
  <1>7. CASE UNCHANGED vars
    BY <1>7 DEF vars, IInv, TypeOK, DriverInv, Active
  <1> QED BY <1>1, <1>2, <1>3, <1>4, <1>5, <1>6, <1>7 DEF Next

-----------------------------------------------------------------------------
(* The inductive invariant holds in every reachable state.                  *)
LEMMA Invariance == Spec => []IInv
  BY InitInv, NextInv, PTL DEF Spec

(* Every row of the ledger keeps its type.                                  *)
THEOREM TypeCorrect == Spec => []TypeOK
  <1>1. IInv => TypeOK
    BY DEF IInv
  <1> QED BY <1>1, Invariance, PTL

(* acked <= delivered <= latest for every driver, and every active driver's *)
(* newest generation is the global one: the table's CHECKs never fire.      *)
THEOREM CursorsOrdered == Spec => []CursorOrder
  <1>1. IInv => CursorOrder
    BY IInvParts
  <1> QED BY <1>1, Invariance, PTL

(* reconcile_delivered always finds the confirmed offer of the generation   *)
(* it is asked to consume.                                                  *)
THEOREM DeliveredAlwaysConfirmed == Spec => []DeliveredHasConfirmedOffer
  <1>1. IInv => DeliveredHasConfirmedOffer
    BY IInvParts
  <1> QED BY <1>1, Invariance, PTL

(* Never two outstanding wakes in an epoch, and never N+1 while N is unread *)
THEOREM SingleOutstandingOffer == Spec => []OneOutstandingOffer
  <1>1. IInv => OneOutstandingOffer
    BY IInvParts
  <1> QED BY <1>1, Invariance, PTL

(* offer_notification never violates the primary key of delivery_offers.    *)
THEOREM OffersNeverCollide == Spec => []OfferNeverCollides
  <1>1. IInv => OfferNeverCollides
    <2> SUFFICES ASSUME IInv, NEW d \in Drivers, Active(d),
                        Outstanding(d) = {}, NEW g \in Frontier(d)
                 PROVE  Key(epoch[d], g) \notin offered[d]
      BY DEF OfferNeverCollides
    <2> QED BY FrontierFresh
  <1> QED BY <1>1, Invariance, PTL

(* A disabled driver has no registration and no offer left.                 *)
THEOREM DisabledHasNone == Spec => []DisabledHasNoAuthority
  <1>1. IInv => DisabledHasNoAuthority
    <2> SUFFICES ASSUME IInv, NEW d \in disabled
                 PROVE  epoch[d] = 0 /\ offered[d] = {}
      BY DEF DisabledHasNoAuthority
    <2>1. d \in Drivers /\ epoch[d] \in Nat /\ DriverInv(d)
      BY DEF IInv, TypeOK
    <2> QED BY <2>1 DEF DriverInv, Active
  <1> QED BY <1>1, Invariance, PTL

-----------------------------------------------------------------------------
(* Action properties.                                                       *)

(* A confirmation raises the delivered cursor only from a clean one.        *)
LEMMA ConfirmFromClean ==
  ASSUME IInv, NEW d \in Drivers, NEW e \in Nat, NEW g \in Nat,
         ConfirmDelivery(d, e, g), g > ledger[d].delivered
  PROVE  /\ Key(epoch[d], g) \in offered[d]
         /\ ledger[d].delivered = ledger[d].acked
         /\ g \in (ledger[d].acked + 1)..latest
  <1>1. /\ DriverInv(d) /\ ledger[d] \in Ledger /\ latest \in Nat
        /\ Key(epoch[d], g) \in offered[d] \ confirmed[d]
    BY DEF IInv, TypeOK, ConfirmDelivery, Bound
  <1>2. Key(epoch[d], g).epoch = epoch[d] /\ Key(epoch[d], g).gen = g
    BY DEF Key
  <1>3. g > ledger[d].acked /\ g \in 1..latest
    BY <1>1, <1>2 DEF DriverInv
  <1>4. ledger[d].delivered = ledger[d].acked
    BY <1>1, <1>2 DEF DriverInv, Ledger
  <1> QED BY <1>1, <1>3, <1>4 DEF Ledger

(* What each step does to the cursors the abstract specification sees.      *)
LEMMA StepCases ==
  ASSUME IInv, [Next]_vars
  PROVE  \/ Bump
         \/ \E d \in Drivers : Register(d)
         \/ \E d \in Drivers, e \in Nat, g \in Nat : ConfirmDelivery(d, e, g)
         \/ \E d \in Drivers, e \in Nat, g \in Nat : AckGeneration(d, e, g)
         \/ \E d \in Drivers : CliAck(d)
         \/ \E d \in Drivers : DisableDriverAuthority(d)
         \/ /\ UNCHANGED <<latest, epoch, disabled>>
            /\ \A d \in Drivers :
                  /\ ledger'[d].latest = ledger[d].latest
                  /\ ledger'[d].delivered = ledger[d].delivered
                  /\ ledger'[d].acked = ledger[d].acked
  <1> USE DEF IInv
  <1>1. CASE Bump \/ \E d \in Drivers : \/ Register(d) \/ CliAck(d)
                                        \/ DisableDriverAuthority(d)
    BY <1>1
  <1>2. ASSUME NEW d \in Drivers, CliReconcile(d) \/ CliCrash(d)
        PROVE  UNCHANGED <<latest, epoch, disabled, ledger>>
    BY <1>2 DEF CliReconcile, CliCrash
  <1>3. ASSUME NEW d \in Drivers, NEW e \in 1..MaxEpoch,
               OfferNotification(d, e) \/ \E g \in 1..MaxGeneration :
                  WithdrawUnconfirmedOffer(d, e, g)
        PROVE  UNCHANGED <<latest, epoch, disabled, ledger>>
    BY <1>3 DEF OfferNotification, WithdrawUnconfirmedOffer
  <1>4. ASSUME NEW d \in Drivers, NEW e \in 1..MaxEpoch,
               NEW g \in 1..MaxGeneration, NEW s \in DeliveryState,
               RecordDeliveryOutcome(d, e, g, s)
        PROVE  /\ UNCHANGED <<latest, epoch, disabled>>
               /\ \A x \in Drivers :
                     /\ ledger'[x].latest = ledger[x].latest
                     /\ ledger'[x].delivered = ledger[x].delivered
                     /\ ledger'[x].acked = ledger[x].acked
    BY <1>4 DEF RecordDeliveryOutcome, TypeOK, Ledger
  <1>5. ASSUME NEW e \in 1..MaxEpoch PROVE e \in Nat
    BY <1>5, BoundsAssumption
  <1>6. ASSUME NEW g \in 1..MaxGeneration PROVE g \in Nat
    BY <1>6, BoundsAssumption
  <1>7. ASSUME NEW d \in Drivers, AdapterStep(d)
        PROVE  \/ \E e \in Nat, g \in Nat : ConfirmDelivery(d, e, g)
               \/ \E e \in Nat, g \in Nat : AckGeneration(d, e, g)
               \/ /\ UNCHANGED <<latest, epoch, disabled>>
                  /\ \A x \in Drivers :
                        /\ ledger'[x].latest = ledger[x].latest
                        /\ ledger'[x].delivered = ledger[x].delivered
                        /\ ledger'[x].acked = ledger[x].acked
    BY <1>3, <1>4, <1>5, <1>6, <1>7 DEF AdapterStep
  <1>8. CASE UNCHANGED vars
    BY <1>8 DEF vars
  <1> QED BY <1>1, <1>2, <1>7, <1>8 DEF Next

(* The delivered cursor moves only to a generation the current epoch was    *)
(* offered, and only from an acknowledged one: a replaced connection can    *)
(* never consume a wake.                                                    *)
THEOREM StaleEpochNeverDelivers == Spec => DeliveredByCurrentEpochOnly
  <1>1. ASSUME IInv, [Next]_vars, NEW d \in Drivers,
               ledger'[d].delivered > ledger[d].delivered
        PROVE  /\ Key(epoch[d], ledger'[d].delivered) \in offered[d]
               /\ ledger[d].delivered = ledger[d].acked
    <2> USE DEF IInv
    <2>1. TypeOK /\ ledger[d] \in Ledger
      BY <1>1 DEF TypeOK
    <2>2. CASE Bump
      BY <2>1, <2>2, <1>1 DEF Bump, Ledger
    <2>3. ASSUME NEW x \in Drivers, Register(x) PROVE FALSE
      BY <2>1, <2>3, <1>1 DEF Register, TypeOK, Ledger, NoLedger, DriverInv, Active
    <2>4. ASSUME NEW x \in Drivers, NEW e \in Nat, NEW g \in Nat,
                 ConfirmDelivery(x, e, g)
          PROVE  /\ Key(epoch[d], ledger'[d].delivered) \in offered[d]
                 /\ ledger[d].delivered = ledger[d].acked
      <3>1. x = d
        BY <2>1, <2>4, <1>1 DEF ConfirmDelivery, TypeOK, Ledger
      <3>2. ledger'[d].delivered = g /\ g > ledger[d].delivered
        BY <2>1, <2>4, <3>1, <1>1 DEF ConfirmDelivery, TypeOK, Ledger
      <3> QED BY <2>4, <3>1, <3>2, <1>1, ConfirmFromClean
    <2>5. ASSUME NEW x \in Drivers, NEW e \in Nat, NEW g \in Nat,
                 AckGeneration(x, e, g)
          PROVE  FALSE
      BY <2>1, <2>5, <1>1 DEF AckGeneration, TypeOK, Ledger
    <2>6. ASSUME NEW x \in Drivers, CliAck(x) PROVE FALSE
      BY <2>1, <2>6, <1>1 DEF CliAck, TypeOK, Ledger
    <2>7. ASSUME NEW x \in Drivers, DisableDriverAuthority(x) PROVE FALSE
      BY <2>1, <2>7, <1>1 DEF DisableDriverAuthority, TypeOK, Ledger, NoLedger
    <2>8. CASE ledger'[d].delivered = ledger[d].delivered
      BY <2>1, <2>8, <1>1 DEF Ledger
    <2> QED BY <2>2, <2>3, <2>4, <2>5, <2>6, <2>7, <2>8, <1>1, StepCases
  <1>2. IInv /\ [Next]_vars =>
          [\A d \in Drivers :
              ledger'[d].delivered > ledger[d].delivered =>
                 /\ Key(epoch[d], ledger'[d].delivered) \in offered[d]
                 /\ ledger[d].delivered = ledger[d].acked]_vars
    BY <1>1
  <1> QED BY <1>2, Invariance, PTL DEF Spec, DeliveredByCurrentEpochOnly

-----------------------------------------------------------------------------
(* What a client's run has printed: everything above the ACK cursor up to     *)
(* what it will acknowledge, as long as its driver keeps its registration.     *)
CliPrinted(d) ==
    cli[d] # 0 =>
        \/ d \in disabled
        \/ Active(d) /\ (ledger[d].acked + 1)..cli[d] \subseteq reported[d]

CliInv == \A d \in Drivers : CliPrinted(d)

(* A step that takes neither the registration nor a printed generation away   *)
(* from a driver, and does not move its ACK cursor down, keeps that.           *)
LEMMA PrintedFrame ==
  ASSUME NEW d \in Drivers, CliPrinted(d),
         ledger[d].acked \in Nat, ledger'[d].acked \in Nat, cli[d] \in Nat,
         ledger'[d].acked >= ledger[d].acked,
         cli'[d] \in {cli[d], 0}, reported[d] \subseteq reported'[d],
         disabled \subseteq disabled', Active(d) => epoch'[d] > 0
  PROVE  CliPrinted(d)'
  BY DEF CliPrinted, Active

LEMMA CliInvStep == IInv /\ CliInv /\ [Next]_vars => CliInv'
  <1> SUFFICES ASSUME IInv, CliInv, [Next]_vars, NEW d \in Drivers
               PROVE  CliPrinted(d)'
    BY DEF CliInv
  <1>0. /\ TypeOK /\ ledger[d] \in Ledger /\ cli[d] \in Nat
        /\ ledger[d].acked \in Nat /\ DriverInv(d) /\ CliPrinted(d)
    BY DEF IInv, TypeOK, Ledger, CliInv
  <1>1. CASE Bump
    BY <1>0, <1>1, PrintedFrame DEF Bump, TypeOK, Ledger, Active
  <1>2. ASSUME NEW x \in Drivers, Register(x) PROVE CliPrinted(d)'
    <2>1. CASE x # d \/ Active(d)
      BY <1>0, <1>2, <2>1, PrintedFrame DEF Register, TypeOK, Ledger, Active
    <2>2. CASE x = d /\ ~Active(d)
      BY <1>0, <1>2, <2>2 DEF Register, TypeOK, CliPrinted
    <2> QED BY <2>1, <2>2
  <1>3. ASSUME NEW x \in Drivers, AdapterStep(x) PROVE CliPrinted(d)'
    <2>1. ASSUME NEW e \in 1..MaxEpoch, NEW g \in 1..MaxGeneration,
                 WithdrawUnconfirmedOffer(x, e, g)
          PROVE  CliPrinted(d)'
      BY <1>0, <2>1, PrintedFrame DEF WithdrawUnconfirmedOffer, TypeOK, Active
    <2>2. ASSUME NEW e \in 1..MaxEpoch, NEW g \in 1..MaxGeneration,
                 NEW s \in DeliveryState, RecordDeliveryOutcome(x, e, g, s)
          PROVE  CliPrinted(d)'
      BY <1>0, <2>2, PrintedFrame DEF RecordDeliveryOutcome, TypeOK, Ledger, Active
    <2>3. ASSUME NEW e \in 1..MaxEpoch, NEW g \in 1..MaxGeneration,
                 ConfirmDelivery(x, e, g)
          PROVE  CliPrinted(d)'
      BY <1>0, <2>3, PrintedFrame DEF ConfirmDelivery, TypeOK, Ledger, Active
    <2>4. ASSUME NEW e \in 1..MaxEpoch, NEW g \in 1..MaxGeneration,
                 AckGeneration(x, e, g)
          PROVE  CliPrinted(d)'
      BY <1>0, <2>4, BoundsAssumption, PrintedFrame DEF AckGeneration, TypeOK, Ledger, Active
    <2>5. ASSUME NEW e \in 1..MaxEpoch, OfferNotification(x, e) PROVE CliPrinted(d)'
      BY <1>0, <2>5, PrintedFrame DEF OfferNotification, TypeOK, Active
    <2> QED BY <1>3, <2>1, <2>2, <2>3, <2>4, <2>5 DEF AdapterStep
  <1>4. ASSUME NEW x \in Drivers, CliReconcile(x) PROVE CliPrinted(d)'
    <2>1. CASE x # d
      BY <1>0, <1>4, <2>1, PrintedFrame DEF CliReconcile, TypeOK, Active
    <2>2. CASE x = d
      BY <1>0, <1>4, <2>2 DEF CliReconcile, TypeOK, CliPrinted, Active
    <2> QED BY <2>1, <2>2
  <1>5. ASSUME NEW x \in Drivers, CliAck(x) PROVE CliPrinted(d)'
    <2>1. CASE x # d
      BY <1>0, <1>5, <2>1, PrintedFrame DEF CliAck, TypeOK, Ledger, Active
    <2>2. CASE x = d
      BY <1>0, <1>5, <2>2 DEF CliAck, TypeOK, CliPrinted
    <2> QED BY <2>1, <2>2
  <1>6. ASSUME NEW x \in Drivers, CliCrash(x) PROVE CliPrinted(d)'
    BY <1>0, <1>6, PrintedFrame DEF CliCrash, TypeOK, Active
  <1>7. ASSUME NEW x \in Drivers, DisableDriverAuthority(x) PROVE CliPrinted(d)'
    <2>1. CASE x # d
      BY <1>0, <1>7, <2>1, PrintedFrame DEF DisableDriverAuthority, TypeOK, Ledger, Active
    <2>2. CASE x = d
      BY <1>7, <2>2 DEF DisableDriverAuthority, CliPrinted
    <2> QED BY <2>1, <2>2
  <1>8. CASE UNCHANGED vars
    BY <1>0, <1>8 DEF vars, CliPrinted, Active
  <1> QED BY <1>1, <1>2, <1>3, <1>4, <1>5, <1>6, <1>7, <1>8 DEF Next

(* A client's run ends with an ACK that covers only what it printed: bumps,    *)
(* reconnects, confirmations, an adapter's ACK and the driver's release may    *)
(* all come between its two requests.                                        *)
THEOREM CliAckIsHonest == Spec => CliAcksOnlyReported
  <1>1. Init => CliInv
    BY DEF Init, CliInv, CliPrinted
  <1>2. ASSUME IInv, CliInv, [Next]_vars, NEW d \in Drivers,
               cli[d] # 0, cli'[d] = 0, ledger'[d].acked > ledger[d].acked
        PROVE  (ledger[d].acked + 1)..ledger'[d].acked \subseteq reported[d]
    <2>0. /\ TypeOK /\ ledger[d] \in Ledger /\ DriverInv(d) /\ CliPrinted(d)
          /\ ledger[d].acked \in Nat /\ cli[d] \in Nat
      BY <1>2 DEF IInv, TypeOK, Ledger, CliInv
    <2>1. CASE CliAck(d)
      <3>1. /\ ledger'[d].acked = cli[d]
            /\ AckAccepted(d, cli[d])
        BY <1>2, <2>0, <2>1 DEF CliAck, TypeOK, Ledger
      <3> QED BY <1>2, <2>0, <3>1 DEF CliPrinted, AckAccepted, DriverInv
    <2>2. CASE CliCrash(d)
      BY <1>2, <2>0, <2>2 DEF CliCrash
    <2>3. CASE ~CliAck(d) /\ ~CliCrash(d)
      <3>1. ASSUME NEW x \in Drivers, x # d, CliAck(x) \/ CliCrash(x) PROVE FALSE
        BY <1>2, <2>0, <3>1 DEF CliAck, CliCrash, TypeOK
      <3>2. ASSUME NEW x \in Drivers, CliReconcile(x) PROVE FALSE
        BY <1>2, <2>0, <3>2 DEF CliReconcile
      <3>3. ASSUME NEW x \in Drivers, Bump \/ Register(x) \/ DisableDriverAuthority(x)
            PROVE  FALSE
        BY <1>2, <3>3 DEF Bump, Register, DisableDriverAuthority
      <3>4. ASSUME NEW x \in Drivers, AdapterStep(x) PROVE cli' = cli
        BY <3>4 DEF AdapterStep, OfferNotification, WithdrawUnconfirmedOffer,
                    RecordDeliveryOutcome, ConfirmDelivery, AckGeneration
      <3>5. CASE UNCHANGED vars
        BY <1>2, <3>5 DEF vars
      <3> QED BY <1>2, <2>3, <3>1, <3>2, <3>3, <3>4, <3>5 DEF Next
    <2> QED BY <2>1, <2>2, <2>3
  <1>3. IInv /\ CliInv /\ [Next]_vars =>
          [\A d \in Drivers :
             (cli[d] # 0 /\ cli'[d] = 0 /\ ledger'[d].acked > ledger[d].acked) =>
                (ledger[d].acked + 1)..ledger'[d].acked \subseteq reported[d]]_vars
    BY <1>2
  <1> QED BY <1>1, <1>3, CliInvStep, Invariance, PTL DEF Spec, CliAcksOnlyReported

-----------------------------------------------------------------------------
(* Refinement.                                                              *)

LEMMA InitRefines == Init => Cursor!Init
  BY DEF Init, Cursor!Init, Active, NoLedger

LEMMA StepRefines == IInv /\ [Next]_vars => [Cursor!Next]_Cursor!wcvars
  <1> SUFFICES ASSUME IInv, [Next]_vars PROVE [Cursor!Next]_Cursor!wcvars
    OBVIOUS
  <1> USE DEF Cursor!Next, Cursor!wcvars
  <1>0. /\ TypeOK /\ \A x \in Drivers : DriverInv(x)
        /\ ledger \in [Drivers -> Ledger] /\ epoch \in [Drivers -> Nat]
        /\ \A x \in Drivers : ledger[x] \in Ledger
    BY DEF IInv, TypeOK
  <1>1. CASE Bump
    BY <1>0, <1>1 DEF Bump, Cursor!Publish, Active, Ledger
  <1>2. ASSUME NEW d \in Drivers, Register(d)
        PROVE  [Cursor!Next]_Cursor!wcvars
    <2>1. CASE Active(d)
      BY <1>0, <1>2, <2>1 DEF Register, Active
    <2>2. CASE ~Active(d)
      <3>1. Cursor!Enrol(d)
        <4>1. /\ d \notin disabled /\ latest' = latest
              /\ disabled' = disabled
              /\ \A x \in Drivers :
                    Active(x)' <=> (Active(x) \/ x = d)
          BY <1>0, <1>2, <2>2 DEF Register, Active
        <4>2. \A x \in Drivers :
                 /\ ledger'[x].delivered = ledger[x].delivered
                 /\ ledger'[x].acked = ledger[x].acked
          BY <1>0, <1>2, <2>2 DEF Register, DriverInv, NoLedger, Ledger
        <4> QED BY <2>2, <4>1, <4>2 DEF Cursor!Enrol
      <3> QED BY <3>1
    <2> QED BY <2>1, <2>2
  <1>3. ASSUME NEW d \in Drivers, NEW e \in Nat, NEW g \in Nat,
               ConfirmDelivery(d, e, g)
        PROVE  [Cursor!Next]_Cursor!wcvars
    <2>1. CASE g > ledger[d].delivered
      <3>1. /\ ledger[d].delivered = ledger[d].acked
            /\ g \in (ledger[d].acked + 1)..latest
        BY <1>3, <2>1, ConfirmFromClean
      <3>2. Cursor!Wake(d)
        BY <1>0, <1>3, <2>1, <3>1
        DEF ConfirmDelivery, Bound, Cursor!Wake, Active, DriverInv, Ledger
      <3> QED BY <3>2
    <2>2. CASE ~(g > ledger[d].delivered)
      BY <1>0, <1>3, <2>2 DEF ConfirmDelivery, Active, Ledger
    <2> QED BY <2>1, <2>2
  <1>4. ASSUME NEW d \in Drivers, NEW e \in Nat, NEW g \in Nat,
               AckGeneration(d, e, g)
        PROVE  [Cursor!Next]_Cursor!wcvars
    <2>1. Cursor!Acknowledge(d)
      <3>a. /\ g \in (ledger[d].acked + 1)..ledger[d].delivered
            /\ Active(d) /\ d \notin disabled
            /\ latest' = latest /\ epoch' = epoch /\ disabled' = disabled
        BY <1>0, <1>4 DEF AckGeneration, Bound, DriverInv, Ledger
      <3>b. \A x \in Drivers :
               /\ ledger'[x].delivered = ledger[x].delivered
               /\ ledger'[x].acked = IF x = d THEN g ELSE ledger[x].acked
        BY <1>0, <1>4 DEF AckGeneration, Bound, Ledger
      <3>c. [x \in Drivers |-> ledger'[x].acked]
               = [[x \in Drivers |-> ledger[x].acked] EXCEPT ![d] = g]
        BY <3>b
      <3>d. [x \in Drivers |-> ledger'[x].delivered]
               = [x \in Drivers |-> ledger[x].delivered]
        BY <3>b
      <3> QED BY <3>a, <3>c, <3>d DEF Cursor!Acknowledge, Active
    <2> QED BY <2>1
  <1>5. ASSUME NEW d \in Drivers, CliAck(d)
        PROVE  [Cursor!Next]_Cursor!wcvars
    <2>1. CASE AckAccepted(d, cli[d]) /\ ledger' # ledger
      <3>1. Cursor!Acknowledge(d)
        <4>a. /\ cli[d] \in (ledger[d].acked + 1)..ledger[d].delivered
              /\ Active(d) /\ d \notin disabled
              /\ latest' = latest /\ epoch' = epoch /\ disabled' = disabled
          BY <1>0, <1>5, <2>1 DEF CliAck, AckAccepted, DriverInv, Ledger
        <4>b. \A x \in Drivers :
                 /\ ledger'[x].delivered = ledger[x].delivered
                 /\ ledger'[x].acked = IF x = d THEN cli[d] ELSE ledger[x].acked
          BY <1>0, <1>5, <2>1 DEF CliAck, AckAccepted, Ledger
        <4>c. [x \in Drivers |-> ledger'[x].acked]
                 = [[x \in Drivers |-> ledger[x].acked] EXCEPT ![d] = cli[d]]
          BY <4>b
        <4>d. [x \in Drivers |-> ledger'[x].delivered]
                 = [x \in Drivers |-> ledger[x].delivered]
          BY <4>b
        <4> QED BY <4>a, <4>c, <4>d DEF Cursor!Acknowledge, Active
      <3> QED BY <3>1
    <2>2. CASE ledger' = ledger
      BY <1>0, <1>5, <2>2 DEF CliAck, Active
    <2> QED BY <1>5, <2>1, <2>2 DEF CliAck
  <1>6. ASSUME NEW d \in Drivers, DisableDriverAuthority(d)
        PROVE  [Cursor!Next]_Cursor!wcvars
    <2>1. Cursor!Release(d)
      BY <1>0, <1>6
      DEF DisableDriverAuthority, Cursor!Release, Active, DriverInv, Ledger,
          NoLedger
    <2> QED BY <2>1
  <1>7. CASE /\ UNCHANGED <<latest, epoch, disabled>>
             /\ \A d \in Drivers :
                   /\ ledger'[d].latest = ledger[d].latest
                   /\ ledger'[d].delivered = ledger[d].delivered
                   /\ ledger'[d].acked = ledger[d].acked
    BY <1>7 DEF Active
  <1> QED BY <1>1, <1>2, <1>3, <1>4, <1>5, <1>6, <1>7, StepCases

(* The ledger implements the abstract cursor for every driver set.          *)
THEOREM LedgerImplementsWakeCursor == Spec => ImplementsWakeCursor
  BY InitRefines, StepRefines, Invariance, PTL
  DEF Spec, ImplementsWakeCursor, Cursor!Spec

-----------------------------------------------------------------------------
(* The adapter of the resident Pi session over the ledger.  First, a non-empty set of     *)
(* naturals has a least element, for the recursive function that Events is.            *)
LEMMA Least ==
  ASSUME NEW S \in SUBSET Nat, S # {}
  PROVE  \E x \in S : \A y \in S : x <= y
  <1> DEFINE Less == OpToRel(<, Nat)
  <1>1. IsWellFoundedOn(Less, Nat)
    BY NatLessThanWellFounded
  <1>2. \A x, y \in Nat : <<y, x>> \in Less <=> y < x
    BY DEF OpToRel
  <1> HIDE DEF Less
  <1>3. PICK x \in S : \A y \in S : <<y, x>> \notin Less
    BY <1>1, WFMin
  <1>4. ASSUME NEW y \in S PROVE ~(y < x)
    BY <1>2, <1>3
  <1>5. x \in Nat /\ \A y \in S : y \in Nat
    OBVIOUS
  <1>6. \A y \in S : x <= y
    BY <1>4, <1>5
  <1> QED BY <1>6

(* Induction over the naturals, for a set: Nat has no least element outside T.      *)
LEMMA Induct ==
  ASSUME NEW T, 0 \in T, \A n \in Nat : n \in T => n + 1 \in T
  PROVE  \A n \in Nat : n \in T
  <1> DEFINE Bad == {n \in Nat : n \notin T}
  <1>1. SUFFICES ASSUME Bad # {} PROVE FALSE
    OBVIOUS
  <1>2. PICK x \in Bad : \A y \in Bad : x <= y
    BY <1>1, Least
  <1>3. x # 0 /\ x - 1 \in Nat /\ (x - 1) + 1 = x /\ ~(x <= x - 1)
    BY <1>2
  <1> QED BY <1>2, <1>3

(* Events: the function it is defined by exists, and keeps events only.               *)
Longer(kept, item) == IF IsEvent(item) THEN Append(kept, item) ELSE kept

Kept(f, queue, n) ==
    f = [i \in 0..n |-> IF i = 0 THEN <<>> ELSE Longer(f[i - 1], queue[i])]

LEMMA KeptExists ==
  ASSUME NEW queue
  PROVE  \A n \in Nat : \E f : Kept(f, queue, n)
  <1> DEFINE T == {n \in Nat : \E f : Kept(f, queue, n)}
  <1>1. 0 \in T
    <2>1. Kept([i \in 0..0 |-> <<>>], queue, 0)
      BY DEF Kept
    <2> QED BY <2>1
  <1>2. ASSUME NEW n \in Nat, n \in T PROVE n + 1 \in T
    <2>1. PICK f : f = [i \in 0..n |-> IF i = 0 THEN <<>> ELSE Longer(f[i - 1], queue[i])]
      BY <1>2 DEF Kept
    <2> DEFINE g == [i \in 0..(n + 1) |->
                       IF i = n + 1
                       THEN Longer(f[n], queue[n + 1])
                       ELSE f[i]]
    <2>2. ASSUME NEW i \in 0..(n + 1)
          PROVE  g[i] = IF i = 0 THEN <<>> ELSE Longer(g[i - 1], queue[i])
      <3>1. CASE i = 0
        BY <2>1, <3>1
      <3>2. CASE i = n + 1
        <4>1. g[i - 1] = f[n]
          BY <3>2
        <4> QED BY <3>2, <4>1
      <3>3. CASE i \in 1..n
        <4>1. g[i] = f[i] /\ g[i - 1] = f[i - 1]
          BY <3>3
        <4>2. f[i] = Longer(f[i - 1], queue[i])
          BY <2>1, <3>3
        <4> QED BY <3>3, <4>1, <4>2
      <3> QED BY <3>1, <3>2, <3>3
    <2>3. Kept(g, queue, n + 1)
      <3>1. g = [i \in 0..(n + 1) |-> g[i]]
        OBVIOUS
      <3> HIDE DEF g
      <3> QED BY <2>2, <3>1 DEF Kept
    <2> QED BY <2>3
  <1> HIDE DEF T
  <1>3. \A n \in Nat : n \in T
    BY <1>1, <1>2, Induct
  <1> QED BY <1>3 DEF T

LEMMA EventsOf ==
  ASSUME NEW S, NEW queue \in Seq(S)
  PROVE  Events(queue) \in Seq({x \in S : IsEvent(x)})
  <1> DEFINE E == {x \in S : IsEvent(x)}
             g == CHOOSE f : Kept(f, queue, Len(queue))
  <1>1. Len(queue) \in Nat /\ \A i \in 1..Len(queue) : queue[i] \in S
    OBVIOUS
  <1>2. Kept(g, queue, Len(queue))
    BY <1>1, KeptExists
  <1>3. Events(queue) = g[Len(queue)]
    BY DEF Events, Kept, Longer
  <1> HIDE DEF g
  <1>4. g[0] = <<>>
    BY <1>1, <1>2 DEF Kept
  <1>5. ASSUME NEW i \in 1..Len(queue)
        PROVE  g[i] = Longer(g[i - 1], queue[i])
    <2>1. g = [j \in 0..Len(queue) |-> IF j = 0 THEN <<>> ELSE Longer(g[j - 1], queue[j])]
      BY <1>2 DEF Kept
    <2>2. i \in 0..Len(queue) /\ i # 0
      BY <1>1
    <2> QED BY <2>1, <2>2
  <1> DEFINE T == {n \in Nat : n <= Len(queue) => g[n] \in Seq(E)}
  <1>6. 0 \in T
    <2> HIDE DEF E
    <2>1. <<>> \in Seq(E)
      OBVIOUS
    <2> QED BY <1>4, <2>1
  <1>7. ASSUME NEW n \in Nat, n \in T PROVE n + 1 \in T
    <2>1. SUFFICES ASSUME n + 1 <= Len(queue) PROVE g[n + 1] \in Seq(E)
      OBVIOUS
    <2>2. n + 1 \in 1..Len(queue) /\ n + 1 - 1 = n /\ g[n] \in Seq(E)
      BY <1>1, <1>7, <2>1
    <2>3. g[n + 1] = IF IsEvent(queue[n + 1]) THEN Append(g[n], queue[n + 1]) ELSE g[n]
      BY <1>5, <2>2 DEF Longer
    <2>4. IsEvent(queue[n + 1]) => queue[n + 1] \in E
      BY <1>1, <2>2
    <2> HIDE DEF E
    <2>5. IsEvent(queue[n + 1]) => Append(g[n], queue[n + 1]) \in Seq(E)
      BY <2>2, <2>4
    <2> QED BY <2>2, <2>3, <2>5
  <1> HIDE DEF T
  <1>8. Len(queue) \in T
    BY <1>1, <1>6, <1>7, Induct
  <1> QED BY <1>1, <1>3, <1>8 DEF T

(* The request under way is one or none, and as a sequence that is.                   *)
LEMMA SeqOfOne ==
  ASSUME NEW S, S = {} \/ \E x : S = {x}
  PROVE  SetToSeq(S) \in Seq(S)
  <1>1. CASE S = {}
    <2>1. Cardinality(S) = 0
      BY <1>1, FS_EmptySet
    <2>2. \E f \in [1..Cardinality(S) -> S] : IsInjective(f)
      <3>1. <<>> \in [1..0 -> S]
        OBVIOUS
      <3>2. IsInjective(<<>>)
        BY DEF IsInjective
      <3> QED BY <2>1, <3>1, <3>2
    <2>3. SetToSeq(S) \in [1..0 -> S]
      BY <2>1, <2>2 DEF SetToSeq
    <2> QED BY <2>3
  <1>2. CASE \E x : S = {x}
    <2>1. PICK x : S = {x}
      BY <1>2
    <2>2. Cardinality(S) = 1
      BY <2>1, FS_Singleton
    <2>3. \E f \in [1..Cardinality(S) -> S] : IsInjective(f)
      <3>1. [i \in 1..1 |-> x] \in [1..1 -> S] /\ IsInjective([i \in 1..1 |-> x])
        BY <2>1 DEF IsInjective
      <3> QED BY <2>2, <3>1
    <2>4. PICK f : f = SetToSeq(S)
      OBVIOUS
    <2>5. f \in [1..1 -> S]
      BY <2>2, <2>3, <2>4 DEF SetToSeq
    <2>6. /\ f = [i \in 1..1 |-> f[i]] /\ \A i \in 1..1 : f[i] \in S /\ 1 \in Nat
      BY <2>5
    <2>7. f \in Seq(S)
      <3>1. [i \in 1..1 |-> f[i]] \in Seq(S)
        BY <2>6, IsASeq
      <3> QED BY <2>6, <3>1
    <2> QED BY <2>4, <2>7
  <1> QED BY <1>1, <1>2

-----------------------------------------------------------------------------
(* What a client holds of its own connection's wakes and of the events: a          *)
(* confirmation is for a wake that was put into the session on that connection.        *)
OwedBy(w, c) ==
    {i \in Item : /\ i.kind = "delivered" => [conn |-> c, gen |-> i.n] \in w
                  /\ i.kind = "event" => i.n \in 1..MaxEvents}

ClientOk(p, w) ==
    /\ p \in Client
    /\ p.registered => p.cur # 0
    /\ p.pending # {} => p.registered
    /\ p.pending = {} \/ \E i \in Item : p.pending = {i}
    /\ p.queue \in Seq(OwedBy(w, p.cur))
    /\ p.pending \subseteq OwedBy(w, p.cur)

ConnOk(k, c, w) ==
    k \in Connection /\ k.in \in Seq(OwedBy(w, c) \union {Register_})

ConnsOk(k, w) == k \in [Conns -> Connection] /\ \A c \in Conns : ConnOk(k[c], c, w)

(* The ledger within its bounds.                                                  *)
Within == latest <= MaxGeneration /\ \A d \in Drivers : epoch[d] <= MaxEpoch

(* The rest of the adapter's state.                                               *)
RestOk ==
    /\ drops \in 0..MaxDrops
    /\ waking \subseteq Wake /\ woken \subseteq Wake
    /\ accepted \subseteq 1..MaxEvents

Local == ClientOk(pi, woken) /\ ConnsOk(conn, woken) /\ RestOk

AdapterIInv == IInv /\ Within /\ Local

LEMMA AdapterInitInv == AdapterInit => AdapterIInv
  <1> SUFFICES ASSUME AdapterInit PROVE AdapterIInv
    OBVIOUS
  <1> USE AdapterAssumption, BoundsAssumption
  <1>1. IInv
    BY InitInv DEF AdapterInit
  <1>2. Within
    BY DEF AdapterInit, Init, Within
  <1>3. ClientOk(pi, woken)
    <2>1. /\ pi.cur = 0 /\ pi.registered = FALSE /\ pi.queue = <<>> /\ pi.pending = {}
          /\ <<>> \in Seq(Item) /\ <<>> \in Seq(Nat)
      BY DEF AdapterInit
    <2>2. pi \in Client
      BY <2>1 DEF AdapterInit, Client
    <2> QED BY <2>1, <2>2 DEF ClientOk
  <1>4. ConnsOk(conn, woken)
    <2>1. NewConnection \in Connection /\ NewConnection.in = <<>>
      BY DEF NewConnection, Connection
    <2>2. \A w, c : <<>> \in Seq(OwedBy(w, c) \union {Register_})
      OBVIOUS
    <2>3. conn = [c \in Conns |-> NewConnection]
      BY DEF AdapterInit
    <2>4. conn \in [Conns -> Connection] /\ \A c \in Conns : conn[c] = NewConnection
      BY <2>1, <2>3
    <2> QED BY <2>1, <2>2, <2>4 DEF ConnsOk, ConnOk
  <1>5. RestOk
    BY DEF AdapterInit, RestOk
  <1> QED BY <1>1, <1>2, <1>3, <1>4, <1>5 DEF AdapterIInv, Local

(* More wakes owe no less; and what an absent connection owes, every one may.        *)
LEMMA MoreWakes ==
  ASSUME NEW w, NEW v, w \subseteq v, NEW c
  PROVE  OwedBy(w, c) \subseteq OwedBy(v, c)
  BY DEF OwedBy

LEMMA ClientMoreWakes ==
  ASSUME NEW w, NEW v, w \subseteq v, NEW p, ClientOk(p, w)
  PROVE  ClientOk(p, v)
  <1>1. OwedBy(w, p.cur) \subseteq OwedBy(v, p.cur)
    BY MoreWakes
  <1>2. p.queue \in Seq(OwedBy(v, p.cur))
    BY <1>1, SeqMonotonic DEF ClientOk
  <1> QED BY <1>1, <1>2 DEF ClientOk

LEMMA ConnsMoreWakes ==
  ASSUME NEW w, NEW v, w \subseteq v, NEW k, ConnsOk(k, w)
  PROVE  ConnsOk(k, v)
  <1>1. ASSUME NEW c \in Conns PROVE ConnOk(k[c], c, v)
    <2>1. OwedBy(w, c) \union {Register_} \subseteq OwedBy(v, c) \union {Register_}
      BY MoreWakes
    <2>2. ConnOk(k[c], c, w)
      BY DEF ConnsOk
    <2> QED BY <2>1, <2>2, SeqMonotonic DEF ConnOk
  <1> QED BY <1>1 DEF ConnsOk

-----------------------------------------------------------------------------
(* The client. What a queue's head, tail and extension are.                          *)
LEMMA Queues ==
  ASSUME NEW S, NEW q \in Seq(S)
  PROVE  /\ q # <<>> => Head(q) \in S /\ Tail(q) \in Seq(S)
         /\ \A x \in S : Append(q, x) \in Seq(S) /\ <<x>> \o q \in Seq(S)
         /\ <<>> \in Seq(S)
  <1>1. q # <<>> => Head(q) \in S /\ Tail(q) \in Seq(S)
    BY HeadTailProperties
  <1>2. ASSUME NEW x \in S PROVE Append(q, x) \in Seq(S) /\ <<x>> \o q \in Seq(S)
    <2>1. Append(q, x) \in Seq(S)
      BY AppendProperties
    <2>2. <<x>> \in Seq(S)
      OBVIOUS
    <2>3. <<x>> \o q \in Seq(S)
      BY <2>2, ConcatProperties
    <2> QED BY <2>1, <2>3
  <1>3. <<>> \in Seq(S)
    OBVIOUS
  <1> QED BY <1>1, <1>2, <1>3

LEMMA ItemSeqs ==
  ASSUME NEW w, NEW c
  PROVE  /\ OwedBy(w, c) \subseteq Item
         /\ \A q \in Seq(OwedBy(w, c)) : q \in Seq(Item)
  <1>1. OwedBy(w, c) \subseteq Item
    BY DEF OwedBy
  <1>2. ASSUME NEW q \in Seq(OwedBy(w, c)) PROVE q \in Seq(Item)
    BY <1>1, SeqMonotonic
  <1> QED BY <1>1, <1>2

(* A client that only changes what the requests do not depend on.                       *)
LEMMA SameRequests ==
  ASSUME NEW w, NEW p, ClientOk(p, w), NEW n \in Client,
         n.cur = p.cur, n.pending = p.pending, n.queue = p.queue,
         p.registered => n.registered, n.registered => n.cur # 0
  PROVE  ClientOk(n, w)
  BY DEF ClientOk

LEMMA FlushKeeps ==
  ASSUME NEW w, NEW p, NEW k, ClientOk(p, w), ConnsOk(k, w), ClientIs(p, k)
  PROVE  ClientOk(pi', w) /\ ConnsOk(conn', w)
  <1>1. CASE ~CanFlush(p)
    <2>1. pi' = p /\ conn' = k
      BY <1>1 DEF ClientIs, Flushed
    <2> QED BY <2>1
  <1>2. CASE CanFlush(p)
    <2> DEFINE h == Head(p.queue)
               t == Tail(p.queue)
               O == OwedBy(w, p.cur)
    <2>1. /\ pi' = [p EXCEPT !.pending = {Head(p.queue)}, !.queue = Tail(@)]
          /\ conn' = [k EXCEPT ![p.cur].in = Append(@, h)]
          /\ p.registered /\ p.queue # <<>>
      BY <1>2 DEF ClientIs, Flushed, CanFlush
    <2>2. /\ p \in Client /\ p.cur # 0 /\ p.queue \in Seq(O)
      BY <2>1 DEF ClientOk
    <2>3. h \in O /\ t \in Seq(O) /\ O \subseteq Item /\ t \in Seq(Item)
      BY <2>1, <2>2, Queues, ItemSeqs
    <2>4. p.cur \in Conns
      BY <2>2, AdapterAssumption DEF Client, Conns
    <2>5. pi' = [p EXCEPT !.pending = {h}, !.queue = t]
      BY <2>1
    <2> HIDE DEF h, t, O
    <2>6. ClientOk(pi', w)
      <3> DEFINE n == [p EXCEPT !.pending = {h}, !.queue = t]
      <3>0. {h} \in SUBSET Item /\ t \in Seq(Item) /\ p \in Client
        BY <2>2, <2>3
      <3>1. n \in Client
        BY <3>0 DEF Client
      <3>2. /\ n.pending = {h} /\ n.queue = t /\ n.cur = p.cur
            /\ n.registered = p.registered
        BY <3>0 DEF Client
      <3> HIDE DEF n
      <3>3. pi' = n
        BY <2>5 DEF n
      <3>4. /\ pi' \in Client /\ pi'.pending = {h} /\ pi'.queue = t /\ pi'.cur = p.cur
            /\ pi'.registered
        BY <2>1, <3>1, <3>2, <3>3
      <3> QED BY <2>2, <2>3, <3>4 DEF ClientOk, O
    <2>7. ConnsOk(conn', w)
      <3>1. k \in [Conns -> Connection] /\ \A c \in Conns : ConnOk(k[c], c, w)
        BY DEF ConnsOk
      <3>2. k[p.cur] \in Connection /\ k[p.cur].in \in Seq(O \union {Register_})
        BY <2>4, <3>1 DEF ConnOk, O
      <3> DEFINE j == Append(k[p.cur].in, h)
      <3>3. j \in Seq(O \union {Register_})
        BY <2>3, <3>2, AppendProperties
      <3>4. O \union {Register_} \subseteq Request
        BY <2>3 DEF Request
      <3>5. j \in Seq(Request)
        BY <3>3, <3>4, SeqMonotonic
      <3>6. conn' = [k EXCEPT ![p.cur] = [k[p.cur] EXCEPT !.in = j]]
        BY <2>1, <2>4, <3>1
      <3>10. j # <<>>
        BY <2>3, <3>2, AppendProperties
      <3> HIDE DEF j
      <3>7. /\ [k[p.cur] EXCEPT !.in = j] \in Connection
            /\ [k[p.cur] EXCEPT !.in = j].in = j
        BY <3>2, <3>5 DEF Connection
      <3>8. conn' \in [Conns -> Connection]
        BY <2>4, <3>1, <3>6, <3>7
      <3>9. ASSUME NEW c \in Conns PROVE ConnOk(conn'[c], c, w)
        BY <2>4, <3>1, <3>3, <3>6, <3>7, <3>9, <3>10 DEF ConnOk, O
      <3> QED BY <3>8, <3>9 DEF ConnsOk
    <2> QED BY <2>6, <2>7
  <1> QED BY <1>1, <1>2

(* A queue of which only the events stay, the one under way first.                     *)
LEMMA StillOwed ==
  ASSUME NEW w, NEW p, ClientOk(p, w)
  PROVE  SetToSeq({i \in p.pending : IsEvent(i)}) \o Events(p.queue) \in Seq(OwedBy(w, 0))
  <1> DEFINE O == OwedBy(w, p.cur)
             P == {i \in p.pending : IsEvent(i)}
             E == {x \in O : IsEvent(x)}
  <1>1. E \subseteq OwedBy(w, 0) /\ P \subseteq OwedBy(w, 0)
    BY DEF OwedBy, IsEvent, ClientOk
  <1>2. Events(p.queue) \in Seq(E)
    BY EventsOf DEF ClientOk
  <1>3. P = {} \/ \E x : P = {x}
    BY DEF ClientOk
  <1>4. SetToSeq(P) \in Seq(P)
    BY <1>3, SeqOfOne
  <1> HIDE DEF P, E
  <1>5. SetToSeq(P) \in Seq(OwedBy(w, 0)) /\ Events(p.queue) \in Seq(OwedBy(w, 0))
    BY <1>1, <1>2, <1>4, SeqMonotonic
  <1> QED BY <1>5, ConcatProperties DEF P

LEMMA DisconnectedOk ==
  ASSUME NEW w, NEW p, ClientOk(p, w)
  PROVE  ClientOk(Disconnected(p), w)
  <1> DEFINE q == SetToSeq({i \in p.pending : IsEvent(i)}) \o Events(p.queue)
             n == Disconnected(p)
  <1>1. q \in Seq(OwedBy(w, 0))
    BY StillOwed
  <1>2. n = [p EXCEPT !.cur = 0, !.registered = FALSE, !.polling = FALSE, !.told = {},
              !.delivering = 0, !.waiting = <<>>, !.pending = {}, !.queue = q]
    BY DEF Disconnected
  <1> HIDE DEF q, n
  <1>3. q \in Seq(Item) /\ <<>> \in Seq(Nat)
    BY <1>1, ItemSeqs
  <1>4. /\ n \in Client /\ n.cur = 0 /\ n.registered = FALSE
        /\ n.pending = {} /\ n.queue = q
    <2> DEFINE m == [p EXCEPT !.cur = 0, !.registered = FALSE, !.polling = FALSE, !.told = {}]
    <2>1. p \in Client /\ 0 \in 0..MaxConns /\ {} \in SUBSET Nat /\ {} \in SUBSET Item
      BY AdapterAssumption DEF ClientOk
    <2>2. m \in Client /\ m.cur = 0 /\ m.registered = FALSE
      BY <2>1 DEF Client
    <2>3. n = [m EXCEPT !.delivering = 0, !.waiting = <<>>, !.pending = {}, !.queue = q]
      BY <1>2
    <2> HIDE DEF m
    <2>4. n \in Client /\ n.cur = m.cur /\ n.registered = m.registered
      BY <1>3, <2>1, <2>2, <2>3 DEF Client
    <2>5. n.pending = {} /\ n.queue = q
      BY <2>2, <2>3 DEF Client
    <2> QED BY <2>2, <2>4, <2>5
  <1>5. ClientOk(n, w)
    BY <1>1, <1>4 DEF ClientOk
  <1> QED BY <1>5 DEF n

LEMMA ClosesKeeps ==
  ASSUME NEW w, ClientOk(pi, w), ConnsOk(conn, w), pi.cur # 0, Closes
  PROVE  ClientOk(pi', w) /\ ConnsOk(conn', w)
  <1>1. ClientOk(pi', w)
    BY DisconnectedOk DEF Closes
  <1>2. PICK in \in {conn[pi.cur].in, <<>>} :
           conn' = [conn EXCEPT ![pi.cur].out = <<>>, ![pi.cur].in = in]
    BY DEF Closes
  <1>3. pi.cur \in Conns
    BY AdapterAssumption DEF ClientOk, Client, Conns
  <1>4. conn \in [Conns -> Connection] /\ \A c \in Conns : ConnOk(conn[c], c, w)
    BY DEF ConnsOk
  <1> DEFINE k == [conn[pi.cur] EXCEPT !.out = <<>>, !.in = in]
             O == OwedBy(w, pi.cur) \union {Register_}
  <1>5. conn' = [conn EXCEPT ![pi.cur] = k]
    BY <1>2, <1>3, <1>4
  <1>6. in \in Seq(O) /\ in \in Seq(Request) /\ <<>> \in Seq(Reply)
    <2>1. conn[pi.cur].in \in Seq(O) /\ conn[pi.cur].in \in Seq(Request)
      BY <1>3, <1>4 DEF ConnOk, Connection
    <2> HIDE DEF O
    <2>2. <<>> \in Seq(O) /\ <<>> \in Seq(Request) /\ <<>> \in Seq(Reply)
      OBVIOUS
    <2> QED BY <1>2, <2>1, <2>2
  <1>7. k \in Connection /\ k.in = in
    BY <1>3, <1>4, <1>6 DEF Connection
  <1> HIDE DEF k
  <1>8. conn' \in [Conns -> Connection]
    BY <1>3, <1>4, <1>5, <1>7
  <1>9. ASSUME NEW c \in Conns PROVE ConnOk(conn'[c], c, w)
    BY <1>2, <1>3, <1>4, <1>5, <1>6, <1>7, <1>9 DEF ConnOk
  <1> QED BY <1>1, <1>8, <1>9 DEF ConnsOk

(* What the client reads off a connection changes nothing a request depends on.         *)
LEMMA ReadKeeps ==
  ASSUME NEW w, ConnsOk(conn, w), NEW c \in Conns, conn[c].out # <<>>
  PROVE  ConnsOk(Read(c), w) /\ Head(conn[c].out) \in Reply
  <1>1. conn \in [Conns -> Connection] /\ \A d \in Conns : ConnOk(conn[d], d, w)
    BY DEF ConnsOk
  <1>2. conn[c] \in Connection /\ conn[c].out \in Seq(Reply)
    BY <1>1 DEF Connection
  <1> DEFINE t == Tail(conn[c].out)
             k == [conn[c] EXCEPT !.out = t]
  <1>3. t \in Seq(Reply) /\ Head(conn[c].out) \in Reply
    BY <1>2, Queues
  <1>4. Read(c) = [conn EXCEPT ![c] = k]
    BY <1>1 DEF Read
  <1> HIDE DEF t
  <1>5. k \in Connection /\ k.in = conn[c].in
    BY <1>2, <1>3 DEF Connection
  <1> HIDE DEF k
  <1>6. ConnsOk([conn EXCEPT ![c] = k], w)
    BY <1>1, <1>5 DEF ConnsOk, ConnOk
  <1> QED BY <1>3, <1>4, <1>6

LEMMA DropKeeps == Local /\ Drop => Local'
  <1> SUFFICES ASSUME Local, Drop PROVE Local'
    OBVIOUS
  <1>1. ClientOk(pi', woken) /\ ConnsOk(conn', woken)
    BY ClosesKeeps DEF Local, Drop
  <1>2. RestOk'
    BY AdapterAssumption DEF Local, Drop, RestOk, Wake
  <1> QED BY <1>1, <1>2 DEF Local, Drop

LEMMA ConnectKeeps == Local /\ Connect => Local'
  <1> SUFFICES ASSUME Local, Connect PROVE Local'
    OBVIOUS
  <1> DEFINE u == pi.used + 1
             n == pi'
             k == [conn[u] EXCEPT !.in = <<Register_>>]
  <1>1. /\ pi \in Client /\ pi.cur = 0 /\ pi.used < MaxConns /\ woken \subseteq Wake
        /\ pi' = [pi EXCEPT !.cur = u, !.used = u]
        /\ conn' = [conn EXCEPT ![u].in = <<Register_>>]
        /\ UNCHANGED <<drops, waking, woken, accepted>>
    BY DEF Local, Connect, ClientOk, RestOk
  <1>2. u \in Conns /\ u \in 0..MaxConns /\ u # 0
    BY <1>1, AdapterAssumption DEF Client, Conns
  <1> HIDE DEF u
  <1>3. /\ pi' \in Client /\ pi'.cur = u /\ pi'.registered = pi.registered
        /\ pi'.pending = pi.pending /\ pi'.queue = pi.queue
    BY <1>1, <1>2 DEF Client
  <1>4. OwedBy(woken, 0) \subseteq OwedBy(woken, u)
    <2>1. \A g : [conn |-> 0, gen |-> g] \notin woken
      <3>1. ASSUME NEW g, [conn |-> 0, gen |-> g] \in Wake PROVE FALSE
        <4>1. [conn |-> 0, gen |-> g].conn \in Conns
          BY <3>1 DEF Wake
        <4> QED BY <4>1 DEF Conns
      <3> QED BY <1>1, <3>1
    <2> QED BY <2>1 DEF OwedBy
  <1>5. pi.queue \in Seq(OwedBy(woken, u)) /\ pi.pending = {}
    BY <1>1, <1>4, SeqMonotonic DEF Local, ClientOk
  <1>6. ClientOk(pi', woken)
    BY <1>1, <1>2, <1>3, <1>5 DEF Local, ClientOk
  <1>7. ConnsOk(conn', woken)
    <2>1. conn \in [Conns -> Connection] /\ \A c \in Conns : ConnOk(conn[c], c, woken)
      BY DEF Local, ConnsOk
    <2>2. conn' = [conn EXCEPT ![u] = k]
      BY <1>1, <1>2, <2>1
    <2>3. <<Register_>> \in Seq(Request) /\ \A S : <<Register_>> \in Seq(S \union {Register_})
      BY DEF Request
    <2>4. k \in Connection /\ k.in = <<Register_>>
      BY <1>2, <2>1, <2>3 DEF Connection
    <2> HIDE DEF k
    <2>5. <<Register_>> # <<>>
      OBVIOUS
    <2> QED BY <1>2, <2>1, <2>2, <2>3, <2>4, <2>5 DEF ConnsOk, ConnOk
  <1>8. RestOk'
    BY <1>1 DEF Local, RestOk, Wake
  <1> QED BY <1>1, <1>6, <1>7, <1>8 DEF Local

(* The queue of a client that is on a connection gets an item that connection owes.       *)
LEMMA QueueKeeps ==
  ASSUME NEW w, NEW p, ClientOk(p, w), NEW q \in Seq(OwedBy(w, p.cur)),
         NEW n \in Client, n.cur = p.cur, n.pending = p.pending, n.queue = q,
         n.registered = p.registered
  PROVE  ClientOk(n, w)
  BY DEF ClientOk

LEMMA EventIsOwed ==
  ASSUME NEW w, NEW c, NEW n \in 1..MaxEvents
  PROVE  Event(n) \in OwedBy(w, c)
  <1>1. n \in Nat
    BY AdapterAssumption
  <1>2. Event(n) \in Item /\ Event(n).kind = "event" /\ Event(n).n = n
    BY <1>1 DEF Event, Item
  <1> QED BY <1>2 DEF OwedBy

LEMMA PollIsOwed ==
  ASSUME NEW w, NEW c
  PROVE  PollItem \in OwedBy(w, c)
  <1>1. PollItem \in Item /\ PollItem.kind = "poll"
    BY DEF PollItem, Item
  <1> QED BY <1>1 DEF OwedBy

LEMMA ActivateKeeps == Local /\ Activate => Local'
  <1> SUFFICES ASSUME Local, Activate PROVE Local'
    OBVIOUS
  <1> DEFINE q == IF Event(1) \in Range(pi.queue) THEN pi.queue
                  ELSE <<Event(1)>> \o pi.queue
             n == [pi EXCEPT !.polling = TRUE, !.queue = q]
  <1>1. /\ pi \in Client /\ ClientIs(n, conn) /\ UNCHANGED <<drops, waking, woken, accepted>>
        /\ pi.queue \in Seq(OwedBy(woken, pi.cur)) /\ ClientOk(pi, woken)
        /\ ConnsOk(conn, woken)
    BY DEF Local, Activate, ClientOk
  <1>2. q \in Seq(OwedBy(woken, pi.cur))
    <2>1. Event(1) \in OwedBy(woken, pi.cur)
      BY EventIsOwed, AdapterAssumption
    <2> QED BY <1>1, <2>1, Queues
  <1> HIDE DEF q
  <1>3. q \in Seq(Item)
    BY <1>2, ItemSeqs
  <1>4. /\ n \in Client /\ n.cur = pi.cur /\ n.pending = pi.pending /\ n.queue = q
        /\ n.registered = pi.registered
    BY <1>1, <1>3 DEF Client
  <1>5. ClientOk(n, woken)
    BY <1>1, <1>2, <1>4, QueueKeeps
  <1> HIDE DEF n
  <1>6. ClientOk(pi', woken) /\ ConnsOk(conn', woken)
    BY <1>1, <1>5, FlushKeeps
  <1> QED BY <1>1, <1>6 DEF Local, RestOk, Wake

LEMMA PublishKeeps == Local /\ Publish => Local'
  <1> SUFFICES ASSUME Local, Publish PROVE Local'
    OBVIOUS
  <1> DEFINE m == pi.published + 1
             q == Append(pi.queue, Event(m))
             n == [pi EXCEPT !.published = m, !.queue = q]
  <1>1. /\ pi \in Client /\ ClientIs(n, conn) /\ UNCHANGED <<drops, waking, woken, accepted>>
        /\ pi.queue \in Seq(OwedBy(woken, pi.cur)) /\ ClientOk(pi, woken)
        /\ ConnsOk(conn, woken) /\ pi.published < MaxEvents
    BY DEF Local, Publish, ClientOk
  <1>2. m \in 1..MaxEvents /\ m \in 0..MaxEvents
    BY <1>1, AdapterAssumption DEF Client
  <1> HIDE DEF m
  <1>3. q \in Seq(OwedBy(woken, pi.cur))
    BY <1>1, <1>2, EventIsOwed, Queues
  <1> HIDE DEF q
  <1>4. q \in Seq(Item)
    BY <1>3, ItemSeqs
  <1>5. /\ n \in Client /\ n.cur = pi.cur /\ n.pending = pi.pending /\ n.queue = q
        /\ n.registered = pi.registered
    BY <1>1, <1>2, <1>4 DEF Client
  <1>6. ClientOk(n, woken)
    BY <1>1, <1>3, <1>5, QueueKeeps
  <1> HIDE DEF n
  <1>7. ClientOk(pi', woken) /\ ConnsOk(conn', woken)
    BY <1>1, <1>6, FlushKeeps
  <1> QED BY <1>1, <1>7 DEF Local, RestOk, Wake

LEMMA PollKeeps == Local /\ Poll => Local'
  <1> SUFFICES ASSUME Local, Poll PROVE Local'
    OBVIOUS
  <1> DEFINE q == Append(pi.queue, PollItem)
             n == [pi EXCEPT !.queue = q]
  <1>1. /\ pi \in Client /\ ClientIs(n, conn) /\ UNCHANGED <<drops, waking, woken, accepted>>
        /\ pi.queue \in Seq(OwedBy(woken, pi.cur)) /\ ClientOk(pi, woken)
        /\ ConnsOk(conn, woken)
    BY DEF Local, Poll, ClientOk
  <1>2. q \in Seq(OwedBy(woken, pi.cur))
    BY <1>1, PollIsOwed, Queues
  <1> HIDE DEF q
  <1>3. q \in Seq(Item)
    BY <1>2, ItemSeqs
  <1>4. /\ n \in Client /\ n.cur = pi.cur /\ n.pending = pi.pending /\ n.queue = q
        /\ n.registered = pi.registered
    BY <1>1, <1>3 DEF Client
  <1>5. ClientOk(n, woken)
    BY <1>1, <1>2, <1>4, QueueKeeps
  <1> HIDE DEF n
  <1>6. ClientOk(pi', woken) /\ ConnsOk(conn', woken)
    BY <1>1, <1>5, FlushKeeps
  <1> QED BY <1>1, <1>6 DEF Local, RestOk, Wake

LEMMA ReceiveOkKeeps ==
  ASSUME NEW c \in Conns, Local, ReceiveOk(c)
  PROVE  Local'
  <1> DEFINE n == [pi EXCEPT !.pending = {}]
             m == [pi EXCEPT !.registered = TRUE]
  <1>1. /\ pi \in Client /\ UNCHANGED <<drops, waking, woken, accepted>>
        /\ ClientOk(pi, woken) /\ ConnsOk(conn, woken) /\ c = pi.cur /\ c # 0
        /\ conn[c].out # <<>>
    BY DEF Local, ReceiveOk, ClientOk, Receives
  <1>2. ConnsOk(Read(c), woken)
    BY <1>1, ReadKeeps
  <1>3. CASE ~pi.registered
    <2>1. pi' = m /\ conn' = Read(c)
      BY <1>3 DEF ReceiveOk
    <2>2. /\ m \in Client /\ m.cur = pi.cur /\ m.pending = pi.pending /\ m.queue = pi.queue
          /\ m.registered = TRUE
      BY <1>1 DEF Client
    <2> HIDE DEF m
    <2>3. ClientOk(m, woken)
      BY <1>1, <2>2 DEF ClientOk
    <2> QED BY <1>1, <1>2, <2>1, <2>3 DEF Local, RestOk, Wake
  <1>4. CASE pi.registered
    <2>1. ClientIs(n, Read(c))
      BY <1>4 DEF ReceiveOk
    <2>2. /\ n \in Client /\ n.cur = pi.cur /\ n.pending = {} /\ n.queue = pi.queue
      BY <1>1 DEF Client
    <2>3. ClientOk(n, woken)
      BY <1>1, <2>2 DEF ClientOk
    <2> HIDE DEF n
    <2>4. ClientOk(pi', woken) /\ ConnsOk(conn', woken)
      BY <1>2, <2>1, <2>3, FlushKeeps
    <2> QED BY <1>1, <2>4 DEF Local, RestOk, Wake
  <1> QED BY <1>3, <1>4

LEMMA ReceiveErrorKeeps ==
  ASSUME NEW c \in Conns, Local, ReceiveError(c)
  PROVE  Local'
  <1>1. /\ pi.cur # 0 /\ Closes /\ UNCHANGED <<drops, waking, woken, accepted>>
    BY DEF ReceiveError, Receives
  <1>2. ClientOk(pi', woken) /\ ConnsOk(conn', woken)
    BY <1>1, ClosesKeeps DEF Local
  <1> QED BY <1>1, <1>2 DEF Local, RestOk, Wake

LEMMA ReceiveNotificationKeeps ==
  ASSUME NEW c \in Conns, Local, ReceiveNotification(c)
  PROVE  Local'
  <1> DEFINE g == Head(conn[c].out).n
             begins == ~Known(g) /\ pi.delivering = 0
             d == IF begins THEN g ELSE pi.delivering
             q == IF Known(g) \/ begins THEN pi.waiting ELSE Append(pi.waiting, g)
             n == [pi EXCEPT !.delivering = d, !.waiting = q]
  <1>1. /\ pi \in Client /\ ClientOk(pi, woken) /\ ConnsOk(conn, woken)
        /\ conn[c].out # <<>> /\ conn' = Read(c) /\ RestOk
    BY DEF Local, ReceiveNotification, ClientOk, Receives
  <1>2. pi' = n
    BY DEF ReceiveNotification
  <1>3. waking' \subseteq waking \union {[conn |-> c, gen |-> g]} /\ UNCHANGED <<drops, woken, accepted>>
    BY DEF ReceiveNotification
  <1>4. g \in Nat /\ ConnsOk(Read(c), woken)
    BY <1>1, ReadKeeps DEF Reply
  <1> HIDE DEF g
  <1>5. d \in Nat /\ q \in Seq(Nat)
    BY <1>1, <1>4, Queues DEF Client
  <1> HIDE DEF d, q
  <1>6. /\ n \in Client /\ n.cur = pi.cur /\ n.pending = pi.pending /\ n.queue = pi.queue
        /\ n.registered = pi.registered
    BY <1>1, <1>5 DEF Client
  <1> HIDE DEF n
  <1>7. ClientOk(pi', woken)
    BY <1>1, <1>2, <1>6 DEF ClientOk
  <1>8. [conn |-> c, gen |-> g] \in Wake
    BY <1>4 DEF Wake
  <1>9. RestOk'
    BY <1>1, <1>3, <1>8 DEF RestOk, Wake
  <1> QED BY <1>1, <1>3, <1>4, <1>7, <1>9 DEF Local

(* The wake that is taken next, of those that wait.                                    *)
LEMMA NextWakeKeeps ==
  ASSUME NEW w, NEW p, ClientOk(p, w), NEW wake
  PROVE  ClientOk(NextWake(p, wake), w)
  <1> DEFINE n == NextWake(p, wake)
             d == IF Here(wake) THEN Head(p.waiting) ELSE 0
  <1>0. p \in Client
    BY DEF ClientOk
  <1>1. CASE p.waiting = <<>>
    <2>1. n = [p EXCEPT !.delivering = 0]
      BY <1>1 DEF NextWake
    <2> HIDE DEF n, d
    <2>2. /\ n \in Client /\ n.cur = p.cur /\ n.pending = p.pending /\ n.queue = p.queue
          /\ n.registered = p.registered
      BY <1>0, <2>1 DEF Client
    <2>3. ClientOk(n, w)
      BY <2>2 DEF ClientOk
    <2> QED BY <2>3 DEF n
  <1>2. CASE p.waiting # <<>>
    <2> DEFINE t == Tail(p.waiting)
    <2>1. n = [p EXCEPT !.delivering = d, !.waiting = t]
      BY <1>2 DEF NextWake
    <2>2. d \in Nat /\ t \in Seq(Nat)
      BY <1>0, <1>2, Queues DEF Client
    <2> HIDE DEF d, t, n
    <2>3. /\ n \in Client /\ n.cur = p.cur /\ n.pending = p.pending /\ n.queue = p.queue
          /\ n.registered = p.registered
      BY <1>0, <2>1, <2>2 DEF Client
    <2>4. ClientOk(n, w)
      BY <2>3 DEF ClientOk
    <2> QED BY <2>4 DEF n
  <1> QED BY <1>1, <1>2

LEMMA WakeSettlesKeeps ==
  ASSUME NEW wake \in waking, Local, WakeSettles(wake)
  PROVE  Local'
  <1> DEFINE v == woken \union {wake}
             i == [kind |-> "delivered", n |-> wake.gen]
             t == pi.told \union {wake.gen}
             q == Append(pi.queue, i)
             told == IF Here(wake) THEN [pi EXCEPT !.told = t, !.queue = q] ELSE pi
             next == NextWake(told, wake)
  <1>1. /\ pi \in Client /\ RestOk /\ wake \in Wake
        /\ ClientOk(pi, v) /\ ConnsOk(conn, v)
    <2>1. woken \subseteq v
      OBVIOUS
    <2> HIDE DEF v
    <2> QED BY <2>1, ClientMoreWakes, ConnsMoreWakes DEF Local, RestOk, ClientOk
  <1>2. /\ woken' = v /\ ClientIs(next, conn) /\ UNCHANGED <<drops, accepted>>
        /\ waking' \subseteq waking \union {[conn |-> wake.conn, gen |-> g] :
                                               g \in {next.delivering} \ {0}}
    BY DEF WakeSettles
  <1>3. ClientOk(told, v)
    <2>1. CASE ~Here(wake)
      BY <1>1, <2>1
    <2>2. CASE Here(wake)
      <3>1. told = [pi EXCEPT !.told = t, !.queue = q] /\ pi.cur = wake.conn
        BY <2>2 DEF Here
      <3>2. t \in SUBSET Nat
        BY <1>1 DEF Client, Wake
      <3>3. i \in OwedBy(v, pi.cur)
        <4>1. [conn |-> wake.conn, gen |-> wake.gen] = wake /\ wake.gen \in Nat
          BY <1>1 DEF Wake
        <4>2. i \in Item /\ i.kind = "delivered" /\ i.n = wake.gen
          BY <4>1 DEF Item
        <4> QED BY <3>1, <4>1, <4>2 DEF OwedBy
      <3>4. q \in Seq(OwedBy(v, pi.cur))
        <4> HIDE DEF v, i
        <4> QED BY <1>1, <3>3, Queues DEF ClientOk
      <3> HIDE DEF q, t, v, told
      <3>5. q \in Seq(Item)
        BY <3>4, ItemSeqs
      <3>6. /\ told \in Client /\ told.cur = pi.cur /\ told.pending = pi.pending
            /\ told.queue = q /\ told.registered = pi.registered
        BY <1>1, <3>1, <3>2, <3>5 DEF Client
      <3> QED BY <1>1, <3>4, <3>6, QueueKeeps
    <2> QED BY <2>1, <2>2
  <1> HIDE DEF told
  <1>4. ClientOk(next, v)
    BY <1>3, NextWakeKeeps
  <1> HIDE DEF next, v
  <1>5. ClientOk(pi', v) /\ ConnsOk(conn', v)
    BY <1>1, <1>2, <1>4, FlushKeeps
  <1>6. RestOk'
    <2>1. next.delivering \in Nat
      BY <1>4 DEF ClientOk, Client
    <2>2. \A g \in {next.delivering} \ {0} : [conn |-> wake.conn, gen |-> g] \in Wake
      BY <1>1, <2>1 DEF Wake
    <2>3. waking' \subseteq Wake
      BY <1>1, <1>2, <2>2 DEF RestOk
    <2>4. woken' \subseteq Wake
      BY <1>1, <1>2 DEF RestOk, v
    <2> QED BY <1>1, <1>2, <2>3, <2>4 DEF RestOk, Wake
  <1> QED BY <1>2, <1>5, <1>6 DEF Local

LEMMA WakeFailsKeeps ==
  ASSUME NEW wake \in waking, Local, WakeFails(wake)
  PROVE  Local'
  <1> DEFINE next == NextWake(pi, wake)
  <1>1. /\ ClientOk(pi, woken) /\ ConnsOk(conn, woken) /\ RestOk /\ wake \in Wake
    BY DEF Local, RestOk
  <1>2. /\ waking' \subseteq waking \union {[conn |-> wake.conn, gen |-> g] :
                                               g \in {next.delivering}}
        /\ UNCHANGED <<woken, accepted>>
        /\ \/ pi.cur # 0 /\ drops < MaxDrops /\ drops' = drops + 1 /\ Closes
           \/ UNCHANGED <<pi, conn, drops>>
    BY DEF WakeFails
  <1>3. ClientOk(next, woken)
    BY <1>1, NextWakeKeeps
  <1> HIDE DEF next
  <1>4. next.delivering \in Nat
    BY <1>3 DEF ClientOk, Client
  <1>5. [conn |-> wake.conn, gen |-> next.delivering] \in Wake
    BY <1>1, <1>4 DEF Wake
  <1>6. waking' \subseteq Wake
    BY <1>1, <1>2, <1>5 DEF RestOk
  <1>7. drops' \in 0..MaxDrops
    BY <1>1, <1>2, AdapterAssumption DEF RestOk
  <1>8. ClientOk(pi', woken) /\ ConnsOk(conn', woken)
    BY <1>1, <1>2, ClosesKeeps
  <1>9. RestOk'
    BY <1>1, <1>2, <1>6, <1>7 DEF RestOk, Wake
  <1> QED BY <1>2, <1>8, <1>9 DEF Local

-----------------------------------------------------------------------------
(* The handlers.                                                              *)
LEMMA FrontierIsNat == ASSUME TypeOK, NEW d \in Drivers PROVE Frontier(d) \subseteq Nat
  <1>1. /\ offered[d] \subseteq Offer /\ ledger[d] \in Ledger
    BY DEF TypeOK
  <1>2. \A o \in Outstanding(d) : o.gen \in Nat
    BY <1>1 DEF Outstanding, Offer
  <1>3. ledger[d].delivered \in Nat /\ ledger[d].latest \in Nat
    BY <1>1 DEF Ledger
  <1>4. CASE Outstanding(d) # {}
    BY <1>2, <1>4 DEF Frontier
  <1>5. CASE Outstanding(d) = {}
    BY <1>3, <1>5 DEF Frontier
  <1> QED BY <1>4, <1>5

(* The connection whose handler steps.                                              *)
LEMMA OneConn ==
  ASSUME NEW w, ConnsOk(conn, w), NEW c \in Conns, NEW k, ConnOk(k, c, w),
         NEW j, j = [conn EXCEPT ![c] = k]
  PROVE  ConnsOk(j, w)
  <1>1. conn \in [Conns -> Connection] /\ \A d \in Conns : ConnOk(conn[d], d, w)
    BY DEF ConnsOk
  <1>2. k \in Connection
    BY DEF ConnOk
  <1>3. j \in [Conns -> Connection] /\ \A d \in Conns : j[d] = IF d = c THEN k ELSE conn[d]
    BY <1>1, <1>2
  <1> QED BY <1>1, <1>3 DEF ConnsOk

LEMMA AnswersKeeps ==
  ASSUME NEW c \in Conns, Local, conn[c].in # <<>>, NEW replies \in Seq(Reply),
         NEW window \in {"none", "open", "over"}, NEW shown \in Nat, NEW bound \in Nat,
         Answers(c, replies, window, shown, bound), accepted' \subseteq 1..MaxEvents
  PROVE  Local'
  <1> DEFINE t == Tail(conn[c].in)
             o == IF c = pi.cur THEN conn[c].out \o replies ELSE <<>>
             h == [conn[c] EXCEPT !.in = t, !.out = o]
             k == [h EXCEPT !.window = window, !.shown = shown, !.bound = bound]
  <1>1. /\ ConnsOk(conn, woken) /\ conn \in [Conns -> Connection] /\ ConnOk(conn[c], c, woken)
        /\ conn[c] \in Connection
    BY DEF Local, ConnsOk
  <1>2. t \in Seq(OwedBy(woken, c) \union {Register_}) /\ t \in Seq(Request)
    BY <1>1, Queues DEF ConnOk, Connection
  <1>3. o \in Seq(Reply)
    <2>1. <<>> \in Seq(Reply)
      OBVIOUS
    <2>2. conn[c].out \in Seq(Reply)
      BY <1>1 DEF Connection
    <2> QED BY <2>1, <2>2, ConcatProperties
  <1>4. conn' = [conn EXCEPT ![c] = k]
    BY <1>1 DEF Answers
  <1> HIDE DEF t, o
  <1>5. h \in Connection /\ h.in = t
    BY <1>1, <1>2, <1>3 DEF Connection
  <1> HIDE DEF h
  <1>6. k \in Connection /\ k.in = h.in
    BY <1>5 DEF Connection
  <1> HIDE DEF k
  <1>7. ConnsOk(conn', woken)
    BY <1>1, <1>2, <1>4, <1>5, <1>6, OneConn DEF ConnOk
  <1> QED BY <1>7 DEF Local, Answers, RestOk, Wake

LEMMA SameKeeps ==
  ASSUME NEW c \in Conns, Local, conn[c].in # <<>>, NEW replies \in Seq(Reply),
         Same(c, replies), accepted' \subseteq 1..MaxEvents
  PROVE  Local'
  <1>1. conn[c] \in Connection
    BY DEF Local, ConnsOk
  <1>2. /\ conn[c].window \in {"none", "open", "over"}
        /\ conn[c].shown \in Nat /\ conn[c].bound \in Nat
    BY <1>1 DEF Connection
  <1> QED BY <1>2, AnswersKeeps DEF Same

LEMMA Replies ==
  /\ <<Ok>> \in Seq(Reply) /\ <<Error>> \in Seq(Reply)
  /\ \A g \in Nat : <<Ok, [kind |-> "notification", n |-> g]>> \in Seq(Reply)
  <1>1. Ok \in Reply /\ Error \in Reply
        /\ \A g \in Nat : [kind |-> "notification", n |-> g] \in Reply
    BY DEF Ok, Error, Reply
  <1> QED BY <1>1

LEMMA HandleRegisterKeeps ==
  ASSUME NEW c \in Conns, IInv, Local, HandleRegister(c)
  PROVE  Local'
  <1>1. conn[c].in # <<>> /\ Answers(c, <<Ok>>, "none", 0, epoch[Pi] + 1) /\ accepted' = accepted
    BY DEF HandleRegister, Asked
  <1>2. epoch[Pi] + 1 \in Nat
    BY AdapterAssumption DEF IInv, TypeOK
  <1> QED BY <1>1, <1>2, AnswersKeeps, Replies DEF Local, RestOk

LEMMA HandlePollKeeps ==
  ASSUME NEW c \in Conns, IInv, Local, HandlePoll(c)
  PROVE  Local'
  <1>1. conn[c].in # <<>> /\ accepted' \subseteq 1..MaxEvents
    BY DEF HandlePoll, Asked, Local, RestOk
  <1>2. /\ conn \in [Conns -> Connection] /\ conn[c] \in Connection /\ ConnsOk(conn, woken)
        /\ ConnOk(conn[c], c, woken)
    BY DEF Local, ConnsOk
  <1>3. conn[c].shown \in Nat /\ conn[c].bound \in Nat
    BY <1>2 DEF Connection
  <1>4. ASSUME Same(c, <<Error>>) \/ Same(c, <<Ok>>) PROVE Local'
    BY <1>1, <1>4, SameKeeps, Replies
  <1>5. ASSUME Answers(c, <<Ok>>, "none", 0, conn[c].bound) PROVE Local'
    BY <1>1, <1>3, <1>5, AnswersKeeps, Replies
  <1>6. ASSUME NEW window \in {"none", "open", "over"},
               Answers(c, <<Ok>>, window, conn[c].shown, conn[c].bound)
        PROVE  Local'
    BY <1>1, <1>3, <1>6, AnswersKeeps, Replies
  <1>7. ASSUME NEW window \in {"none", "open", "over"}, NEW g \in Nat,
               Answers(c, <<Ok, [kind |-> "notification", n |-> g]>>,
                       window, g, conn[c].bound)
        PROVE  Local'
    BY <1>1, <1>3, <1>7, AnswersKeeps, Replies
  <1>8. Frontier(Pi) \subseteq Nat
    BY FrontierIsNat, AdapterAssumption DEF IInv
  <1>9. (IF conn[c].window = "none" THEN "open" ELSE conn[c].window)
           \in {"none", "open", "over"}
    BY <1>2 DEF Connection
  <1> QED BY <1>4, <1>5, <1>6, <1>7, <1>8, <1>9 DEF HandlePoll

LEMMA HandleDeliveredKeeps ==
  ASSUME NEW c \in Conns, Local, HandleDelivered(c)
  PROVE  Local'
  <1>1. conn[c].in # <<>> /\ accepted' \subseteq 1..MaxEvents
    BY DEF HandleDelivered, Asked, Local, RestOk
  <1>2. Same(c, <<Error>>) \/ Same(c, <<Ok>>)
    BY DEF HandleDelivered
  <1> QED BY <1>1, <1>2, SameKeeps, Replies

LEMMA HandleEventKeeps ==
  ASSUME NEW c \in Conns, Local, HandleEvent(c)
  PROVE  Local'
  <1> DEFINE h == Head(conn[c].in)
  <1>1. /\ conn[c].in # <<>> /\ h.kind = "event" /\ accepted' = accepted \union {h.n}
        /\ Same(c, <<Ok>>)
    BY DEF HandleEvent, Asked
  <1>2. h \in OwedBy(woken, c) \union {Register_}
    BY <1>1, Queues DEF Local, ConnsOk, ConnOk
  <1>3. h.n \in 1..MaxEvents
    <2>1. Register_.kind = "register"
      BY DEF Register_
    <2> HIDE DEF h
    <2> QED BY <1>1, <1>2, <2>1 DEF OwedBy
  <1>4. accepted' \subseteq 1..MaxEvents
    BY <1>1, <1>3 DEF Local, RestOk
  <1> QED BY <1>1, <1>4, SameKeeps, Replies

LEMMA WindowPassesKeeps ==
  ASSUME NEW c \in Conns, Local, WindowPasses(c)
  PROVE  Local'
  <1>1. /\ conn \in [Conns -> Connection] /\ conn[c] \in Connection /\ ConnsOk(conn, woken)
        /\ ConnOk(conn[c], c, woken)
    BY DEF Local, ConnsOk
  <1> DEFINE k == [conn[c] EXCEPT !.window = "over"]
  <1>2. conn' = [conn EXCEPT ![c] = k]
    BY <1>1 DEF WindowPasses
  <1>3. k \in Connection /\ k.in = conn[c].in
    BY <1>1 DEF Connection
  <1> HIDE DEF k
  <1>4. ConnsOk(conn', woken)
    BY <1>1, <1>2, <1>3, OneConn DEF ConnOk
  <1> QED BY <1>4 DEF Local, RestOk, Wake, WindowPasses

-----------------------------------------------------------------------------
(* The ledger steps.                                                            *)
OthersLedger == Bump \/ CliReconcile(Pi) \/ CliAck(Pi) \/ CliCrash(Pi)

LEMMA OfferedIsWithin ==
  ASSUME IInv, Within, NEW d \in Drivers, NEW e, NEW g, Bound(d, e)
  PROVE  /\ e \in 1..MaxEpoch
         /\ Key(e, g) \in offered[d] => g \in 1..MaxGeneration
  <1> USE BoundsAssumption
  <1>1. epoch[d] \in Nat /\ latest \in Nat
    BY DEF IInv, TypeOK
  <1>2. e \in 1..MaxEpoch
    BY <1>1 DEF Bound, Active, Within
  <1>3. \A o \in offered[d] : o.gen \in 1..latest
    BY DEF IInv, DriverInv
  <1>4. Key(e, g).gen = g
    BY DEF Key
  <1> QED BY <1>1, <1>2, <1>3, <1>4 DEF Within

LEMMA HandleIsLedgerStep ==
  ASSUME IInv, Within, NEW c \in Conns, Handle(c)
  PROVE  \/ UNCHANGED vars
         \/ Register(Pi)
         \/ \E e \in 1..MaxEpoch : OfferNotification(Pi, e)
         \/ \E e \in 1..MaxEpoch, g \in 1..MaxGeneration : ConfirmDelivery(Pi, e, g)
  <1>1. CASE HandleRegister(c)
    BY <1>1 DEF HandleRegister
  <1>2. CASE HandlePoll(c)
    <2>1. UNCHANGED ledgerVars \/ (Bound(Pi, conn[c].bound) /\ OfferNotification(Pi, conn[c].bound))
      BY <1>2 DEF HandlePoll, Offers
    <2>2. Bound(Pi, conn[c].bound) => conn[c].bound \in 1..MaxEpoch
      BY OfferedIsWithin, AdapterAssumption
    <2> QED BY <2>1, <2>2 DEF ledgerVars, vars
  <1>3. CASE HandleDelivered(c)
    <2> DEFINE g == Head(conn[c].in).n
    <2>1. UNCHANGED ledgerVars \/ ConfirmDelivery(Pi, conn[c].bound, g)
      BY <1>3 DEF HandleDelivered
    <2> HIDE DEF g
    <2>2. ConfirmDelivery(Pi, conn[c].bound, g) =>
            conn[c].bound \in 1..MaxEpoch /\ g \in 1..MaxGeneration
      BY OfferedIsWithin, AdapterAssumption DEF ConfirmDelivery
    <2> QED BY <2>1, <2>2 DEF ledgerVars, vars
  <1>4. CASE HandleEvent(c)
    BY <1>4 DEF HandleEvent, ledgerVars, vars
  <1> QED BY <1>1, <1>2, <1>3, <1>4 DEF Handle

(* The client, its timers, its wakes and the connections never write the ledger.         *)
ClientStep ==
    \/ Drop \/ Connect \/ Activate \/ Publish \/ Poll
    \/ \E c \in Conns : ClientReads(c) \/ WindowPasses(c)
    \/ \E wake \in waking : WakeSettles(wake) \/ WakeFails(wake)

LEMMA StepSplits ==
  AdapterNext <=> Others \/ ClientStep \/ \E c \in Conns : Handle(c)
  BY DEF AdapterNext, ClientStep

LEMMA ClientLeavesLedger == ClientStep => UNCHANGED vars
  <1> SUFFICES ASSUME ClientStep PROVE UNCHANGED ledgerVars
    BY DEF ledgerVars, vars
  <1>1. CASE Drop \/ Connect \/ Activate \/ Publish \/ Poll
    BY <1>1 DEF Drop, Connect, Activate, Publish, Poll
  <1>2. CASE \E c \in Conns : ClientReads(c) \/ WindowPasses(c)
    BY <1>2 DEF ClientReads, ReceiveOk, ReceiveError, ReceiveNotification, WindowPasses
  <1>3. CASE \E wake \in waking : WakeSettles(wake) \/ WakeFails(wake)
    BY <1>3 DEF WakeSettles, WakeFails
  <1> QED BY <1>1, <1>2, <1>3 DEF ClientStep

LEMMA StepIsLedgerStep == IInv /\ Within /\ [AdapterNext]_allVars => [Next]_vars
  <1> SUFFICES ASSUME IInv, Within, [AdapterNext]_allVars PROVE [Next]_vars
    OBVIOUS
  <1>1. CASE UNCHANGED allVars
    BY <1>1 DEF allVars, ledgerVars, vars
  <1>2. CASE Others
    BY <1>2, AdapterAssumption DEF Others, Next
  <1>3. CASE ClientStep
    BY <1>3, ClientLeavesLedger
  <1>4. ASSUME NEW c \in Conns, Handle(c) PROVE [Next]_vars
    BY <1>4, HandleIsLedgerStep, AdapterAssumption DEF Next, AdapterStep
  <1> QED BY <1>1, <1>2, <1>3, <1>4, StepSplits

LEMMA StaysWithin ==
  IInv /\ Within /\ [AdapterNext]_allVars => Within'
  <1> SUFFICES ASSUME IInv, Within, [AdapterNext]_allVars PROVE Within'
    OBVIOUS
  <1> USE BoundsAssumption
  <1>1. TypeOK
    BY DEF IInv
  <1>2. ASSUME UNCHANGED <<latest, epoch>> PROVE Within'
    BY <1>2 DEF Within
  <1>3. CASE UNCHANGED allVars
    BY <1>2, <1>3 DEF allVars, ledgerVars
  <1>4. CASE Bump
    BY <1>1, <1>4 DEF Bump, Within, TypeOK
  <1>5. CASE Register(Pi)
    BY <1>1, <1>5 DEF Register, Within, TypeOK
  <1>6. CASE CliReconcile(Pi) \/ CliAck(Pi) \/ CliCrash(Pi)
    BY <1>2, <1>6 DEF CliReconcile, CliAck, CliCrash
  <1>7. CASE ClientStep
    BY <1>2, <1>7, ClientLeavesLedger DEF vars
  <1>8. ASSUME NEW c \in Conns, Handle(c) PROVE Within'
    <2>1. ASSUME NEW e, OfferNotification(Pi, e) PROVE Within'
      BY <1>2, <2>1 DEF OfferNotification
    <2>2. ASSUME NEW e, NEW g, ConfirmDelivery(Pi, e, g) PROVE Within'
      BY <1>2, <2>2 DEF ConfirmDelivery
    <2>3. UNCHANGED vars => Within'
      BY <1>2 DEF vars
    <2> QED BY <1>5, <1>8, <2>1, <2>2, <2>3, HandleIsLedgerStep
  <1> QED BY <1>3, <1>4, <1>6, <1>7, <1>8, StepSplits DEF Others

LEMMA LocalKeeps == IInv /\ Local /\ [AdapterNext]_allVars => Local'
  <1> SUFFICES ASSUME IInv, Local, [AdapterNext]_allVars PROVE Local'
    OBVIOUS
  <1>1. CASE UNCHANGED adapterVars
    BY <1>1 DEF adapterVars, Local, RestOk, Wake
  <1>2. CASE ClientStep
    <2>1. ASSUME NEW c \in Conns, ClientReads(c) \/ WindowPasses(c) PROVE Local'
      BY <2>1, ReceiveOkKeeps, ReceiveErrorKeeps, ReceiveNotificationKeeps, WindowPassesKeeps
      DEF ClientReads
    <2>2. ASSUME NEW wake \in waking, WakeSettles(wake) \/ WakeFails(wake) PROVE Local'
      BY <2>2, WakeSettlesKeeps, WakeFailsKeeps
    <2> QED
      BY <1>2, <2>1, <2>2, DropKeeps, ConnectKeeps, ActivateKeeps, PublishKeeps, PollKeeps
      DEF ClientStep
  <1>3. ASSUME NEW c \in Conns, Handle(c) PROVE Local'
    BY <1>3, HandleRegisterKeeps, HandlePollKeeps, HandleDeliveredKeeps,
       HandleEventKeeps DEF Handle
  <1> QED BY <1>1, <1>2, <1>3, StepSplits DEF Others, allVars

LEMMA AdapterInvariance == AdapterSpec => []AdapterIInv
  <1>1. AdapterIInv /\ [AdapterNext]_allVars => AdapterIInv'
    BY StepIsLedgerStep, NextInv, StaysWithin, LocalKeeps DEF AdapterIInv
  <1> QED BY <1>1, AdapterInitInv, PTL DEF AdapterSpec

(* The client keeps at most one request under way, and only once it is registered; its     *)
(* queue, the connections and the ledger have their types (.pi/lib/rozoro-event-bus-client.ts). *)
THEOREM AdapterTypeCorrect == AdapterSpec => []AdapterTypeOK
  <1>1. AdapterIInv => AdapterTypeOK
    BY DEF AdapterIInv, Local, ClientOk, ConnsOk, RestOk, AdapterTypeOK
  <1> QED BY <1>1, AdapterInvariance, PTL

(* Whatever the client, its broken connections and the handlers still running for them do,   *)
(* every write of the ledger is one of the ledger's own operations, called within its bounds. *)
THEOREM AdapterObeysLedger == AdapterSpec => Spec
  <1>1. AdapterInit => Init
    BY DEF AdapterInit
  <1>2. AdapterIInv /\ [AdapterNext]_allVars => [Next]_vars
    BY StepIsLedgerStep DEF AdapterIInv
  <1> QED BY <1>1, <1>2, AdapterInvariance, PTL DEF AdapterSpec, Spec

(* So the session that Pi wakes is woken as WakeCursor says: one generation at a time, and    *)
(* the next only after the acknowledgement of the last.                             *)
THEOREM AdapterImplementsWakeCursor == AdapterSpec => ImplementsWakeCursor
  BY AdapterObeysLedger, LedgerImplementsWakeCursor

(* The delivered cursor moves only for a wake that was put into the session on the       *)
(* connection that holds the current registration (the confirmation is queued by deliver    *)
(* only after onNotification, on the connection the notification came by).              *)
THEOREM WakeConsumedByItsOwn == AdapterSpec => DeliveredByItsOwnWake
  <1> DEFINE Moves == ledger'[Pi].delivered > ledger[Pi].delivered
             Own == \E wake \in woken : /\ wake.gen = ledger'[Pi].delivered
                                        /\ conn[wake.conn].bound = epoch[Pi]
  <1>1. AdapterIInv /\ [AdapterNext]_allVars => [Moves => Own]_allVars
    <2> SUFFICES ASSUME AdapterIInv, AdapterNext, Moves PROVE Own
      OBVIOUS
    <2>1. IInv /\ Within /\ Local /\ TypeOK /\ Pi \in Drivers
      BY AdapterAssumption DEF AdapterIInv, IInv
    <2>2. ledger[Pi] \in Ledger /\ ledger[Pi].delivered \in Nat /\ ledger \in [Drivers -> Ledger]
      BY <2>1 DEF TypeOK, Ledger
    <2>3. ASSUME ledger'[Pi].delivered = ledger[Pi].delivered PROVE FALSE
      BY <2>2, <2>3
    <2>4. ASSUME UNCHANGED ledger PROVE FALSE
      BY <2>3, <2>4
    <2>5. ~Others
      <3>1. CASE Bump
        BY <2>1, <2>2, <2>3, <3>1 DEF Bump, Ledger
      <3>2. CASE CliReconcile(Pi) \/ CliCrash(Pi)
        BY <2>4, <3>2 DEF CliReconcile, CliCrash
      <3>3. CASE CliAck(Pi)
        BY <2>1, <2>2, <2>3, <3>3 DEF CliAck, Ledger
      <3> QED BY <3>1, <3>2, <3>3 DEF Others
    <2>6. ~ClientStep
      BY <2>4, ClientLeavesLedger DEF vars
    <2>7. PICK c \in Conns : Handle(c)
      BY <2>5, <2>6, StepSplits
    <2>8. HandleDelivered(c)
      <3>1. ~HandleRegister(c)
        BY <2>1, <2>2, <2>3 DEF HandleRegister, Register, Active, IInv, DriverInv, NoLedger
      <3>2. ~HandlePoll(c) /\ ~HandleEvent(c)
        BY <2>4 DEF HandlePoll, HandleEvent, Offers, OfferNotification, ledgerVars
      <3> QED BY <2>7, <3>1, <3>2 DEF Handle
    <2> DEFINE h == Head(conn[c].in)
    <2>9. /\ conn[c].in # <<>> /\ h.kind = "delivered"
          /\ ConfirmDelivery(Pi, conn[c].bound, h.n)
      BY <2>4, <2>8 DEF HandleDelivered, Asked, ledgerVars
    <2>10. h \in OwedBy(woken, c) \union {Register_}
      BY <2>1, <2>9, Queues DEF Local, ConnsOk, ConnOk
    <2> HIDE DEF h
    <2>11. [conn |-> c, gen |-> h.n] \in woken
      <3>1. Register_.kind = "register"
        BY DEF Register_
      <3> QED BY <2>9, <2>10, <3>1 DEF OwedBy
    <2>12. conn[c].bound = epoch[Pi] /\ ledger'[Pi].delivered = h.n
      BY <2>2, <2>3, <2>9 DEF ConfirmDelivery, Bound, Ledger
    <2> QED BY <2>11, <2>12
  <1> QED BY <1>1, AdapterInvariance, PTL DEF AdapterSpec, DeliveredByItsOwnWake

=============================================================================
