-------------------------- MODULE ProducerSpoolProofs --------------------------
(***************************************************************************)
(* Machine-checked safety of the producer's outbox for any finite number of  *)
(* hook runs: nothing published is lost, no number is left out, what is       *)
(* acknowledged is committed once, and a number is used again only after a    *)
(* run died between publication and counter.                                 *)
(***************************************************************************)
EXTENDS ProducerSpool, FiniteSetTheorems, WellFoundedInduction, TLAPS

(* Who holds the lock: a run that reserves, or an import.                    *)
LockHeld ==
    /\ \A p \in Producers : pc[p] \in {"locked", "published"} => lock = p
    /\ importing # "no" => lock = Daemon

(* What was acknowledged, or is about to be unlinked, is committed.           *)
CommittedFirst ==
    /\ acks \subseteq Durable
    /\ importing = "unlink" => batch # <<>> /\ Head(batch) \in Durable

(* The counter is a number in use, and only a run that has published and not  *)
(* yet saved, or died there, has a number above it.                          *)
Numbering ==
    /\ \E m \in Nat : \A p \in Producers : seq[p] <= m
    /\ counter = 0 \/ \E p \in Reserved : seq[p] = counter
    /\ \A p \in Producers : pc[p] \in {"idle", "locked"} => seq[p] = 0
    /\ \A p \in Reserved : seq[p] > counter => pc[p] \in {"published", "torn"}
    /\ \A p \in Producers : pc[p] = "published" => seq[p] > counter

IInv ==
    /\ TypeOK
    /\ NothingLost /\ NoGap /\ AckedIsDurableOnce /\ ReuseOnlyAfterTear
    /\ LockHeld /\ CommittedFirst /\ Numbering

(* A bounded set of numbers that is not empty has a largest member.           *)
LEMMA MaxOfBounded ==
  ASSUME NEW S \in SUBSET Nat, S # {}, NEW m \in Nat, \A x \in S : x <= m
  PROVE  Max(S) \in S /\ \A y \in S : Max(S) >= y
  <1> DEFINE below == {m - x : x \in S}
  <1>0. \A x \in S : x \in Nat /\ m - x \in Nat
    OBVIOUS
  <1>1. below \subseteq Nat /\ below # {}
    BY <1>0
  <1>2. \E d \in below : \A e \in below : ~ (<<e, d>> \in OpToRel(<, Nat))
    <2> HIDE DEF below
    <2> QED BY <1>1, NatLessThanWellFounded, WFMin
  <1>3. PICK d \in below : \A e \in below : ~ (e < d)
    BY <1>1, <1>2 DEF OpToRel
  <1>4. PICK x \in S : d = m - x
    OBVIOUS
  <1>5. \A y \in S : x >= y
    <2> TAKE y \in S
    <2>1. m - y \in below
      OBVIOUS
    <2>2. ~ (m - y < m - x)
      BY <1>3, <1>4, <2>1
    <2> QED BY <1>0, <2>2
  <1> QED BY <1>5 DEF Max

LEMMA InitInv == Init => IInv
  <1> SUFFICES ASSUME Init PROVE IInv
    OBVIOUS
  <1>1. TypeOK
    BY DEF Init, TypeOK, PC
  <1>2. Durable = {} /\ Reserved = {}
    BY DEF Init, Durable, ToSet, Reserved
  <1>3. Cardinality({}) = 0
    BY FS_EmptySet
  <1>4. AckedIsDurableOnce
    BY <1>2, <1>3 DEF Init, AckedIsDurableOnce
  <1>5. Numbering
    <2>1. \A p \in Producers : seq[p] <= 0
      BY DEF Init
    <2> QED BY <1>2, <2>1 DEF Init, Numbering
  <1> QED
    BY <1>1, <1>2, <1>4, <1>5
       DEF Init, IInv, NothingLost, NoGap, ReuseOnlyAfterTear, LockHeld,
           CommittedFirst

(* The number of a new reservation is new to the counter and to the spool,    *)
(* and nothing lies between it and one of them.                             *)
LEMMA NextSeqIsNext ==
  ASSUME IInv
  PROVE  /\ NextSeq \in Nat
         /\ NextSeq > counter
         /\ \A q \in spool : NextSeq > seq[q]
         /\ NextSeq = counter + 1 \/ \E q \in spool : NextSeq = seq[q] + 1
  <1> DEFINE S == {counter} \union {seq[q] : q \in spool}
  <1>1. S \in SUBSET Nat /\ S # {}
    BY DEF IInv, TypeOK
  <1>2. PICK m \in Nat : \A p \in Producers : seq[p] <= m
    BY DEF IInv, Numbering
  <1>3. counter \in Nat /\ m + counter \in Nat
    BY DEF IInv, TypeOK
  <1>4. \A x \in S : x <= m + counter
    BY <1>1, <1>2, <1>3 DEF IInv, TypeOK
  <1>5. Max(S) \in S /\ \A y \in S : Max(S) >= y
    <2> HIDE DEF S
    <2> QED BY <1>1, <1>3, <1>4, MaxOfBounded
  <1> DEFINE top == Max(S)
  <1>6. NextSeq = top + 1
    BY DEF NextSeq
  <1> HIDE DEF top
  <1>7. top \in S /\ \A y \in S : top >= y
    BY <1>5 DEF top
  <1>8. top \in Nat
    BY <1>1, <1>7
  <1>9. top >= counter /\ \A q \in spool : top >= seq[q]
    BY <1>7
  <1>10. top = counter \/ \E q \in spool : top = seq[q]
    BY <1>7
  <1>11. \A q \in spool : seq[q] \in Nat
    BY DEF IInv, TypeOK
  <1> QED BY <1>3, <1>6, <1>8, <1>9, <1>10, <1>11

(* An event is inserted once.                                              *)
LEMMA AcceptOnce ==
  ASSUME IInv, NEW p \in Producers, AcceptEvent(p)
  PROVE  /\ durable' \in Seq(Producers)
         /\ Durable' = Durable \union {p}
         /\ Len(durable') = Cardinality(Durable')
  <1>1. durable \in Seq(Producers) /\ Len(durable) = Cardinality(Durable)
    BY DEF IInv, TypeOK, AckedIsDurableOnce
  <1>2. CASE p \in Durable
    <2>1. durable' = durable
      BY <1>2 DEF AcceptEvent
    <2> QED BY <1>1, <1>2, <2>1 DEF Durable
  <1>3. CASE p \notin Durable
    <2>1. durable' = Append(durable, p)
      BY <1>3 DEF AcceptEvent
    <2>2. durable' \in Seq(Producers) /\ Len(durable') = Len(durable) + 1
      BY <1>1, <2>1
    <2>3. Durable' = Durable \union {p}
      <3>1. /\ DOMAIN durable' = 1..(Len(durable) + 1)
            /\ DOMAIN durable = 1..Len(durable)
            /\ Len(durable) \in Nat
        BY <1>1, <2>1
      <3>2. /\ durable'[Len(durable) + 1] = p
            /\ \A i \in 1..Len(durable) : durable'[i] = durable[i]
        BY <1>1, <2>1
      <3>3. Durable \union {p} \subseteq Durable'
        BY <3>1, <3>2 DEF Durable, ToSet
      <3>4. Durable' \subseteq Durable \union {p}
        BY <3>1, <3>2 DEF Durable, ToSet
      <3> QED BY <3>3, <3>4
    <2>4. IsFiniteSet(Durable)
      <3>1. Durable \subseteq Producers
        BY <1>1 DEF Durable, ToSet
      <3> QED BY <3>1, SpoolAssumption, FS_Subset DEF SpoolAssumption
    <2>5. Cardinality(Durable') = Cardinality(Durable) + 1
      BY <1>3, <2>3, <2>4, FS_AddElement
    <2> QED BY <1>1, <2>2, <2>3, <2>5
  <1> QED BY <1>2, <1>3

(* The steps of a run other than its reservation.                            *)
LEMMA RunInv ==
  ASSUME IInv, NEW p \in Producers,
         \/ LockSpool(p) \/ SaveCounter(p) \/ Send(p) \/ AckArrives(p)
         \/ GivesUp(p) \/ RemoveReserved(p) \/ Dies(p)
  PROVE  IInv'
  <1> USE DEF IInv, Become
  <1>1. durable' = durable /\ seq' = seq
    BY DEF LockSpool, SaveCounter, Send, AckArrives, GivesUp, RemoveReserved, Dies
  <1>2. Durable' = Durable /\ Reserved' = Reserved
    BY <1>1 DEF Durable, Reserved
  <1>3. CASE LockSpool(p)
    <2>1. TypeOK'
      BY <1>3 DEF LockSpool, TypeOK, PC
    <2>2. NothingLost' /\ CommittedFirst' /\ AckedIsDurableOnce'
      BY <1>1, <1>2, <1>3 DEF LockSpool, TypeOK, NothingLost, CommittedFirst, AckedIsDurableOnce
    <2>3. NoGap'
      BY <1>1, <1>2, <1>3 DEF LockSpool, TypeOK, NoGap, AckedIsDurableOnce
    <2>4. ReuseOnlyAfterTear'
      BY <1>1, <1>2, <1>3 DEF LockSpool, TypeOK, ReuseOnlyAfterTear, Numbering
    <2>5. LockHeld'
      BY <1>3, SpoolAssumption DEF LockSpool, TypeOK, LockHeld, SpoolAssumption
    <2>6. Numbering'
      BY <1>1, <1>2, <1>3 DEF LockSpool, TypeOK, Numbering, LockHeld, Reserved
    <2> QED BY <2>1, <2>2, <2>3, <2>4, <2>5, <2>6
  <1>4. CASE SaveCounter(p)
    <2>1. TypeOK'
      BY <1>4 DEF SaveCounter, TypeOK, PC
    <2>2. NothingLost' /\ CommittedFirst' /\ AckedIsDurableOnce'
      BY <1>1, <1>2, <1>4 DEF SaveCounter, TypeOK, NothingLost, CommittedFirst, AckedIsDurableOnce
    <2>3. NoGap'
      BY <1>1, <1>2, <1>4 DEF SaveCounter, TypeOK, NoGap, AckedIsDurableOnce
    <2>4. ReuseOnlyAfterTear'
      BY <1>1, <1>2, <1>4 DEF SaveCounter, TypeOK, ReuseOnlyAfterTear, Numbering
    <2>5. LockHeld'
      BY <1>4, SpoolAssumption DEF SaveCounter, TypeOK, LockHeld, SpoolAssumption
    <2>6. Numbering'
      BY <1>1, <1>2, <1>4 DEF SaveCounter, TypeOK, Numbering, LockHeld, Reserved
    <2> QED BY <2>1, <2>2, <2>3, <2>4, <2>5, <2>6
  <1>5. CASE Send(p)
    <2>1. TypeOK'
      BY <1>5 DEF Send, TypeOK, PC
    <2>2. NothingLost' /\ CommittedFirst' /\ AckedIsDurableOnce'
      BY <1>1, <1>2, <1>5 DEF Send, TypeOK, NothingLost, CommittedFirst, AckedIsDurableOnce
    <2>3. NoGap'
      BY <1>1, <1>2, <1>5 DEF Send, TypeOK, NoGap, AckedIsDurableOnce
    <2>4. ReuseOnlyAfterTear'
      <3>1. \A q \in Producers : pc[q] = "torn" => pc'[q] = "torn"
        BY <1>5 DEF Send, TypeOK
      <3> QED BY <1>1, <1>2, <3>1 DEF ReuseOnlyAfterTear, Reserved
    <2>5. LockHeld'
      BY <1>5, SpoolAssumption DEF Send, TypeOK, LockHeld, SpoolAssumption
    <2>6. Numbering'
      BY <1>1, <1>2, <1>5 DEF Send, TypeOK, Numbering, LockHeld, Reserved
    <2> QED BY <2>1, <2>2, <2>3, <2>4, <2>5, <2>6
  <1>6. CASE AckArrives(p)
    <2>1. TypeOK'
      BY <1>6 DEF AckArrives, TypeOK, PC
    <2>2. NothingLost' /\ CommittedFirst' /\ AckedIsDurableOnce'
      BY <1>1, <1>2, <1>6 DEF AckArrives, TypeOK, NothingLost, CommittedFirst, AckedIsDurableOnce
    <2>3. NoGap'
      BY <1>1, <1>2, <1>6 DEF AckArrives, TypeOK, NoGap, AckedIsDurableOnce
    <2>4. ReuseOnlyAfterTear'
      BY <1>1, <1>2, <1>6 DEF AckArrives, TypeOK, ReuseOnlyAfterTear, Numbering
    <2>5. LockHeld'
      BY <1>6, SpoolAssumption DEF AckArrives, TypeOK, LockHeld, SpoolAssumption
    <2>6. Numbering'
      BY <1>1, <1>2, <1>6 DEF AckArrives, TypeOK, Numbering, LockHeld, Reserved
    <2> QED BY <2>1, <2>2, <2>3, <2>4, <2>5, <2>6
  <1>7. CASE GivesUp(p)
    <2>1. TypeOK'
      BY <1>7 DEF GivesUp, TypeOK, PC
    <2>2. NothingLost' /\ CommittedFirst' /\ AckedIsDurableOnce'
      BY <1>1, <1>2, <1>7 DEF GivesUp, TypeOK, NothingLost, CommittedFirst, AckedIsDurableOnce
    <2>3. NoGap'
      BY <1>1, <1>2, <1>7 DEF GivesUp, TypeOK, NoGap, AckedIsDurableOnce
    <2>4. ReuseOnlyAfterTear'
      BY <1>1, <1>2, <1>7 DEF GivesUp, TypeOK, ReuseOnlyAfterTear, Numbering
    <2>5. LockHeld'
      BY <1>7, SpoolAssumption DEF GivesUp, TypeOK, LockHeld, SpoolAssumption
    <2>6. Numbering'
      BY <1>1, <1>2, <1>7 DEF GivesUp, TypeOK, Numbering, LockHeld, Reserved
    <2> QED BY <2>1, <2>2, <2>3, <2>4, <2>5, <2>6
  <1>8. CASE RemoveReserved(p)
    <2>1. TypeOK'
      BY <1>8 DEF RemoveReserved, TypeOK, PC
    <2>2. NothingLost' /\ CommittedFirst' /\ AckedIsDurableOnce'
      BY <1>1, <1>2, <1>8 DEF RemoveReserved, TypeOK, NothingLost, CommittedFirst, AckedIsDurableOnce
    <2>3. NoGap'
      BY <1>1, <1>2, <1>8 DEF RemoveReserved, TypeOK, NoGap, AckedIsDurableOnce
    <2>4. ReuseOnlyAfterTear'
      BY <1>1, <1>2, <1>8 DEF RemoveReserved, TypeOK, ReuseOnlyAfterTear, Numbering
    <2>5. LockHeld'
      BY <1>8, SpoolAssumption DEF RemoveReserved, TypeOK, LockHeld, SpoolAssumption
    <2>6. Numbering'
      BY <1>1, <1>2, <1>8 DEF RemoveReserved, TypeOK, Numbering, LockHeld, Reserved
    <2> QED BY <2>1, <2>2, <2>3, <2>4, <2>5, <2>6
  <1>9. CASE Dies(p)
    <2>1. TypeOK'
      BY <1>9 DEF Dies, TypeOK, PC
    <2>2. NothingLost' /\ CommittedFirst' /\ AckedIsDurableOnce'
      BY <1>1, <1>2, <1>9 DEF Dies, TypeOK, NothingLost, CommittedFirst, AckedIsDurableOnce
    <2>3. NoGap'
      BY <1>1, <1>2, <1>9 DEF Dies, TypeOK, NoGap, AckedIsDurableOnce
    <2>4. ReuseOnlyAfterTear'
      BY <1>1, <1>2, <1>9 DEF Dies, TypeOK, ReuseOnlyAfterTear, Numbering
    <2>5. LockHeld'
      BY <1>9, SpoolAssumption DEF Dies, TypeOK, LockHeld, SpoolAssumption
    <2>6. Numbering'
      BY <1>1, <1>2, <1>9 DEF Dies, TypeOK, Numbering, LockHeld, Reserved
    <2> QED BY <2>1, <2>2, <2>3, <2>4, <2>5, <2>6
  <1> QED BY <1>3, <1>4, <1>5, <1>6, <1>7, <1>8, <1>9

(* A reservation: its number is new, and every smaller one is in use.         *)
LEMMA PublishInv ==
  ASSUME IInv, NEW p \in Producers, Publish(p)
  PROVE  IInv'
  <1> USE DEF IInv
  <1>1. /\ pc[p] = "locked" /\ lock = p /\ seq[p] = 0
        /\ \A q \in Producers : pc[q] = "published" => lock = q
    BY DEF Publish, LockHeld, Numbering
  <1>2. /\ seq' = [seq EXCEPT ![p] = NextSeq] /\ spool' = spool \union {p}
        /\ pc' = [pc EXCEPT ![p] = "published"]
        /\ UNCHANGED <<lock, counter, durable, wire, acks, daemon, importing, batch>>
    BY DEF Publish, Become
  <1>3. Durable' = Durable
    BY <1>2 DEF Durable
  <1>4. /\ NextSeq \in Nat /\ NextSeq > counter
        /\ \A q \in spool : NextSeq > seq[q]
        /\ NextSeq = counter + 1 \/ \E q \in spool : NextSeq = seq[q] + 1
    BY NextSeqIsNext
  <1> HIDE DEF IInv
  <1>5. TypeOK /\ TypeOK'
    BY <1>2, <1>4 DEF IInv, TypeOK, PC
  <1>6. Reserved' = Reserved \union {p}
    BY <1>2, <1>4, <1>5 DEF Reserved, TypeOK
  <1>7. NothingLost' /\ CommittedFirst' /\ AckedIsDurableOnce' /\ LockHeld'
    <2>1. NothingLost'
      BY <1>2, <1>3, <1>6 DEF IInv, NothingLost
    <2>2. CommittedFirst' /\ AckedIsDurableOnce'
      BY <1>2, <1>3, <1>5 DEF IInv, CommittedFirst, AckedIsDurableOnce, TypeOK
    <2>3. LockHeld'
      BY <1>1, <1>2, <1>5 DEF IInv, LockHeld, TypeOK
    <2> QED BY <2>1, <2>2, <2>3
  <1>8. NoGap'
    <2> SUFFICES ASSUME NEW r \in Reserved', NEW n \in 1..seq'[r]
                 PROVE  \E q \in spool' \union Durable' : seq'[q] = n
      BY DEF NoGap
    <2>1. ASSUME NEW o \in Reserved, n \in 1..seq[o]
          PROVE  \E q \in spool' \union Durable' : seq'[q] = n
      <3>1. PICK q \in spool \union Durable : seq[q] = n
        BY <2>1 DEF IInv, NoGap
      <3>2. q # p
        BY <1>1, <2>1, <3>1
      <3>3. seq'[q] = n
        BY <1>2, <1>5, <3>1, <3>2 DEF TypeOK
      <3> QED BY <1>2, <1>3, <3>1, <3>3
    <2>2. CASE r # p
      BY <1>2, <1>5, <1>6, <2>1, <2>2 DEF TypeOK, Reserved
    <2>3. CASE r = p /\ n = NextSeq
      BY <1>2, <1>5, <2>3 DEF TypeOK
    <2>4. CASE r = p /\ n # NextSeq
      <3>1. n \in Nat /\ n >= 1 /\ n < NextSeq
        BY <1>2, <1>4, <1>5, <2>4 DEF TypeOK
      <3>2. n <= counter \/ \E q \in spool : n <= seq[q]
        BY <1>4, <1>5, <3>1 DEF TypeOK
      <3>3. \E o \in Reserved : n <= seq[o]
        BY <1>5, <3>1, <3>2 DEF TypeOK, Reserved, IInv, Numbering
      <3> QED BY <1>5, <2>1, <3>1, <3>3 DEF TypeOK, Reserved
    <2> QED BY <2>2, <2>3, <2>4
  <1>9. ReuseOnlyAfterTear'
    <2>1. ASSUME NEW q \in Reserved, q # p, seq[q] = NextSeq
          PROVE  pc[q] = "torn"
      BY <1>1, <1>4, <2>1 DEF IInv, Numbering, Reserved
    <2>2. \A q \in Reserved : q # p => seq'[q] = seq[q] /\ pc'[q] = pc[q]
      BY <1>2, <1>5 DEF TypeOK, Reserved
    <2>3. seq'[p] = NextSeq
      BY <1>2, <1>5 DEF TypeOK
    <2> QED BY <1>6, <2>1, <2>2, <2>3 DEF IInv, ReuseOnlyAfterTear
  <1>10. Numbering'
    <2>1. \E m \in Nat : \A q \in Producers : seq'[q] <= m
      <3>1. PICK m \in Nat : \A q \in Producers : seq[q] <= m
        BY DEF IInv, Numbering
      <3>2. m + NextSeq \in Nat
        BY <1>4
      <3>3. \A q \in Producers : seq'[q] <= m + NextSeq
        BY <1>2, <1>4, <1>5, <3>1 DEF TypeOK
      <3> QED BY <3>2, <3>3
    <2>2. counter' = 0 \/ \E q \in Reserved' : seq'[q] = counter'
      BY <1>1, <1>2, <1>5, <1>6 DEF IInv, Numbering, TypeOK, Reserved
    <2>3. \A q \in Producers : pc'[q] \in {"idle", "locked"} => seq'[q] = 0
      BY <1>2, <1>5 DEF IInv, Numbering, TypeOK
    <2>4. \A q \in Reserved' : seq'[q] > counter' => pc'[q] \in {"published", "torn"}
      BY <1>2, <1>5, <1>6 DEF IInv, Numbering, TypeOK, Reserved
    <2>5. \A q \in Producers : pc'[q] = "published" => seq'[q] > counter'
      BY <1>2, <1>4, <1>5 DEF IInv, Numbering, TypeOK
    <2> QED BY <2>1, <2>2, <2>3, <2>4, <2>5 DEF Numbering
  <1> QED BY <1>5, <1>7, <1>8, <1>9, <1>10 DEF IInv

(* Steps that leave the runs, their numbers and the counter alone, and remove  *)
(* from the spool only what is committed.                                    *)
LEMMA DaemonKeeps ==
  ASSUME IInv, TypeOK', UNCHANGED <<pc, seq, counter>>,
         Durable \subseteq Durable', Len(durable') = Cardinality(Durable'),
         spool \subseteq spool' \union Durable', LockHeld', CommittedFirst'
  PROVE  IInv'
  <1>1. Reserved' = Reserved
    BY DEF Reserved
  <1>2. NothingLost' /\ NoGap'
    BY <1>1 DEF IInv, NothingLost, NoGap
  <1>3. AckedIsDurableOnce' /\ ReuseOnlyAfterTear'
    BY <1>1 DEF IInv, AckedIsDurableOnce, ReuseOnlyAfterTear
  <1>4. Numbering'
    BY <1>1 DEF IInv, Numbering
  <1> QED BY <1>1, <1>2, <1>3, <1>4 DEF IInv

(* The steps of the daemon.                                                 *)
LEMMA DaemonInv ==
  ASSUME IInv,
         \/ \E p \in Producers : HandleFrame(p)
         \/ ImportStart \/ ImportAccept \/ ImportUnlink \/ ImportEnd
         \/ DaemonDies \/ DaemonStarts
  PROVE  IInv'
  <1> USE SpoolAssumption DEF SpoolAssumption
  <1>1. /\ TypeOK /\ LockHeld /\ CommittedFirst
        /\ Len(durable) = Cardinality(Durable)
    BY DEF IInv, AckedIsDurableOnce
  <1>2. ASSUME UNCHANGED durable
        PROVE  Durable' = Durable /\ Len(durable') = Cardinality(Durable')
    BY <1>1, <1>2 DEF Durable
  <1>3. ASSUME NEW p \in Producers, HandleFrame(p)
        PROVE  IInv'
    <2>1. /\ durable' \in Seq(Producers) /\ Durable' = Durable \union {p}
          /\ Len(durable') = Cardinality(Durable')
      BY <1>3, AcceptOnce DEF HandleFrame
    <2>2. TypeOK' /\ LockHeld' /\ CommittedFirst'
      BY <1>1, <1>3, <2>1 DEF HandleFrame, TypeOK, LockHeld, CommittedFirst
    <2> QED BY <1>3, <2>1, <2>2, DaemonKeeps DEF HandleFrame
  <1>4. CASE ImportStart
    <2>1. batch' \in Seq(Producers)
      <3>1. Cardinality(spool) \in Nat
        BY <1>1, FS_Subset, FS_CardinalityType DEF TypeOK
      <3>2. batch' \in [1..Cardinality(spool) -> spool]
        BY <1>4 DEF ImportStart, SetToSeqs
      <3>3. batch' \in [1..Cardinality(spool) -> Producers]
        BY <1>1, <3>2 DEF TypeOK
      <3> QED BY <3>1, <3>3
    <2>2. TypeOK' /\ LockHeld' /\ CommittedFirst'
      BY <1>1, <1>2, <1>4, <2>1 DEF ImportStart, TypeOK, LockHeld, CommittedFirst
    <2> QED BY <1>2, <1>4, <2>2, DaemonKeeps DEF ImportStart
  <1>5. CASE ImportAccept
    <2>1. Head(batch) \in Producers
      BY <1>1, <1>5 DEF ImportAccept, TypeOK
    <2>2. /\ durable' \in Seq(Producers) /\ Durable' = Durable \union {Head(batch)}
          /\ Len(durable') = Cardinality(Durable')
      BY <1>5, <2>1, AcceptOnce DEF ImportAccept
    <2>3. TypeOK' /\ LockHeld' /\ CommittedFirst'
      BY <1>1, <1>5, <2>2 DEF ImportAccept, TypeOK, LockHeld, CommittedFirst
    <2> QED BY <1>5, <2>2, <2>3, DaemonKeeps DEF ImportAccept
  <1>6. CASE ImportUnlink
    <2>1. batch # <<>> /\ Head(batch) \in Durable
      BY <1>1, <1>6 DEF ImportUnlink, CommittedFirst
    <2>2. batch' \in Seq(Producers)
      BY <1>1, <1>6, <2>1 DEF ImportUnlink, TypeOK
    <2>3. TypeOK' /\ LockHeld' /\ CommittedFirst'
      BY <1>1, <1>2, <1>6, <2>2 DEF ImportUnlink, TypeOK, LockHeld, CommittedFirst
    <2>4. spool \subseteq spool' \union Durable'
      BY <1>2, <1>6, <2>1 DEF ImportUnlink
    <2> QED BY <1>2, <1>6, <2>3, <2>4, DaemonKeeps DEF ImportUnlink
  <1>7. CASE ImportEnd
    <2>1. TypeOK' /\ LockHeld' /\ CommittedFirst'
      BY <1>1, <1>2, <1>7 DEF ImportEnd, TypeOK, LockHeld, CommittedFirst
    <2> QED BY <1>2, <1>7, <2>1, DaemonKeeps DEF ImportEnd
  <1>8. CASE DaemonDies
    <2>1. TypeOK' /\ LockHeld' /\ CommittedFirst'
      BY <1>1, <1>2, <1>8 DEF DaemonDies, TypeOK, LockHeld, CommittedFirst
    <2> QED BY <1>2, <1>8, <2>1, DaemonKeeps DEF DaemonDies
  <1>9. CASE DaemonStarts
    <2>1. TypeOK' /\ LockHeld' /\ CommittedFirst'
      BY <1>1, <1>2, <1>9 DEF DaemonStarts, TypeOK, LockHeld, CommittedFirst
    <2> QED BY <1>2, <1>9, <2>1, DaemonKeeps DEF DaemonStarts
  <1> QED BY <1>3, <1>4, <1>5, <1>6, <1>7, <1>8, <1>9

LEMMA StepInv == IInv /\ [Next]_vars => IInv'
  <1> SUFFICES ASSUME IInv, [Next]_vars PROVE IInv'
    OBVIOUS
  <1>1. CASE UNCHANGED vars
    <2>1. Durable' = Durable /\ Reserved' = Reserved
      BY <1>1 DEF vars, Durable, Reserved
    <2> QED BY <1>1, <2>1
            DEF vars, IInv, TypeOK, NothingLost, NoGap, AckedIsDurableOnce,
                ReuseOnlyAfterTear, LockHeld, CommittedFirst, Numbering
  <1>2. CASE Next
    BY <1>2, RunInv, PublishInv, DaemonInv DEF Next
  <1> QED BY <1>1, <1>2

LEMMA Invariance == Spec => []IInv
  BY InitInv, StepInv, PTL DEF Spec

(* Type correctness.                                                        *)
THEOREM TypeCorrect == Spec => []TypeOK
  <1>1. IInv => TypeOK
    BY DEF IInv
  <1> QED BY <1>1, Invariance, PTL

(* Every event that was ever published is in the spool or committed: no death  *)
(* of a hook or of the daemon, and no order of import, frame and cleanup,      *)
(* loses one.                                                               *)
THEOREM NeverLost == Spec => []NothingLost
  <1>1. IInv => NothingLost
    BY DEF IInv
  <1> QED BY <1>1, Invariance, PTL

(* The numbers in use are 1..n without a hole, so the reducer never waits for  *)
(* one that nobody holds.                                                   *)
THEOREM NeverAGap == Spec => []NoGap
  <1>1. IInv => NoGap
    BY DEF IInv
  <1> QED BY <1>1, Invariance, PTL

(* An acknowledged event is committed, and every event at most once.          *)
THEOREM AckedOnce == Spec => []AckedIsDurableOnce
  <1>1. IInv => AckedIsDurableOnce
    BY DEF IInv
  <1> QED BY <1>1, Invariance, PTL

(* Two events share a number only when a run died between the publication of   *)
(* its event and the counter.                                               *)
THEOREM ReuseNeedsATear == Spec => []ReuseOnlyAfterTear
  <1>1. IInv => ReuseOnlyAfterTear
    BY DEF IInv
  <1> QED BY <1>1, Invariance, PTL

=============================================================================
