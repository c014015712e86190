----------------------------- MODULE ProducerSpool -----------------------------
(***************************************************************************)
(* How an event gets from a hook to the daemon for certain: the reservation, *)
(* the outbox spool and the sequence counter of lib/rozoro_monitor/client.py *)
(* and the spool import of lib/rozoro_monitor/server.py, for one session.    *)
(* A producer is one run of a hook, a process of its own with one event;      *)
(* any process may die between any two of its steps, which frees its lock.    *)
(*                                                                          *)
(* The spool's .lock is held for a whole reservation, cleanup or import; what *)
(* happens under it is still one step per file operation.  The daemon is one  *)
(* thread: while it imports it reads no frame.                               *)
(***************************************************************************)
EXTENDS Naturals, FiniteSets, SequencesExt

CONSTANTS
    Producers,   \* hook runs, each with its event_id
    Daemon,      \* the daemon as the holder of the lock
    NoOne        \* the holder of a free lock

ASSUME SpoolAssumption ==
    /\ IsFiniteSet(Producers)
    /\ Daemon \notin Producers /\ NoOne \notin Producers /\ Daemon # NoOne

VARIABLES
    lock,      \* holder of spool/.lock
    pc,        \* [Producers -> PC] how far each run is
    seq,       \* [Producers -> Nat] producer_seq of its envelope, 0 for none
    spool,     \* producers whose envelope is published in the spool
    counter,   \* producer-seq/<session>.seq
    durable,   \* the events table, in durable_seq order
    wire,      \* frames written to the socket and not read yet
    acks,      \* producers whose ACK was written to their socket
    daemon,    \* "down", "starting" (not listening yet) or "up"
    importing, \* the import's phase: "no", "accept" or "unlink"
    batch      \* the envelopes it has still to do, in order

vars == <<lock, pc, seq, spool, counter, durable, wire, acks, daemon, importing,
          batch>>

-----------------------------------------------------------------------------
(* "torn" is a death between publication and the saving of the counter.     *)
PC == {"idle", "locked", "published", "prepared", "waiting", "acked", "done",
       "uncertain", "dead", "torn"}

TypeOK ==
    /\ lock \in Producers \union {Daemon, NoOne}
    /\ pc \in [Producers -> PC]
    /\ seq \in [Producers -> Nat]
    /\ spool \subseteq Producers
    /\ counter \in Nat
    /\ durable \in Seq(Producers)
    /\ wire \subseteq Producers /\ acks \subseteq Producers
    /\ daemon \in {"down", "starting", "up"}
    /\ importing \in {"no", "accept", "unlink"}
    /\ batch \in Seq(Producers)

Init ==
    /\ lock = NoOne
    /\ pc = [p \in Producers |-> "idle"]
    /\ seq = [p \in Producers |-> 0]
    /\ spool = {}
    /\ counter = 0
    /\ durable = <<>>
    /\ wire = {} /\ acks = {}
    /\ daemon = "up"
    /\ importing = "no"
    /\ batch = <<>>

Become(p, where) == pc' = [pc EXCEPT ![p] = where]

Durable == ToSet(durable)

-----------------------------------------------------------------------------
(* _locked_fd in prepare_event.                                             *)
LockSpool(p) ==
    /\ pc[p] = "idle"
    /\ lock = NoOne
    /\ lock' = p
    /\ Become(p, "locked")
    /\ UNCHANGED <<seq, spool, counter, durable, wire, acks, daemon, importing, batch>>

(* Above both the counter and every reservation still in the spool.          *)
NextSeq == Max({counter} \union {seq[q] : q \in spool}) + 1

(* prepare_event publishes the envelope by an atomic rename.                *)
Publish(p) ==
    /\ pc[p] = "locked"
    /\ seq' = [seq EXCEPT ![p] = NextSeq]
    /\ spool' = spool \union {p}
    /\ Become(p, "published")
    /\ UNCHANGED <<lock, counter, durable, wire, acks, daemon, importing, batch>>

(* Mutant: the counter is only bumped, also when the spool was ahead of it.  *)
SaveCounterBump(p) ==
    /\ pc[p] = "published"
    /\ counter' = counter + 1
    /\ lock' = NoOne
    /\ Become(p, "prepared")
    /\ UNCHANGED <<seq, spool, durable, wire, acks, daemon, importing, batch>>

(* Mutant: the counter holds the next number, not the last one.              *)
SaveCounterNext(p) ==
    /\ pc[p] = "published"
    /\ counter' = seq[p] + 1
    /\ lock' = NoOne
    /\ Become(p, "prepared")
    /\ UNCHANGED <<seq, spool, durable, wire, acks, daemon, importing, batch>>

(* _save_counter, and the lock goes.                                        *)
SaveCounter(p) ==
    /\ pc[p] = "published"
    /\ counter' = seq[p]
    /\ lock' = NoOne
    /\ Become(p, "prepared")
    /\ UNCHANGED <<seq, spool, durable, wire, acks, daemon, importing, batch>>

(* ProducerClient.send prepares again, which finds the envelope in the spool *)
(* or refuses its number as used (the daemon imported it meanwhile), then     *)
(* connects and writes the frame.                                           *)
Send(p) ==
    /\ pc[p] = "prepared"
    /\ lock = NoOne
    /\ \/ /\ p \in spool /\ daemon = "up"
          /\ wire' = wire \union {p}
          /\ Become(p, "waiting")
       \/ /\ p \notin spool \/ daemon # "up"
          /\ Become(p, "uncertain")
          /\ UNCHANGED wire
    /\ UNCHANGED <<lock, seq, spool, counter, durable, acks, daemon, importing, batch>>

(* The matching ACK arrives before the deadline.                            *)
AckArrives(p) ==
    /\ pc[p] = "waiting"
    /\ p \in acks
    /\ Become(p, "acked")
    /\ UNCHANGED <<lock, seq, spool, counter, durable, wire, acks, daemon, importing, batch>>

(* The deadline passes or the connection closes: the event stays spooled.    *)
GivesUp(p) ==
    /\ pc[p] = "waiting"
    /\ Become(p, "uncertain")
    /\ UNCHANGED <<lock, seq, spool, counter, durable, wire, acks, daemon, importing, batch>>

(* Mutant: the reservation goes when the frame was written.                 *)
RemoveUnacked(p) ==
    /\ pc[p] \in {"acked", "waiting"}
    /\ lock = NoOne
    /\ spool' = spool \ {p}
    /\ Become(p, "done")
    /\ UNCHANGED <<lock, seq, counter, durable, wire, acks, daemon, importing, batch>>

(* _remove_reserved, also when the daemon has removed it already.            *)
RemoveReserved(p) ==
    /\ pc[p] = "acked"
    /\ lock = NoOne
    /\ spool' = spool \ {p}
    /\ Become(p, "done")
    /\ UNCHANGED <<lock, seq, counter, durable, wire, acks, daemon, importing, batch>>

(* A hook is killed (the harness limits its time) anywhere.                  *)
Dies(p) ==
    /\ pc[p] \in {"locked", "published", "prepared", "waiting", "acked"}
    /\ Become(p, IF pc[p] = "published" THEN "torn" ELSE "dead")
    /\ lock' = IF lock = p THEN NoOne ELSE lock
    /\ UNCHANGED <<seq, spool, counter, durable, wire, acks, daemon, importing, batch>>

-----------------------------------------------------------------------------
(* Mutant: a repeated event_id is inserted again.                           *)
AcceptEventAgain(p) == durable' = Append(durable, p)

(* accept_event: a repeated event_id is answered but not inserted again.    *)
AcceptEvent(p) ==
    durable' = IF p \in Durable THEN durable ELSE Append(durable, p)

(* The daemon reads a frame, commits the event and writes the ACK.  The       *)
(* producer may be gone by then.                                            *)
HandleFrame(p) ==
    /\ daemon = "up" /\ importing = "no"
    /\ p \in wire
    /\ wire' = wire \ {p}
    /\ AcceptEvent(p)
    /\ acks' = acks \union {p}
    /\ UNCHANGED <<lock, pc, seq, spool, counter, daemon, importing, batch>>

(* _import_spool lists the spool under its lock, ordered by producer_seq.     *)
ImportStart ==
    /\ daemon # "down" /\ importing = "no"
    /\ lock = NoOne
    /\ lock' = Daemon
    /\ importing' = "accept"
    /\ batch' \in {b \in SetToSeqs(spool) :
                      \A i, j \in DOMAIN b : i < j => seq[b[i]] <= seq[b[j]]}
    /\ UNCHANGED <<pc, seq, spool, counter, durable, wire, acks, daemon>>

ImportAccept ==
    /\ importing = "accept" /\ batch # <<>>
    /\ AcceptEvent(Head(batch))
    /\ importing' = "unlink"
    /\ UNCHANGED <<lock, pc, seq, spool, counter, wire, acks, daemon, batch>>

(* Mutant: the import goes on without removing what it has committed.        *)
ImportKeeps ==
    /\ importing = "unlink"
    /\ batch' = Tail(batch)
    /\ importing' = "accept"
    /\ UNCHANGED <<lock, pc, seq, spool, counter, durable, wire, acks, daemon>>

(* COMMIT always precedes unlink.                                           *)
ImportUnlink ==
    /\ importing = "unlink"
    /\ spool' = spool \ {Head(batch)}
    /\ batch' = Tail(batch)
    /\ importing' = "accept"
    /\ UNCHANGED <<lock, pc, seq, counter, durable, wire, acks, daemon>>

(* A daemon that starts listens after its first import.                     *)
ImportEnd ==
    /\ importing = "accept" /\ batch = <<>>
    /\ lock' = NoOne
    /\ importing' = "no"
    /\ daemon' = "up"
    /\ UNCHANGED <<pc, seq, spool, counter, durable, wire, acks, batch>>

DaemonDies ==
    /\ daemon # "down"
    /\ daemon' = "down"
    /\ lock' = IF lock = Daemon THEN NoOne ELSE lock
    /\ wire' = {}
    /\ importing' = "no"
    /\ batch' = <<>>
    /\ UNCHANGED <<pc, seq, spool, counter, durable, acks>>

DaemonStarts ==
    /\ daemon = "down"
    /\ daemon' = "starting"
    /\ UNCHANGED <<lock, pc, seq, spool, counter, durable, wire, acks, importing, batch>>

Next ==
    \/ \E p \in Producers :
          \/ LockSpool(p) \/ Publish(p) \/ SaveCounter(p) \/ Send(p)
          \/ AckArrives(p) \/ GivesUp(p) \/ RemoveReserved(p) \/ Dies(p)
          \/ HandleFrame(p)
    \/ ImportStart \/ ImportAccept \/ ImportUnlink \/ ImportEnd
    \/ DaemonDies \/ DaemonStarts

Spec == Init /\ [][Next]_vars

(* A run holds the lock no longer than it lives, the daemon is started again  *)
(* and from some point on stays up, and its _spool_loop goes on.             *)
Fairness ==
    /\ <>[][~DaemonDies]_vars
    /\ WF_vars(DaemonStarts)
    /\ WF_vars(ImportStart)
    /\ WF_vars(ImportAccept) /\ WF_vars(ImportUnlink) /\ WF_vars(ImportEnd)
    /\ \A p \in Producers : WF_vars(Publish(p) \/ SaveCounter(p) \/ Dies(p))

LiveSpec == Spec /\ Fairness

-----------------------------------------------------------------------------
Reserved == {p \in Producers : seq[p] > 0}

(* An event whose envelope was ever published is in the spool or committed,   *)
(* whoever dies when and whichever of import, frame and cleanup comes first.  *)
NothingLost == Reserved \subseteq spool \union Durable

(* The docstring of prepare_event: no crash leaves a permanent gap.  The     *)
(* numbers in the spool and the events table are 1..n without a hole, so the  *)
(* reducer never waits for a number that nobody holds.                       *)
NoGap ==
    \A p \in Reserved : \A n \in 1..seq[p] :
        \E q \in spool \union Durable : seq[q] = n

(* A hook told that its event is accepted can rely on it, and each event is   *)
(* in the table once though frame, retry and import may all bring it.         *)
AckedIsDurableOnce ==
    /\ \A p \in Producers : pc[p] \in {"acked", "done"} => p \in Durable
    /\ Len(durable) = Cardinality(Durable)

(* Two events share a number only if one of the runs died between the         *)
(* publication of its envelope and the counter.                              *)
ReuseOnlyAfterTear ==
    \A p, q \in Reserved :
        p # q /\ seq[p] = seq[q] => "torn" \in {pc[p], pc[q]}

(* Every published event is committed in the end, and its file goes.         *)
SpoolDrains == \A p \in Producers : p \in spool ~> p \in Durable /\ p \notin spool

=============================================================================
