--------------------------- MODULE MonitorHomeProofs ---------------------------
(***************************************************************************)
(* Machine-checked safety of ROZORO_HOME, for any number of daemon runs and    *)
(* hooks, each killed at any point, around one reset.                        *)
(***************************************************************************)
EXTENDS MonitorHome, WellFoundedInduction, TLAPS

(* Runs that are between the taking of monitor.lock and its release.           *)
Holding == {"locked", "prepared", "opened", "imported", "bound", "up", "closing"}

(* The flock: whoever works in the home has it, and so there is one.            *)
LockHeld ==
    /\ \A r \in Runs : run[r] \in Holding => lock = r
    /\ ResetUnderWay => lock = Reset

(* The socket's name belongs to the run that made it, and the record names that  *)
(* run from the moment it is up: only a start that was torn leaves a socket that  *)
(* no record names.                                                         *)
SocketRecorded ==
    /\ \A r \in torn : run[r] = "killed" /\ owner # r
    /\ \A r \in Runs : run[r] \notin {"up", "closing", "exited", "killed"} => owner # r
    /\ \A r \in Runs : socket = r =>
           /\ run[r] \in {"bound", "up", "closing", "killed"}
           /\ run[r] # "bound" => r \in torn \/ owner = r
    /\ \A r \in Runs : run[r] = "locked" => prev[r] \in {NoOne, owner}

(* What says something is in a file that has its name, and what a hook has open   *)
(* under its name exists.                                                    *)
FilesExist ==
    /\ \A p \in Hooks : hook[p].open \subseteq there
    /\ \A r \in Runs : HasStore(r) => "monitor.db" \in there
    /\ log # {} => "monitor.db" \in there
    /\ counter # 0 => "counter" \in there

(* A reset that no hook interferes with: nothing it listed changes until it is    *)
(* removed, and what it has passed is gone.                                    *)
ResetClears ==
    /\ overlap \/ ~(HookUnderWay /\ ResetUnderWay)
    /\ ~overlap =>
         /\ reset.pc = "listing" =>
               reset.things = there \intersect {"monitor.db", "producer-seq", "counter"}
         /\ reset.pc = "listed" => reset.things = there
         /\ reset.pc \in {"listed", "no db", "no counter", "no producer-seq"} =>
               reset.envelopes = {e.hook : e \in spool}
         /\ reset.pc = "no db" => (counter # 0 => "counter" \in reset.things)
         /\ reset.pc \in {"no db", "no counter", "no producer-seq", "no envelopes"} => log = {}
         /\ reset.pc \in {"no counter", "no producer-seq", "no envelopes"} => counter = 0
         /\ reset.pc = "no envelopes" => spool = {}

(* In the fresh home a hook that has reserved a number has every number below it  *)
(* before it, and one that has published finds its own in the spool or the log.   *)
FreshNumbers ==
    reset.pc = "ok" /\ ~overlap =>
        /\ Gapless(Numbers)
        /\ counter = 0 \/ counter \in Numbers
        /\ \A p \in Hooks :
             /\ hook[p].pc = "reserved" => \A m \in 1..(hook[p].seq - 1) : m \in Numbers
             /\ hook[p].pc \in {"published", "prepared", "acked"} => hook[p].seq \in Numbers
             /\ hook[p].pc = "acked" => [hook |-> p, seq |-> hook[p].seq] \in log

SpoolBounded == \E b \in Nat : \A e \in spool : e.seq <= b

(* What the daemon's side keeps, and what the files and their numbers keep.      *)
Ownership == DaemonKeepsItsHome /\ StrandedOnlyByCrash /\ LockHeld /\ SocketRecorded

Contents == FilesExist /\ ResetClears /\ FreshNumbers /\ SpoolBounded

IInv == TypeOK /\ Ownership /\ Contents

-----------------------------------------------------------------------------
(* Ownership: the lock, the socket and its record.                            *)

LEMMA RunsAreNotReset ==
  ASSUME NEW r \in Runs
  PROVE  r # Reset /\ r # NoOne /\ Reset # NoOne
  BY HomeAssumption

LEMMA DaemonOwnership ==
  ASSUME TypeOK, Ownership, NEW r \in Runs, Daemon(r), UNCHANGED darwin
  PROVE  Ownership'
  <1> USE DEF Ownership, DaemonKeepsItsHome, StrandedOnlyByCrash, LockHeld,
              SocketRecorded, ResetUnderWay, Holding, HasStore, Listening, Goes, homeVars
  <1>0. /\ run \in [Runs -> RunState] /\ prev \in [Runs -> Runs \union {NoOne}]
        /\ torn \subseteq Runs /\ store \subseteq Runs /\ owner \in Runs \union {NoOne}
        /\ socket \in Runs \union {NoOne}
    BY DEF TypeOK
  <1>1. CASE AcquireLock(r)
    BY <1>0, <1>1, RunsAreNotReset DEF AcquireLock
  <1>2. CASE PrepareEntries(r)
    BY <1>0, <1>2, RunsAreNotReset DEF PrepareEntries, Stale
  <1>3. CASE OpenStore(r)
    BY <1>0, <1>3, RunsAreNotReset DEF OpenStore
  <1>4. CASE ImportSpool(r)
    BY <1>0, <1>4, RunsAreNotReset DEF ImportSpool
  <1>5. CASE Bind(r)
    BY <1>0, <1>5, RunsAreNotReset DEF Bind
  <1>6. CASE RecordOwner(r)
    BY <1>0, <1>6, RunsAreNotReset DEF RecordOwner
  <1>7. CASE CloseListener(r)
    BY <1>0, <1>7, RunsAreNotReset DEF CloseListener
  <1>8. CASE CloseHome(r)
    BY <1>0, <1>8, RunsAreNotReset DEF CloseHome
  <1>9. CASE Kill(r)
    BY <1>0, <1>9, RunsAreNotReset DEF Kill, Alive, RunState
  <1> QED
    BY <1>1, <1>2, <1>3, <1>4, <1>5, <1>6, <1>7, <1>8, <1>9 DEF Daemon

LEMMA ProducerOwnership ==
  ASSUME Ownership, NEW p \in Hooks, Producer(p), UNCHANGED darwin
  PROVE  Ownership'
  <1>1. UNCHANGED <<daemonVars, store, reset>>
    BY DEF Producer, OpenDirs, LockSpool, Reserve, Publish, SaveCounter, Send,
       RemoveReserved, HookDies, HookFails, homeVars
  <1> QED
    BY <1>1 DEF daemonVars, Ownership, DaemonKeepsItsHome, StrandedOnlyByCrash, LockHeld,
       SocketRecorded, ResetUnderWay, HasStore, Listening

LEMMA ResetOwnership ==
  ASSUME TypeOK, Ownership, Resetting, UNCHANGED darwin
  PROVE  Ownership'
  <1>0. reset \in Listing
    BY DEF TypeOK
  <1>1. UNCHANGED <<owner, socket, run, prev, torn>>
    BY DEF Resetting, ResetLock, ListCounters, ListSpool, RemoveDatabase, RemoveCounter,
       RemoveProducerSeq, RemoveEnvelopes, RemoveSpool, ResetDies, ResetEnds, ResetProceeds,
       daemonVars
  <1>2. \/ lock = NoOne /\ lock' = Reset /\ UNCHANGED store
        \/ UNCHANGED <<lock, store>> /\ ~ResetUnderWay'
        \/ ResetUnderWay /\ lock' = lock
        \/ ResetUnderWay /\ lock' = NoOne /\ ~ResetUnderWay'
    BY <1>0 DEF Resetting, ResetLock, ListCounters, ListSpool, RemoveDatabase, RemoveCounter,
       RemoveProducerSeq, RemoveEnvelopes, RemoveSpool, ResetDies, ResetEnds, ResetProceeds,
       daemonVars, homeVars, ResetUnderWay, Listing
  <1> QED
    BY <1>1, <1>2, RunsAreNotReset
    DEF Ownership, DaemonKeepsItsHome, StrandedOnlyByCrash, LockHeld,
        SocketRecorded, HasStore, Listening, Holding

-----------------------------------------------------------------------------
(* Types, and the number a hook takes.                                        *)

(* A bounded set of numbers that is not empty has a largest member.           *)
LEMMA MaxOfBounded ==
  ASSUME NEW S \in SUBSET Nat, S # {}, NEW m \in Nat, \A x \in S : x <= m
  PROVE  Max(S) \in S /\ \A y \in S : Max(S) >= y
  <1> DEFINE below == {m - x : x \in S}
  <1>0. \A x \in S : x \in Nat /\ m - x \in Nat
    OBVIOUS
  <1>1. below \subseteq Nat /\ below # {}
    BY <1>0
  <1>2. \E d \in below : \A e \in below : ~ (<<e, d>> \in OpToRel(<, Nat))
    <2> HIDE DEF below
    <2> QED BY <1>1, NatLessThanWellFounded, WFMin
  <1>3. PICK d \in below : \A e \in below : ~ (e < d)
    BY <1>1, <1>2 DEF OpToRel
  <1>4. PICK x \in S : d = m - x
    OBVIOUS
  <1>5. \A y \in S : x >= y
    <2> TAKE y \in S
    <2>1. m - y \in below
      OBVIOUS
    <2>2. ~ (m - y < m - x)
      BY <1>3, <1>4, <2>1
    <2> QED BY <1>0, <2>2
  <1> QED BY <1>5 DEF Max

(* The number that follows the counter and what the hook can see of the spool.   *)
LEMMA NextSeqFollows ==
  ASSUME TypeOK, SpoolBounded, NEW p \in Hooks
  PROVE  /\ NextSeq(p) \in Nat /\ NextSeq(p) - 1 \in Nat
         /\ NextSeq(p) - 1 = counter \/ \E e \in spool : NextSeq(p) - 1 = e.seq
  <1> DEFINE S == {counter} \union Reserved(p)
  <1>1. PICK b \in Nat : \A e \in spool : e.seq <= b
    BY DEF SpoolBounded
  <1>2. counter \in Nat /\ b + counter \in Nat /\ \A e \in spool : e.seq \in Nat
    BY DEF TypeOK, Envelope
  <1>3. S \subseteq Nat /\ S # {} /\ \A x \in S : x <= b + counter
    BY <1>1, <1>2 DEF Reserved
  <1>4. Max(S) \in S
    <2> HIDE DEF S
    <2> QED BY <1>2, <1>3, MaxOfBounded
  <1> DEFINE top == Max(S)
  <1>5. NextSeq(p) = 1 + top
    BY DEF NextSeq
  <1>6. top = counter \/ \E e \in spool : top = e.seq
    <2> HIDE DEF top
    <2>1. top \in S
      BY <1>4 DEF top
    <2> QED BY <2>1 DEF Reserved
  <1> HIDE DEF top
  <1> QED BY <1>2, <1>5, <1>6

LEMMA DaemonType ==
  ASSUME TypeOK, NEW r \in Runs, Daemon(r), Overlap, UNCHANGED darwin
  PROVE  TypeOK'
  <1> USE DEF TypeOK, Goes, homeVars, Overlap
  <1>0. \A where \in RunState : [run EXCEPT ![r] = where] \in [Runs -> RunState]
    OBVIOUS
  <1>1. CASE AcquireLock(r)
    <2>1. prev' \in [Runs -> Runs \union {NoOne}]
      BY <1>1 DEF AcquireLock
    <2> QED BY <1>1, <2>1 DEF AcquireLock, RunState
  <1>2. CASE PrepareEntries(r)
    BY <1>2 DEF PrepareEntries, RunState
  <1>3. CASE OpenStore(r)
    BY <1>3 DEF OpenStore, RunState, Things
  <1>4. CASE ImportSpool(r)
    BY <1>4 DEF ImportSpool, RunState, Things
  <1>5. CASE Bind(r)
    BY <1>5 DEF Bind, RunState
  <1>6. CASE RecordOwner(r)
    BY <1>6 DEF RecordOwner, RunState
  <1>7. CASE CloseListener(r)
    BY <1>7 DEF CloseListener, RunState
  <1>8. CASE CloseHome(r)
    BY <1>8 DEF CloseHome, RunState
  <1>9. CASE Kill(r)
    BY <1>9 DEF Kill, RunState
  <1> QED
    BY <1>1, <1>2, <1>3, <1>4, <1>5, <1>6, <1>7, <1>8, <1>9 DEF Daemon

LEMMA HookTypes ==
  ASSUME NEW p \in Hooks, hook \in [Hooks -> Hook]
  PROVE  /\ hook[p].pc \in HookState /\ hook[p].open \subseteq Things /\ hook[p].seq \in Nat
         /\ \A how \in HookState : HookEnds(p, how) => hook' \in [Hooks -> Hook]
  BY DEF Hook, HookEnds

LEMMA ProducerType ==
  ASSUME TypeOK, SpoolBounded, NEW p \in Hooks, Producer(p), Overlap, UNCHANGED darwin
  PROVE  TypeOK'
  <1> USE DEF TypeOK, daemonVars, homeVars, Overlap
  <1>0. /\ hook[p] \in Hook /\ hook[p].open \subseteq Things /\ hook[p].seq \in Nat
        /\ \A how \in HookState : HookEnds(p, how) => hook' \in [Hooks -> Hook]
        /\ {"idle", "open", "locked", "reserved", "published", "prepared",
            "acked", "done", "failed", "dead"} \subseteq HookState
    BY HookTypes DEF HookState
  <1>1. CASE OpenDirs(p)
    <2>1. hook' \in [Hooks -> Hook]
      BY <1>0, <1>1 DEF OpenDirs, Hook, Things
    <2> QED BY <1>1, <2>1 DEF OpenDirs, Things
  <1>2. CASE HookFails(p) \/ HookDies(p)
    BY <1>0, <1>2 DEF HookFails, HookDies
  <1>3. CASE LockSpool(p) /\ ~HookFails(p)
    <2>1. hook' \in [Hooks -> Hook]
      BY <1>0, <1>3 DEF LockSpool, Hook, Things
    <2> QED BY <1>3, <2>1 DEF LockSpool, Things
  <1>4. CASE Reserve(p) /\ ~HookFails(p)
    <2>1. NextSeq(p) \in Nat
      BY NextSeqFollows
    <2>2. hook' \in [Hooks -> Hook]
      BY <1>0, <1>4, <2>1 DEF Reserve, Hook, Things
    <2> QED BY <1>4, <2>2 DEF Reserve, Things
  <1>5. CASE Publish(p) /\ ~HookFails(p)
    <2>1. hook' \in [Hooks -> Hook]
      BY <1>0, <1>5 DEF Publish, Hook
    <2> QED BY <1>0, <1>5, <2>1 DEF Publish, Envelope
  <1>6. CASE SaveCounter(p)
    <2>1. hook' \in [Hooks -> Hook]
      BY <1>0, <1>6 DEF SaveCounter, Hook
    <2> QED BY <1>0, <1>6, <2>1 DEF SaveCounter
  <1>7. CASE Send(p) /\ ~HookFails(p)
    <2>1. hook' \in [Hooks -> Hook]
      BY <1>0, <1>7 DEF Send, Hook
    <2> QED BY <1>0, <1>7, <2>1 DEF Send, Envelope
  <1>8. CASE RemoveReserved(p)
    BY <1>0, <1>8 DEF RemoveReserved, Things
  <1> QED
    BY <1>1, <1>2, <1>3, <1>4, <1>5, <1>6, <1>7, <1>8 DEF Producer

LEMMA UnlinkTypes ==
  ASSUME TypeOK, NEW things, Unlink(things)
  PROVE  there' \subseteq Things /\ hook' \in [Hooks -> Hook]
  BY DEF TypeOK, Unlink, Hook

LEMMA ResetType ==
  ASSUME TypeOK, Resetting, Overlap, UNCHANGED darwin
  PROVE  TypeOK'
  <1> USE DEF TypeOK, daemonVars, homeVars, Overlap, ResetProceeds, ResetEnds
  <1>0. /\ reset.things \subseteq Things /\ reset.envelopes \subseteq Hooks
        /\ \A where \in ResetState : [reset EXCEPT !.pc = where] \in Listing
        /\ {"locked", "listing", "listed", "no db", "no counter", "no producer-seq",
            "no envelopes", "ok", "refused", "dead"} \subseteq ResetState
    BY DEF Listing, ResetState
  <1>1. CASE ResetLock
    BY <1>0, <1>1 DEF ResetLock
  <1>2. CASE ListCounters
    <2>1. reset' \in Listing
      BY <1>0, <1>2 DEF ListCounters, Listing
    <2> QED BY <1>2, <2>1 DEF ListCounters
  <1>3. CASE ListSpool
    <2>1. {e.hook : e \in spool} \subseteq Hooks
      BY DEF Envelope
    <2>2. reset' \in Listing
      BY <1>0, <1>3, <2>1 DEF ListSpool, Listing
    <2> QED BY <1>3, <2>2 DEF ListSpool
  <1>4. CASE RemoveDatabase
    BY <1>0, <1>4, UnlinkTypes DEF RemoveDatabase
  <1>5. CASE RemoveCounter
    BY <1>0, <1>5, UnlinkTypes DEF RemoveCounter
  <1>6. CASE RemoveProducerSeq
    BY <1>0, <1>6, UnlinkTypes DEF RemoveProducerSeq
  <1>7. CASE RemoveEnvelopes
    BY <1>0, <1>7, UnlinkTypes DEF RemoveEnvelopes
  <1>8. CASE RemoveSpool
    BY <1>0, <1>8, UnlinkTypes DEF RemoveSpool
  <1>9. CASE ResetDies
    BY <1>0, <1>9 DEF ResetDies
  <1> QED
    BY <1>1, <1>2, <1>3, <1>4, <1>5, <1>6, <1>7, <1>8, <1>9 DEF Resetting

-----------------------------------------------------------------------------
(* Contents: what a step of the daemon, of a hook and of the reset does to them.  *)

LEMMA InitInv == Init => IInv
  <1> SUFFICES ASSUME Init PROVE IInv
    OBVIOUS
  <1>1. TypeOK
    BY DEF Init, TypeOK, RunState, Hook, HookState, Listing, ResetState
  <1>2. Ownership
    BY RunsAreNotReset DEF Init, Ownership, DaemonKeepsItsHome, StrandedOnlyByCrash,
       LockHeld, SocketRecorded, Listening, HasStore, Holding, ResetUnderWay
  <1>3. SpoolBounded
    BY DEF Init, SpoolBounded
  <1>4. FilesExist /\ ResetClears /\ FreshNumbers
    BY DEF Init, FilesExist, ResetClears, FreshNumbers, HasStore, ResetUnderWay, HookUnderWay
  <1> QED BY <1>1, <1>2, <1>3, <1>4 DEF IInv, Contents

(* What overlap says of the step after which it is still false.                 *)
LEMMA StillNoOverlap ==
  ASSUME IInv, Overlap, ~overlap'
  PROVE  ~overlap /\ ~(HookUnderWay /\ ResetUnderWay) /\ ~(HookUnderWay' /\ ResetUnderWay')
  BY DEF Overlap, IInv, Contents, ResetClears

(* A step that leaves alone what is in the home, the hooks and the reset.       *)
LEMMA ContentsFrame ==
  ASSUME IInv, Overlap, UNCHANGED <<log, there, counter, spool, hook, reset>>,
         \A q \in Runs : HasStore(q)' => HasStore(q)
  PROVE  Contents'
  <1>1. overlap' = overlap
    BY DEF Overlap, HookUnderWay, ResetUnderWay, IInv, Contents, ResetClears, TypeOK
  <1>2. FilesExist' /\ SpoolBounded'
    BY DEF IInv, Contents, FilesExist, SpoolBounded
  <1>3. ResetClears'
    BY <1>1 DEF IInv, Contents, ResetClears, HookUnderWay, ResetUnderWay
  <1>4. FreshNumbers'
    BY <1>1 DEF IInv, Contents, FreshNumbers, Numbers, Gapless
  <1> QED BY <1>2, <1>3, <1>4 DEF Contents

(* Growth of the log and the spool, apart from what moves from one to the other,   *)
(* with no reset and no hook in between.                                       *)
LEMMA ImportContents ==
  ASSUME IInv, NEW r \in Runs, ImportSpool(r), Overlap
  PROVE  Contents'
  <1>0. /\ run[r] \in {"opened", "up"} /\ lock = r /\ ~ResetUnderWay
        /\ "monitor.db" \in there
        /\ there' = there \union {"spool", "spool/.lock"}
        /\ log' = log \union spool /\ spool' = {}
        /\ UNCHANGED <<counter, hook, reset>>
    BY RunsAreNotReset DEF ImportSpool, IInv, Ownership, LockHeld, Holding, Contents,
       FilesExist, HasStore
  <1>1. FilesExist' /\ SpoolBounded'
    BY <1>0 DEF IInv, Contents, FilesExist, SpoolBounded
  <1>2. overlap' = overlap
    BY <1>0 DEF Overlap, ResetUnderWay, IInv, TypeOK
  <1>3. ResetClears'
    BY <1>0, <1>2 DEF ResetClears, ResetUnderWay, HookUnderWay
  <1>4. Numbers' = Numbers
    BY <1>0 DEF Numbers
  <1>5. FreshNumbers'
    BY <1>0, <1>2, <1>4 DEF IInv, Contents, FreshNumbers, Gapless
  <1> QED BY <1>1, <1>3, <1>5 DEF Contents

LEMMA DaemonContents ==
  ASSUME IInv, NEW r \in Runs, Daemon(r), Overlap
  PROVE  Contents'
  <1>0. run \in [Runs -> RunState]
    BY DEF IInv, TypeOK
  <1>1. CASE ImportSpool(r)
    BY <1>1, ImportContents
  <1>2. CASE OpenStore(r)
    <2>1. /\ run[r] = "prepared" /\ lock = r /\ ~ResetUnderWay
          /\ there' = there \union {"monitor.db"}
          /\ UNCHANGED <<log, counter, spool, hook, reset>>
      BY <1>2, RunsAreNotReset DEF OpenStore, IInv, Ownership, LockHeld, Holding
    <2>2. FilesExist' /\ SpoolBounded'
      BY <1>0, <2>1 DEF IInv, Contents, FilesExist, SpoolBounded
    <2>3. overlap' = overlap
      BY <2>1 DEF Overlap, ResetUnderWay, IInv, TypeOK
    <2>4. ResetClears'
      BY <2>1, <2>3 DEF ResetClears, ResetUnderWay, HookUnderWay
    <2>5. FreshNumbers'
      BY <2>1, <2>3 DEF IInv, Contents, FreshNumbers, Gapless, Numbers
    <2> QED BY <2>2, <2>4, <2>5 DEF Contents
  <1>3. CASE ~ImportSpool(r) /\ ~OpenStore(r)
    <2>1. UNCHANGED <<log, there, counter, spool, hook, reset>>
      BY <1>3 DEF Daemon, AcquireLock, PrepareEntries, Bind, RecordOwner, CloseListener,
         CloseHome, Kill, homeVars
    <2>2. \A q \in Runs : HasStore(q)' => HasStore(q)
      BY <1>0, <1>3 DEF Daemon, AcquireLock, PrepareEntries, Bind, RecordOwner,
         CloseListener, CloseHome, Kill, Goes, HasStore
    <2> QED BY <2>1, <2>2, ContentsFrame
  <1> QED BY <1>1, <1>2, <1>3

LEMMA ProducerFiles ==
  ASSUME IInv, NEW p \in Hooks, Producer(p)
  PROVE  FilesExist' /\ SpoolBounded'
  <1> USE DEF FilesExist, HasStore
  <1>0. /\ hook \in [Hooks -> Hook] /\ FilesExist /\ counter \in Nat /\ hook[p].seq \in Nat
        /\ \A how : HookEnds(p, how) => \A q \in Hooks : hook'[q].open \subseteq hook[q].open
    BY DEF IInv, Contents, TypeOK, HookEnds, Hook
  <1>1. CASE OpenDirs(p)
    BY <1>0, <1>1 DEF OpenDirs, Hook, daemonVars, IInv, Contents, SpoolBounded
  <1>2. CASE HookFails(p) \/ HookDies(p)
    BY <1>0, <1>2 DEF HookFails, HookDies, daemonVars, homeVars, IInv, Contents, SpoolBounded
  <1>3. CASE LockSpool(p) /\ ~HookFails(p)
    BY <1>0, <1>3 DEF LockSpool, Hook, daemonVars, IInv, Contents, SpoolBounded
  <1>4. CASE Reserve(p) /\ ~HookFails(p)
    BY <1>0, <1>4 DEF Reserve, Hook, daemonVars, IInv, Contents, SpoolBounded
  <1>5. CASE Publish(p) /\ ~HookFails(p)
    <2>1. FilesExist'
      BY <1>0, <1>5 DEF Publish, Hook, daemonVars
    <2>2. PICK b \in Nat : \A e \in spool : e.seq <= b
      BY DEF IInv, Contents, SpoolBounded
    <2>3. \A e \in spool' : e.seq <= b + hook[p].seq
      BY <1>0, <1>5, <2>2 DEF Publish, IInv, TypeOK, Envelope
    <2>4. b + hook[p].seq \in Nat
      BY <1>0, <2>2
    <2> QED BY <2>1, <2>3, <2>4 DEF SpoolBounded
  <1>6. CASE SaveCounter(p)
    <2>1. /\ counter' = IF "counter" \in hook[p].open THEN hook[p].seq ELSE counter
          /\ \A q \in Hooks : hook'[q].open = hook[q].open
      BY <1>0, <1>6 DEF SaveCounter, Hook
    <2> QED BY <1>0, <1>6, <2>1 DEF SaveCounter, daemonVars, IInv, Contents, SpoolBounded
  <1>7. CASE Send(p) /\ ~HookFails(p)
    BY <1>0, <1>7 DEF Send, Hook, daemonVars, IInv, Contents, SpoolBounded
  <1>8. CASE RemoveReserved(p)
    BY <1>0, <1>8 DEF RemoveReserved, daemonVars, IInv, Contents, SpoolBounded
  <1> QED
    BY <1>1, <1>2, <1>3, <1>4, <1>5, <1>6, <1>7, <1>8 DEF Producer

(* A hook that takes a step is under way before it or after it.                 *)
LEMMA HookStepMeansNoReset ==
  ASSUME IInv, NEW p \in Hooks, Producer(p), Overlap, ~overlap'
  PROVE  ~overlap /\ ~ResetUnderWay /\ UNCHANGED reset
  <1>1. UNCHANGED reset
    BY DEF Producer, OpenDirs, LockSpool, Reserve, Publish, SaveCounter, Send,
       RemoveReserved, HookDies, HookFails
  <1>2. hook \in [Hooks -> Hook]
    BY DEF IInv, TypeOK
  <1>3. CASE OpenDirs(p)
    <2>1. hook'[p].pc = "open"
      BY <1>2, <1>3 DEF OpenDirs, Hook
    <2> QED BY <1>1, <2>1, StillNoOverlap DEF HookUnderWay, ResetUnderWay
  <1>4. CASE ~OpenDirs(p)
    <2>1. hook[p].pc \notin {"idle", "done", "failed", "dead"}
      BY <1>4 DEF Producer, LockSpool, Reserve, Publish, SaveCounter, Send,
         RemoveReserved, HookDies, At
    <2> QED BY <1>1, <2>1, StillNoOverlap DEF HookUnderWay
  <1> QED BY <1>3, <1>4

(* What one hook's step does to the numbers in the fresh home.                  *)
LEMMA ProducerNumbers ==
  ASSUME IInv, NEW p \in Hooks, Producer(p), reset.pc = "ok", ~overlap
  PROVE  /\ Gapless(Numbers)' /\ (counter = 0 \/ counter \in Numbers)'
         /\ \A q \in Hooks :
              /\ hook'[q].pc = "reserved" => \A m \in 1..(hook'[q].seq - 1) : m \in Numbers'
              /\ hook'[q].pc \in {"published", "prepared", "acked"} => hook'[q].seq \in Numbers'
              /\ hook'[q].pc = "acked" => [hook |-> q, seq |-> hook'[q].seq] \in log'
  <1>0. /\ hook \in [Hooks -> Hook] /\ \A q \in Hooks : hook[q].seq \in Nat
        /\ counter \in Nat /\ spool \subseteq Envelope /\ log \subseteq Envelope
        /\ Numbers \subseteq Nat
    BY DEF IInv, TypeOK, Hook, Envelope, Numbers
  <1>f. /\ Gapless(Numbers) /\ (counter = 0 \/ counter \in Numbers)
        /\ \A q \in Hooks :
             /\ hook[q].pc = "reserved" => \A m \in 1..(hook[q].seq - 1) : m \in Numbers
             /\ hook[q].pc \in {"published", "prepared", "acked"} => hook[q].seq \in Numbers
             /\ hook[q].pc = "acked" => [hook |-> q, seq |-> hook[q].seq] \in log
    BY DEF IInv, Contents, FreshNumbers
  <1>1. CASE OpenDirs(p) \/ HookFails(p) \/ HookDies(p) \/ (LockSpool(p) /\ ~HookFails(p))
    <2>1. UNCHANGED <<log, spool, counter>>
      BY <1>1 DEF OpenDirs, HookFails, HookDies, LockSpool, homeVars
    <2>2. \A q \in Hooks : \/ hook'[q] = hook[q]
                           \/ hook'[q].pc \in {"open", "locked", "failed", "dead"}
      BY <1>0, <1>1 DEF OpenDirs, HookFails, HookDies, LockSpool, HookEnds, Hook
    <2>3. Numbers' = Numbers
      BY <2>1 DEF Numbers
    <2> QED BY <1>f, <2>1, <2>2, <2>3 DEF Gapless
  <1>2. CASE Reserve(p) /\ ~HookFails(p)
    <2>1. UNCHANGED <<log, spool, counter>>
      BY <1>2 DEF Reserve
    <2>2. \A q \in Hooks : IF q = p THEN hook'[q].pc = "reserved" /\ hook'[q].seq = NextSeq(p)
                                    ELSE hook'[q] = hook[q]
      BY <1>0, <1>2 DEF Reserve, Hook
    <2>3. Numbers' = Numbers
      BY <2>1 DEF Numbers
    <2>4. /\ NextSeq(p) \in Nat /\ NextSeq(p) - 1 \in Nat
          /\ NextSeq(p) - 1 = 0 \/ NextSeq(p) - 1 \in Numbers
      BY <1>f, NextSeqFollows DEF IInv, Contents, Numbers
    <2>5. \A m \in 1..(NextSeq(p) - 1) : m \in Numbers
      BY <1>f, <2>4 DEF Gapless
    <2> QED BY <1>f, <2>1, <2>2, <2>3, <2>5 DEF Gapless
  <1>3. CASE Publish(p) /\ ~HookFails(p)
    <2>1. /\ UNCHANGED <<log, counter>>
          /\ spool' = spool \union {[hook |-> p, seq |-> hook[p].seq]}
          /\ hook[p].pc = "reserved"
      BY <1>3 DEF Publish, At
    <2>2. \A q \in Hooks : /\ hook'[q].seq = hook[q].seq
                           /\ IF q = p THEN hook'[q].pc = "published"
                                       ELSE hook'[q] = hook[q]
      BY <1>0, <1>3 DEF Publish, Hook
    <2> DEFINE s == hook[p].seq
               e == [hook |-> p, seq |-> s]
    <2>a. e.seq = s /\ s \in Nat
      BY <1>0
    <2>3. Numbers' = Numbers \union {s}
      <3>1. spool' = spool \union {e} /\ log' = log
        BY <2>1
      <3> HIDE DEF e
      <3> QED BY <2>a, <3>1 DEF Numbers
    <2>4. Gapless(Numbers')
      <3>1. \A m \in 1..(s - 1) : m \in Numbers
        BY <1>f, <2>1
      <3>2. \A m \in 1..s : m = s \/ m \in 1..(s - 1)
        BY <2>a
      <3> HIDE DEF s
      <3> QED BY <1>f, <2>3, <3>1, <3>2 DEF Gapless
    <2>5. \A q \in Hooks : hook'[q].pc = "reserved" =>
             \A m \in 1..(hook'[q].seq - 1) : m \in Numbers'
      BY <1>f, <2>2, <2>3
    <2> QED BY <1>f, <2>1, <2>2, <2>3, <2>4, <2>5 DEF Gapless
  <1>4. CASE SaveCounter(p)
    <2>1. /\ UNCHANGED <<log, spool>> /\ hook[p].pc = "published"
          /\ counter' \in {hook[p].seq, counter}
      BY <1>4 DEF SaveCounter, At
    <2>2. \A q \in Hooks : /\ hook'[q].seq = hook[q].seq
                           /\ IF q = p THEN hook'[q].pc = "prepared"
                                       ELSE hook'[q] = hook[q]
      BY <1>0, <1>4 DEF SaveCounter, Hook
    <2>3. Numbers' = Numbers
      BY <2>1 DEF Numbers
    <2> QED BY <1>f, <2>1, <2>2, <2>3 DEF Gapless
  <1>5. CASE Send(p) /\ ~HookFails(p)
    <2>1. /\ UNCHANGED <<spool, counter>> /\ hook[p].pc = "prepared"
          /\ log' = log \union {[hook |-> p, seq |-> hook[p].seq]}
      BY <1>5 DEF Send, At
    <2>2. \A q \in Hooks : /\ hook'[q].seq = hook[q].seq
                           /\ IF q = p THEN hook'[q].pc = "acked"
                                       ELSE hook'[q] = hook[q]
      BY <1>0, <1>5 DEF Send, Hook
    <2>3. Numbers' = Numbers
      BY <1>f, <2>1 DEF Numbers
    <2> QED BY <1>f, <2>1, <2>2, <2>3 DEF Gapless
  <1>6. CASE RemoveReserved(p)
    <2>1. /\ UNCHANGED <<log, counter>> /\ hook[p].pc = "acked"
          /\ spool' = spool \ {[hook |-> p, seq |-> hook[p].seq]}
      BY <1>6 DEF RemoveReserved, At
    <2>2. \A q \in Hooks : IF q = p THEN hook'[q].pc = "done" ELSE hook'[q] = hook[q]
      BY <1>0, <1>6 DEF RemoveReserved, HookEnds
    <2>3. Numbers' = Numbers
      BY <1>f, <2>1 DEF Numbers
    <2> QED BY <1>f, <2>1, <2>2, <2>3 DEF Gapless
  <1> QED
    BY <1>1, <1>2, <1>3, <1>4, <1>5, <1>6 DEF Producer

LEMMA ProducerContents ==
  ASSUME IInv, NEW p \in Hooks, Producer(p), Overlap
  PROVE  Contents'
  <1>1. FilesExist' /\ SpoolBounded'
    BY ProducerFiles
  <1>2. ResetClears'
    <2>1. overlap' \/ ~(HookUnderWay' /\ ResetUnderWay')
      BY DEF Overlap
    <2>2. ~overlap' => ~ResetUnderWay /\ UNCHANGED reset
      BY HookStepMeansNoReset
    <2> QED BY <2>1, <2>2 DEF ResetClears, ResetUnderWay, HookUnderWay
  <1>3. FreshNumbers'
    <2> SUFFICES ASSUME reset'.pc = "ok", ~overlap' PROVE FreshNumbers'
      BY DEF FreshNumbers
    <2>1. reset.pc = "ok" /\ ~overlap
      BY HookStepMeansNoReset
    <2> QED BY <2>1, ProducerNumbers DEF FreshNumbers
  <1> QED BY <1>1, <1>2, <1>3 DEF Contents

-----------------------------------------------------------------------------
(* The reset.                                                                *)

(* Unlinking takes names away and nothing else from a hook.                     *)
LEMMA UnlinkHooks ==
  ASSUME TypeOK, NEW things, Unlink(things)
  PROVE  \A p \in Hooks : /\ hook'[p].pc = hook[p].pc /\ hook'[p].seq = hook[p].seq
                          /\ hook'[p].open = hook[p].open \ things
  BY DEF TypeOK, Unlink, Hook

LEMMA ResetFiles ==
  ASSUME IInv, Resetting
  PROVE  FilesExist' /\ SpoolBounded'
  <1> DEFINE Loses(things) ==
               /\ Unlink(things) /\ ResetUnderWay
               /\ (log' = log /\ "monitor.db" \notin things) \/ log' = {}
               /\ (counter' = counter /\ "counter" \notin things) \/ counter' = 0
  <1>0. /\ TypeOK /\ FilesExist
        /\ ResetUnderWay => \A r \in Runs : run[r] \notin Holding
    BY RunsAreNotReset DEF IInv, Contents, Ownership, LockHeld
  <1>1. UNCHANGED run /\ spool' \subseteq spool
    BY DEF Resetting, ResetLock, ListCounters, ListSpool, RemoveDatabase, RemoveCounter,
       RemoveProducerSeq, RemoveEnvelopes, RemoveSpool, ResetDies, ResetEnds, ResetProceeds,
       daemonVars, homeVars
  <1>2. SpoolBounded'
    BY <1>1 DEF IInv, Contents, SpoolBounded
  <1>3. ASSUME UNCHANGED <<there, hook, log, counter>> PROVE FilesExist'
    BY <1>0, <1>1, <1>3 DEF FilesExist, HasStore
  <1>4. ASSUME NEW things, Loses(things) PROVE FilesExist'
    <2>1. \A p \in Hooks : hook'[p].open \subseteq there'
      <3>1. \A p \in Hooks : hook'[p].open = hook[p].open \ things
        BY <1>0, <1>4, UnlinkHooks
      <3>2. there' = there \ things /\ \A p \in Hooks : hook[p].open \subseteq there
        BY <1>0, <1>4 DEF Unlink, FilesExist
      <3> QED BY <3>1, <3>2
    <2>2. \A r \in Runs : HasStore(r)' => "monitor.db" \in there'
      BY <1>0, <1>1, <1>4 DEF HasStore, Holding
    <2>3. /\ log' # {} => "monitor.db" \in there'
          /\ counter' # 0 => "counter" \in there'
      BY <1>0, <1>4 DEF Unlink, FilesExist
    <2> QED BY <2>1, <2>2, <2>3 DEF FilesExist
  <1>5. CASE RemoveDatabase
    <2>1. Loses(reset.things \intersect {"monitor.db"})
      BY <1>5 DEF RemoveDatabase, ResetUnderWay
    <2> QED BY <1>2, <1>4, <2>1
  <1>6. CASE RemoveCounter
    <2>1. Loses(reset.things \intersect {"counter"})
      BY <1>6 DEF RemoveCounter, ResetUnderWay
    <2> QED BY <1>2, <1>4, <2>1
  <1>7. CASE RemoveProducerSeq
    <2>1. \/ UNCHANGED <<there, hook, log, counter>>
          \/ Loses(reset.things \intersect {"producer-seq"})
      BY <1>7 DEF RemoveProducerSeq, ResetUnderWay
    <2> QED BY <1>2, <1>3, <1>4, <2>1
  <1>8. CASE RemoveEnvelopes
    <2>1. \/ UNCHANGED <<there, hook, log, counter>>
          \/ Loses(reset.things \intersect {"spool/.lock"})
      BY <1>8 DEF RemoveEnvelopes, ResetUnderWay
    <2> QED BY <1>2, <1>3, <1>4, <2>1
  <1>9. CASE RemoveSpool
    <2>1. \/ UNCHANGED <<there, hook, log, counter>>
          \/ Loses(reset.things \intersect {"spool"})
      BY <1>9 DEF RemoveSpool, ResetUnderWay
    <2> QED BY <1>2, <1>3, <1>4, <2>1
  <1>10. CASE ResetLock \/ ListCounters \/ ListSpool \/ ResetDies
    BY <1>2, <1>3, <1>10 DEF ResetLock, ListCounters, ListSpool, ResetDies, homeVars
  <1> QED BY <1>5, <1>6, <1>7, <1>8, <1>9, <1>10 DEF Resetting

(* What a reset that no hook meets leaves behind at each of its steps.           *)
LEMMA ResetOrder ==
  ASSUME IInv, Resetting, Overlap
  PROVE  ResetClears'
  <1>0. /\ reset \in Listing /\ there \subseteq Things
        /\ Things = {"monitor.db", "spool", "spool/.lock", "producer-seq", "counter"}
        /\ log # {} => "monitor.db" \in there
        /\ counter # 0 => "counter" \in there
    BY DEF IInv, TypeOK, Contents, FilesExist, Things
  <1>1. overlap' \/ ~(HookUnderWay' /\ ResetUnderWay')
    BY DEF Overlap
  <1>2. ~overlap' => ~overlap
    BY DEF Overlap
  <1>3. ResetClears
    BY DEF IInv, Contents
  <1> SUFFICES ASSUME ~overlap' PROVE ResetClears'
    BY <1>1 DEF ResetClears
  <1> USE DEF ResetClears, ResetProceeds, ResetEnds, Listing
  <1>4. CASE ResetLock \/ ResetDies
    BY <1>0, <1>1, <1>4 DEF ResetLock, ResetDies
  <1>5. CASE ListCounters
    BY <1>0, <1>1, <1>2, <1>3, <1>5 DEF ListCounters, homeVars
  <1>6. CASE ListSpool
    BY <1>0, <1>1, <1>2, <1>3, <1>6 DEF ListSpool, homeVars
  <1>7. CASE RemoveDatabase
    <2>1. /\ reset.pc = "listed" /\ reset' = [reset EXCEPT !.pc = "no db"]
          /\ log' = {} /\ UNCHANGED <<counter, spool>>
      BY <1>0, <1>2, <1>3, <1>7 DEF RemoveDatabase
    <2> QED BY <1>0, <1>1, <1>2, <1>3, <2>1
  <1>8. CASE RemoveCounter
    <2>1. /\ reset.pc = "no db" /\ reset' = [reset EXCEPT !.pc = "no counter"]
          /\ counter' = 0 /\ UNCHANGED <<log, spool>>
      BY <1>0, <1>2, <1>3, <1>8 DEF RemoveCounter
    <2> QED BY <1>0, <1>1, <1>2, <1>3, <2>1
  <1>9. CASE RemoveProducerSeq
    <2>1. /\ reset.pc = "no counter" /\ UNCHANGED <<log, counter, spool>>
          /\ \E pc \in {"no producer-seq", "refused"} : reset' = [reset EXCEPT !.pc = pc]
      BY <1>9 DEF RemoveProducerSeq
    <2> QED BY <1>0, <1>1, <1>2, <1>3, <2>1
  <1>10. CASE RemoveEnvelopes
    <2>1. /\ reset.pc = "no producer-seq" /\ UNCHANGED <<log, counter>>
          /\ \/ reset' = [reset EXCEPT !.pc = "refused"]
             \/ /\ reset' = [reset EXCEPT !.pc = "no envelopes"]
                /\ spool' = {e \in spool : e.hook \notin reset.envelopes}
      BY <1>10 DEF RemoveEnvelopes
    <2>2. log' = {} /\ counter' = 0 /\ reset.envelopes = {e.hook : e \in spool}
      BY <1>2, <1>3, <2>1
    <2>3. {e \in spool : e.hook \notin reset.envelopes} = {}
      BY <2>2
    <2>4. \/ reset'.pc = "refused"
          \/ (reset'.pc = "no envelopes" /\ spool' = {})
      BY <1>0, <2>1, <2>3
    <2> QED BY <1>1, <2>2, <2>4
  <1>11. CASE RemoveSpool
    <2>1. \E pc \in {"ok", "refused"} : reset' = [reset EXCEPT !.pc = pc]
      BY <1>11 DEF RemoveSpool
    <2> QED BY <1>0, <1>1, <2>1
  <1> QED
    BY <1>4, <1>5, <1>6, <1>7, <1>8, <1>9, <1>10, <1>11 DEF Resetting

(* When it reports success there is no number left, and no hook to bring one.     *)
LEMMA ResetNumbers ==
  ASSUME IInv, Resetting, Overlap
  PROVE  FreshNumbers'
  <1> SUFFICES ASSUME reset'.pc = "ok", ~overlap' PROVE FreshNumbers'
    BY DEF FreshNumbers
  <1>0. reset \in Listing
    BY DEF IInv, TypeOK
  <1>1. RemoveSpool /\ UNCHANGED <<log, counter, spool>>
    BY <1>0 DEF Resetting, ResetLock, ListCounters, ListSpool, RemoveDatabase,
       RemoveCounter, RemoveProducerSeq, RemoveEnvelopes, RemoveSpool, ResetDies,
       ResetProceeds, ResetEnds, Listing
  <1>2. /\ ~overlap /\ reset.pc = "no envelopes" /\ ~HookUnderWay
        /\ log = {} /\ counter = 0 /\ spool = {}
    BY <1>1, StillNoOverlap DEF RemoveSpool, ResetUnderWay, IInv, Contents, ResetClears
  <1>3. Unlink(reset.things \intersect {"spool"}) \/ UNCHANGED hook
    BY <1>1 DEF RemoveSpool
  <1>4. \A p \in Hooks : hook'[p].pc = hook[p].pc
    BY <1>3, UnlinkHooks DEF IInv
  <1>5. Numbers' = {}
    BY <1>1, <1>2 DEF Numbers
  <1> QED BY <1>1, <1>2, <1>4, <1>5 DEF FreshNumbers, Gapless, HookUnderWay

LEMMA ResetContents ==
  ASSUME IInv, Resetting, Overlap PROVE Contents'
  BY ResetFiles, ResetOrder, ResetNumbers DEF Contents

-----------------------------------------------------------------------------
LEMMA NextInv == IInv /\ [Next]_vars => IInv'
  <1> SUFFICES ASSUME IInv, [Next]_vars PROVE IInv'
    OBVIOUS
  <1>1. CASE UNCHANGED vars
    <2> USE <1>1 DEF vars, daemonVars, homeVars, IInv
    <2>1. TypeOK'
      BY DEF TypeOK
    <2>2. Ownership'
      <3>1. DaemonKeepsItsHome' /\ StrandedOnlyByCrash'
        BY DEF Ownership, DaemonKeepsItsHome, StrandedOnlyByCrash, Listening, HasStore
      <3>2. LockHeld' /\ SocketRecorded'
        <4>1. ResetUnderWay' <=> ResetUnderWay
          BY DEF ResetUnderWay
        <4> QED BY <4>1 DEF Ownership, LockHeld, SocketRecorded
      <3> QED BY <3>1, <3>2 DEF Ownership
    <2>3. Contents'
      <3>1. UNCHANGED Numbers /\ UNCHANGED HookUnderWay /\ UNCHANGED ResetUnderWay
        BY DEF Numbers, HookUnderWay, ResetUnderWay
      <3> QED BY <3>1 DEF Contents, FilesExist, ResetClears, FreshNumbers, SpoolBounded,
                          HasStore, Gapless, Listening
    <2> QED BY <2>1, <2>2, <2>3
  <1>2. ASSUME NEW r \in Runs, Daemon(r), Overlap, UNCHANGED darwin PROVE IInv'
    BY <1>2, DaemonType, DaemonOwnership, DaemonContents DEF IInv
  <1>3. ASSUME NEW p \in Hooks, Producer(p), Overlap, UNCHANGED darwin PROVE IInv'
    <2>1. SpoolBounded
      BY DEF IInv, Contents
    <2> QED BY <1>3, <2>1, ProducerType, ProducerOwnership, ProducerContents DEF IInv
  <1>4. CASE Resetting /\ Overlap /\ UNCHANGED darwin
    BY <1>4, ResetType, ResetOwnership, ResetContents DEF IInv
  <1> QED BY <1>1, <1>2, <1>3, <1>4 DEF Next

LEMMA Invariance == Spec => []IInv
  BY InitInv, NextInv, PTL DEF Spec

(* Type correctness: every process is at a place of its program, and every file    *)
(* holds what its writers write.                                             *)
THEOREM TypeCorrect == Spec => []TypeOK
  <1>1. IInv => TypeOK
    BY DEF IInv
  <1> QED BY <1>1, Invariance, PTL

(* A listening daemon keeps its endpoint and its database through any number of    *)
(* other starts, refusals, kills and a forced reset.                           *)
THEOREM ListenerKeepsItsHome == Spec => []DaemonKeepsItsHome
  <1>1. IInv => DaemonKeepsItsHome
    BY DEF IInv, Ownership
  <1> QED BY <1>1, Invariance, PTL

(* What leaves a start stranded: on Darwin only the kill of a run that had made its  *)
(* socket; elsewhere only a start killed between its socket and its record, or a    *)
(* recorded pid that belongs to somebody else by now.                          *)
THEOREM OnlyCrashesStrand == Spec => []StrandedOnlyByCrash
  <1>1. IInv => StrandedOnlyByCrash
    BY DEF IInv, Ownership
  <1> QED BY <1>1, Invariance, PTL

(* After a reset that succeeded with no hook under way, the numbers of the new log   *)
(* and its spool start at one and have no hole, whichever processes die.         *)
THEOREM ResetStartsFresh == Spec => []FreshLogStartsAtOne
  <1>1. IInv => FreshLogStartsAtOne
    BY DEF IInv, Contents, FreshNumbers, FreshLogStartsAtOne
  <1> QED BY <1>1, Invariance, PTL

=============================================================================
