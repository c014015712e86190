--------------------------- MODULE WatchLedgerProofs ---------------------------
(***************************************************************************)
(* Machine-checked safety of the legacy wake ledger, for any number of        *)
(* overlapping watchers, tasks, kills and cutovers: what the instance of TLC   *)
(* shows for one watcher at a time.                                          *)
(***************************************************************************)
EXTENDS WatchLedger, SequenceTheorems, TLAPS

Edge == [task : Tasks \union {Driver}, st : Status, seq : Nat]

Watcher ==
    [at : Places, stream : Seq(Edge), seen : [Tasks -> Status \union {"none"}],
     todo : SUBSET Tasks, hand : Edge, known : Status \union {"ask"}, gen : Nat, ack : Nat]

LEMMA WatcherTypeDef == WatcherType = Watcher
  BY DEF WatcherType, Watcher, Edge

(* A watcher, or the reader, holds no generation that the ledger has not        *)
(* reached: what it records later cannot overtake it.                         *)
HeldExists ==
    /\ \A w \in Watchers : watch[w].gen <= pending.generation
    /\ reader.at # "idle" => ack <= reader.gen /\ reader.gen <= pending.generation

(* A whole report covers the generation that is acknowledged for it, which was   *)
(* read before it was made; and the second file of the acknowledgement says no    *)
(* more than its first, which the cutover cannot come between.                *)
ReaderInOrder ==
    /\ reader.at \in {"pending", "ack", "print"} =>
          reader.report = 0 \/ reader.gen <= reader.report
    /\ reader.at = "ack" => reader.gen <= pending.delivered /\ ~marker

IInv ==
    /\ TypeOK
    /\ LedgerStaysUsable /\ AckedWasReported /\ MarkerMeansDrained
    /\ HeldExists /\ ReaderInOrder

LEMMA LargerIsMax ==
  ASSUME NEW m \in Nat, NEW n \in Nat
  PROVE  /\ Larger(m, n) \in Nat /\ Larger(m, n) >= m /\ Larger(m, n) >= n
         /\ Larger(m, n) \in {m, n}
  BY DEF Larger

LEMMA InitInv == Init => IInv
  <1> SUFFICES ASSUME Init PROVE IInv
    OBVIOUS
  <1>1. Off \in WatcherType /\ Off.gen = 0
    BY DEF Off, WatcherType, NoHand, Places, Status
  <1>2. TypeOK
    <2>1. pane \in [Tasks -> [st : Status, seq : Nat]]
      BY DEF Init, Status
    <2>2. /\ driver \in [busy : BOOLEAN, inbox : Nat, turns : Nat]
          /\ runtime \in [Tasks -> [seq : Nat, fg : Status \union {"none"}, action : Nat]]
          /\ pending \in [generation : Nat, delivered : Nat, edge : [Tasks -> Nat]]
      BY DEF Init
    <2>3. /\ watch \in [Watchers -> WatcherType]
          /\ reader \in [at : {"idle", "gather", "pending", "ack", "print"}, gen : Nat, report : Nat]
      BY <1>1 DEF Init, NoReader
    <2> QED BY <2>1, <2>2, <2>3 DEF Init, TypeOK
  <1>3. \A w \in Watchers : watch[w].gen = 0
    BY <1>1 DEF Init
  <1> QED
    BY <1>2, <1>3 DEF Init, NoReader, IInv, LedgerStaysUsable, CursorsOrdered, AckedWasReported,
       MarkerMeansDrained, HeldExists, ReaderInOrder

(* The fields of TypeOK that the steps keep asking for.                        *)
LEMMA Shape ==
  ASSUME TypeOK
  PROVE  /\ \A w \in Watchers : watch[w] \in Watcher /\ watch[w].gen \in Nat
         /\ pending.generation \in Nat /\ pending.delivered \in Nat
         /\ reader.gen \in Nat /\ reader.report \in Nat
         /\ ack \in Nat /\ told \in Nat /\ unseen \in Nat
  BY DEF TypeOK, WatcherType, Watcher, Edge

(* A pushed edge ends up in the streams and changes nothing else.               *)
LEMMA PushedShape ==
  ASSUME TypeOK, NEW e \in Edge, watch' = Pushed(e)
  PROVE  /\ watch' \in [Watchers -> WatcherType]
         /\ \A w \in Watchers : watch'[w].gen = watch[w].gen
  <1>1. ASSUME NEW w \in Watchers
        PROVE  watch'[w] \in Watcher /\ watch'[w].gen = watch[w].gen
    <2>1. watch[w] \in Watcher
      BY Shape
    <2>2. Append(watch[w].stream, e) \in Seq(Edge)
      BY <2>1, AppendProperties DEF Watcher
    <2>3. [watch[w] EXCEPT !.stream = Append(watch[w].stream, e)] \in Watcher
      BY <2>1, <2>2 DEF Watcher
    <2> QED BY <2>1, <2>3 DEF Pushed, Watcher
  <1>2. watch' = [w \in Watchers |-> watch'[w]]
    BY DEF Pushed
  <1> QED BY <1>1, <1>2, WatcherTypeDef

(* A step that changes nothing of the ledger, of its reader and of what any     *)
(* watcher holds keeps everything but the types.                              *)
LEMMA LedgerFrame ==
  ASSUME IInv, \A w \in Watchers : watch'[w].gen = watch[w].gen,
         UNCHANGED <<pending, ack, marker, reader, told, unseen>>
  PROVE  /\ LedgerStaysUsable' /\ AckedWasReported' /\ MarkerMeansDrained'
         /\ HeldExists' /\ ReaderInOrder'
  BY DEF IInv, LedgerStaysUsable, CursorsOrdered, AckedWasReported,
         MarkerMeansDrained, HeldExists, ReaderInOrder

LEMMA PaneInv == ASSUME IInv, NEW t \in Tasks, PaneChanges(t) PROVE IInv'
  <1>0. TypeOK
    BY DEF IInv
  <1>1. PICK st \in Status \ {pane[t].st} :
           LET seq == pane[t].seq + 1
           IN  /\ pane' = [pane EXCEPT ![t] = [st |-> st, seq |-> seq]]
               /\ watch' = Pushed([task |-> t, st |-> st, seq |-> seq])
    BY DEF PaneChanges
  <1>2. [task |-> t, st |-> st, seq |-> pane[t].seq + 1] \in Edge
    BY <1>0 DEF TypeOK, Edge
  <1>3. /\ watch' \in [Watchers -> WatcherType]
        /\ \A w \in Watchers : watch'[w].gen = watch[w].gen
    BY <1>0, <1>1, <1>2, PushedShape
  <1>4. TypeOK'
    BY <1>0, <1>1, <1>3 DEF PaneChanges, TypeOK
  <1> QED BY <1>3, <1>4, LedgerFrame DEF PaneChanges, IInv

LEMMA TurnInv == ASSUME IInv, BeginTurn \/ EndTurn PROVE IInv'
  <1>0. TypeOK
    BY DEF IInv
  <1>1. \E b \in BOOLEAN : watch' = Pushed(DriverEdgeOf(b))
    BY DEF BeginTurn, EndTurn
  <1>2. \A b \in BOOLEAN : DriverEdgeOf(b) \in Edge
    BY DEF DriverEdgeOf, Edge, Status
  <1>3. /\ watch' \in [Watchers -> WatcherType]
        /\ \A w \in Watchers : watch'[w].gen = watch[w].gen
    BY <1>0, <1>1, <1>2, PushedShape
  <1>4. TypeOK'
    <2>1. driver' \in [busy : BOOLEAN, inbox : Nat, turns : Nat]
      <3>1. CASE BeginTurn /\ driver.inbox > 0
        BY <1>0, <3>1 DEF BeginTurn, TypeOK
      <3>2. CASE BeginTurn /\ ~(driver.inbox > 0)
        <4>1. driver' = [busy |-> TRUE, inbox |-> driver.inbox, turns |-> driver.turns + 1]
          BY <1>0, <3>2 DEF BeginTurn, TypeOK
        <4> QED BY <1>0, <4>1 DEF TypeOK
      <3>3. CASE EndTurn
        BY <1>0, <3>3 DEF EndTurn, TypeOK
      <3> QED BY <3>1, <3>2, <3>3
    <2> QED BY <1>0, <1>3, <2>1 DEF BeginTurn, EndTurn, TypeOK
  <1> QED BY <1>3, <1>4, LedgerFrame DEF BeginTurn, EndTurn, IInv

-----------------------------------------------------------------------------
(* Watchers.  A step of one watcher leaves it in a record of the right shape     *)
(* that holds no more than the ledger has.                                     *)
LEMMA WatcherFrame ==
  ASSUME IInv, NEW w \in Watchers, NEW r \in Watcher,
         watch' = [watch EXCEPT ![w] = r], r.gen <= pending.generation,
         runtime' \in [Tasks -> [seq : Nat, fg : Status \union {"none"}, action : Nat]],
         driver' \in [busy : BOOLEAN, inbox : Nat, turns : Nat], used' \in Nat,
         UNCHANGED <<pane, pending, ack, marker, reader, told, unseen>>
  PROVE  IInv'
  <1>1. TypeOK /\ watch \in [Watchers -> WatcherType]
    BY DEF IInv, TypeOK
  <1>2. TypeOK'
    BY <1>1, WatcherTypeDef DEF TypeOK
  <1>3. \A v \in Watchers : watch'[v] = IF v = w THEN r ELSE watch[v]
    BY <1>1
  <1> QED
    BY <1>2, <1>3 DEF IInv, LedgerStaysUsable, CursorsOrdered, AckedWasReported,
       MarkerMeansDrained, HeldExists, ReaderInOrder

LEMMA OffShape == Off \in Watcher /\ Off.gen = 0
  BY WatchAssumption DEF Off, Watcher, Edge, NoHand, Places, Status

LEMMA StopInv ==
  ASSUME IInv, NEW w \in Watchers, Start(w) \/ PromptFails(w) \/ Kill(w)
  PROVE  IInv'
  <1>0. TypeOK
    BY DEF IInv
  <1>1. CASE Start(w)
    <2> DEFINE r == [Off EXCEPT !.at = "snapshot", !.todo = Tasks]
    <2>1. r \in Watcher /\ r.gen = 0
      BY OffShape DEF Watcher, Places
    <2>2. watch' = [watch EXCEPT ![w] = r]
      BY <1>1 DEF Start
    <2>3. r.gen <= pending.generation
      BY <1>0, <2>1, Shape
    <2>4. /\ runtime' \in [Tasks -> [seq : Nat, fg : Status \union {"none"}, action : Nat]]
          /\ driver' \in [busy : BOOLEAN, inbox : Nat, turns : Nat]
          /\ used' \in Nat
      BY <1>0, <1>1 DEF Start, TypeOK
    <2> HIDE DEF r
    <2>5. UNCHANGED <<pane, pending, ack, marker, reader, told, unseen>>
      BY <1>1 DEF Start
    <2> QED BY <2>1, <2>2, <2>3, <2>4, <2>5, WatcherFrame
  <1>2. CASE PromptFails(w) \/ Kill(w)
    BY <1>0, <1>2, OffShape, Shape, WatcherFrame DEF PromptFails, Kill, Ends, TypeOK
  <1> QED BY <1>1, <1>2

(* Where a watcher goes by a step that leaves the ledger alone.                 *)
Moved(w, r) ==
    /\ r \in Watcher /\ r.gen <= pending.generation
    /\ watch' = [watch EXCEPT ![w] = r]

Runtimes == [Tasks -> [seq : Nat, fg : Status \union {"none"}, action : Nat]]

LEMMA MovedInv ==
  ASSUME IInv, NEW w \in Watchers, NEW r, Moved(w, r),
         runtime' \in Runtimes, UNCHANGED used,
         driver' \in [busy : BOOLEAN, inbox : Nat, turns : Nat],
         UNCHANGED <<pane, pending, ack, marker, reader, told, unseen>>
  PROVE  IInv'
  <1>1. used' \in Nat
    BY DEF IInv, TypeOK
  <1> QED BY <1>1, WatcherFrame DEF Moved, Runtimes

LEMMA ReadSnapshotInv ==
  ASSUME IInv, NEW w \in Watchers, ReadSnapshot(w) PROVE IInv'
  <1>0. TypeOK /\ watch[w] \in Watcher /\ watch[w].gen <= pending.generation
    BY Shape DEF IInv, HeldExists
  <1>1. PICK t \in watch[w].todo :
           watch' = [watch EXCEPT ![w] = [@ EXCEPT !.at = "apply",
                        !.hand = [task |-> t, st |-> pane[t].st, seq |-> pane[t].seq]]]
    BY DEF ReadSnapshot
  <1> DEFINE h == [task |-> t, st |-> pane[t].st, seq |-> pane[t].seq]
             r == [watch[w] EXCEPT !.at = "apply", !.hand = h]
  <1>2. t \in Tasks /\ h \in Edge
    BY <1>0, <1>1 DEF Watcher, Edge, TypeOK
  <1>3. watch' = [watch EXCEPT ![w] = r]
    BY <1>0, <1>1 DEF TypeOK
  <1> HIDE DEF h
  <1>4. r \in Watcher /\ r.gen = watch[w].gen
    BY <1>0, <1>2 DEF Watcher, Places
  <1> HIDE DEF r
  <1>5. Moved(w, r)
    BY <1>0, <1>3, <1>4 DEF Moved
  <1> QED BY <1>0, <1>5, MovedInv DEF ReadSnapshot, TypeOK, Runtimes

LEMMA ApplySnapshotInv ==
  ASSUME IInv, NEW w \in Watchers, ApplySnapshot(w) PROVE IInv'
  <1> DEFINE h == watch[w].hand
             rest == watch[w].todo \ {h.task}
             r == [watch[w] EXCEPT
                      !.at = IF rest = {} THEN "gate" ELSE "snapshot", !.todo = rest,
                      !.seen[h.task] = h.st, !.hand = NoHand, !.known = "ask"]
  <1>0. TypeOK /\ watch[w] \in Watcher /\ watch[w].gen <= pending.generation
    BY Shape DEF IInv, HeldExists
  <1>1. h \in Edge /\ NoHand \in Edge
    BY <1>0 DEF Watcher, NoHand, Edge, Status
  <1>2. watch' = [watch EXCEPT ![w] = r]
    BY <1>0 DEF ApplySnapshot, TypeOK
  <1>3. runtime' = [runtime EXCEPT ![h.task] = Reconciled(h.task, h.st, h.seq)]
    BY DEF ApplySnapshot
  <1>4. ASSUME h.task \in Tasks
        PROVE  Reconciled(h.task, h.st, h.seq)
                  \in [seq : Nat, fg : Status \union {"none"}, action : Nat]
    <2>1. /\ runtime[h.task] \in [seq : Nat, fg : Status \union {"none"}, action : Nat]
          /\ h.st \in Status /\ h.seq \in Nat
      BY <1>0, <1>1, <1>4 DEF TypeOK, Edge
    <2> HIDE DEF h
    <2> QED BY <2>1 DEF Reconciled
  <1> HIDE DEF h
  <1>5. runtime' \in Runtimes
    <2>1. runtime \in [Tasks -> [seq : Nat, fg : Status \union {"none"}, action : Nat]]
      BY <1>0 DEF TypeOK
    <2> QED BY <1>3, <1>4, <2>1 DEF Runtimes
  <1>6. r \in Watcher /\ r.gen = watch[w].gen
    <2>1. [watch[w].seen EXCEPT ![h.task] = h.st] \in [Tasks -> Status \union {"none"}]
      BY <1>0, <1>1 DEF Watcher, Edge
    <2>2. rest \subseteq Tasks
      BY <1>0 DEF Watcher
    <2> HIDE DEF rest
    <2>3. (IF rest = {} THEN "gate" ELSE "snapshot") \in Places
      BY DEF Places
    <2> QED BY <1>0, <1>1, <2>1, <2>2, <2>3 DEF Watcher
  <1> HIDE DEF r, rest
  <1>7. Moved(w, r)
    BY <1>0, <1>2, <1>6 DEF Moved
  <1> QED BY <1>0, <1>5, <1>7, MovedInv DEF ApplySnapshot, TypeOK

(* An edge at the head of a stream is one, and the rest is a stream.            *)
LEMMA StreamShape ==
  ASSUME TypeOK, NEW w \in Watchers, watch[w].stream # <<>>
  PROVE  /\ Head(watch[w].stream) \in Edge
         /\ Tail(watch[w].stream) \in Seq(Edge)
         /\ [watch[w] EXCEPT !.stream = Tail(watch[w].stream)] \in Watcher
  <1>1. watch[w] \in Watcher
    BY Shape
  <1>2. /\ Head(watch[w].stream) \in Edge
        /\ Tail(watch[w].stream) \in Seq(Edge)
    BY <1>1, HeadTailProperties DEF Watcher
  <1>3. [watch[w] EXCEPT !.stream = Tail(watch[w].stream)] \in Watcher
    BY <1>1, <1>2 DEF Watcher
  <1> QED BY <1>2, <1>3

LEMMA DriverEdgeInv ==
  ASSUME IInv, NEW w \in Watchers, DriverEdge(w) PROVE IInv'
  <1> DEFINE s == watch[w].stream
             r == [watch[w] EXCEPT !.at = "gate", !.stream = Tail(s), !.known = Head(s).st]
  <1>0. TypeOK /\ watch[w] \in Watcher /\ watch[w].gen <= pending.generation
    BY Shape DEF IInv, HeldExists
  <1>1. s # <<>> /\ Head(s) \in Edge /\ Tail(s) \in Seq(Edge)
    BY <1>0, StreamShape DEF DriverEdge
  <1>2. watch' = [watch EXCEPT ![w] = r]
    BY <1>0 DEF DriverEdge, TypeOK
  <1> HIDE DEF s
  <1>3. r \in Watcher /\ r.gen = watch[w].gen
    BY <1>0, <1>1 DEF Watcher, Places, Edge
  <1> HIDE DEF r
  <1>4. Moved(w, r)
    BY <1>0, <1>2, <1>3 DEF Moved
  <1> QED BY <1>0, <1>4, MovedInv DEF DriverEdge, TypeOK, Runtimes

LEMMA ReducedShape ==
  ASSUME TypeOK, NEW e \in Edge, e.task \in Tasks
  PROVE  Reduced(e.task, e.st, e.seq)
            \in [seq : Nat, fg : Status \union {"none"}, action : Nat]
  <1>1. /\ runtime[e.task] \in [seq : Nat, fg : Status \union {"none"}, action : Nat]
        /\ e.seq \in Nat /\ e.st \in Status
    BY DEF TypeOK, Edge
  <1> QED BY <1>1 DEF Reduced

LEMMA CrewEdgeInv ==
  ASSUME IInv, NEW w \in Watchers, CrewEdge(w) PROVE IInv'
  <1> DEFINE s == watch[w].stream
             e == Head(s)
             new == Reduced(e.task, e.st, e.seq)
             popped == [watch[w] EXCEPT !.stream = Tail(s)]
             taken == [popped EXCEPT !.seen[e.task] = e.st]
             sent == [taken EXCEPT !.at = "bump", !.hand = [e EXCEPT !.seq = new.action]]
  <1>0. TypeOK /\ watch[w] \in Watcher /\ watch[w].gen <= pending.generation
    BY Shape DEF IInv, HeldExists
  <1>1. /\ s # <<>> /\ e \in Edge /\ e.task # Driver
        /\ popped \in Watcher /\ popped.gen = watch[w].gen
    BY <1>0, StreamShape DEF CrewEdge, Watcher
  <1>2. e.task \in Tasks
    BY <1>1 DEF Edge
  <1>3. new \in [seq : Nat, fg : Status \union {"none"}, action : Nat]
    <2> HIDE DEF e
    <2> QED BY <1>0, <1>1, <1>2, ReducedShape
  <1>4. PICK r \in {popped, taken, sent} : watch' = [watch EXCEPT ![w] = r]
    BY <1>0 DEF CrewEdge, TypeOK
  <1>5. runtime' = runtime \/ runtime' = [runtime EXCEPT ![e.task] = new]
    BY DEF CrewEdge
  <1> HIDE DEF popped, new, e, s
  <1>6. taken \in Watcher /\ taken.gen = popped.gen
    BY <1>1, <1>2 DEF Watcher, Edge
  <1>7. [e EXCEPT !.seq = new.action] \in Edge
    BY <1>1, <1>3 DEF Edge
  <1> HIDE DEF taken
  <1>8. sent \in Watcher /\ sent.gen = taken.gen
    BY <1>6, <1>7 DEF Watcher, Places
  <1> HIDE DEF sent
  <1>9. Moved(w, r)
    BY <1>0, <1>1, <1>4, <1>6, <1>8 DEF Moved
  <1>10. runtime' \in Runtimes
    BY <1>0, <1>3, <1>5 DEF TypeOK, Runtimes
  <1> QED BY <1>0, <1>9, <1>10, MovedInv DEF CrewEdge, TypeOK

LEMMA GateInv ==
  ASSUME IInv, NEW w \in Watchers,
         Gate(w) \/ ReadAck(w) \/ ReadDelivered(w) \/ Attempt(w) \/ AskStatus(w)
  PROVE  IInv'
  <1>0. /\ TypeOK /\ watch[w] \in Watcher /\ watch[w].gen <= pending.generation
        /\ watch \in [Watchers -> WatcherType]
        /\ pending.generation \in Nat /\ ack \in Nat /\ watch[w].gen \in Nat
    BY Shape DEF IInv, HeldExists, TypeOK
  <1>1. ASSUME NEW at \in Places, NEW gen \in {0, watch[w].gen, pending.generation},
               NEW a \in {0, watch[w].ack, ack},
               watch' = [watch EXCEPT ![w] = [@ EXCEPT !.at = at, !.gen = gen, !.ack = a]],
               UNCHANGED <<pane, driver, runtime, pending, ack, marker, reader, told, unseen, used>>
        PROVE  IInv'
    <2> DEFINE r == [watch[w] EXCEPT !.at = at, !.gen = gen, !.ack = a]
    <2>0. /\ gen \in Nat /\ gen <= pending.generation
          /\ a \in Nat
      BY <1>0 DEF Watcher
    <2>1. r \in Watcher /\ r.gen = gen
      BY <1>0, <2>0 DEF Watcher
    <2>2. watch' = [watch EXCEPT ![w] = r]
      BY <1>1
    <2> HIDE DEF r
    <2>3. Moved(w, r)
      BY <2>0, <2>1, <2>2 DEF Moved
    <2> QED BY <1>0, <1>1, <2>3, MovedInv DEF TypeOK, Runtimes
  <1>2. CASE Gate(w)
    <2> DEFINE at == IF marker THEN "loop" ELSE "readAck"
               gen == IF marker THEN 0 ELSE pending.generation
    <2>1. watch' = [watch EXCEPT ![w] = [@ EXCEPT !.at = at, !.gen = gen, !.ack = watch[w].ack]]
      BY <1>0, <1>2 DEF Gate, WatcherType
    <2>2. at \in Places
      BY DEF Places
    <2> QED BY <1>1, <1>2, <2>1, <2>2 DEF Gate
  <1>3. CASE ReadAck(w)
    <2>1. watch' = [watch EXCEPT ![w] =
                      [@ EXCEPT !.at = "readDelivered", !.gen = watch[w].gen, !.ack = ack]]
      BY <1>0, <1>3 DEF ReadAck, WatcherType
    <2> QED BY <1>1, <1>3, <2>1 DEF ReadAck, Places
  <1>4. CASE ReadDelivered(w)
    <2> DEFINE due == watch[w].gen > watch[w].ack /\ pending.delivered <= watch[w].ack
               at == IF due THEN "attempt" ELSE "loop"
    <2>1. watch' = [watch EXCEPT ![w] = [@ EXCEPT !.at = at, !.gen = 0, !.ack = 0]]
      BY <1>4 DEF ReadDelivered
    <2>2. at \in Places
      BY DEF Places
    <2> QED BY <1>1, <1>4, <2>1, <2>2 DEF ReadDelivered
  <1>5. CASE Attempt(w)
    <2> DEFINE k == watch[w].known
               at == CASE k = "ask" -> "ask" [] k = "idle" -> "prompt" [] OTHER -> "loop"
               gen == IF at = "loop" THEN 0 ELSE pending.generation
    <2>1. watch' = [watch EXCEPT ![w] = [@ EXCEPT !.at = at, !.gen = gen, !.ack = watch[w].ack]]
      BY <1>0, <1>5 DEF Attempt, WatcherType
    <2>2. at \in Places /\ gen \in {0, pending.generation}
      BY DEF Places
    <2> HIDE DEF at, gen
    <2> QED BY <1>1, <1>5, <2>1, <2>2 DEF Attempt
  <1>6. CASE AskStatus(w)
    <2> DEFINE at == IF driver.busy THEN "loop" ELSE "prompt"
               gen == IF driver.busy THEN 0 ELSE watch[w].gen
    <2>1. watch' = [watch EXCEPT ![w] = [@ EXCEPT !.at = at, !.gen = gen, !.ack = watch[w].ack]]
      BY <1>0, <1>6 DEF AskStatus, WatcherType
    <2>2. at \in Places
      BY DEF Places
    <2> QED BY <1>1, <1>6, <2>1, <2>2 DEF AskStatus
  <1> QED BY <1>2, <1>3, <1>4, <1>5, <1>6

LEMMA PromptInv == ASSUME IInv, NEW w \in Watchers, Prompt(w) PROVE IInv'
  <1> DEFINE r == [watch[w] EXCEPT !.at = "record"]
  <1>0. TypeOK /\ watch[w] \in Watcher /\ watch[w].gen <= pending.generation
    BY Shape DEF IInv, HeldExists
  <1>1. r \in Watcher /\ r.gen = watch[w].gen
    BY <1>0 DEF Watcher, Places
  <1>2. watch' = [watch EXCEPT ![w] = r]
    BY <1>0 DEF Prompt, TypeOK
  <1>3. driver' \in [busy : BOOLEAN, inbox : Nat, turns : Nat]
    BY <1>0 DEF Prompt, TypeOK
  <1> HIDE DEF r
  <1>4. Moved(w, r)
    BY <1>0, <1>1, <1>2 DEF Moved
  <1> QED BY <1>0, <1>3, <1>4, MovedInv DEF Prompt, TypeOK, Runtimes

(* A locked write of pending.json by a watcher: the numbers only grow, delivered *)
(* stays within the generation, and nothing is counted once the event bus has     *)
(* the driver.                                                               *)
LEMMA PendingFrame ==
  ASSUME IInv, NEW w \in Watchers, NEW r \in Watcher,
         watch' = [watch EXCEPT ![w] = r], r.gen <= pending'.generation,
         pending' \in [generation : Nat, delivered : Nat, edge : [Tasks -> Nat]],
         pending'.generation >= pending.generation,
         pending'.delivered >= pending.delivered,
         pending'.delivered <= pending'.generation,
         marker => pending'.generation = pending.generation,
         UNCHANGED <<pane, driver, runtime, ack, marker, reader, told, unseen, used>>
  PROVE  IInv'
  <1>1. TypeOK /\ watch \in [Watchers -> WatcherType]
    BY DEF IInv, TypeOK
  <1>2. TypeOK'
    BY <1>1, WatcherTypeDef DEF TypeOK
  <1>3. /\ \A v \in Watchers : watch'[v] = IF v = w THEN r ELSE watch[v]
        /\ \A v \in Watchers : watch[v].gen \in Nat
        /\ reader.gen \in Nat /\ ack \in Nat
        /\ pending.generation \in Nat /\ pending.delivered \in Nat
        /\ pending'.generation \in Nat /\ pending'.delivered \in Nat
    BY <1>1, Shape
  <1>4. HeldExists'
    BY <1>3 DEF IInv, HeldExists
  <1> QED
    BY <1>2, <1>3, <1>4 DEF IInv, LedgerStaysUsable, CursorsOrdered, AckedWasReported,
       MarkerMeansDrained, ReaderInOrder

LEMMA CountedShape ==
  ASSUME NEW p \in [generation : Nat, delivered : Nat, edge : [Tasks -> Nat]],
         NEW e \in [Tasks -> Nat], NEW g \in Nat, NEW c,
         c = [p EXCEPT !.generation = g, !.edge = e]
  PROVE  /\ c \in [generation : Nat, delivered : Nat, edge : [Tasks -> Nat]]
         /\ c.generation = g
         /\ c.delivered = p.delivered
  OBVIOUS

LEMMA BumpInv == ASSUME IInv, NEW w \in Watchers, Bump(w) PROVE IInv'
  <1> DEFINE h == watch[w].hand
             r == [watch[w] EXCEPT !.at = "gate", !.hand = NoHand, !.known = "ask"]
             e == [pending.edge EXCEPT ![h.task] = h.seq]
             g == pending.generation + 1
             counted == [pending EXCEPT !.generation = g, !.edge = e]
  <1>0. /\ TypeOK /\ watch[w] \in Watcher /\ watch[w].gen <= pending.generation
        /\ pending \in [generation : Nat, delivered : Nat, edge : [Tasks -> Nat]]
        /\ watch[w].gen \in Nat /\ h.seq \in Nat
        /\ pending.delivered <= pending.generation
    BY Shape DEF IInv, HeldExists, TypeOK, LedgerStaysUsable, CursorsOrdered, Watcher, Edge
  <1>1. CASE marker
    BY <1>0, <1>1, OffShape, PendingFrame DEF Bump, Ends
  <1>2. CASE ~marker
    <2>1. r \in Watcher /\ r.gen = watch[w].gen
      BY <1>0 DEF Watcher, Places, NoHand, Edge, Status
    <2>2. watch' = [watch EXCEPT ![w] = r]
      BY <1>0, <1>2 DEF Bump, TypeOK
    <2>3. pending' = pending \/ pending' = counted
      BY <1>2 DEF Bump
    <2> HIDE DEF r
    <2>4. /\ counted \in [generation : Nat, delivered : Nat, edge : [Tasks -> Nat]]
          /\ counted.generation = pending.generation + 1
          /\ counted.delivered = pending.delivered
      <3>0. pending.edge \in [Tasks -> Nat] /\ pending.generation \in Nat
        BY <1>0
      <3>a. e \in [Tasks -> Nat]
        BY <1>0, <3>0
      <3>b. g \in Nat
        BY <3>0
      <3>1. e \in [Tasks -> Nat] /\ g \in Nat
        BY <3>a, <3>b
      <3> HIDE DEF e
      <3>2. /\ counted \in [generation : Nat, delivered : Nat, edge : [Tasks -> Nat]]
            /\ counted.generation = g
            /\ counted.delivered = pending.delivered
        <4> HIDE DEF g
        <4> QED BY <1>0, <3>1, CountedShape
      <3> QED BY <3>2
    <2> HIDE DEF counted
    <2>5. /\ pending' \in [generation : Nat, delivered : Nat, edge : [Tasks -> Nat]]
          /\ pending'.generation \in {pending.generation, pending.generation + 1}
          /\ pending'.delivered = pending.delivered
      BY <1>0, <2>3, <2>4
    <2>6. /\ r.gen <= pending'.generation
          /\ pending'.generation >= pending.generation
          /\ pending'.delivered >= pending.delivered
          /\ pending'.delivered <= pending'.generation
      BY <1>0, <2>1, <2>5
    <2>7. UNCHANGED <<pane, driver, runtime, ack, marker, reader, told, unseen, used>>
      BY DEF Bump
    <2> QED BY <1>2, <2>1, <2>2, <2>5, <2>6, <2>7, PendingFrame
  <1> QED BY <1>1, <1>2

LEMMA RecordInv == ASSUME IInv, NEW w \in Watchers, Record(w) PROVE IInv'
  <1> DEFINE r == [watch[w] EXCEPT !.at = "loop", !.gen = 0]
             g == watch[w].gen
  <1>0. /\ TypeOK /\ watch[w] \in Watcher /\ g <= pending.generation /\ g \in Nat
        /\ pending \in [generation : Nat, delivered : Nat, edge : [Tasks -> Nat]]
        /\ pending.delivered <= pending.generation
    BY Shape DEF IInv, HeldExists, TypeOK, LedgerStaysUsable, CursorsOrdered
  <1>1. r \in Watcher /\ r.gen = 0
    BY <1>0 DEF Watcher, Places
  <1>2. watch' = [watch EXCEPT ![w] = r]
    BY <1>0 DEF Record, TypeOK
  <1>3. /\ Larger(pending.delivered, g) \in Nat
        /\ Larger(pending.delivered, g) >= pending.delivered
        /\ Larger(pending.delivered, g) <= pending.generation
    BY <1>0, LargerIsMax
  <1>4. /\ pending' \in [generation : Nat, delivered : Nat, edge : [Tasks -> Nat]]
        /\ pending'.generation = pending.generation
        /\ pending'.delivered >= pending.delivered
        /\ pending'.delivered <= pending.generation
    BY <1>0, <1>3 DEF Record
  <1> HIDE DEF r
  <1>5. /\ r.gen <= pending'.generation
        /\ pending'.generation >= pending.generation
        /\ pending'.delivered <= pending'.generation
    BY <1>0, <1>1, <1>4
  <1>6. UNCHANGED <<pane, driver, runtime, ack, marker, reader, told, unseen, used>>
    BY DEF Record
  <1> QED BY <1>1, <1>2, <1>4, <1>5, <1>6, PendingFrame

-----------------------------------------------------------------------------
(* The reader and the cutover.                                               *)
LEMMA ReaderInv ==
  ASSUME IInv, ReadGeneration \/ GatherTasks \/ AckPending \/ AckFile \/ PrintReport
           \/ ReconcileDies
  PROVE  IInv'
  <1>0. /\ TypeOK
        /\ pending \in [generation : Nat, delivered : Nat, edge : [Tasks -> Nat]]
        /\ reader \in [at : {"idle", "gather", "pending", "ack", "print"}, gen : Nat, report : Nat]
        /\ driver \in [busy : BOOLEAN, inbox : Nat, turns : Nat]
        /\ ack \in Nat /\ told \in Nat /\ unseen \in Nat /\ used \in Nat
        /\ \A w \in Watchers : watch[w].gen \in Nat
    BY Shape DEF IInv, TypeOK
  <1> USE DEF IInv, LedgerStaysUsable, CursorsOrdered, AckedWasReported,
              MarkerMeansDrained, HeldExists, ReaderInOrder, NoReader
  <1>1. CASE ReadGeneration
    <2>1. driver' \in [busy : BOOLEAN, inbox : Nat, turns : Nat]
      <3>1. driver' = [busy |-> driver.busy, inbox |-> 0,
                       turns |-> IF driver.inbox > 0 THEN driver.turns ELSE driver.turns + 1]
        BY <1>0, <1>1 DEF ReadGeneration
      <3> QED BY <1>0, <3>1
    <2>2. TypeOK'
      BY <1>0, <1>1, <2>1 DEF ReadGeneration, TypeOK
    <2> QED BY <1>0, <1>1, <2>2 DEF ReadGeneration
  <1>2. CASE GatherTasks
    <2>1. PICK report \in {pending.generation, 0} :
             reader' = [at |-> "pending", gen |-> reader.gen, report |-> report]
      BY <1>0, <1>2 DEF GatherTasks
    <2>2. TypeOK'
      BY <1>0, <1>2, <2>1 DEF GatherTasks, TypeOK
    <2> QED BY <1>0, <1>2, <2>1, <2>2 DEF GatherTasks
  <1>3. CASE AckPending
    <2>1. CASE marker
      <3>1. TypeOK'
        BY <1>0, <1>3, <2>1 DEF AckPending, TypeOK
      <3> QED BY <1>0, <1>3, <2>1, <3>1 DEF AckPending
    <2>2. CASE ~marker
      <3>1. /\ Larger(pending.delivered, reader.gen) \in Nat
            /\ Larger(pending.delivered, reader.gen) >= pending.delivered
            /\ Larger(pending.delivered, reader.gen) >= reader.gen
            /\ Larger(pending.delivered, reader.gen) <= pending.generation
        BY <1>0, <1>3, LargerIsMax DEF AckPending
      <3>2. /\ pending' = [pending EXCEPT !.delivered = Larger(pending.delivered, reader.gen)]
            /\ reader' = [at |-> "ack", gen |-> reader.gen, report |-> reader.report]
            /\ reader.at = "pending"
            /\ UNCHANGED <<pane, driver, runtime, ack, marker, watch, told, unseen, used>>
        BY <1>0, <1>3, <2>2 DEF AckPending
      <3>3. /\ pending' \in [generation : Nat, delivered : Nat, edge : [Tasks -> Nat]]
            /\ pending'.generation = pending.generation
            /\ pending'.delivered = Larger(pending.delivered, reader.gen)
        BY <1>0, <3>1, <3>2
      <3>4. TypeOK'
        BY <1>0, <3>2, <3>3 DEF TypeOK
      <3> QED BY <1>0, <2>2, <3>1, <3>2, <3>3, <3>4
    <2> QED BY <2>1, <2>2
  <1>4. CASE AckFile
    <2>1. reader' = [at |-> "print", gen |-> reader.gen, report |-> reader.report]
      BY <1>0, <1>4 DEF AckFile
    <2>2. TypeOK'
      BY <1>0, <1>4, <2>1 DEF AckFile, TypeOK
    <2> QED BY <1>0, <1>4, <2>1, <2>2 DEF AckFile
  <1>5. /\ Unseen \in Nat /\ Unseen >= unseen /\ Unseen >= reader.gen
        /\ Larger(told, reader.report) \in Nat
        /\ Larger(told, reader.report) >= told
        /\ Larger(told, reader.report) >= reader.report
    BY <1>0, LargerIsMax DEF Unseen
  <1>6. CASE PrintReport
    <2>1. TypeOK'
      BY <1>0, <1>5, <1>6 DEF PrintReport, TypeOK
    <2>2. AckedWasReported'
      <3>1. CASE reader.report = 0
        BY <1>0, <1>5, <1>6, <3>1 DEF PrintReport
      <3>2. CASE reader.report # 0
        BY <1>0, <1>5, <1>6, <3>2 DEF PrintReport
      <3> QED BY <3>1, <3>2
    <2> QED BY <1>0, <1>6, <2>1, <2>2 DEF PrintReport
  <1>7. CASE ReconcileDies
    <2>1. TypeOK'
      BY <1>0, <1>5, <1>7 DEF ReconcileDies, TypeOK
    <2>2. AckedWasReported'
      BY <1>0, <1>5, <1>7 DEF ReconcileDies
    <2> QED BY <1>0, <1>7, <2>1, <2>2 DEF ReconcileDies
  <1> QED BY <1>1, <1>2, <1>3, <1>4, <1>6, <1>7

LEMMA CutoverInv == ASSUME IInv, Activate \/ Disable PROVE IInv'
  <1>1. TypeOK'
    <2>1. CASE Activate
      BY <2>1 DEF IInv, TypeOK, Activate
    <2>2. CASE Disable
      BY <2>2 DEF IInv, TypeOK, Disable
    <2> QED BY <2>1, <2>2
  <1> QED
    BY <1>1 DEF IInv, Activate, Disable, Unlocked, LedgerStaysUsable, CursorsOrdered,
       AckedWasReported, MarkerMeansDrained, HeldExists, ReaderInOrder

-----------------------------------------------------------------------------
LEMMA NextInv == IInv /\ [Next]_vars => IInv'
  <1> SUFFICES ASSUME IInv, [Next]_vars PROVE IInv'
    OBVIOUS
  <1>1. CASE UNCHANGED vars
    BY <1>1 DEF vars, IInv, TypeOK, LedgerStaysUsable, CursorsOrdered, AckedWasReported,
       MarkerMeansDrained, HeldExists, ReaderInOrder
  <1>2. ASSUME NEW w \in Watchers, WatcherStep(w) PROVE IInv'
    BY <1>2, ReadSnapshotInv, ApplySnapshotInv, DriverEdgeInv, CrewEdgeInv, BumpInv,
       GateInv, PromptInv, RecordInv DEF WatcherStep
  <1>3. ASSUME NEW w \in Watchers, Start(w) \/ PromptFails(w) \/ Kill(w) PROVE IInv'
    BY <1>3, StopInv
  <1>4. CASE ReadGeneration \/ ReaderStep \/ ReconcileDies
    BY <1>4, ReaderInv DEF ReaderStep
  <1> QED
    BY <1>1, <1>2, <1>3, <1>4, PaneInv, TurnInv, CutoverInv DEF Next

LEMMA Invariance == Spec => []IInv
  BY InitInv, NextInv, PTL DEF Spec

(* Type correctness of the watchers, their files and their reader.              *)
THEOREM TypeCorrect == Spec => []TypeOK
  <1>1. IInv => TypeOK
    BY DEF IInv
  <1> QED BY <1>1, Invariance, PTL

(* What may be said of the ledger and its driver: the bridge can always read       *)
(* it, an acknowledged generation has been reported unless its reconcile was killed *)
(* before it printed or left a task out, and the cutover leaves nothing unread,    *)
(* with any number of watchers that overlap, die and start again.               *)
THEOREM LedgerIsSound == Spec => []LedgerSound
  <1>1. IInv => LedgerSound
    BY DEF IInv, LedgerSound
  <1> QED BY <1>1, Invariance, PTL

(* No file of the ledger goes back: not the generation, not what was delivered,   *)
(* and not the acknowledgement, whichever watcher or reconcile writes late.      *)
LedgerOnlyGrows ==
    [][/\ pending'.generation >= pending.generation
       /\ pending'.delivered >= pending.delivered
       /\ ack' >= ack]_vars

THEOREM CursorsNeverGoBack == Spec => LedgerOnlyGrows
  <1> DEFINE Grows == /\ pending'.generation >= pending.generation
                      /\ pending'.delivered >= pending.delivered
                      /\ ack' >= ack
  <1>1. IInv /\ [Next]_vars => [Grows]_vars
    <2> SUFFICES ASSUME IInv, Next PROVE Grows
      BY DEF vars
    <2>1. /\ pending \in [generation : Nat, delivered : Nat, edge : [Tasks -> Nat]]
          /\ reader.gen \in Nat /\ ack \in Nat
          /\ \A w \in Watchers : watch[w].gen \in Nat
      BY Shape DEF IInv, TypeOK
    <2>2. CASE UNCHANGED <<pending, ack>>
      BY <2>1, <2>2
    <2>3. ASSUME NEW w \in Watchers, Bump(w) PROVE Grows
      <3>1. /\ pending'.generation \in {pending.generation, pending.generation + 1}
            /\ pending'.delivered = pending.delivered /\ ack' = ack
        BY <2>1, <2>3 DEF Bump
      <3> QED BY <2>1, <3>1
    <2>4. ASSUME NEW w \in Watchers, Record(w) PROVE Grows
      BY <2>1, <2>4, LargerIsMax DEF Record
    <2>5. CASE AckPending
      BY <2>1, <2>5, LargerIsMax DEF AckPending
    <2>6. CASE AckFile
      BY <2>1, <2>6 DEF AckFile, IInv, HeldExists
    <2>7. ASSUME NEW w \in Watchers, WatcherStep(w), ~Bump(w), ~Record(w)
          PROVE  UNCHANGED <<pending, ack>>
      BY <2>7 DEF WatcherStep, ReadSnapshot, ApplySnapshot, DriverEdge, CrewEdge, Gate,
         ReadAck, ReadDelivered, Attempt, AskStatus, Prompt
    <2>8. ASSUME NEW w \in Watchers, Start(w) \/ PromptFails(w) \/ Kill(w)
          PROVE  UNCHANGED <<pending, ack>>
      BY <2>8 DEF Start, PromptFails, Kill
    <2>9. ASSUME NEW t \in Tasks, PaneChanges(t) PROVE UNCHANGED <<pending, ack>>
      BY <2>9 DEF PaneChanges
    <2>10. BeginTurn \/ EndTurn \/ ReadGeneration \/ GatherTasks \/ PrintReport
             \/ ReconcileDies \/ Activate \/ Disable
           => UNCHANGED <<pending, ack>>
      BY DEF BeginTurn, EndTurn, ReadGeneration, GatherTasks, PrintReport, ReconcileDies,
         Activate, Disable
    <2> QED
      BY <2>2, <2>3, <2>4, <2>5, <2>6, <2>7, <2>8, <2>9, <2>10 DEF Next, ReaderStep
  <1> QED BY <1>1, Invariance, PTL DEF Spec, LedgerOnlyGrows

=============================================================================
