------------------------- MODULE AttentionLedgerProofs -------------------------
(***************************************************************************)
(* Machine-checked safety of the attention ledger's files, for any number of   *)
(* runs of add and update, of reasons, ids and seconds, each run killed        *)
(* between any two file operations, and of the walk through their pages.         *)
(***************************************************************************)
EXTENDS AttentionLedger, FiniteSetTheorems, SequenceTheorems, WellFoundedInduction, TLAPS

(* TypeOK without the reader, whose invariant is WalkInv below.                  *)
WritersTyped ==
    /\ clock \in 1..MaxClock
    /\ lock \in Writers \union {NoOne}
    /\ items \in [Ids -> Item \union {Missing, Torn}]
    /\ pc \in [Writers -> PC]
    /\ cmd \in [Writers -> Updates \union Adds \union {NoCommand}]
    /\ temp \in [Writers -> {NoTemp} \union [id: Ids, item: Item]]

(* A run works on the files with the lock in its hand, on a command.            *)
LockHeld(w) ==
    /\ pc[w] \in {"locked", "replacing", "creating"} => lock = w
    /\ pc[w] \in {"waiting", "locked", "replacing", "creating"} => cmd[w] # NoCommand

(* The replacement a run has written is still what it would write now: nobody    *)
(* came between its reading of the item and its rename.                        *)
TempCurrent(w) ==
    pc[w] = "replacing" =>
        /\ temp[w] # NoTemp
        /\ LET t == temp[w]
           IN  \/ /\ cmd[w] \in Adds /\ t.id \in Matches(cmd[w])
                  /\ t.item = SupersededItem(w, items[t.id])
               \/ /\ cmd[w] \in Updates /\ t.id = cmd[w].id /\ Updatable(w)
                  /\ t.item = UpdatedItem(w, items[t.id])

(* An add that has made its file has nothing left to supersede.                 *)
CreatingAlone(w) ==
    pc[w] = "creating" =>
        cmd[w] \in Adds /\ items[cmd[w].id] = Torn /\ Matches(cmd[w]) = {}

RunSound(w) == LockHeld(w) /\ TempCurrent(w) /\ CreatingAlone(w)

(* SuccessorCarriesOn with the reason of the add that is under way, or was.      *)
CarriedBy(id, s) ==
    \/ /\ s # NoId /\ s # id
       /\ s \in Ids /\ Parses(s) /\ items[s].reason = items[id].reason
    \/ \E w \in Writers :
          /\ cmd[w] \in Adds /\ cmd[w].id = s /\ cmd[w].reason = items[id].reason
          /\ pc[w] \in {"locked", "replacing", "creating", "dead", "failed"}

SuccessorNamed ==
    \A id \in Ids :
        Parses(id) /\ items[id].status = "superseded" => CarriedBy(id, items[id].superseded_by)

IInv ==
    /\ WritersTyped /\ \A w \in Writers : RunSound(w)
    /\ SuccessorNamed /\ OneActivePerReason

-----------------------------------------------------------------------------
(* Ids, items and commands.                                                   *)

LEMMA LeastOf ==
  ASSUME NEW S \in SUBSET Nat, S # {}
  PROVE  \E m \in S : \A n \in S : m <= n
  <1>1. PICK m \in S : \A n \in S : ~ (<<n, m>> \in OpToRel(<, Nat))
    BY NatLessThanWellFounded, WFMin
  <1>2. \A n \in S : ~ (n < m)
    BY <1>1 DEF OpToRel
  <1> QED BY <1>2

(* The names of a directory have a first one.                                  *)
LEMMA FirstOfIsIn ==
  ASSUME NEW S \in SUBSET Ids, S # {}
  PROVE  FirstOf(S) \in S
  <1>0. \A x \in S : x = <<x[1], x[2]>> /\ x[1] \in Nat /\ x[2] \in Nat
    <2> TAKE x \in S
    <2>1. \E a \in 1..MaxClock, b \in Nonces : x = <<a, b>>
      BY DEF Ids
    <2> QED BY <2>1, LedgerAssumption
  <1> DEFINE stamps == {x[1] : x \in S}
  <1>1. stamps \subseteq Nat /\ stamps # {}
    BY <1>0
  <1>2. PICK a \in stamps : \A n \in stamps : a <= n
    <2> HIDE DEF stamps
    <2> QED BY <1>1, LeastOf
  <1> DEFINE nonces == {x[2] : x \in {y \in S : y[1] = a}}
  <1>3. nonces \subseteq Nat /\ nonces # {}
    BY <1>0, <1>2
  <1>4. PICK b \in nonces : \A n \in nonces : b <= n
    <2> HIDE DEF nonces
    <2> QED BY <1>3, LeastOf
  <1>5. PICK x \in S : x[1] = a /\ x[2] = b
    BY <1>4
  <1>6. \A y \in S \ {x} : Before(x, y)
    <2> TAKE y \in S \ {x}
    <2>1. a <= y[1] /\ (y[1] = a => b <= y[2])
      BY <1>2, <1>4
    <2>2. y[1] # a \/ y[2] # b
      BY <1>0, <1>5
    <2> QED BY <1>0, <1>5, <2>1, <2>2 DEF Before
  <1> QED BY <1>6 DEF FirstOf

LEMMA ItemsAreWhole ==
  /\ \A i \in Item : i # Missing /\ i # Torn
  /\ Missing # Torn
  /\ \A c \in Adds : c.op = "add" /\ c # NoCommand
  /\ \A c \in Updates : c.op = "update" /\ c # NoCommand
  /\ NoCommand.op = "none"
  <1>1. \A i \in Item : i # Missing /\ i # Torn
    <2> TAKE i \in Item
    <2>1. "reason" \in DOMAIN i
      BY DEF Item
    <2>2. "reason" \notin DOMAIN Missing /\ "reason" \notin DOMAIN Torn
      BY DEF Missing, Torn
    <2> QED BY <2>1, <2>2
  <1>2. Missing.file # Torn.file
    BY DEF Missing, Torn
  <1>3. NoCommand.op = "none"
    BY DEF NoCommand
  <1> QED BY <1>1, <1>2, <1>3 DEF Adds, Updates

LEMMA SupersededShape ==
  ASSUME NEW w \in Writers, cmd[w] \in Adds, NEW i \in Item
  PROVE  LET s == SupersededItem(w, i)
             line == [old |-> "superseded", new |-> "superseded"]
         IN  /\ s \in Item /\ s.reason = i.reason /\ s.kept = i.kept
             /\ s.status = "superseded" /\ s.superseded_by = cmd[w].id
             /\ line \in LogLine /\ s.handling_log = Append(i.handling_log, line)
  <1> DEFINE line == [old |-> "superseded", new |-> "superseded"]
             newlog == Append(i.handling_log, line)
  <1>1. line \in LogLine
    BY DEF LogLine, Statuses
  <1>2. newlog \in Seq(LogLine)
    BY <1>1, AppendProperties DEF Item
  <1>3. cmd[w].id \in Ids /\ cmd[w].at \in 1..MaxClock
    BY DEF Adds
  <1> HIDE DEF line, newlog
  <1>4. SupersededItem(w, i) = [i EXCEPT !.status = "superseded", !.superseded_by = cmd[w].id,
                                         !.updated = cmd[w].at, !.handling_log = newlog]
    BY DEF SupersededItem, line, newlog
  <1>5. /\ SupersededItem(w, i) \in Item
        /\ SupersededItem(w, i).reason = i.reason /\ SupersededItem(w, i).kept = i.kept
        /\ SupersededItem(w, i).status = "superseded"
        /\ SupersededItem(w, i).superseded_by = cmd[w].id
        /\ SupersededItem(w, i).handling_log = newlog
    BY <1>2, <1>3, <1>4 DEF Item, Statuses
  <1> QED BY <1>1, <1>5 DEF line, newlog

LEMMA UpdatedShape ==
  ASSUME NEW w \in Writers, cmd[w] \in Updates, NEW i \in Item
  PROVE  LET u == UpdatedItem(w, i)
             new == IF cmd[w].status = "same" THEN i.status ELSE cmd[w].status
             line == [old |-> i.status, new |-> new]
         IN  /\ u \in Item /\ u.reason = i.reason /\ u.kept = i.kept
             /\ u.status = new /\ line \in LogLine
             /\ u.handling_log = Append(i.handling_log, line)
  <1> DEFINE new == IF cmd[w].status = "same" THEN i.status ELSE cmd[w].status
             line == [old |-> i.status, new |-> new]
             newlog == Append(i.handling_log, line)
             when == cmd[w].resume \/ (i.resume_when /\ new = "deferred")
  <1>1. new \in Statuses
    BY DEF Item, Updates, Statuses
  <1>2. line \in LogLine
    BY <1>1 DEF LogLine, Item
  <1>3. newlog \in Seq(LogLine)
    BY <1>2, AppendProperties DEF Item
  <1>4. cmd[w].at \in 1..MaxClock
    BY DEF Updates
  <1>5. when \in BOOLEAN
    OBVIOUS
  <1>6. UpdatedItem(w, i) = [i EXCEPT !.status = new, !.resume_when = when,
                                      !.updated = cmd[w].at, !.handling_log = newlog]
    BY DEF UpdatedItem
  <1> HIDE DEF line, newlog, when, new
  <1>7. /\ UpdatedItem(w, i) \in Item
        /\ UpdatedItem(w, i).reason = i.reason /\ UpdatedItem(w, i).kept = i.kept
        /\ UpdatedItem(w, i).status = new
        /\ UpdatedItem(w, i).handling_log = newlog
    BY <1>1, <1>3, <1>4, <1>5, <1>6 DEF Item
  <1> QED BY <1>2, <1>7 DEF line, newlog, new

-----------------------------------------------------------------------------
(* Steps that leave every item as it is.                                       *)

LEMMA InitInv == Init => IInv
  <1> SUFFICES ASSUME Init PROVE IInv
    OBVIOUS
  <1>1. WritersTyped
    BY LedgerAssumption DEF Init, WritersTyped, PC
  <1>2. \A id \in Ids : ~Parses(id) /\ ~Active(id)
    BY DEF Init, Parses, Active
  <1>3. SuccessorNamed /\ OneActivePerReason
    BY <1>2 DEF SuccessorNamed, OneActivePerReason
  <1>4. \A w \in Writers : RunSound(w)
    BY DEF Init, RunSound, LockHeld, TempCurrent, CreatingAlone
  <1> QED BY <1>1, <1>3, <1>4 DEF IInv

(* What says something of the items alone, or of a run that has not moved.       *)
LEMMA SameItems ==
  ASSUME IInv, UNCHANGED items, NEW w \in Writers,
         \A v \in Writers \ {w} : pc'[v] = pc[v] /\ cmd'[v] = cmd[v] /\ temp'[v] = temp[v],
         \A v \in Writers \ {w} : lock = v => lock' = v,
         pc[w] \in {"locked", "replacing", "creating", "dead", "failed"} =>
            cmd'[w] = cmd[w] /\ pc'[w] \in {"locked", "replacing", "creating", "dead", "failed"}
  PROVE  /\ SuccessorNamed' /\ OneActivePerReason'
         /\ \A v \in Writers \ {w} : RunSound(v)'
  <1>1. \A id \in Ids : Parses(id)' = Parses(id) /\ Active(id)' = Active(id)
    BY DEF Parses, Active
  <1>2. SuccessorNamed'
    BY <1>1 DEF IInv, SuccessorNamed, CarriedBy
  <1>3. OneActivePerReason'
    BY <1>1 DEF IInv, OneActivePerReason, Reopened
  <1>4. ASSUME NEW v \in Writers \ {w}
        PROVE  RunSound(v)'
    <2>1. RunSound(v) /\ pc'[v] = pc[v] /\ cmd'[v] = cmd[v] /\ temp'[v] = temp[v]
      BY <1>4 DEF IInv
    <2>2. LockHeld(v)'
      BY <2>1 DEF RunSound, LockHeld
    <2>3. TempCurrent(v)'
      BY <2>1 DEF RunSound, TempCurrent, Matches, SupersededItem, UpdatedItem, Updatable,
         Active, Parses
    <2>4. CreatingAlone(v)'
      BY <2>1 DEF RunSound, CreatingAlone, Matches, Active, Parses
    <2> QED BY <2>2, <2>3, <2>4 DEF RunSound
  <1> QED BY <1>2, <1>3, <1>4

(* A run that is not at its files, or has only now taken the lock.              *)
LEMMA IdleIsSound ==
  ASSUME NEW w \in Writers, pc'[w] \notin {"replacing", "creating"},
         pc'[w] = "locked" => lock' = w,
         pc'[w] \in {"waiting", "locked"} => cmd'[w] # NoCommand
  PROVE  RunSound(w)'
  BY DEF RunSound, LockHeld, TempCurrent, CreatingAlone

LEMMA CommandOf ==
  ASSUME IInv, NEW w \in Writers, pc[w] \in {"waiting", "locked", "replacing", "creating"}
  PROVE  /\ cmd[w] \in Updates \union Adds
         /\ cmd[w].op = "add" => cmd[w] \in Adds
         /\ cmd[w].op = "update" => cmd[w] \in Updates
         /\ pc[w] # "waiting" => lock = w
  <1>1. cmd[w] \in Updates \union Adds \union {NoCommand} /\ RunSound(w)
    BY DEF IInv, WritersTyped
  <1>2. cmd[w] # NoCommand /\ (pc[w] # "waiting" => lock = w)
    BY <1>1 DEF RunSound, LockHeld
  <1> QED BY <1>1, <1>2, ItemsAreWhole

LEMMA WaitInv ==
  ASSUME IInv, NEW w \in Writers, Start(w) \/ AcquireLock(w) \/ GiveUp(w) \/ Die(w)
  PROVE  IInv'
  <1>0. /\ pc \in [Writers -> PC] /\ NoOne \notin Writers
        /\ cmd \in [Writers -> Updates \union Adds \union {NoCommand}]
        /\ lock \in Writers \union {NoOne} /\ WritersTyped
    BY LedgerAssumption DEF IInv, WritersTyped
  <1>1. CASE Start(w)
    <2>1. PICK c \in Updates \union Adds : cmd' = [cmd EXCEPT ![w] = c]
      BY <1>1 DEF Start
    <2>2. pc' = [pc EXCEPT ![w] = "waiting"] /\ pc[w] = "idle"
          /\ UNCHANGED <<clock, lock, items, temp>>
      BY <1>1 DEF Start, Become
    <2>3. WritersTyped'
      BY <1>0, <2>1, <2>2 DEF WritersTyped, PC
    <2>4. cmd'[w] # NoCommand /\ pc'[w] = "waiting"
      BY <1>0, <2>1, <2>2, ItemsAreWhole
    <2>5. RunSound(w)'
      BY <2>4, IdleIsSound
    <2>6. \A v \in Writers \ {w} : pc'[v] = pc[v] /\ cmd'[v] = cmd[v] /\ temp'[v] = temp[v]
      BY <1>0, <2>1, <2>2
    <2>7. SuccessorNamed' /\ OneActivePerReason' /\ \A v \in Writers \ {w} : RunSound(v)'
      BY <2>2, <2>6, SameItems
    <2> QED BY <2>3, <2>5, <2>7 DEF IInv
  <1>2. CASE AcquireLock(w)
    <2>1. /\ pc[w] = "waiting" /\ lock = NoOne /\ lock' = w
          /\ pc' = [pc EXCEPT ![w] = "locked"] /\ UNCHANGED <<clock, items, cmd, temp>>
      BY <1>2 DEF AcquireLock, Become
    <2>2. WritersTyped'
      BY <1>0, <2>1 DEF WritersTyped, PC
    <2>3. cmd[w] # NoCommand
      BY <2>1 DEF IInv, RunSound, LockHeld
    <2>4. RunSound(w)'
      BY <1>0, <2>1, <2>3, IdleIsSound
    <2>5. SuccessorNamed' /\ OneActivePerReason' /\ \A v \in Writers \ {w} : RunSound(v)'
      BY <1>0, <2>1, SameItems
    <2> QED BY <2>2, <2>4, <2>5 DEF IInv
  <1>3. CASE GiveUp(w) \/ Die(w)
    <2>1. /\ \E where \in {"failed", "dead"} : pc' = [pc EXCEPT ![w] = where]
          /\ lock' = lock \/ (lock = w /\ lock' = NoOne)
          /\ UNCHANGED <<clock, items, cmd, temp>>
      BY <1>3 DEF GiveUp, Die, Become
    <2>2. WritersTyped'
      BY <1>0, <2>1 DEF WritersTyped, PC
    <2>3. pc'[w] \in {"failed", "dead"}
      BY <1>0, <2>1
    <2>4. RunSound(w)'
      BY <2>3, IdleIsSound
    <2>5. SuccessorNamed' /\ OneActivePerReason' /\ \A v \in Writers \ {w} : RunSound(v)'
      BY <1>0, <2>1, <2>3, SameItems
    <2> QED BY <2>2, <2>4, <2>5 DEF IInv
  <1> QED BY <1>1, <1>2, <1>3

LEMMA FailInv ==
  ASSUME IInv, NEW w \in Writers, pc[w] = "locked", Fail(w)
  PROVE  IInv'
  <1>0. pc \in [Writers -> PC] /\ WritersTyped /\ lock = w
    BY CommandOf DEF IInv, WritersTyped
  <1>1. /\ pc' = [pc EXCEPT ![w] = "failed"] /\ lock' = NoOne
        /\ UNCHANGED <<clock, items, cmd, temp>>
    BY DEF Fail, Become
  <1>2. WritersTyped'
    BY <1>0, <1>1 DEF WritersTyped, PC
  <1>3. RunSound(w)'
    BY <1>0, <1>1, IdleIsSound
  <1>4. SuccessorNamed' /\ OneActivePerReason' /\ \A v \in Writers \ {w} : RunSound(v)'
    BY <1>0, <1>1, SameItems
  <1> QED BY <1>2, <1>3, <1>4 DEF IInv

(* A run writes its temporary file for the item as it is now.                   *)
LEMMA WriteTemp ==
  ASSUME IInv, NEW w \in Writers, pc[w] = "locked", NEW id \in Ids, NEW i \in Item,
         temp' = [temp EXCEPT ![w] = [id |-> id, item |-> i]],
         Become(w, "replacing"), UNCHANGED <<clock, lock, items, cmd>>,
         \/ cmd[w] \in Adds /\ id \in Matches(cmd[w]) /\ i = SupersededItem(w, items[id])
         \/ cmd[w] \in Updates /\ id = cmd[w].id /\ Updatable(w) /\ i = UpdatedItem(w, items[id])
  PROVE  IInv'
  <1> DEFINE t == [id |-> id, item |-> i]
  <1>0. /\ pc \in [Writers -> PC] /\ WritersTyped /\ lock = w
        /\ temp \in [Writers -> {NoTemp} \union [id: Ids, item: Item]]
        /\ cmd[w] # NoCommand
    BY CommandOf, ItemsAreWhole DEF IInv, WritersTyped
  <1>1. t \in [id: Ids, item: Item] /\ t.id = id /\ t.item = i /\ t # NoTemp
    <2>1. "id" \in DOMAIN t /\ "id" \notin DOMAIN NoTemp
      BY DEF NoTemp
    <2> QED BY <2>1
  <1>2. temp'[w] = t /\ pc' = [pc EXCEPT ![w] = "replacing"]
    BY <1>0 DEF Become
  <1> HIDE DEF t
  <1>3. WritersTyped'
    BY <1>0, <1>1, <1>2 DEF WritersTyped, PC, t
  <1>4. TempCurrent(w)'
    BY <1>0, <1>1, <1>2 DEF TempCurrent, Matches, Active, Parses, SupersededItem, UpdatedItem,
       Updatable
  <1>5. RunSound(w)'
    BY <1>0, <1>2, <1>4 DEF RunSound, LockHeld, CreatingAlone
  <1>6. \A v \in Writers \ {w} : pc'[v] = pc[v] /\ cmd'[v] = cmd[v] /\ temp'[v] = temp[v]
    BY <1>0, <1>2
  <1>7. SuccessorNamed' /\ OneActivePerReason' /\ \A v \in Writers \ {w} : RunSound(v)'
    BY <1>0, <1>2, <1>6, SameItems
  <1> QED BY <1>3, <1>5, <1>7 DEF IInv

LEMMA WriteInv ==
  ASSUME IInv, NEW w \in Writers, WriteSuperseded(w) \/ WriteUpdate(w)
  PROVE  IInv'
  <1>0. items \in [Ids -> Item \union {Missing, Torn}]
    BY DEF IInv, WritersTyped
  <1>1. CASE WriteSuperseded(w)
    <2> DEFINE id == FirstOf(Matches(cmd[w]))
    <2>1. cmd[w] \in Adds /\ pc[w] = "locked"
      BY <1>1, CommandOf DEF WriteSuperseded
    <2>2. id \in Matches(cmd[w])
      BY <1>1, FirstOfIsIn DEF WriteSuperseded, Matches
    <2>3. id \in Ids /\ items[id] \in Item
      BY <1>0, <2>2 DEF Matches, Active, Parses
    <2>4. /\ temp' = [temp EXCEPT ![w] = [id |-> id, item |-> SupersededItem(w, items[id])]]
          /\ Become(w, "replacing") /\ UNCHANGED <<clock, lock, items, cmd>>
      BY <1>1 DEF WriteSuperseded
    <2> HIDE DEF id
    <2>5. SupersededItem(w, items[id]) \in Item
      BY <2>1, <2>3, SupersededShape
    <2> QED BY <2>1, <2>2, <2>3, <2>4, <2>5, WriteTemp
  <1>2. CASE WriteUpdate(w) /\ ~Updatable(w)
    BY <1>2, FailInv DEF WriteUpdate
  <1>3. CASE WriteUpdate(w) /\ Updatable(w)
    <2> DEFINE id == cmd[w].id
    <2>1. cmd[w] \in Updates /\ pc[w] = "locked"
      BY <1>3, CommandOf DEF WriteUpdate
    <2>2. id \in Ids /\ items[id] \in Item
      BY <1>0, <1>3, <2>1 DEF Updatable, Parses, Updates
    <2>3. /\ temp' = [temp EXCEPT ![w] = [id |-> id, item |-> UpdatedItem(w, items[id])]]
          /\ Become(w, "replacing") /\ UNCHANGED <<clock, lock, items, cmd>>
      BY <1>3 DEF WriteUpdate
    <2>4. UpdatedItem(w, items[id]) \in Item
      BY <2>1, <2>2, UpdatedShape
    <2> QED BY <1>3, <2>1, <2>2, <2>3, <2>4, WriteTemp
  <1> QED BY <1>1, <1>2, <1>3

-----------------------------------------------------------------------------
(* Steps that write an item: its run has the lock, so no other is at its files.   *)

LEMMA OthersAway ==
  ASSUME IInv, NEW w \in Writers, lock = w, NEW v \in Writers \ {w},
         pc'[v] = pc[v], cmd'[v] = cmd[v]
  PROVE  RunSound(v)'
  <1>1. RunSound(v) /\ pc[v] \notin {"locked", "replacing", "creating"}
    BY DEF IInv, RunSound, LockHeld
  <1>2. pc[v] = "waiting" => cmd[v] # NoCommand
    BY <1>1 DEF RunSound, LockHeld
  <1> QED BY <1>1, <1>2, IdleIsSound

(* What the rename makes of an item.                                          *)
Rewrites(w, id, new, line) ==
    /\ Parses(id) /\ items[id].status # "superseded"
    /\ items' = [items EXCEPT ![id] = new]
    /\ new.reason = items[id].reason /\ new.kept = items[id].kept
    /\ new.handling_log = Append(items[id].handling_log, line)
    /\ new.status \in {"open", "deferred"} /\ ~Active(id) =>
          line.old = "handled" /\ line.new \in {"open", "deferred"}
    /\ new.status = "superseded" =>
          /\ cmd[w] \in Adds /\ new.superseded_by = cmd[w].id
          /\ new.reason = cmd[w].reason

LEMMA ReplaceRewrites ==
  ASSUME IInv, NEW w \in Writers, Replace(w)
  PROVE  \E id \in Ids, new \in Item, line \in LogLine : Rewrites(w, id, new, line)
  <1> DEFINE t == temp[w]
             id == t.id
             old == items[id]
             new == t.item
  <1>0. /\ items \in [Ids -> Item \union {Missing, Torn}] /\ pc[w] = "replacing"
        /\ temp[w] \in {NoTemp} \union [id: Ids, item: Item]
        /\ items' = [items EXCEPT ![id] = new]
    BY DEF IInv, WritersTyped, Replace, Put
  <1>1. /\ t # NoTemp
        /\ \/ cmd[w] \in Adds /\ id \in Matches(cmd[w]) /\ new = SupersededItem(w, old)
           \/ /\ cmd[w] \in Updates /\ id = cmd[w].id /\ Updatable(w)
              /\ new = UpdatedItem(w, old)
    BY <1>0 DEF IInv, RunSound, TempCurrent
  <1>2. id \in Ids /\ new \in Item
    BY <1>0, <1>1
  <1>3. CASE cmd[w] \in Adds /\ id \in Matches(cmd[w]) /\ new = SupersededItem(w, old)
    <2> DEFINE line == [old |-> "superseded", new |-> "superseded"]
    <2>1. Active(id) /\ Parses(id) /\ old.reason = cmd[w].reason
      BY <1>3 DEF Matches, Active
    <2>2. old \in Item /\ old.status # "superseded"
      BY <1>0, <1>2, <2>1 DEF Parses, Active
    <2> HIDE DEF old, id, new
    <2>3. /\ new.reason = old.reason /\ new.kept = old.kept /\ new.status = "superseded"
          /\ new.superseded_by = cmd[w].id /\ line \in LogLine
          /\ new.handling_log = Append(old.handling_log, line)
      BY <1>3, <2>2, SupersededShape
    <2>4. Rewrites(w, id, new, line)
      BY <1>0, <1>3, <2>1, <2>2, <2>3 DEF Rewrites, old, id, new
    <2> QED BY <1>2, <2>3, <2>4
  <1>4. CASE /\ cmd[w] \in Updates /\ id = cmd[w].id /\ Updatable(w)
             /\ new = UpdatedItem(w, old)
    <2> DEFINE st == IF cmd[w].status = "same" THEN old.status ELSE cmd[w].status
               line == [old |-> old.status, new |-> st]
    <2>1. Parses(id) /\ old.status # "superseded"
      BY <1>4 DEF Updatable
    <2>2. old \in Item /\ old.status \in {"open", "handled", "deferred"}
      BY <1>0, <1>2, <2>1 DEF Parses, Item, Statuses
    <2>3. /\ new.reason = old.reason /\ new.kept = old.kept /\ new.status = st
          /\ line \in LogLine /\ new.handling_log = Append(old.handling_log, line)
      <3> HIDE DEF old, id, new
      <3> QED BY <1>4, <2>2, UpdatedShape
    <2>4. st # "superseded"
      BY <1>4, <2>1 DEF Updates
    <2>5. ~Active(id) => old.status = "handled"
      BY <2>1, <2>2 DEF Active
    <2>6. line.old = old.status /\ line.new = st
      OBVIOUS
    <2> HIDE DEF line, st
    <2>7. Rewrites(w, id, new, line)
      BY <1>0, <2>1, <2>3, <2>4, <2>5, <2>6 DEF Rewrites
    <2> QED BY <1>2, <2>3, <2>7
  <1> QED BY <1>1, <1>3, <1>4

(* A handling log that was appended to still says what it said.                 *)
LEMMA ReopenedStays ==
  ASSUME NEW id \in Ids, items[id] \in Item, NEW line \in LogLine,
         items'[id].handling_log = Append(items[id].handling_log, line)
  PROVE  /\ Reopened(id) => Reopened(id)'
         /\ line.old = "handled" /\ line.new \in {"open", "deferred"} => Reopened(id)'
  <1> DEFINE log == items[id].handling_log
  <1>0. log \in Seq(LogLine)
    BY DEF Item
  <1>1. /\ Len(log) \in Nat /\ DOMAIN log = 1..Len(log)
        /\ DOMAIN Append(log, line) = 1..(Len(log) + 1)
        /\ \A n \in 1..Len(log) : Append(log, line)[n] = log[n]
        /\ Append(log, line)[Len(log) + 1] = line
    BY <1>0, AppendProperties
  <1> QED BY <1>1 DEF Reopened

LEMMA ReplaceInv ==
  ASSUME IInv, NEW w \in Writers, Replace(w)
  PROVE  IInv'
  <1>0. /\ WritersTyped /\ items \in [Ids -> Item \union {Missing, Torn}]
        /\ pc \in [Writers -> PC] /\ pc[w] = "replacing" /\ lock = w /\ cmd[w] # NoCommand
        /\ cmd \in [Writers -> Updates \union Adds \union {NoCommand}]
        /\ temp \in [Writers -> {NoTemp} \union [id: Ids, item: Item]]
        /\ cmd[w] \in Adds \/ cmd[w] \in Updates
        /\ NoOne \notin Writers
    BY CommandOf, ItemsAreWhole, LedgerAssumption DEF IInv, WritersTyped, Replace
  <1>1. PICK id \in Ids, new \in Item, line \in LogLine : Rewrites(w, id, new, line)
    BY ReplaceRewrites
  <1>2. /\ UNCHANGED clock /\ temp' = [temp EXCEPT ![w] = NoTemp]
        /\ \/ /\ cmd[w] \in Adds /\ pc' = [pc EXCEPT ![w] = "locked"]
              /\ UNCHANGED <<lock, cmd>>
           \/ /\ cmd[w] \in Updates /\ pc' = [pc EXCEPT ![w] = "done"]
              /\ lock' = NoOne /\ cmd' = [cmd EXCEPT ![w] = NoCommand]
    BY <1>0, ItemsAreWhole DEF Replace, Become, Exit
  <1>3. items' = [items EXCEPT ![id] = new] /\ items[id] \in Item
    BY <1>0, <1>1 DEF Rewrites, Parses
  <1>4. /\ \A x \in Ids : items'[x] = IF x = id THEN new ELSE items[x]
        /\ \A x \in Ids : Parses(x)' <=> Parses(x)
    BY <1>0, <1>1, <1>3, ItemsAreWhole DEF Rewrites, Parses
  <1>5. WritersTyped'
    BY <1>0, <1>2, <1>3 DEF WritersTyped, PC
  <1>6. \A v \in Writers : RunSound(v)'
    <2>1. RunSound(w)'
      BY <1>0, <1>2, IdleIsSound
    <2>2. \A v \in Writers \ {w} : pc'[v] = pc[v] /\ cmd'[v] = cmd[v]
      BY <1>0, <1>2
    <2> QED BY <1>0, <2>1, <2>2, OthersAway
  <1>7. SuccessorNamed'
    <2>1. ASSUME NEW v \in Writers, cmd[v] \in Adds,
                 pc[v] \in {"locked", "replacing", "creating", "dead", "failed"}
          PROVE  /\ cmd'[v] = cmd[v]
                 /\ pc'[v] \in {"locked", "replacing", "creating", "dead", "failed"}
      BY <1>0, <1>2, <2>1, ItemsAreWhole
    <2>2. ASSUME NEW x \in Ids, Parses(x)', items'[x].status = "superseded"
          PROVE  CarriedBy(x, items[x].superseded_by)'
      <3>1. CASE x = id
        <4>1. /\ cmd[w] \in Adds /\ items'[x].superseded_by = cmd[w].id
              /\ items'[x].reason = cmd[w].reason
          BY <1>1, <1>4, <2>2, <3>1 DEF Rewrites
        <4> QED BY <1>0, <2>1, <4>1 DEF CarriedBy
      <3>2. CASE x # id
        <4>1. items'[x] = items[x] /\ Parses(x) /\ items[x].status = "superseded"
          BY <1>4, <2>2, <3>2
        <4>s. PICK s : s = items[x].superseded_by
          OBVIOUS
        <4>2. CarriedBy(x, s)
          BY <4>1, <4>s DEF IInv, SuccessorNamed
        <4>3. \A y \in Ids : items'[y].reason = items[y].reason
          BY <1>1, <1>4 DEF Rewrites
        <4>4. CarriedBy(x, s)'
          BY <1>4, <2>1, <4>1, <4>2, <4>3 DEF CarriedBy
        <4>5. items'[x].superseded_by = s
          BY <4>1, <4>s
        <4> QED BY <4>4, <4>5
      <3> QED BY <3>1, <3>2
    <2> QED BY <2>2 DEF SuccessorNamed
  <1>8. OneActivePerReason'
    <2>1. items'[id].handling_log = Append(items[id].handling_log, line)
      BY <1>1, <1>4 DEF Rewrites
    <2>2. \A x \in Ids : /\ items'[x].reason = items[x].reason
                         /\ items'[x].kept = items[x].kept
      BY <1>1, <1>4 DEF Rewrites
    <2>3. \A x \in Ids : Reopened(x) => Reopened(x)'
      <3>1. \A x \in Ids \ {id} : Reopened(x) => Reopened(x)'
        BY <1>4 DEF Reopened
      <3> QED BY <1>3, <2>1, <3>1, ReopenedStays
    <2>4. \A x \in Ids : Active(x)' => Active(x) \/ Reopened(x)'
      <3>1. \A x \in Ids \ {id} : Active(x)' => Active(x)
        BY <1>4 DEF Active
      <3>2. Active(id)' => Active(id) \/ Reopened(id)'
        BY <1>1, <1>3, <1>4, <2>1, ReopenedStays DEF Rewrites, Active
      <3> QED BY <3>1, <3>2
    <2> QED BY <2>2, <2>3, <2>4 DEF IInv, OneActivePerReason
  <1> QED BY <1>5, <1>6, <1>7, <1>8 DEF IInv

(* A name comes into being, torn, and then with its content.                    *)
LEMMA CreateInv ==
  ASSUME IInv, NEW w \in Writers, Create(w)
  PROVE  IInv'
  <1>0. /\ WritersTyped /\ items \in [Ids -> Item \union {Missing, Torn}]
        /\ pc \in [Writers -> PC] /\ pc[w] = "locked" /\ lock = w
        /\ cmd[w] \in Adds /\ cmd[w] # NoCommand /\ Matches(cmd[w]) = {}
        /\ cmd[w].id \in Ids
    BY CommandOf, ItemsAreWhole DEF IInv, WritersTyped, Create, Adds
  <1> DEFINE id == cmd[w].id
  <1>1. CASE Present(id)
    BY <1>0, <1>1, FailInv DEF Create
  <1>2. CASE ~Present(id)
    <2>1. /\ items' = [items EXCEPT ![id] = Torn] /\ pc' = [pc EXCEPT ![w] = "creating"]
          /\ UNCHANGED <<clock, lock, cmd, temp>> /\ items[id] = Missing
      BY <1>2 DEF Create, Put, Become, Present
    <2>2. /\ \A x \in Ids : items'[x] = IF x = id THEN Torn ELSE items[x]
          /\ \A x \in Ids : Parses(x)' = Parses(x)
          /\ \A x \in Ids : Active(x)' = Active(x)
      BY <1>0, <2>1, ItemsAreWhole DEF Parses, Active
    <2>3. WritersTyped'
      BY <1>0, <2>1 DEF WritersTyped, PC
    <2>4. CreatingAlone(w)'
      <3>1. Matches(cmd[w])' = {}
        BY <1>0, <2>1, <2>2, ItemsAreWhole DEF Matches, Active, Parses
      <3> QED BY <1>0, <2>1, <2>2, <3>1 DEF CreatingAlone
    <2>5. \A v \in Writers : RunSound(v)'
      <3>1. RunSound(w)'
        BY <1>0, <2>1, <2>4 DEF RunSound, LockHeld, TempCurrent
      <3> QED BY <1>0, <2>1, <3>1, OthersAway
    <2>6. SuccessorNamed'
      BY <1>0, <2>1, <2>2, ItemsAreWhole DEF IInv, SuccessorNamed, CarriedBy, Parses
    <2>7. OneActivePerReason'
      BY <2>1, <2>2, ItemsAreWhole DEF IInv, OneActivePerReason, Reopened, Active, Parses
    <2> QED BY <2>3, <2>5, <2>6, <2>7 DEF IInv
  <1> QED BY <1>1, <1>2

(* The item an add fills its file with.                                        *)
Fresh(w) ==
    [reason |-> cmd[w].reason, status |-> "open", updated |-> cmd[w].at,
     superseded_by |-> NoId, resume_when |-> FALSE, kept |-> cmd[w].keep,
     handling_log |-> <<[old |-> "new", new |-> "open"]>>]

LEMMA FillInv ==
  ASSUME IInv, NEW w \in Writers, Fill(w)
  PROVE  IInv'
  <1>id. PICK id : id = cmd[w].id
    OBVIOUS
  <1>0. /\ WritersTyped /\ items \in [Ids -> Item \union {Missing, Torn}]
        /\ pc \in [Writers -> PC] /\ pc[w] = "creating" /\ lock = w
        /\ cmd \in [Writers -> Updates \union Adds \union {NoCommand}]
        /\ cmd[w] \in Adds /\ items[id] = Torn /\ Matches(cmd[w]) = {}
        /\ id = cmd[w].id /\ id \in Ids /\ NoOne \notin Writers /\ NoId \notin Ids
    BY <1>id, CommandOf, LedgerAssumption
    DEF IInv, WritersTyped, Fill, RunSound, CreatingAlone, Adds, Ids
  <1>1. /\ items' = [items EXCEPT ![id] = Fresh(w)] /\ pc' = [pc EXCEPT ![w] = "done"]
        /\ lock' = NoOne /\ cmd' = [cmd EXCEPT ![w] = NoCommand] /\ UNCHANGED <<clock, temp>>
    BY <1>id DEF Fill, Put, Exit, Become, Fresh
  <1>2. /\ Fresh(w) \in Item /\ Fresh(w).status = "open"
        /\ Fresh(w).reason = cmd[w].reason /\ Fresh(w).kept = cmd[w].keep
    <2>1. <<[old |-> "new", new |-> "open"]>> \in Seq(LogLine)
      BY DEF LogLine, Statuses
    <2> QED BY <1>0, <2>1 DEF Fresh, Item, Adds, Statuses
  <1>3. /\ \A x \in Ids : items'[x] = IF x = id THEN Fresh(w) ELSE items[x]
        /\ \A x \in Ids \ {id} : Parses(x)' = Parses(x) /\ Active(x)' = Active(x)
        /\ Parses(id)' /\ ~Parses(id)
    <2>1. \A x \in Ids : items'[x] = IF x = id THEN Fresh(w) ELSE items[x]
      BY <1>0, <1>1
    <2>2. \A x \in Ids \ {id} : Parses(x)' = Parses(x) /\ Active(x)' = Active(x)
      BY <2>1 DEF Parses, Active
    <2>3. items'[id] = Fresh(w) /\ Fresh(w) # Missing /\ Fresh(w) # Torn
      BY <1>0, <1>2, <2>1, ItemsAreWhole
    <2>4. Parses(id)'
      BY <2>3 DEF Parses
    <2> QED BY <1>0, <2>1, <2>2, <2>4 DEF Parses
  <1>4. WritersTyped'
    BY <1>0, <1>1, <1>2 DEF WritersTyped, PC
  <1>5. \A v \in Writers : RunSound(v)'
    <2>1. RunSound(w)'
      BY <1>0, <1>1, IdleIsSound
    <2>2. \A v \in Writers \ {w} : pc'[v] = pc[v] /\ cmd'[v] = cmd[v]
      BY <1>0, <1>1
    <2> QED BY <1>0, <2>1, <2>2, OthersAway
  <1>6. SuccessorNamed'
    <2>1. ASSUME NEW x \in Ids, Parses(x)', items'[x].status = "superseded"
          PROVE  CarriedBy(x, items[x].superseded_by)'
      <3>1. /\ x # id /\ items'[x] = items[x] /\ Parses(x)
            /\ items[x].status = "superseded"
        BY <1>2, <1>3, <2>1
      <3>2. PICK s : s = items[x].superseded_by
        OBVIOUS
      <3>3. CarriedBy(x, s)
        BY <3>1, <3>2 DEF IInv, SuccessorNamed
      <3>4. CASE /\ s # NoId /\ s # x
                 /\ s \in Ids /\ Parses(s) /\ items[s].reason = items[x].reason
        <4>1. s # id /\ Parses(s)' /\ items'[s] = items[s]
          BY <1>3, <3>4
        <4> QED BY <3>1, <3>2, <3>4, <4>1 DEF CarriedBy
      <3>5. ASSUME NEW v \in Writers, cmd[v] \in Adds, cmd[v].id = s,
                   cmd[v].reason = items[x].reason,
                   pc[v] \in {"locked", "replacing", "creating", "dead", "failed"}
            PROVE  CarriedBy(x, s)'
        <4>1. CASE v = w
          <5>0. s = id /\ s # NoId /\ s # x
            BY <1>0, <3>1, <3>5, <4>1
          <5>1. Parses(s)' /\ items'[s].reason = items'[x].reason
            BY <1>0, <1>2, <1>3, <3>1, <3>5, <4>1, <5>0
          <5> QED BY <1>0, <5>0, <5>1 DEF CarriedBy
        <4>2. CASE v # w
          <5>1. cmd'[v] = cmd[v] /\ pc'[v] = pc[v]
            BY <1>0, <1>1, <4>2
          <5> QED BY <3>1, <3>5, <5>1 DEF CarriedBy
        <4> QED BY <4>1, <4>2
      <3> QED BY <3>1, <3>2, <3>3, <3>4, <3>5 DEF CarriedBy
    <2> QED BY <2>1 DEF SuccessorNamed
  <1>7. OneActivePerReason'
    <2>1. \A x \in Ids \ {id} : Reopened(x)' = Reopened(x)
      BY <1>3 DEF Reopened
    <2>2. ASSUME NEW y \in Ids \ {id}, Active(y), items[y].reason = cmd[w].reason
          PROVE  cmd[w].keep
      BY <1>0, <2>2 DEF Matches
    <2>3. \A y \in Ids \ {id} : Active(y)' /\ items'[y].reason = items'[id].reason
                                 => items'[id].kept
      BY <1>0, <1>2, <1>3, <2>2
    <2> QED BY <1>0, <1>3, <2>1, <2>3 DEF IInv, OneActivePerReason
  <1> QED BY <1>4, <1>5, <1>6, <1>7 DEF IInv

(* The clock and the reader change nothing of the writers.                      *)
LEMMA OutsideInv ==
  ASSUME IInv, Tick \/ List \/ Read \/ Paginate \/ UNCHANGED vars
  PROVE  IInv'
  <1>1. UNCHANGED <<lock, items, pc, cmd, temp>>
    BY DEF Tick, List, Read, Paginate, vars
  <1>2. clock' \in 1..MaxClock
    BY LedgerAssumption DEF Tick, List, Read, Paginate, vars, IInv, WritersTyped
  <1>3. WritersTyped'
    BY <1>1, <1>2 DEF IInv, WritersTyped
  <1>4. \A id \in Ids : Parses(id)' = Parses(id) /\ Active(id)' = Active(id)
    BY <1>1 DEF Parses, Active
  <1>5. SuccessorNamed' /\ OneActivePerReason'
    BY <1>1, <1>4 DEF IInv, SuccessorNamed, CarriedBy, OneActivePerReason, Reopened
  <1>6. ASSUME NEW w \in Writers PROVE RunSound(w)'
    <2>1. RunSound(w)
      BY DEF IInv
    <2> QED BY <1>1, <2>1 DEF RunSound, LockHeld, TempCurrent, CreatingAlone, Matches,
               SupersededItem, UpdatedItem, Updatable, Active, Parses
  <1> QED BY <1>3, <1>5, <1>6 DEF IInv

-----------------------------------------------------------------------------
LEMMA NextInv == IInv /\ [Next]_vars => IInv'
  <1> SUFFICES ASSUME IInv, [Next]_vars PROVE IInv'
    OBVIOUS
  <1>1. ASSUME NEW w \in Writers, Writing(w) PROVE IInv'
    BY <1>1, WaitInv, WriteInv, ReplaceInv, CreateInv, FillInv DEF Writing
  <1> QED BY <1>1, OutsideInv DEF Next

LEMMA Invariance == Spec => []IInv
  BY InitInv, NextInv, PTL DEF Spec

(* A superseded item always leads on: to an item about the same reason, or to a    *)
(* run that was to make it and is still there, died, or found its id taken.       *)
THEOREM SupersededLeadsOn == Spec => []SuccessorCarriesOn
  <1>1. IInv => SuccessorCarriesOn
    <2> SUFFICES ASSUME IInv, NEW id \in Ids, Parses(id), items[id].status = "superseded"
                 PROVE  LET s == items[id].superseded_by
                        IN  \/ /\ s # NoId /\ s # id
                               /\ Parses(s) /\ items[s].reason = items[id].reason
                            \/ \E w \in Writers :
                                  /\ cmd[w].op = "add" /\ cmd[w].id = s
                                  /\ pc[w] \in {"locked", "replacing", "creating",
                                                "dead", "failed"}
      BY DEF SuccessorCarriesOn
    <2>1. CarriedBy(id, items[id].superseded_by)
      BY DEF IInv, SuccessorNamed
    <2> QED BY <2>1, ItemsAreWhole DEF CarriedBy
  <1> QED BY <1>1, Invariance, PTL

(* However many adds run at once, a reason has one active item unless a second was  *)
(* asked for.                                                               *)
THEOREM AtMostOneActive == Spec => []OneActivePerReason
  <1>1. IInv => OneActivePerReason
    BY DEF IInv
  <1> QED BY <1>1, Invariance, PTL

LEMMA LogGrows ==
  ASSUME NEW s \in Seq(LogLine)
  PROVE  /\ IsPrefix(s, s)
         /\ \A line \in LogLine : IsPrefix(s, Append(s, line))
  <1>1. ASSUME NEW line \in LogLine PROVE IsPrefix(s, Append(s, line))
    <2> DEFINE t == Append(s, line)
    <2>1. /\ t \in Seq(LogLine) /\ Len(t) = Len(s) + 1 /\ Len(s) \in Nat
          /\ \A n \in 1..Len(s) : t[n] = s[n]
      BY AppendProperties
    <2> HIDE DEF t
    <2>2. SubSeq(t, 1, Len(s)) = SubSeq(s, 1, Len(s))
      <3>1. \A n \in 1..Len(s) : t[n] = s[n]
        BY <2>1
      <3> QED BY <2>1, <3>1, SubSeqProperties
    <2> QED BY <2>1, <2>2 DEF IsPrefix, t
  <1> QED BY <1>1 DEF IsPrefix

(* No step of any run loses history: items stay, their logs are only appended to,   *)
(* and what is superseded stays exactly as it is, so no update overwrites another.  *)
THEOREM HistoryIsKept == Spec => HistoryKept
  <1> DEFINE Keeps(id) ==
               /\ Present(id) => Present(id)'
               /\ Parses(id) =>
                    /\ Parses(id)'
                    /\ IsPrefix(items[id].handling_log, items'[id].handling_log)
                    /\ items[id].status = "superseded" => items'[id] = items[id]
  <1>1. IInv /\ [Next]_vars => [\A id \in Ids : Keeps(id)]_vars
    <2> SUFFICES ASSUME IInv, Next, NEW id \in Ids PROVE Keeps(id)
      BY DEF vars
    <2>0. /\ items \in [Ids -> Item \union {Missing, Torn}]
          /\ Parses(id) => items[id] \in Item /\ items[id].handling_log \in Seq(LogLine)
      BY DEF IInv, WritersTyped, Parses, Item
    <2>1. CASE items'[id] = items[id]
      BY <2>0, <2>1, LogGrows DEF Present, Parses
    <2>2. ASSUME NEW w \in Writers, Replace(w) PROVE Keeps(id)
      <3>1. PICK x \in Ids, new \in Item, line \in LogLine : Rewrites(w, x, new, line)
        BY <2>2, ReplaceRewrites
      <3>2. CASE x # id
        BY <2>0, <2>1, <3>1, <3>2 DEF Rewrites
      <3>3. CASE x = id
        <4>1. /\ items'[id] = new /\ new # Missing /\ new # Torn /\ Parses(id)
              /\ items[id].status # "superseded"
              /\ new.handling_log = Append(items[id].handling_log, line)
          BY <2>0, <3>1, <3>3, ItemsAreWhole DEF Rewrites
        <4>2. IsPrefix(items[id].handling_log, items'[id].handling_log)
          BY <2>0, <4>1, LogGrows
        <4> QED BY <4>1, <4>2 DEF Present, Parses
      <3> QED BY <3>2, <3>3
    <2>3. ASSUME NEW w \in Writers, Create(w) PROVE Keeps(id)
      <3>1. CASE Present(cmd[w].id)
        BY <2>1, <2>3, <3>1 DEF Create, Fail
      <3>2. CASE ~Present(cmd[w].id)
        <4>1. items' = [items EXCEPT ![cmd[w].id] = Torn]
          BY <2>3, <3>2 DEF Create, Put
        <4>2. CASE cmd[w].id # id
          BY <2>0, <2>1, <4>1, <4>2
        <4>3. CASE cmd[w].id = id
          BY <2>0, <3>2, <4>1, <4>3, ItemsAreWhole DEF Present, Parses
        <4> QED BY <4>2, <4>3
      <3> QED BY <3>1, <3>2
    <2>4. ASSUME NEW w \in Writers, Fill(w) PROVE Keeps(id)
      <3>1. /\ items' = [items EXCEPT ![cmd[w].id] = Fresh(w)] /\ cmd[w] \in Adds
            /\ items[cmd[w].id] = Torn
        BY <2>4 DEF Fill, Put, Fresh, IInv, RunSound, CreatingAlone
      <3>2. CASE cmd[w].id # id
        BY <2>0, <2>1, <3>1, <3>2
      <3>3. CASE cmd[w].id = id
        <4>1. items'[id] = Fresh(w) /\ ~Parses(id)
          BY <2>0, <3>1, <3>3 DEF Parses
        <4>2. Fresh(w) # Missing
          <5>1. "reason" \in DOMAIN Fresh(w) /\ "reason" \notin DOMAIN Missing
            BY DEF Fresh, Missing
          <5> QED BY <5>1
        <4> QED BY <4>1, <4>2 DEF Present
      <3> QED BY <3>2, <3>3
    <2>5. ASSUME NEW w \in Writers, Writing(w), ~Replace(w), ~Create(w), ~Fill(w)
          PROVE  UNCHANGED items
      BY <2>5 DEF Writing, Start, AcquireLock, GiveUp, WriteSuperseded, WriteUpdate, Fail, Die
    <2>6. Tick \/ List \/ Read \/ Paginate => UNCHANGED items
      BY DEF Tick, List, Read, Paginate
    <2> QED BY <2>1, <2>2, <2>3, <2>4, <2>5, <2>6 DEF Next
  <1> QED BY <1>1, Invariance, PTL DEF Spec, HistoryKept

-----------------------------------------------------------------------------
(* The order of the listing: by the time of the last change, then by id, the latest   *)
(* first.  Two different records are never level.                                    *)
Records == (1..MaxClock) \X Ids

LEMMA IdParts ==
  ASSUME NEW x \in Ids PROVE x[1] \in Nat /\ x[2] \in Nat /\ x = <<x[1], x[2]>>
  <1>1. \E a \in 1..MaxClock, b \in Nonces : x = <<a, b>>
    BY DEF Ids
  <1> QED BY <1>1, LedgerAssumption

LEMMA RecordParts ==
  ASSUME NEW r \in Records
  PROVE  r[1] \in 1..MaxClock /\ r[1] \in Nat /\ r[2] \in Ids /\ r = <<r[1], r[2]>>
  <1>1. \E a \in 1..MaxClock, b \in Ids : r = <<a, b>>
    BY DEF Records
  <1> QED BY <1>1, LedgerAssumption

LEMMA BeforeOrders ==
  ASSUME NEW x \in Ids, NEW y \in Ids, NEW z \in Ids
  PROVE  /\ ~Before(x, x)
         /\ Before(x, y) /\ Before(y, z) => Before(x, z)
         /\ x = y \/ Before(x, y) \/ Before(y, x)
  BY IdParts DEF Before

LEMMA LaterOrders ==
  ASSUME NEW x \in Records, NEW y \in Records, NEW z \in Records
  PROVE  /\ ~Later(x, x)
         /\ Later(x, y) /\ Later(y, z) => Later(x, z)
         /\ x = y \/ Later(x, y) \/ Later(y, x)
  <1>1. /\ x[1] \in Nat /\ y[1] \in Nat /\ z[1] \in Nat
        /\ x = <<x[1], x[2]>> /\ y = <<y[1], y[2]>>
        /\ x[2] \in Ids /\ y[2] \in Ids /\ z[2] \in Ids
    BY RecordParts
  <1>2. ~Later(x, x)
    BY <1>1, BeforeOrders DEF Later
  <1>3. Later(x, y) /\ Later(y, z) => Later(x, z)
    BY <1>1, BeforeOrders DEF Later
  <1>4. x = y \/ Later(x, y) \/ Later(y, x)
    BY <1>1, BeforeOrders DEF Later
  <1> QED BY <1>2, <1>3, <1>4

LEMMA RecordsAreFinite == ASSUME NEW S \in SUBSET Records PROVE IsFiniteSet(S)
  <1>1. IsFiniteSet(1..MaxClock)
    BY FS_Interval, LedgerAssumption
  <1>2. IsFiniteSet(Ids)
    BY <1>1, FS_Product, LedgerAssumption DEF Ids
  <1>3. IsFiniteSet(Records)
    BY <1>1, <1>2, FS_Product DEF Records
  <1> QED BY <1>3, FS_Subset

(* A record's rank counts those before it in the listing.                             *)
LEMMA RankRises ==
  ASSUME NEW S \in SUBSET Records, NEW x \in S, NEW y \in S, Later(x, y)
  PROVE  Rank(S, x) < Rank(S, y)
  <1> DEFINE A == {z \in S : Later(z, x)}
             B == {z \in S : Later(z, y)}
  <1>1. A \union {x} \subseteq B /\ x \notin A
    BY LaterOrders
  <1>2. IsFiniteSet(A) /\ IsFiniteSet(B)
    BY RecordsAreFinite
  <1> HIDE DEF A, B
  <1>3. Cardinality(A \union {x}) = Cardinality(A) + 1
    BY <1>1, <1>2, FS_AddElement
  <1>4. Cardinality(A \union {x}) <= Cardinality(B)
    BY <1>1, <1>2, FS_Subset
  <1>5. Cardinality(A) \in Nat /\ Cardinality(B) \in Nat
    BY <1>2, FS_CardinalityType
  <1>6. Cardinality(A) < Cardinality(B)
    BY <1>3, <1>4, <1>5
  <1> QED BY <1>6 DEF Rank, A, B

LEMMA RankIn ==
  ASSUME NEW S \in SUBSET Records, NEW x \in S
  PROVE  Cardinality(S) \in Nat /\ Rank(S, x) \in 0..(Cardinality(S) - 1)
  <1> DEFINE A == {z \in S : Later(z, x)}
  <1>1. IsFiniteSet(S) /\ IsFiniteSet(A)
    BY RecordsAreFinite
  <1>2. A \subseteq S /\ x \notin A
    BY LaterOrders
  <1> HIDE DEF A
  <1>3. Cardinality(A \union {x}) = Cardinality(A) + 1
    BY <1>1, <1>2, FS_AddElement
  <1>4. Cardinality(A \union {x}) <= Cardinality(S)
    BY <1>1, <1>2, FS_Subset
  <1>5. Cardinality(A) \in Nat /\ Cardinality(S) \in Nat
    BY <1>1, FS_CardinalityType
  <1>6. Cardinality(A) \in 0..(Cardinality(S) - 1)
    BY <1>3, <1>4, <1>5
  <1> QED BY <1>5, <1>6 DEF Rank, A

(* Every place of the listing is some record's.                                      *)
LEMMA RankTaken ==
  ASSUME NEW S \in SUBSET Records, NEW k \in 1..Cardinality(S)
  PROVE  \E x \in S : Rank(S, x) = k - 1
  <1> SUFFICES ASSUME \A x \in S : Rank(S, x) # k - 1 PROVE FALSE
    OBVIOUS
  <1> DEFINE n == Cardinality(S)
             T == (1..n) \ {k}
             f == [x \in S |-> Rank(S, x) + 1]
  <1>1. IsFiniteSet(S) /\ n \in Nat
    BY RecordsAreFinite, FS_CardinalityType
  <1> HIDE DEF n
  <1>2. IsFiniteSet(1..n) /\ Cardinality(1..n) = n /\ k \in 1..n
    BY <1>1, FS_Interval DEF n
  <1>3. IsFiniteSet(T) /\ Cardinality(T) = n - 1
    <2> DEFINE D == 1..n
    <2>1. IsFiniteSet(D) /\ Cardinality(D) = n /\ k \in D /\ T = D \ {k}
      BY <1>2
    <2> HIDE DEF D, T
    <2> QED BY <2>1, FS_RemoveElement
  <1>4. f \in [S -> T]
    <2>1. ASSUME NEW x \in S PROVE Rank(S, x) + 1 \in T
      <3>1. Rank(S, x) \in 0..(n - 1) /\ Rank(S, x) # k - 1
        BY RankIn DEF n
      <3> QED BY <1>1, <1>2, <3>1
    <2> QED BY <2>1
  <1> HIDE DEF T, f
  <1>5. Cardinality(T) < Cardinality(S)
    BY <1>1, <1>3 DEF n
  <1>6. PICK x \in S, y \in S : x # y /\ f[x] = f[y]
    BY <1>1, <1>3, <1>4, <1>5, FS_PigeonHole
  <1>7. Rank(S, x) = Rank(S, y)
    <2>1. Rank(S, x) \in Int /\ Rank(S, y) \in Int
      BY RankIn
    <2> QED BY <1>6, <2>1 DEF f
  <1>8. Later(x, y) \/ Later(y, x)
    BY <1>6, LaterOrders
  <1>9. Rank(S, x) < Rank(S, y) \/ Rank(S, y) < Rank(S, x)
    BY <1>8, RankRises
  <1>10. Rank(S, x) \in Nat /\ Rank(S, y) \in Nat
    BY RankIn, <1>1
  <1> QED BY <1>7, <1>9, <1>10

(* The sorted listing has each record once, at its rank.                              *)
LEMMA Sorted ==
  ASSUME NEW S \in SUBSET Records
  PROVE  /\ Cardinality(S) \in Nat /\ InOrder(S) \in [1..Cardinality(S) -> S]
         /\ \A k \in 1..Cardinality(S) : Rank(S, InOrder(S)[k]) = k - 1
         /\ \A x \in S : Rank(S, x) + 1 \in 1..Cardinality(S) /\ InOrder(S)[Rank(S, x) + 1] = x
  <1>1. Cardinality(S) \in Nat
    BY RecordsAreFinite, FS_CardinalityType
  <1>2. ASSUME NEW k \in 1..Cardinality(S)
        PROVE  InOrder(S)[k] \in S /\ Rank(S, InOrder(S)[k]) = k - 1
    BY <1>2, RankTaken DEF InOrder
  <1>3. InOrder(S) \in [1..Cardinality(S) -> S]
    <2>1. InOrder(S) = [k \in 1..Cardinality(S) |-> InOrder(S)[k]]
      BY DEF InOrder
    <2> QED BY <1>2, <2>1
  <1>4. ASSUME NEW x \in S
        PROVE  Rank(S, x) + 1 \in 1..Cardinality(S) /\ InOrder(S)[Rank(S, x) + 1] = x
    <2> DEFINE k == Rank(S, x) + 1
               y == InOrder(S)[k]
    <2>1. Rank(S, x) \in Nat /\ k \in 1..Cardinality(S)
      BY <1>1, RankIn
    <2>2. y \in S /\ Rank(S, y) = k - 1
      BY <1>2, <2>1
    <2> HIDE DEF y
    <2>3. Rank(S, y) = Rank(S, x)
      BY <2>1, <2>2
    <2> HIDE DEF k
    <2>4. y = x \/ Later(x, y) \/ Later(y, x)
      BY <2>2, LaterOrders
    <2>5. y = x
      BY <2>1, <2>2, <2>3, <2>4, RankRises
    <2> QED BY <2>1, <2>5 DEF y, k
  <1> QED BY <1>1, <1>2, <1>3, <1>4
-----------------------------------------------------------------------------
(* The walk.  Where a listing shows an id.                                            *)
Places(s, id) == {n \in DOMAIN s : s[n] = id}

Once(s, id) == \E n : Places(s, id) = {n}

KeyOf(id) == <<items[id].updated, id>>

(* The walk's cursor is at this item's record or behind it.                           *)
Passed(id) == walk.cursor # <<>> /\ ~Later(walk.cursor[1], KeyOf(id))

(* An item that no run has touched: shown once by the time the cursor is past it, or not  *)
(* at all, and until then it is still to be read or has been read as it is.            *)
Untouched(id) ==
    /\ walk.phase \in {"page", "between"} =>
          IF Active(id) /\ Passed(id) THEN Once(walk.shown, id) ELSE Places(walk.shown, id) = {}
    /\ walk.phase = "page" =>
          /\ Active(id) => id \in walk.names \/ KeyOf(id) \in walk.got
          /\ \A r \in walk.got : r[2] = id => Active(id) /\ r = KeyOf(id)
    /\ walk.phase = "done" =>
          IF Active(id) THEN Once(walk.shown, id) ELSE Places(walk.shown, id) = {}

WalkInv ==
    /\ walk \in Walk
    /\ walk.phase = "idle" => walk.shown = <<>> /\ walk.cursor = <<>>
    /\ \A id \in Ids \ walk.written : Untouched(id)

LEMMA WalkInit == Init => WalkInv
  <1> SUFFICES ASSUME Init PROVE WalkInv
    OBVIOUS
  <1>1. /\ walk.phase = "idle" /\ walk.shown = <<>> /\ walk.cursor = <<>>
    BY DEF Init
  <1>2. <<>> \in Seq(Ids) /\ <<>> \in Seq((1..MaxClock) \X Ids)
    OBVIOUS
  <1>3. walk \in Walk
    BY <1>2 DEF Init, Walk
  <1> QED BY <1>1, <1>3 DEF WalkInv, Untouched

(* What a run does to the files, the walk remembers.                                 *)
Touches ==
    \E id \in Ids : /\ \A x \in Ids \ {id} : items'[x] = items[x]
                    /\ walk' = [walk EXCEPT !.written = @ \union {id}]

LEMMA PutTouches ==
  ASSUME WritersTyped, NEW id \in Ids, NEW content, Put(id, content)
  PROVE  Touches
  <1>1. items \in [Ids -> Item \union {Missing, Torn}]
    BY DEF WritersTyped
  <1>2. /\ items' = [items EXCEPT ![id] = content]
        /\ walk' = [walk EXCEPT !.written = @ \union {id}]
    BY DEF Put
  <1>3. \A x \in Ids \ {id} : items'[x] = items[x]
    BY <1>1, <1>2
  <1> QED BY <1>2, <1>3 DEF Touches

LEMMA WalkSteps ==
  ASSUME IInv, [Next]_vars
  PROVE  UNCHANGED <<items, walk>> \/ Touches \/ List \/ Read \/ Paginate
  <1>0. WritersTyped
    BY DEF IInv
  <1>1. CASE UNCHANGED vars \/ Tick
    BY <1>1 DEF vars, Tick
  <1>2. ASSUME NEW w \in Writers, Writing(w)
        PROVE  UNCHANGED <<items, walk>> \/ Touches
    <2>1. CASE Start(w) \/ AcquireLock(w) \/ GiveUp(w) \/ WriteSuperseded(w) \/ Die(w)
      BY <2>1 DEF Start, AcquireLock, GiveUp, WriteSuperseded, Die
    <2>2. CASE WriteUpdate(w)
      BY <2>2 DEF WriteUpdate, Fail
    <2>3. CASE Replace(w)
      <3>1. temp[w] # NoTemp
        BY <2>3 DEF Replace, IInv, RunSound, TempCurrent
      <3>2. temp[w].id \in Ids
        BY <1>0, <3>1 DEF WritersTyped
      <3> QED BY <1>0, <2>3, <3>2, PutTouches DEF Replace
    <2>4. CASE Create(w) \/ Fill(w)
      <3>1. cmd[w] \in Updates \union Adds
        BY <1>0, <2>4 DEF Create, Fill, IInv, RunSound, LockHeld, WritersTyped
      <3>2. cmd[w].id \in Ids
        BY <3>1 DEF Updates, Adds
      <3> QED BY <1>0, <2>4, <3>2, PutTouches DEF Create, Fill, Fail
    <2> QED BY <1>2, <2>1, <2>2, <2>3, <2>4 DEF Writing
  <1> QED BY <1>1, <1>2 DEF Next

LEMMA TouchesKeeps == ASSUME WalkInv, Touches PROVE WalkInv'
  <1>1. PICK id \in Ids : /\ \A x \in Ids \ {id} : items'[x] = items[x]
                          /\ walk' = [walk EXCEPT !.written = @ \union {id}]
    BY DEF Touches
  <1>2. walk \in Walk
    BY DEF WalkInv
  <1>3. /\ walk' \in Walk /\ walk'.written = walk.written \union {id}
        /\ walk'.phase = walk.phase /\ walk'.shown = walk.shown
        /\ walk'.cursor = walk.cursor /\ walk'.names = walk.names /\ walk'.got = walk.got
    BY <1>1, <1>2 DEF Walk
  <1>4. ASSUME NEW x \in Ids \ walk'.written PROVE Untouched(x)'
    <2>1. items'[x] = items[x] /\ Untouched(x)
      BY <1>1, <1>3 DEF WalkInv
    <2>2. (Active(x)' <=> Active(x)) /\ KeyOf(x)' = KeyOf(x) /\ (Passed(x)' <=> Passed(x))
      BY <1>3, <2>1 DEF Active, Parses, KeyOf, Passed
    <2> QED BY <1>3, <2>1, <2>2 DEF Untouched
  <1> QED BY <1>3, <1>4 DEF WalkInv

LEMMA ListKeeps == ASSUME WalkInv, List PROVE WalkInv'
  <1> DEFINE there == {id \in Ids : Present(id)}
             written == IF walk.phase = "idle" THEN {} ELSE walk.written
  <1>1. walk \in Walk /\ walk.phase \in {"idle", "between"} /\ items' = items
    BY DEF WalkInv, List
  <1>2. walk' = [walk EXCEPT !.phase = "page", !.names = there, !.got = {},
                             !.written = written]
    BY DEF List
  <1>3. there \subseteq Ids /\ written \subseteq Ids
    BY <1>1 DEF Walk
  <1> HIDE DEF written, there
  <1>4. /\ walk' \in Walk /\ walk'.phase = "page" /\ walk'.names = there /\ walk'.got = {}
        /\ walk'.written = written /\ walk'.shown = walk.shown /\ walk'.cursor = walk.cursor
    BY <1>1, <1>2, <1>3 DEF Walk
  <1>5. ASSUME NEW id \in Ids \ written PROVE Untouched(id)'
    <2>1. (Active(id)' <=> Active(id)) /\ (Passed(id)' <=> Passed(id))
      BY <1>1, <1>4 DEF Active, Parses, Passed, KeyOf
    <2>2. Active(id) => id \in there
      BY DEF Active, Parses, Present, there
    <2>3. IF Active(id) /\ Passed(id) THEN Once(walk.shown, id) ELSE Places(walk.shown, id) = {}
      <3>1. CASE walk.phase = "idle"
        <4>1. ~Passed(id) /\ walk.shown = <<>>
          BY <3>1 DEF WalkInv, Passed
        <4>2. Places(<<>>, id) = {}
          BY DEF Places
        <4> QED BY <4>1, <4>2
      <3>2. CASE walk.phase = "between"
        BY <3>2 DEF WalkInv, Untouched, written
      <3> QED BY <1>1, <3>1, <3>2
    <2> QED BY <1>4, <2>1, <2>2, <2>3 DEF Untouched
  <1> QED BY <1>4, <1>5 DEF WalkInv

LEMMA ReadKeeps == ASSUME IInv, WalkInv, Read PROVE WalkInv'
  <1> DEFINE id == FirstOf(walk.names)
             names == walk.names \ {id}
             got == IF Active(id) THEN walk.got \union {<<items[id].updated, id>>} ELSE walk.got
  <1>1. walk \in Walk /\ walk.phase = "page" /\ walk.names # {} /\ items' = items
    BY DEF WalkInv, Read
  <1>2. walk' = [walk EXCEPT !.names = names, !.got = got]
    BY DEF Read
  <1>3. id \in walk.names /\ id \in Ids
    BY <1>1, FirstOfIsIn DEF Walk
  <1> HIDE DEF id
  <1>4. Active(id) => KeyOf(id) \in (1..MaxClock) \X Ids
    <2>1. ASSUME Active(id) PROVE items[id] \in Item
      BY <1>3, <2>1 DEF Active, Parses, IInv, WritersTyped
    <2> QED BY <1>3, <2>1 DEF KeyOf, Item
  <1>5. names \subseteq Ids /\ got \subseteq (1..MaxClock) \X Ids
    BY <1>1, <1>4 DEF Walk, KeyOf
  <1>6. \A r : r \in got <=> r \in walk.got \/ (Active(id) /\ r = KeyOf(id))
    BY DEF KeyOf
  <1> HIDE DEF got
  <1>7. names = walk.names \ {id}
    OBVIOUS
  <1> HIDE DEF names
  <1>8. /\ walk' \in Walk /\ walk'.phase = "page" /\ walk'.names = names /\ walk'.got = got
        /\ walk'.written = walk.written /\ walk'.shown = walk.shown
        /\ walk'.cursor = walk.cursor
    BY <1>1, <1>2, <1>5 DEF Walk
  <1>9. ASSUME NEW x \in Ids \ walk.written PROVE Untouched(x)'
    <2>1. /\ (Active(x)' <=> Active(x)) /\ (Passed(x)' <=> Passed(x)) /\ KeyOf(x)' = KeyOf(x)
          /\ Untouched(x)
      BY <1>1, <1>8 DEF Active, Parses, Passed, KeyOf, WalkInv
    <2>2. Active(x) => x \in names \/ KeyOf(x) \in got
      BY <1>1, <1>6, <1>7, <2>1 DEF Untouched
    <2>3. ASSUME NEW r \in got, r[2] = x PROVE Active(x) /\ r = KeyOf(x)
      <3>1. CASE r \in walk.got
        BY <1>1, <2>1, <2>3, <3>1 DEF Untouched
      <3>2. CASE Active(id) /\ r = KeyOf(id)
        BY <2>3, <3>2 DEF KeyOf
      <3> QED BY <1>6, <3>1, <3>2
    <2>4. IF Active(x) /\ Passed(x) THEN Once(walk.shown, x) ELSE Places(walk.shown, x) = {}
      BY <1>1, <2>1 DEF Untouched
    <2> QED BY <1>8, <2>1, <2>2, <2>3, <2>4 DEF Untouched
  <1> QED BY <1>8, <1>9 DEF WalkInv

(* What a page adds to what was shown: the places of an id it does not name stay, and one *)
(* that was nowhere is where the page has it.                                        *)
LEMMA PageAdds ==
  ASSUME NEW s \in Seq(Ids), NEW q \in Seq(Ids), NEW id
  PROVE  /\ Places(q, id) = {} => Places(s \o q, id) = Places(s, id)
         /\ Places(s, id) = {} /\ Once(q, id) => Once(s \o q, id)
  <1>1. /\ Len(s) \in Nat /\ Len(q) \in Nat /\ s \o q \in Seq(Ids)
        /\ DOMAIN s = 1..Len(s) /\ DOMAIN q = 1..Len(q)
        /\ DOMAIN (s \o q) = 1..(Len(s) + Len(q))
        /\ \A n \in 1..Len(s) : (s \o q)[n] = s[n]
        /\ \A n \in 1..Len(q) : (s \o q)[Len(s) + n] = q[n]
    BY ConcatProperties
  <1> DEFINE t == s \o q
  <1> HIDE DEF t
  <1>2. ASSUME NEW n \in 1..(Len(s) + Len(q)), ~(n \in 1..Len(s))
        PROVE  n - Len(s) \in 1..Len(q) /\ t[n] = q[n - Len(s)]
    <2>1. n - Len(s) \in 1..Len(q) /\ Len(s) + (n - Len(s)) = n
      BY <1>1, <1>2
    <2> QED BY <1>1, <2>1 DEF t
  <1>3. ASSUME Places(q, id) = {} PROVE Places(t, id) = Places(s, id)
    <2>1. \A n \in 1..Len(q) : q[n] # id
      BY <1>1, <1>3 DEF Places
    <2>2. ASSUME NEW n \in Places(t, id) PROVE n \in Places(s, id)
      BY <1>1, <1>2, <2>1, <2>2 DEF Places, t
    <2>3. ASSUME NEW n \in Places(s, id) PROVE n \in Places(t, id)
      BY <1>1, <2>3 DEF Places, t
    <2> QED BY <2>2, <2>3
  <1>4. ASSUME Places(s, id) = {}, Once(q, id) PROVE Once(t, id)
    <2>1. PICK j : Places(q, id) = {j}
      BY <1>4 DEF Once
    <2>2. j \in 1..Len(q) /\ q[j] = id /\ \A n \in 1..Len(q) : q[n] = id => n = j
      BY <1>1, <2>1 DEF Places
    <2> DEFINE k == Len(s) + j
    <2>3. k \in 1..(Len(s) + Len(q)) /\ t[k] = id
      BY <1>1, <2>2 DEF t
    <2>4. ASSUME NEW n \in Places(t, id) PROVE n = k
      <3>1. n \in 1..(Len(s) + Len(q)) /\ t[n] = id
        BY <1>1, <2>4 DEF Places, t
      <3>2. ~(n \in 1..Len(s))
        BY <1>1, <1>4, <3>1 DEF Places, t
      <3>3. n - Len(s) = j
        BY <1>2, <2>2, <3>1, <3>2
      <3> QED BY <1>1, <2>2, <3>1, <3>3
    <2>5. k \in Places(t, id)
      BY <1>1, <2>3 DEF Places, t
    <2> HIDE DEF k
    <2>6. Places(t, id) = {k}
      BY <2>4, <2>5
    <2> QED BY <2>6 DEF Once
  <1> QED BY <1>3, <1>4 DEF t

(* The first m of a listing, by id: it names an id once if its record is among them, and   *)
(* no other record of the listing has that id.                                       *)
LEMMA PageNames ==
  ASSUME NEW S \in SUBSET Records, NEW m \in 0..Cardinality(S), NEW q \in Seq(Ids),
         Len(q) = m, \A k \in 1..m : q[k] = InOrder(S)[k][2], NEW id, NEW r,
         \A x \in S : x[2] = id => x = r
  PROVE  IF r \in S /\ r[2] = id /\ Rank(S, r) < m THEN Once(q, id) ELSE Places(q, id) = {}
  <1>1. /\ Cardinality(S) \in Nat /\ InOrder(S) \in [1..Cardinality(S) -> S]
        /\ \A k \in 1..Cardinality(S) : Rank(S, InOrder(S)[k]) = k - 1
        /\ \A x \in S : /\ Rank(S, x) + 1 \in 1..Cardinality(S)
                        /\ InOrder(S)[Rank(S, x) + 1] = x
    BY Sorted
  <1>2. DOMAIN q = 1..m
    OBVIOUS
  <1>3. \A k \in 1..m : k \in 1..Cardinality(S)
    BY <1>1
  <1>4. ASSUME NEW n \in Places(q, id)
        PROVE  r \in S /\ r[2] = id /\ Rank(S, r) = n - 1 /\ n \in 1..m
    <2>1. n \in 1..m /\ q[n] = id
      BY <1>2, <1>4 DEF Places
    <2>2. InOrder(S)[n] \in S /\ InOrder(S)[n][2] = id /\ Rank(S, InOrder(S)[n]) = n - 1
      BY <1>1, <1>3, <2>1
    <2>3. InOrder(S)[n] = r
      BY <2>2
    <2> QED BY <2>1, <2>2, <2>3
  <1>5. CASE r \in S /\ r[2] = id /\ Rank(S, r) < m
    <2>1. Rank(S, r) \in Nat
      BY <1>1, <1>5, RankIn
    <2> DEFINE k == Rank(S, r) + 1
    <2>2. k \in 1..m
      BY <1>5, <2>1
    <2>3. InOrder(S)[k] = r
      BY <1>1, <1>5
    <2>4. q[k] = id
      BY <1>5, <2>2, <2>3
    <2>5. k \in Places(q, id)
      BY <1>2, <2>2, <2>4 DEF Places
    <2>6. ASSUME NEW n \in Places(q, id) PROVE n = k
      BY <1>4, <2>6
    <2> HIDE DEF k
    <2>7. Places(q, id) = {k}
      BY <2>5, <2>6
    <2> QED BY <1>5, <2>7 DEF Once
  <1>6. CASE ~(r \in S /\ r[2] = id /\ Rank(S, r) < m)
    <2>1. ASSUME NEW n \in Places(q, id) PROVE FALSE
      <3>1. r \in S /\ r[2] = id /\ Rank(S, r) = n - 1 /\ n \in 1..m
        BY <1>4, <2>1
      <3> QED BY <1>6, <3>1
    <2> QED BY <1>6, <2>1
  <1> QED BY <1>5, <1>6

(* A page of a listing of n: its first Limit, or all of it.                             *)
PageOf(rest) == IF Len(rest) > Limit THEN SubSeq(rest, 1, Limit) ELSE rest

LEMMA PageIs ==
  ASSUME NEW S \in SUBSET Records
  PROVE  LET rest == InOrder(S)
             page == PageOf(rest)
             m == IF Cardinality(S) > Limit THEN Limit ELSE Cardinality(S)
             q == [n \in DOMAIN page |-> page[n][2]]
         IN  /\ Len(rest) = Cardinality(S)
             /\ m \in 0..Cardinality(S) /\ q \in Seq(Ids) /\ Len(q) = m
             /\ \A k \in 1..m : q[k] = rest[k][2]
             /\ Cardinality(S) > Limit => Last(page) = rest[Limit]
  <1> USE LedgerAssumption
  <1> DEFINE rest == InOrder(S)
             page == PageOf(rest)
             N == Cardinality(S)
             m == IF N > Limit THEN Limit ELSE N
             q == [n \in DOMAIN page |-> page[n][2]]
  <1>1. N \in Nat /\ rest \in [1..N -> S] /\ \A k \in 1..N : rest[k] \in Records
    BY Sorted
  <1> HIDE DEF N
  <1>2. rest \in Seq(S) /\ Len(rest) = N
    <2>1. rest = [k \in 1..N |-> rest[k]]
      BY <1>1
    <2>2. [k \in 1..N |-> rest[k]] \in Seq(S)
      BY <1>1, IsASeq
    <2> QED BY <1>1, <2>1, <2>2
  <1> HIDE DEF rest
  <1>3. m \in 0..N
    BY <1>1
  <1>4. page \in Seq(S) /\ Len(page) = m /\ \A k \in 1..m : page[k] = rest[k]
    <2>1. CASE N > Limit
      <3>1. page = SubSeq(rest, 1, Limit) /\ m = Limit
        BY <1>2, <2>1 DEF PageOf
      <3>2. /\ SubSeq(rest, 1, Limit) \in Seq(S) /\ Len(SubSeq(rest, 1, Limit)) = Limit
            /\ \A k \in 1..Limit : SubSeq(rest, 1, Limit)[k] = rest[k]
        BY <1>1, <1>2, <2>1
      <3> QED BY <3>1, <3>2
    <2>2. CASE ~(N > Limit)
      BY <1>1, <1>2, <2>2 DEF PageOf
    <2> QED BY <2>1, <2>2
  <1>5. N > Limit => Last(page) = rest[Limit]
    BY <1>1, <1>4 DEF Last
  <1> HIDE DEF page, m
  <1>6. DOMAIN page = 1..m /\ m \in Nat /\ \A k \in 1..m : k \in 1..N
    BY <1>1, <1>3, <1>4
  <1>7. q = [k \in 1..m |-> rest[k][2]]
    BY <1>4, <1>6
  <1>8. \A k \in 1..m : rest[k][2] \in Ids
    BY <1>1, <1>6, RecordParts
  <1>9. q \in Seq(Ids) /\ Len(q) = m /\ \A k \in 1..m : q[k] = rest[k][2]
    <2>1. [k \in 1..m |-> rest[k][2]] \in Seq(Ids)
      BY <1>6, <1>8, IsASeq
    <2> QED BY <1>6, <1>7, <2>1
  <1> HIDE DEF q
  <1> QED BY <1>2, <1>3, <1>5, <1>9 DEF N, rest, page, m, q

LEMMA PaginateKeeps == ASSUME IInv, WalkInv, Paginate PROVE WalkInv'
  <1> USE LedgerAssumption
  <1> DEFINE S == Beyond(walk.got)
             rest == InOrder(S)
             N == Cardinality(S)
             page == PageOf(rest)
             m == IF N > Limit THEN Limit ELSE N
             q == [n \in DOMAIN page |-> page[n][2]]
             cursor == IF N > Limit THEN <<Last(page)>> ELSE <<>>
             phase == IF N > Limit THEN "between" ELSE "done"
             shown == walk.shown \o q
  <1>1. walk \in Walk /\ walk.phase = "page" /\ walk.names = {} /\ items' = items
    BY DEF WalkInv, Paginate
  <1>2. S \subseteq Records
    BY <1>1 DEF Beyond, Walk, Records
  <1>3. /\ Len(rest) = N /\ m \in 0..N /\ q \in Seq(Ids) /\ Len(q) = m
        /\ \A k \in 1..m : q[k] = rest[k][2]
        /\ N > Limit => Last(page) = rest[Limit]
    BY <1>2, PageIs
  <1>4. /\ N \in Nat /\ rest \in [1..N -> S]
        /\ \A k \in 1..N : Rank(S, rest[k]) = k - 1
    BY <1>2, Sorted
  <1>5. walk' = [walk EXCEPT !.phase = phase, !.shown = shown, !.cursor = cursor, !.got = {}]
    BY <1>3 DEF Paginate, PageOf
  <1>6. /\ shown \in Seq(Ids) /\ cursor \in Seq((1..MaxClock) \X Ids)
        /\ N > Limit => rest[Limit] \in S /\ cursor = <<rest[Limit]>>
                        /\ Rank(S, rest[Limit]) = Limit - 1
    <2>1. walk.shown \in Seq(Ids)
      BY <1>1 DEF Walk
    <2>2. shown \in Seq(Ids)
      BY <1>3, <2>1, ConcatProperties
    <2>3. ASSUME N > Limit
          PROVE  /\ rest[Limit] \in S /\ cursor = <<rest[Limit]>>
                 /\ Rank(S, rest[Limit]) = Limit - 1 /\ cursor \in Seq(Records)
      <3>1. Limit \in 1..N
        BY <1>4, <2>3
      <3>2. rest[Limit] \in S /\ Rank(S, rest[Limit]) = Limit - 1
        BY <1>4, <3>1
      <3>3. cursor = <<rest[Limit]>>
        BY <1>3, <2>3
      <3> HIDE DEF rest, S
      <3> QED BY <1>2, <3>2, <3>3
    <2>4. ~(N > Limit) => cursor \in Seq(Records)
      OBVIOUS
    <2> QED BY <2>2, <2>3, <2>4 DEF Records
  <1>7. phase \in {"between", "done"} /\ (N > Limit <=> phase = "between")
    OBVIOUS
  <1> HIDE DEF shown, cursor, phase
  <1>8. /\ walk' \in Walk /\ walk'.phase = phase /\ walk'.shown = shown
        /\ walk'.cursor = cursor /\ walk'.written = walk.written
    BY <1>1, <1>5, <1>6, <1>7 DEF Walk
  <1> HIDE DEF q, m, page, rest, N
  <1>9. ASSUME NEW id \in Ids \ walk.written PROVE Untouched(id)'
    <2> DEFINE r == KeyOf(id)
    <2>1. /\ Active(id)' <=> Active(id)
          /\ KeyOf(id)' = r
      BY <1>1, <1>8 DEF Active, Parses, KeyOf
    <2>2. /\ IF Active(id) /\ Passed(id) THEN Once(walk.shown, id)
             ELSE Places(walk.shown, id) = {}
          /\ Active(id) => r \in walk.got
          /\ \A x \in walk.got : x[2] = id => Active(id) /\ x = r
      BY <1>1 DEF WalkInv, Untouched
    <2>3. r[2] = id
      BY DEF KeyOf
    <2>4. \A x \in S : x[2] = id => x = r
      BY <2>2 DEF Beyond
    <2>5. r \in S <=> Active(id) /\ ~Passed(id)
      BY <2>2, <2>3 DEF Beyond, Passed
    <2> HIDE DEF r
    <2>6. IF r \in S /\ Rank(S, r) < m THEN Once(q, id) ELSE Places(q, id) = {}
      <3> HIDE DEF S
      <3> QED BY <1>2, <1>3, <2>3, <2>4, PageNames DEF N, rest
    <2>7. walk.shown \in Seq(Ids)
      BY <1>1 DEF Walk
    <2>8. /\ Places(q, id) = {} => Places(shown, id) = Places(walk.shown, id)
          /\ Places(walk.shown, id) = {} /\ Once(q, id) => Once(shown, id)
      BY <1>3, <2>7, PageAdds DEF shown
    <2>9. CASE phase = "done"
      <3>1. r \in S => Rank(S, r) < m
        BY <1>2, <1>4, <1>7, <2>9, RankIn DEF N, m
      <3>2. IF Active(id) THEN Once(shown, id) ELSE Places(shown, id) = {}
        <4>1. CASE Active(id) /\ Passed(id)
          BY <2>2, <2>5, <2>6, <2>8, <4>1 DEF Once
        <4>2. CASE Active(id) /\ ~Passed(id)
          BY <2>2, <2>5, <2>6, <2>8, <3>1, <4>2
        <4>3. CASE ~Active(id)
          BY <2>2, <2>5, <2>6, <2>8, <4>3
        <4> QED BY <4>1, <4>2, <4>3
      <3> QED BY <1>8, <2>1, <2>9, <3>2 DEF Untouched
    <2>10. CASE phase = "between"
      <3> DEFINE c == rest[Limit]
      <3>1. /\ c \in S /\ c \in Records /\ cursor = <<c>> /\ Rank(S, c) = Limit - 1 /\ m = Limit
        BY <1>2, <1>6, <1>7, <2>10 DEF m
      <3>2. Passed(id)' <=> ~Later(c, r)
        <4> HIDE DEF c
        <4>1. cursor # <<>> /\ cursor[1] = c
          BY <3>1
        <4> QED BY <1>8, <2>1, <4>1 DEF Passed
      <3> HIDE DEF c
      <3>3. walk.got \subseteq Records /\ (Active(id) => r \in Records)
        BY <1>1, <2>2 DEF Walk, Records
      <3>4. CASE Active(id) /\ Passed(id)
        <4>1. walk.cursor # <<>> /\ walk.cursor[1] \in Records
          BY <1>1, <3>4 DEF Walk, Passed, Records
        <4>2. Later(walk.cursor[1], c) /\ ~Later(walk.cursor[1], r)
          BY <3>1, <3>4, <4>1 DEF Beyond, Passed, r
        <4>3. ~Later(c, r)
          BY <3>1, <3>3, <3>4, <4>1, <4>2, LaterOrders
        <4>4. Once(shown, id)
          BY <2>2, <2>5, <2>6, <2>8, <3>4 DEF Once
        <4> QED BY <1>8, <2>1, <2>10, <3>2, <3>4, <4>3, <4>4 DEF Untouched
      <3>5. CASE Active(id) /\ ~Passed(id)
        <4>1. r \in S /\ Places(walk.shown, id) = {}
          BY <2>2, <2>5, <3>5
        <4>2. Rank(S, r) \in Nat /\ Rank(S, c) \in Nat
          <5> HIDE DEF S
          <5>1. \A x \in S : Rank(S, x) \in 0..(Cardinality(S) - 1)
            BY <1>2, RankIn
          <5>2. \A x \in S : Rank(S, x) \in Nat
            BY <1>4, <5>1 DEF N
          <5> QED BY <3>1, <4>1, <5>2
        <4>3. Rank(S, r) < m <=> ~Later(c, r)
          <5> HIDE DEF S
          <5>1. c = r \/ Later(c, r) \/ Later(r, c)
            BY <3>1, <3>3, <3>5, LaterOrders
          <5>2. Later(c, r) => Rank(S, c) < Rank(S, r)
            BY <1>2, <3>1, <4>1, RankRises
          <5>3. Later(r, c) => Rank(S, r) < Rank(S, c) /\ ~Later(c, r)
            <6>1. Later(r, c) => ~Later(c, r)
              BY <3>1, <3>3, <3>5, LaterOrders
            <6> QED BY <1>2, <3>1, <4>1, <6>1, RankRises
          <5>4. c = r => ~Later(c, r)
            BY <3>1, LaterOrders
          <5> HIDE DEF m
          <5> QED BY <3>1, <4>2, <5>1, <5>2, <5>3, <5>4
        <4>4. IF ~Later(c, r) THEN Once(shown, id) ELSE Places(shown, id) = {}
          BY <2>6, <2>8, <4>1, <4>3
        <4> QED BY <1>8, <2>1, <2>10, <3>2, <3>5, <4>4 DEF Untouched
      <3>6. CASE ~Active(id)
        <4>1. Places(shown, id) = {}
          BY <2>2, <2>5, <2>6, <2>8, <3>6
        <4> QED BY <1>8, <2>1, <2>10, <3>6, <4>1 DEF Untouched
      <3> QED BY <3>4, <3>5, <3>6
    <2> QED BY <1>7, <2>9, <2>10
  <1> QED BY <1>7, <1>8, <1>9 DEF WalkInv

LEMMA WalkStepInv == IInv /\ WalkInv /\ [Next]_vars => WalkInv'
  <1> SUFFICES ASSUME IInv, WalkInv, [Next]_vars PROVE WalkInv'
    OBVIOUS
  <1>1. CASE UNCHANGED <<items, walk>>
    <2>1. ASSUME NEW id PROVE Untouched(id)' <=> Untouched(id)
      BY <1>1 DEF Untouched, Active, Parses, KeyOf, Passed
    <2> QED BY <1>1, <2>1 DEF WalkInv
  <1> QED BY <1>1, WalkSteps, TouchesKeeps, ListKeeps, ReadKeeps, PaginateKeeps

LEMMA WalkInvariance == Spec => []WalkInv
  BY WalkInit, WalkStepInv, Invariance, PTL DEF Spec

(* Type correctness, the reader's fields included.                              *)
THEOREM TypeCorrect == Spec => []TypeOK
  <1>1. IInv /\ WalkInv => TypeOK
    BY DEF IInv, WritersTyped, WalkInv, TypeOK
  <1> QED BY <1>1, Invariance, WalkInvariance, PTL

(* A page walk with any limit, beside any number of runs that add, update and die, shows   *)
(* each active item that none of them touched once, and no other untouched one          *)
(* (paginate, its cursor being the last record of the page before).                  *)
THEOREM WalkIsComplete == Spec => []WalkShowsUntouched
  <1>1. WalkInv => WalkShowsUntouched
    <2> SUFFICES ASSUME WalkInv, walk.phase = "done", NEW id \in Ids \ walk.written
                 PROVE  Cardinality(Places(walk.shown, id)) = IF Active(id) THEN 1 ELSE 0
      BY DEF WalkShowsUntouched, Places
    <2>1. IF Active(id) THEN Once(walk.shown, id) ELSE Places(walk.shown, id) = {}
      BY DEF WalkInv, Untouched
    <2>2. Once(walk.shown, id) => Cardinality(Places(walk.shown, id)) = 1
      BY FS_Singleton DEF Once
    <2> QED BY <2>1, <2>2, FS_EmptySet
  <1> QED BY <1>1, WalkInvariance, PTL

=============================================================================
