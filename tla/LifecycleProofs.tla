---------------------------- MODULE LifecycleProofs ----------------------------
(***************************************************************************)
(* What the lifecycle reducer promises of any session, for any number of       *)
(* events, jobs and changes of the connection: the types, QuiescentIsTrue,      *)
(* CountNeverShort and ArrivalOrderIrrelevant.  And what the event store makes   *)
(* of such states, for any number of sessions, reports and generations: the        *)
(* types, ReportTuplesLegal and ActionableIsTold, and of a task served by one      *)
(* session ProjectionIsCurrent and SettledBumpsNothing.                          *)
(*                                                                          *)
(* The reducer drains its buffer in a loop, and the store walks the task's rows   *)
(* in one, so both proofs are an induction over what one step goes through        *)
(* inside the induction over the steps.  The inner one takes the least            *)
(* counterexample of a set of naturals; everything that ApplyContiguous keeps is  *)
(* the predicate Good, everything that ObserveRow keeps is LedgerKept.            *)
(***************************************************************************)
EXTENDS LifecycleReplay, EventStore, SequenceTheorems, FiniteSetTheorems, WellFoundedInduction, TLAPS

(* How the truth may have moved on, from where event e's predecessor was emitted to  *)
(* where e was: unreported jobs may have stopped meanwhile, and started within a     *)
(* turn only.                                                                *)
FollowsTruth(was, e, now) ==
    /\ now.fg = IF e.type = "turn.start" THEN "running"
                ELSE IF e.type \in {"turn.stop", "session.end"} THEN "stopped" ELSE was.fg
    /\ e.type = "turn.stop" /\ e.active = "false" => now.jobs = {}
    /\ e.type = "background.snapshot" => e.count = Cardinality(now.jobs)
    /\ was.fg = "stopped" =>
          /\ e.type = "session.register" => now.jobs \subseteq was.jobs
          /\ e.type = "background.start" => now.jobs \subseteq was.jobs \union {e.job}
          /\ e.type = "background.stop" => /\ now.jobs \subseteq was.jobs \ {e.job}
                                           /\ e.job \in was.jobs

(* Since the last event nothing has been reported.                                *)
Drifted(was, now) == now.fg = was.fg /\ (was.fg = "stopped" => now.jobs \subseteq was.jobs)

LogTells ==
    /\ \A i \in DOMAIN log : log[i].seq = i
    /\ \A i \in DOMAIN log : log[i].type \in {"background.start", "background.stop"}
                                => log[i].job \in Jobs
    /\ log # <<>> => log[1].type = "session.register"
    /\ \A i \in DOMAIN log : i > 1 => FollowsTruth(truthAt[i - 1], log[i], truthAt[i])
    /\ log # <<>> => Drifted(truthAt[Len(log)], truth)

(* What a state says is so at the event it accounts for: a fresh clear background is  *)
(* a certified empty one; the foreground is true; between turns the jobs it does not  *)
(* know by name are no more than it counts.                                     *)
ClearIsEmpty(s) ==
    s.bg = "clear" /\ s.bgFresh => s.certified /\ s.jobs = {} /\ s.anonymous = 0

ForegroundTrue(s) ==
    ~s.ended /\ s.fg # "unknown" => s.seq > 0 /\ truthAt[s.seq].fg = s.fg

CountCovers(s) ==
    ~s.ended /\ s.fg = "stopped" /\ s.certified =>
        Cardinality(truthAt[s.seq].jobs \ s.jobs) <= s.anonymous

(* Behind a change of the connection nothing is fresh until an event is applied.      *)
ChangeUnfreshens ==
    disconnects > 0 /\ state.seq = base.seq => ~state.fgFresh

(* What the events after the last change make of the state at that change.           *)
Replay(n) == ApplyAll(base, SubSeq(log, base.seq + 1, n))

Good(s) ==
    /\ s \in LifecycleState /\ s.seq \in 0..Len(log) /\ base.seq <= s.seq
    /\ ClearIsEmpty(s) /\ ForegroundTrue(s) /\ CountCovers(s)
    /\ s.gone <=> s.ended \/ paneGone
    /\ Replay(s.seq) \in LifecycleState
    /\ Applied(s) = Applied(Replay(s.seq))

(* What has arrived is applied, or waits behind a gap.                              *)
Accounted(s, arrived) ==
    /\ 1..s.seq \subseteq arrived
    /\ s.pending = {log[i] : i \in {k \in arrived : k > s.seq}}
    /\ s.seq + 1 \notin arrived

IInv == /\ TypeOK /\ LogTells /\ Good(state) /\ ChangeUnfreshens
        /\ Accounted(state, received)
        /\ state.gap <=> state.pending # {}

-----------------------------------------------------------------------------
LEMMA Least ==
  ASSUME NEW S \in SUBSET Nat, S # {}
  PROVE  \E x \in S : \A y \in S : x <= y
  <1> DEFINE Less == OpToRel(<, Nat)
  <1>1. IsWellFoundedOn(Less, Nat)
    BY NatLessThanWellFounded
  <1>2. \A x, y \in Nat : <<y, x>> \in Less <=> y < x
    BY DEF OpToRel
  <1> HIDE DEF Less
  <1>3. PICK x \in S : \A y \in S : <<y, x>> \notin Less
    BY <1>1, WFMin
  <1>4. ASSUME NEW y \in S PROVE ~(y < x)
    BY <1>2, <1>3
  <1>5. x \in Nat /\ \A y \in S : y \in Nat
    OBVIOUS
  <1>6. \A y \in S : x <= y
    BY <1>4, <1>5
  <1> QED BY <1>6

(* Induction over the naturals, for a set: Nat has no least element outside T.      *)
LEMMA Induct ==
  ASSUME NEW T, 0 \in T, \A n \in Nat : n \in T => n + 1 \in T
  PROVE  \A n \in Nat : n \in T
  <1> DEFINE Bad == {n \in Nat : n \notin T}
  <1>1. SUFFICES ASSUME Bad # {} PROVE FALSE
    OBVIOUS
  <1>2. PICK x \in Bad : \A y \in Bad : x <= y
    BY <1>1, Least
  <1>3. x # 0 /\ x - 1 \in Nat /\ (x - 1) + 1 = x /\ ~(x <= x - 1)
    BY <1>2
  <1> QED BY <1>2, <1>3

-----------------------------------------------------------------------------
(* ApplyAll: the function it is defined by exists, and takes one event more.         *)
Steps(f, s, events, n) ==
    f = [i \in 0..n |-> IF i = 0 THEN s ELSE ApplyContiguous(f[i - 1], events[i])]

LEMMA StepsExist ==
  ASSUME NEW s, NEW events
  PROVE  \A n \in Nat : \E f : Steps(f, s, events, n)
  <1> DEFINE T == {n \in Nat : \E f : Steps(f, s, events, n)}
  <1>1. 0 \in T
    <2>1. Steps([i \in 0..0 |-> s], s, events, 0)
      BY DEF Steps
    <2> QED BY <2>1
  <1>2. ASSUME NEW n \in Nat, n \in T PROVE n + 1 \in T
    <2>1. PICK f : f = [i \in 0..n |-> IF i = 0 THEN s ELSE ApplyContiguous(f[i - 1], events[i])]
      BY <1>2 DEF Steps
    <2> DEFINE g == [i \in 0..(n + 1) |->
                       IF i = n + 1 THEN ApplyContiguous(f[n], events[n + 1]) ELSE f[i]]
    <2>2. ASSUME NEW i \in 0..(n + 1)
          PROVE  g[i] = IF i = 0 THEN s ELSE ApplyContiguous(g[i - 1], events[i])
      <3>1. CASE i = 0
        BY <2>1, <3>1
      <3>2. CASE i = n + 1
        BY <2>1, <3>2
      <3>3. CASE i \in 1..n
        <4>1. g[i] = f[i] /\ g[i - 1] = f[i - 1]
          BY <3>3
        <4>2. f[i] = ApplyContiguous(f[i - 1], events[i])
          BY <2>1, <3>3
        <4> QED BY <3>3, <4>1, <4>2
      <3> QED BY <3>1, <3>2, <3>3
    <2>3. Steps(g, s, events, n + 1)
      <3>1. g = [i \in 0..(n + 1) |-> g[i]]
        OBVIOUS
      <3> HIDE DEF g
      <3> QED BY <2>2, <3>1 DEF Steps
    <2> QED BY <2>3
  <1> HIDE DEF T
  <1>3. \A n \in Nat : n \in T
    BY <1>1, <1>2, Induct
  <1> QED BY <1>3 DEF T

(* Functions that take the same events agree.                                     *)
LEMMA StepsAgree ==
  ASSUME NEW s, NEW a, NEW b, NEW n \in Nat, NEW m \in Nat, n <= m,
         \A i \in 1..n : a[i] = b[i],
         NEW f, Steps(f, s, a, n), NEW g, Steps(g, s, b, m)
  PROVE  f[n] = g[n]
  <1> DEFINE T == {k \in Nat : k <= n => f[k] = g[k]}
  <1>1. f = [i \in 0..n |-> IF i = 0 THEN s ELSE ApplyContiguous(f[i - 1], a[i])]
    BY DEF Steps
  <1>2. g = [i \in 0..m |-> IF i = 0 THEN s ELSE ApplyContiguous(g[i - 1], b[i])]
    BY DEF Steps
  <1>3. 0 \in T
    <2>1. f[0] = s
      BY <1>1
    <2>2. g[0] = s
      BY <1>2
    <2> QED BY <2>1, <2>2
  <1>4. ASSUME NEW k \in Nat, k \in T PROVE k + 1 \in T
    <2>1. SUFFICES ASSUME k + 1 <= n PROVE f[k + 1] = g[k + 1]
      OBVIOUS
    <2>2. /\ k + 1 \in 0..n /\ k + 1 \in 0..m /\ k + 1 # 0 /\ k + 1 - 1 = k /\ k <= n
          /\ k + 1 \in 1..n
      BY <2>1
    <2>3. f[k + 1] = ApplyContiguous(f[k], a[k + 1])
      BY <1>1, <2>2
    <2>4. g[k + 1] = ApplyContiguous(g[k], b[k + 1])
      BY <1>2, <2>2
    <2> QED BY <1>4, <2>2, <2>3, <2>4
  <1> HIDE DEF T
  <1>5. n \in T
    BY <1>3, <1>4, Induct
  <1> QED BY <1>5 DEF T

LEMMA AllSteps ==
  ASSUME NEW s, NEW events, Len(events) \in Nat
  PROVE  \E f : Steps(f, s, events, Len(events)) /\ ApplyAll(s, events) = f[Len(events)]
  <1> DEFINE g == CHOOSE f : Steps(f, s, events, Len(events))
  <1>1. Steps(g, s, events, Len(events))
    BY StepsExist
  <1>2. ApplyAll(s, events) = g[Len(events)]
    BY DEF ApplyAll, Steps
  <1> QED BY <1>1, <1>2

LEMMA ApplyNone ==
  ASSUME NEW s, NEW events, Len(events) = 0
  PROVE  ApplyAll(s, events) = s
  <1>1. PICK f : Steps(f, s, events, 0) /\ ApplyAll(s, events) = f[0]
    BY AllSteps
  <1> QED BY <1>1 DEF Steps

LEMMA ApplyOneMore ==
  ASSUME NEW s, NEW a, NEW b, NEW n \in Nat, Len(a) = n, Len(b) = n + 1,
         \A i \in 1..n : a[i] = b[i]
  PROVE  ApplyAll(s, b) = ApplyContiguous(ApplyAll(s, a), b[n + 1])
  <1>1. PICK f : Steps(f, s, a, n) /\ ApplyAll(s, a) = f[n]
    BY AllSteps
  <1>2. PICK g : Steps(g, s, b, n + 1) /\ ApplyAll(s, b) = g[n + 1]
    BY AllSteps
  <1>3. g[n] = f[n]
    BY <1>1, <1>2, StepsAgree
  <1>4. g = [i \in 0..(n + 1) |-> IF i = 0 THEN s ELSE ApplyContiguous(g[i - 1], b[i])]
    BY <1>2 DEF Steps
  <1>5. g[n + 1] = ApplyContiguous(g[n], b[n + 1])
    BY <1>4
  <1> QED BY <1>1, <1>2, <1>3, <1>5

-----------------------------------------------------------------------------
(* What one event does.                                                       *)
Moved(s, e) == [s EXCEPT !.seq = e.seq, !.connected = TRUE]

LEMMA ApplyTypes ==
  ASSUME NEW s \in LifecycleState, NEW e \in Event
  PROVE  ApplyContiguous(s, e) =
           IF s.ended \/ e.type = "session.register" THEN Moved(s, e)
           ELSE IF e.type = "turn.start" THEN TurnStart(Moved(s, e))
           ELSE IF e.type = "turn.stop" THEN TurnStop(Moved(s, e), e.active)
           ELSE IF e.type = "background.start" THEN BackgroundStart(Moved(s, e), e.job)
           ELSE IF e.type = "background.stop" THEN BackgroundStop(Moved(s, e), e.job)
           ELSE IF e.type = "background.snapshot" THEN BackgroundSnapshot(Moved(s, e), e.count)
           ELSE SessionEnd(Moved(s, e))
  BY DEF ApplyContiguous, Moved, Event, EventType

(* What only the order of arrival and the host decide stays with the state.           *)
KeepsFrame(a, s) ==
    a.seq = s.seq /\ a.pending = s.pending /\ a.gap = s.gap /\ a.connected = s.connected

KeepsHost(a, s) == a.ended = s.ended /\ a.gone = s.gone

LEMMA MovedFields ==
  ASSUME NEW s \in LifecycleState, NEW e \in Event
  PROVE  /\ Moved(s, e) \in LifecycleState
         /\ Applied(Moved(s, e)) = Moved(Applied(s), e)
  BY DEF Moved, LifecycleState, Event, Applied

LEMMA TurnStartFields ==
  ASSUME NEW s \in LifecycleState
  PROVE  /\ TurnStart(s) \in LifecycleState
         /\ KeepsFrame(TurnStart(s), s) /\ KeepsHost(TurnStart(s), s)
         /\ Applied(TurnStart(s)) = TurnStart(Applied(s))
  BY DEF TurnStart, LifecycleState, Foreground, Applied, KeepsFrame, KeepsHost

LEMMA TurnStopFields ==
  ASSUME NEW s \in LifecycleState, NEW active \in {"true", "false", "null"}
  PROVE  /\ TurnStop(s, active) \in LifecycleState
         /\ KeepsFrame(TurnStop(s, active), s) /\ KeepsHost(TurnStop(s, active), s)
         /\ Applied(TurnStop(s, active)) = TurnStop(Applied(s), active)
  <1>0. /\ Applied(s).jobs = s.jobs /\ Applied(s).anonymous = s.anonymous
        /\ Applied(s).presence = s.presence /\ Applied(s) \in LifecycleState
    BY DEF Applied, LifecycleState
  <1>1. CASE active = "false"
    <2>1. TurnStop(s, active)
            = [s EXCEPT !.fg = "stopped", !.fgFresh = TRUE, !.blocked = FALSE,
                        !.jobs = {}, !.anonymous = 0, !.presence = FALSE,
                        !.bg = "clear", !.certified = TRUE, !.bgFresh = TRUE]
      BY <1>1 DEF TurnStop
    <2>a. TurnStop(Applied(s), active)
            = [Applied(s) EXCEPT !.fg = "stopped", !.fgFresh = TRUE, !.blocked = FALSE,
                                 !.jobs = {}, !.anonymous = 0, !.presence = FALSE,
                                 !.bg = "clear", !.certified = TRUE, !.bgFresh = TRUE]
      BY <1>1 DEF TurnStop
    <2>2. /\ TurnStop(s, active) \in LifecycleState
          /\ KeepsFrame(TurnStop(s, active), s) /\ KeepsHost(TurnStop(s, active), s)
      <3>1. PICK none \in SUBSET Jobs, zero \in Nat : none = {} /\ zero = 0
        OBVIOUS
      <3>2. TurnStop(s, active)
              = [s EXCEPT !.fg = "stopped", !.fgFresh = TRUE, !.blocked = FALSE,
                          !.jobs = none, !.anonymous = zero, !.presence = FALSE,
                          !.bg = "clear", !.certified = TRUE, !.bgFresh = TRUE]
        BY <2>1, <3>1
      <3> DEFINE half == [s EXCEPT !.fg = "stopped", !.fgFresh = TRUE, !.blocked = FALSE,
                                   !.bg = "clear"]
      <3>3. half \in LifecycleState /\ KeepsFrame(half, s) /\ KeepsHost(half, s)
        BY DEF LifecycleState, Foreground, Background, KeepsFrame, KeepsHost
      <3>4. TurnStop(s, active)
              = [half EXCEPT !.jobs = none, !.anonymous = zero, !.presence = FALSE,
                             !.certified = TRUE, !.bgFresh = TRUE]
        BY <3>2
      <3> HIDE DEF half
      <3>5. TurnStop(s, active) \in LifecycleState
        BY <3>3, <3>4 DEF LifecycleState
      <3>6. KeepsFrame(TurnStop(s, active), half) /\ KeepsHost(TurnStop(s, active), half)
        BY <3>3, <3>4 DEF LifecycleState, KeepsFrame, KeepsHost
      <3> QED BY <3>3, <3>5, <3>6 DEF KeepsFrame, KeepsHost
    <2>3. Applied(TurnStop(s, active)) = TurnStop(Applied(s), active)
      BY <2>1, <2>a, ZenonT(30) DEF LifecycleState, Applied
    <2> QED BY <2>2, <2>3
  <1>2. CASE active = "true"
    <2>1. PICK p \in BOOLEAN : p = (s.presence \/ (s.jobs = {} /\ s.anonymous = 0))
      BY DEF LifecycleState
    <2>2. ASSUME NEW r \in LifecycleState, r.jobs = s.jobs, r.anonymous = s.anonymous,
                 r.presence = s.presence
          PROVE  TurnStop(r, active)
                   = [r EXCEPT !.fg = "stopped", !.fgFresh = TRUE, !.blocked = FALSE,
                               !.presence = p, !.bg = "active", !.certified = FALSE,
                               !.bgFresh = TRUE]
      BY <1>2, <2>1, <2>2 DEF TurnStop, LifecycleState
    <2>3. TurnStop(s, active)
            = [s EXCEPT !.fg = "stopped", !.fgFresh = TRUE, !.blocked = FALSE,
                        !.presence = p, !.bg = "active", !.certified = FALSE,
                        !.bgFresh = TRUE]
      BY <2>2
    <2>4. TurnStop(Applied(s), active)
            = [Applied(s) EXCEPT !.fg = "stopped", !.fgFresh = TRUE, !.blocked = FALSE,
                                 !.presence = p, !.bg = "active", !.certified = FALSE,
                                 !.bgFresh = TRUE]
      BY <1>0, <2>2
    <2>5. /\ TurnStop(s, active) \in LifecycleState
          /\ KeepsFrame(TurnStop(s, active), s) /\ KeepsHost(TurnStop(s, active), s)
      BY <2>3 DEF LifecycleState, Foreground, Background, KeepsFrame, KeepsHost
    <2>6. Applied(TurnStop(s, active)) = TurnStop(Applied(s), active)
      BY <2>3, <2>4, ZenonT(30) DEF LifecycleState, Applied
    <2> QED BY <2>5, <2>6
  <1>3. CASE active = "null"
    <2>1. PICK b \in Background :
            b = IF Occupied(s.jobs, s.anonymous, s.presence) THEN "active" ELSE "unknown"
      BY DEF Background
    <2>2. ASSUME NEW r \in LifecycleState, r.jobs = s.jobs, r.anonymous = s.anonymous,
                 r.presence = s.presence
          PROVE  TurnStop(r, active)
                   = [r EXCEPT !.fg = "stopped", !.fgFresh = TRUE, !.blocked = FALSE,
                               !.certified = FALSE, !.bg = b]
      BY <1>3, <2>1, <2>2 DEF TurnStop, LifecycleState
    <2>3. TurnStop(s, active)
            = [s EXCEPT !.fg = "stopped", !.fgFresh = TRUE, !.blocked = FALSE,
                        !.certified = FALSE, !.bg = b]
      BY <2>2
    <2>4. TurnStop(Applied(s), active)
            = [Applied(s) EXCEPT !.fg = "stopped", !.fgFresh = TRUE, !.blocked = FALSE,
                                 !.certified = FALSE, !.bg = b]
      BY <1>0, <2>2
    <2>5. /\ TurnStop(s, active) \in LifecycleState
          /\ KeepsFrame(TurnStop(s, active), s) /\ KeepsHost(TurnStop(s, active), s)
      <3>1. PICK f \in Foreground : f = "stopped"
        BY DEF Foreground
      <3>2. TurnStop(s, active) = [s EXCEPT !.fg = f, !.fgFresh = TRUE, !.blocked = FALSE,
                                            !.certified = FALSE, !.bg = b]
        BY <2>3, <3>1
      <3>3. TurnStop(s, active) \in LifecycleState
        BY <3>2 DEF LifecycleState
      <3>4. KeepsFrame(TurnStop(s, active), s) /\ KeepsHost(TurnStop(s, active), s)
        BY <3>2 DEF LifecycleState, KeepsFrame, KeepsHost
      <3> QED BY <3>3, <3>4
    <2>6. Applied(TurnStop(s, active)) = TurnStop(Applied(s), active)
      BY <2>3, <2>4 DEF LifecycleState, Applied
    <2> QED BY <2>5, <2>6
  <1> QED BY <1>1, <1>2, <1>3

LEMMA BackgroundStartFields ==
  ASSUME NEW s \in LifecycleState, NEW j \in Jobs
  PROVE  /\ BackgroundStart(s, j) \in LifecycleState
         /\ KeepsFrame(BackgroundStart(s, j), s) /\ KeepsHost(BackgroundStart(s, j), s)
         /\ Applied(BackgroundStart(s, j)) = BackgroundStart(Applied(s), j)
  BY DEF BackgroundStart, LifecycleState, Background, Applied, KeepsFrame, KeepsHost

LEMMA BackgroundStopFields ==
  ASSUME NEW s \in LifecycleState, NEW j \in Jobs
  PROVE  /\ BackgroundStop(s, j) \in LifecycleState
         /\ KeepsFrame(BackgroundStop(s, j), s) /\ KeepsHost(BackgroundStop(s, j), s)
         /\ Applied(BackgroundStop(s, j)) = BackgroundStop(Applied(s), j)
  <1>0. /\ Applied(s).jobs = s.jobs /\ Applied(s).anonymous = s.anonymous
        /\ Applied(s).presence = s.presence /\ Applied(s).certified = s.certified
        /\ Applied(s) \in LifecycleState
    BY DEF Applied, LifecycleState
  <1>1. PICK jobs \in SUBSET Jobs : jobs = s.jobs \ {j}
    BY DEF LifecycleState
  <1>2. PICK n \in Nat :
          n = IF j \notin s.jobs /\ s.anonymous > 0 THEN s.anonymous - 1 ELSE s.anonymous
    BY DEF LifecycleState
  <1>3. PICK p \in BOOLEAN :
          p = (s.presence /\ (j \in s.jobs \/ (j \notin s.jobs /\ s.anonymous > 0)))
    BY DEF LifecycleState
  <1>4. PICK b \in Background :
          b = IF Occupied(jobs, n, p) THEN "active" ELSE IF s.certified THEN "clear" ELSE "unknown"
    BY DEF Background
  <1>5. ASSUME NEW r \in LifecycleState, r.jobs = s.jobs, r.anonymous = s.anonymous,
               r.presence = s.presence, r.certified = s.certified
        PROVE  BackgroundStop(r, j)
                 = [r EXCEPT !.jobs = jobs, !.anonymous = n, !.presence = p, !.bgFresh = TRUE,
                             !.bg = b]
    BY <1>1, <1>2, <1>3, <1>4, <1>5 DEF BackgroundStop
  <1>6. /\ BackgroundStop(s, j) \in LifecycleState
        /\ KeepsFrame(BackgroundStop(s, j), s) /\ KeepsHost(BackgroundStop(s, j), s)
    <2>1. BackgroundStop(s, j) = [s EXCEPT !.jobs = jobs, !.anonymous = n, !.presence = p,
                                           !.bgFresh = TRUE, !.bg = b]
      BY <1>5
    <2>2. BackgroundStop(s, j) \in LifecycleState
      BY <2>1 DEF LifecycleState
    <2>3. KeepsFrame(BackgroundStop(s, j), s) /\ KeepsHost(BackgroundStop(s, j), s)
      BY <2>1 DEF LifecycleState, KeepsFrame, KeepsHost
    <2> QED BY <2>2, <2>3
  <1>7. BackgroundStop(Applied(s), j)
          = [Applied(s) EXCEPT !.jobs = jobs, !.anonymous = n, !.presence = p,
                               !.bgFresh = TRUE, !.bg = b]
    BY <1>0, <1>5
  <1>8. BackgroundStop(s, j)
          = [s EXCEPT !.jobs = jobs, !.anonymous = n, !.presence = p, !.bgFresh = TRUE, !.bg = b]
    BY <1>5
  <1>9. Applied(BackgroundStop(s, j)) = BackgroundStop(Applied(s), j)
    BY <1>7, <1>8 DEF LifecycleState, Applied
  <1> QED BY <1>6, <1>9

LEMMA SnapshotFields ==
  ASSUME NEW s \in LifecycleState, NEW n \in Nat
  PROVE  /\ BackgroundSnapshot(s, n) \in LifecycleState
         /\ KeepsFrame(BackgroundSnapshot(s, n), s) /\ KeepsHost(BackgroundSnapshot(s, n), s)
         /\ Applied(BackgroundSnapshot(s, n)) = BackgroundSnapshot(Applied(s), n)
  BY DEF BackgroundSnapshot, LifecycleState, Background, Applied, KeepsFrame, KeepsHost

LEMMA SessionEndFields ==
  ASSUME NEW s \in LifecycleState
  PROVE  /\ SessionEnd(s) \in LifecycleState /\ KeepsFrame(SessionEnd(s), s)
         /\ SessionEnd(s).ended /\ SessionEnd(s).gone
         /\ Applied(SessionEnd(s)) = Applied(SessionEnd(Applied(s)))
  BY DEF SessionEnd, LifecycleState, Foreground, Background, Applied, KeepsFrame

NamesItsJob(e) == e.type \in {"background.start", "background.stop"} => e.job \in Jobs

LEMMA ApplyFields ==
  ASSUME NEW s \in LifecycleState, NEW e \in Event, NamesItsJob(e)
  PROVE  /\ ApplyContiguous(s, e) \in LifecycleState
         /\ ApplyContiguous(s, e).seq = e.seq /\ ApplyContiguous(s, e).connected
         /\ ApplyContiguous(s, e).pending = s.pending /\ ApplyContiguous(s, e).gap = s.gap
         /\ \/ KeepsHost(ApplyContiguous(s, e), s)
            \/ ApplyContiguous(s, e).ended /\ ApplyContiguous(s, e).gone
         /\ Applied(ApplyContiguous(s, e)) = Applied(ApplyContiguous(Applied(s), e))
  <1> DEFINE m == Moved(s, e)
             a == Moved(Applied(s), e)
  <1>1. /\ m \in LifecycleState /\ m.seq = e.seq /\ m.connected /\ m.pending = s.pending
        /\ m.gap = s.gap /\ KeepsHost(m, s)
    BY DEF Moved, LifecycleState, Event, KeepsHost
  <1>2. Applied(s) \in LifecycleState /\ Applied(s).ended = s.ended
    BY DEF Applied, LifecycleState
  <1>3. Applied(m) = a /\ a \in LifecycleState
    BY <1>2, MovedFields
  <1>4. Applied(a) = a
    BY <1>3 DEF Applied, Moved, LifecycleState
  <1>5. \A r \in LifecycleState : Applied(Applied(r)) = Applied(r)
    BY DEF Applied, LifecycleState
  <1>i. /\ e.job \in Jobs \union {NoJob} /\ e.active \in {"true", "false", "null"}
        /\ e.count \in Nat /\ e.type \in EventType
    BY DEF Event
  <1> HIDE DEF m, a
  <1>6. CASE s.ended \/ e.type = "session.register"
    <2>1. ApplyContiguous(s, e) = m /\ ApplyContiguous(Applied(s), e) = a
      BY <1>2, <1>6, ApplyTypes DEF m, a
    <2> QED BY <1>1, <1>3, <1>4, <2>1
  <1>7. CASE ~s.ended /\ e.type = "turn.start"
    <2>1. ApplyContiguous(s, e) = TurnStart(m) /\ ApplyContiguous(Applied(s), e) = TurnStart(a)
      BY <1>2, <1>7, ApplyTypes DEF m, a
    <2>2. /\ TurnStart(m) \in LifecycleState /\ KeepsFrame(TurnStart(m), m)
          /\ KeepsHost(TurnStart(m), m) /\ Applied(TurnStart(m)) = TurnStart(a)
      BY <1>1, <1>3, TurnStartFields
    <2> QED BY <1>1, <1>5, <2>1, <2>2 DEF KeepsFrame, KeepsHost
  <1>8. CASE ~s.ended /\ e.type = "turn.stop"
    <2>1. /\ ApplyContiguous(s, e) = TurnStop(m, e.active)
          /\ ApplyContiguous(Applied(s), e) = TurnStop(a, e.active)
      BY <1>2, <1>8, ApplyTypes DEF m, a
    <2>2. /\ TurnStop(m, e.active) \in LifecycleState /\ KeepsFrame(TurnStop(m, e.active), m)
          /\ KeepsHost(TurnStop(m, e.active), m)
          /\ Applied(TurnStop(m, e.active)) = TurnStop(a, e.active)
      BY <1>1, <1>3, <1>i, TurnStopFields
    <2> QED BY <1>1, <1>5, <2>1, <2>2 DEF KeepsFrame, KeepsHost
  <1>9. CASE ~s.ended /\ e.type = "background.start"
    <2>1. /\ ApplyContiguous(s, e) = BackgroundStart(m, e.job)
          /\ ApplyContiguous(Applied(s), e) = BackgroundStart(a, e.job)
      BY <1>2, <1>9, ApplyTypes DEF m, a
    <2>2. /\ BackgroundStart(m, e.job) \in LifecycleState
          /\ KeepsFrame(BackgroundStart(m, e.job), m) /\ KeepsHost(BackgroundStart(m, e.job), m)
          /\ Applied(BackgroundStart(m, e.job)) = BackgroundStart(a, e.job)
      BY <1>1, <1>3, <1>9, BackgroundStartFields DEF NamesItsJob
    <2> QED BY <1>1, <1>5, <2>1, <2>2 DEF KeepsFrame, KeepsHost
  <1>10. CASE ~s.ended /\ e.type = "background.stop"
    <2>1. /\ ApplyContiguous(s, e) = BackgroundStop(m, e.job)
          /\ ApplyContiguous(Applied(s), e) = BackgroundStop(a, e.job)
      BY <1>2, <1>10, ApplyTypes DEF m, a
    <2>2. /\ BackgroundStop(m, e.job) \in LifecycleState
          /\ KeepsFrame(BackgroundStop(m, e.job), m) /\ KeepsHost(BackgroundStop(m, e.job), m)
          /\ Applied(BackgroundStop(m, e.job)) = BackgroundStop(a, e.job)
      BY <1>1, <1>3, <1>10, BackgroundStopFields DEF NamesItsJob
    <2> QED BY <1>1, <1>5, <2>1, <2>2 DEF KeepsFrame, KeepsHost
  <1>11. CASE ~s.ended /\ e.type = "background.snapshot"
    <2>1. /\ ApplyContiguous(s, e) = BackgroundSnapshot(m, e.count)
          /\ ApplyContiguous(Applied(s), e) = BackgroundSnapshot(a, e.count)
      BY <1>2, <1>11, ApplyTypes DEF m, a
    <2>2. /\ BackgroundSnapshot(m, e.count) \in LifecycleState
          /\ KeepsFrame(BackgroundSnapshot(m, e.count), m)
          /\ KeepsHost(BackgroundSnapshot(m, e.count), m)
          /\ Applied(BackgroundSnapshot(m, e.count)) = BackgroundSnapshot(a, e.count)
      BY <1>1, <1>3, <1>i, SnapshotFields
    <2> QED BY <1>1, <1>5, <2>1, <2>2 DEF KeepsFrame, KeepsHost
  <1>12. CASE ~s.ended /\ e.type = "session.end"
    <2>1. ApplyContiguous(s, e) = SessionEnd(m) /\ ApplyContiguous(Applied(s), e) = SessionEnd(a)
      BY <1>2, <1>12, ApplyTypes DEF m, a
    <2>2. /\ SessionEnd(m) \in LifecycleState /\ KeepsFrame(SessionEnd(m), m)
          /\ SessionEnd(m).ended /\ SessionEnd(m).gone
          /\ Applied(SessionEnd(m)) = Applied(SessionEnd(a))
      BY <1>1, <1>3, SessionEndFields
    <2> QED BY <1>1, <1>5, <2>1, <2>2 DEF KeepsFrame
  <1> QED BY <1>i, <1>6, <1>7, <1>8, <1>9, <1>10, <1>11, <1>12 DEF EventType

-----------------------------------------------------------------------------
(* What a state says of the truth goes on being so, event by event.                  *)
TellsForeground(s, t) == ~s.ended /\ s.fg # "unknown" => t.fg = s.fg

TellsJobs(s, t) ==
    ~s.ended /\ s.fg = "stopped" /\ s.certified => Cardinality(t.jobs \ s.jobs) <= s.anonymous

LEMMA FewerHidden ==
  ASSUME NEW A \in SUBSET Jobs, NEW B \in SUBSET Jobs, B \subseteq A
  PROVE  /\ Cardinality(A) \in Nat /\ Cardinality(B) \in Nat
         /\ Cardinality(B) <= Cardinality(A)
         /\ \A j \in A : j \notin B => Cardinality(B) <= Cardinality(A) - 1
  <1>1. IsFiniteSet(A) /\ IsFiniteSet(B)
    BY JobsAssumption, FS_Subset
  <1>2. Cardinality(A) \in Nat /\ Cardinality(B) \in Nat /\ Cardinality(B) <= Cardinality(A)
    BY <1>1, FS_Subset, FS_CardinalityType
  <1>3. ASSUME NEW j \in A, j \notin B PROVE Cardinality(B) <= Cardinality(A) - 1
    <2>1. IsFiniteSet(A \ {j}) /\ Cardinality(A \ {j}) = Cardinality(A) - 1
      BY <1>1, FS_RemoveElement
    <2>2. B \in SUBSET (A \ {j})
      BY <1>3
    <2> QED BY <2>1, <2>2, FS_Subset
  <1> QED BY <1>2, <1>3

LEMMA ApplyTells ==
  ASSUME NEW s \in LifecycleState, NEW e \in Event, NamesItsJob(e),
         NEW was \in Truth, NEW now \in Truth, FollowsTruth(was, e, now),
         ClearIsEmpty(s), TellsForeground(s, was), TellsJobs(s, was)
  PROVE  /\ ClearIsEmpty(ApplyContiguous(s, e))
         /\ TellsForeground(ApplyContiguous(s, e), now)
         /\ TellsJobs(ApplyContiguous(s, e), now)
  <1> DEFINE a == ApplyContiguous(s, e)
             m == Moved(s, e)
  <1>1. /\ m \in LifecycleState /\ m.fg = s.fg /\ m.bg = s.bg /\ m.certified = s.certified
        /\ m.jobs = s.jobs /\ m.anonymous = s.anonymous /\ m.presence = s.presence
        /\ m.ended = s.ended /\ m.bgFresh = s.bgFresh
    BY DEF Moved, LifecycleState, Event
  <1>i. /\ e.job \in Jobs \union {NoJob} /\ e.active \in {"true", "false", "null"}
        /\ e.count \in Nat /\ e.type \in EventType
    BY DEF Event
  <1>t. /\ was.jobs \in SUBSET Jobs /\ now.jobs \in SUBSET Jobs /\ s.jobs \in SUBSET Jobs
        /\ s.anonymous \in Nat /\ s.certified \in BOOLEAN /\ s.ended \in BOOLEAN
        /\ s.bgFresh \in BOOLEAN /\ s.fg \in Foreground
    BY DEF Truth, LifecycleState
  <1>2. CASE s.ended
    <2>1. a = m
      BY <1>2, ApplyTypes DEF m
    <2> QED BY <1>1, <1>2, <2>1 DEF ClearIsEmpty, TellsForeground, TellsJobs
  <1>3. CASE ~s.ended /\ e.type = "session.register"
    <2>1. a = m
      BY <1>3, ApplyTypes DEF m
    <2>2. now.fg = was.fg /\ (was.fg = "stopped" => now.jobs \subseteq was.jobs)
      BY <1>3 DEF FollowsTruth
    <2>3. TellsForeground(a, now)
      BY <1>1, <2>1, <2>2 DEF TellsForeground
    <2>4. TellsJobs(a, now)
      <3>1. SUFFICES ASSUME s.fg = "stopped", s.certified
                     PROVE  Cardinality(now.jobs \ s.jobs) <= s.anonymous
        BY <1>1, <2>1 DEF TellsJobs
      <3>2. now.jobs \ s.jobs \subseteq was.jobs \ s.jobs
        BY <1>3, <2>2, <3>1 DEF TellsForeground
      <3>3. Cardinality(was.jobs \ s.jobs) <= s.anonymous
        BY <1>3, <3>1 DEF TellsJobs
      <3>4. now.jobs \ s.jobs \in SUBSET Jobs /\ was.jobs \ s.jobs \in SUBSET Jobs
        BY <1>t
      <3> QED BY <1>t, <3>2, <3>3, <3>4, FewerHidden
    <2> QED BY <1>1, <2>1, <2>3, <2>4 DEF ClearIsEmpty
  <1>4. CASE ~s.ended /\ e.type = "turn.start"
    <2>1. a = TurnStart(m)
      BY <1>4, ApplyTypes DEF m
    <2>2. /\ a.fg = "running" /\ a.bg = s.bg /\ a.certified = s.certified /\ a.jobs = s.jobs
          /\ a.anonymous = s.anonymous /\ a.bgFresh = s.bgFresh
      BY <1>1, <2>1 DEF TurnStart, LifecycleState
    <2>3. now.fg = "running"
      BY <1>4 DEF FollowsTruth
    <2> QED BY <2>2, <2>3 DEF ClearIsEmpty, TellsForeground, TellsJobs
  <1>5. CASE ~s.ended /\ e.type = "turn.stop"
    <2>1. a = TurnStop(m, e.active)
      BY <1>5, ApplyTypes DEF m
    <2>2. now.fg = "stopped" /\ (e.active = "false" => now.jobs = {})
      BY <1>5 DEF FollowsTruth
    <2>3. CASE e.active = "false"
      <3>1. /\ a.fg = "stopped" /\ a.certified /\ a.jobs = {} /\ a.anonymous = 0
        BY <1>1, <2>1, <2>3 DEF TurnStop, LifecycleState
      <3>2. now.jobs \ a.jobs = {}
        BY <2>2, <2>3, <3>1
      <3> QED BY <2>2, <3>1, <3>2, FS_EmptySet DEF ClearIsEmpty, TellsForeground, TellsJobs
    <2>4. CASE e.active = "true"
      <3>1. a.fg = "stopped" /\ ~a.certified /\ a.bg = "active"
        BY <1>1, <2>1, <2>4 DEF TurnStop, LifecycleState
      <3> QED BY <2>2, <3>1 DEF ClearIsEmpty, TellsForeground, TellsJobs
    <2>5. CASE e.active = "null"
      <3>1. a.fg = "stopped" /\ ~a.certified /\ a.bg \in {"active", "unknown"}
        BY <1>1, <2>1, <2>5 DEF TurnStop, LifecycleState
      <3> QED BY <2>2, <3>1 DEF ClearIsEmpty, TellsForeground, TellsJobs
    <2> QED BY <1>i, <2>3, <2>4, <2>5
  <1>6. CASE ~s.ended /\ e.type = "background.start"
    <2>1. a = BackgroundStart(m, e.job)
      BY <1>6, ApplyTypes DEF m
    <2>2. /\ a.fg = s.fg /\ a.bg = "active" /\ a.certified = s.certified
          /\ a.jobs = s.jobs \union {e.job} /\ a.anonymous = s.anonymous /\ a.ended = s.ended
      BY <1>1, <2>1 DEF BackgroundStart, LifecycleState
    <2>3. now.fg = was.fg /\ (was.fg = "stopped" => now.jobs \subseteq was.jobs \union {e.job})
      BY <1>6 DEF FollowsTruth
    <2>4. TellsJobs(a, now)
      <3>1. SUFFICES ASSUME s.fg = "stopped", s.certified
                     PROVE  Cardinality(now.jobs \ a.jobs) <= s.anonymous
        BY <2>2 DEF TellsJobs
      <3>2. now.jobs \ a.jobs \subseteq was.jobs \ s.jobs
        BY <1>6, <2>2, <2>3, <3>1 DEF TellsForeground
      <3>3. Cardinality(was.jobs \ s.jobs) <= s.anonymous
        BY <1>6, <3>1 DEF TellsJobs
      <3>4. now.jobs \ a.jobs \in SUBSET Jobs /\ was.jobs \ s.jobs \in SUBSET Jobs
        BY <1>t
      <3> QED BY <1>t, <3>2, <3>3, <3>4, FewerHidden
    <2> QED BY <2>2, <2>3, <2>4 DEF ClearIsEmpty, TellsForeground
  <1>7. CASE ~s.ended /\ e.type = "background.stop"
    <2> DEFINE j == e.job
    <2>1. a = BackgroundStop(m, j)
      BY <1>7, ApplyTypes DEF m
    <2>2. /\ a.fg = s.fg /\ a.certified = s.certified /\ a.ended = s.ended
          /\ a.jobs = s.jobs \ {j}
          /\ a.anonymous = IF j \notin s.jobs /\ s.anonymous > 0
                           THEN s.anonymous - 1 ELSE s.anonymous
          /\ a.bg = "clear" => a.certified /\ a.jobs = {} /\ a.anonymous = 0
      BY <1>1, <1>t, <2>1 DEF BackgroundStop, LifecycleState, Occupied
    <2>3. /\ now.fg = was.fg
          /\ was.fg = "stopped" => now.jobs \subseteq was.jobs \ {j} /\ j \in was.jobs
      BY <1>7 DEF FollowsTruth
    <2>4. TellsJobs(a, now)
      <3>1. SUFFICES ASSUME s.fg = "stopped", s.certified
                     PROVE  Cardinality(now.jobs \ a.jobs) <= a.anonymous
        BY <2>2 DEF TellsJobs
      <3>2. /\ now.jobs \ a.jobs \subseteq was.jobs \ s.jobs
            /\ j \notin now.jobs \ a.jobs /\ j \in was.jobs
        BY <1>7, <2>2, <2>3, <3>1 DEF TellsForeground
      <3>3. Cardinality(was.jobs \ s.jobs) <= s.anonymous
        BY <1>7, <3>1 DEF TellsJobs
      <3>4. now.jobs \ a.jobs \in SUBSET Jobs /\ was.jobs \ s.jobs \in SUBSET Jobs
        BY <1>t
      <3>5. CASE j \notin s.jobs /\ s.anonymous > 0
        <4>1. j \in was.jobs \ s.jobs
          BY <3>2, <3>5
        <4>2. /\ Cardinality(now.jobs \ a.jobs) <= Cardinality(was.jobs \ s.jobs) - 1
              /\ Cardinality(now.jobs \ a.jobs) \in Nat /\ Cardinality(was.jobs \ s.jobs) \in Nat
          BY <3>2, <3>4, <4>1, FewerHidden
        <4>3. a.anonymous = s.anonymous - 1
          BY <2>2, <3>5
        <4> QED BY <1>t, <3>3, <4>2, <4>3
      <3>6. CASE ~(j \notin s.jobs /\ s.anonymous > 0)
        <4>1. /\ Cardinality(now.jobs \ a.jobs) <= Cardinality(was.jobs \ s.jobs)
              /\ Cardinality(now.jobs \ a.jobs) \in Nat /\ Cardinality(was.jobs \ s.jobs) \in Nat
          BY <3>2, <3>4, FewerHidden
        <4>2. a.anonymous = s.anonymous
          BY <2>2, <3>6
        <4> QED BY <1>t, <3>3, <4>1, <4>2
      <3> QED BY <3>5, <3>6
    <2> QED BY <2>2, <2>3, <2>4 DEF ClearIsEmpty, TellsForeground
  <1>8. CASE ~s.ended /\ e.type = "background.snapshot"
    <2>1. a = BackgroundSnapshot(m, e.count)
      BY <1>8, ApplyTypes DEF m
    <2>2. /\ a.fg = s.fg /\ a.certified /\ a.jobs = {} /\ a.anonymous = e.count
          /\ a.ended = s.ended /\ (a.bg = "clear" => e.count = 0)
      BY <1>1, <1>i, <2>1 DEF BackgroundSnapshot, LifecycleState
    <2>3. now.fg = was.fg /\ e.count = Cardinality(now.jobs)
      BY <1>8 DEF FollowsTruth
    <2>4. now.jobs \ a.jobs = now.jobs
      BY <2>2
    <2>5. TellsJobs(a, now)
      BY <1>i, <2>2, <2>3, <2>4 DEF TellsJobs
    <2> QED BY <2>2, <2>3, <2>5 DEF ClearIsEmpty, TellsForeground
  <1>9. CASE ~s.ended /\ e.type = "session.end"
    <2>1. a = SessionEnd(m)
      BY <1>9, ApplyTypes DEF m
    <2>2. a.ended /\ a.certified /\ a.jobs = {} /\ a.anonymous = 0
      BY <1>1, <2>1 DEF SessionEnd, LifecycleState
    <2> QED BY <2>2 DEF ClearIsEmpty, TellsForeground, TellsJobs
  <1> QED BY <1>i, <1>2, <1>3, <1>4, <1>5, <1>6, <1>7, <1>8, <1>9 DEF EventType

-----------------------------------------------------------------------------
(* The next event of the log keeps everything that is said of a state.               *)
LEMMA Slice ==
  ASSUME TypeOK, NEW lo \in Nat, NEW hi \in Nat, lo <= hi, hi <= Len(log)
  PROVE  /\ Len(SubSeq(log, lo + 1, hi)) = hi - lo
         /\ \A i \in 1..(hi - lo) : SubSeq(log, lo + 1, hi)[i] = log[lo + i]
  <1>1. log \in Seq(Event) /\ Len(log) \in Nat
    BY DEF TypeOK
  <1>2. \A i \in (lo + 1)..hi : log[i] \in Event
    BY <1>1
  <1>3. /\ Len(SubSeq(log, lo + 1, hi)) = IF lo + 1 <= hi THEN hi - (lo + 1) + 1 ELSE 0
        /\ \A i \in 1..(hi - (lo + 1) + 1) : SubSeq(log, lo + 1, hi)[i] = log[lo + 1 + i - 1]
    BY <1>2, SubSeqProperties
  <1> QED BY <1>3

LEMMA ReplayOneMore ==
  ASSUME TypeOK, NEW n \in Nat, base.seq <= n, n < Len(log)
  PROVE  Replay(n + 1) = ApplyContiguous(Replay(n), log[n + 1])
  <1> DEFINE a == SubSeq(log, base.seq + 1, n)
             b == SubSeq(log, base.seq + 1, n + 1)
             d == n - base.seq
  <1>1. log \in Seq(Event) /\ base.seq \in Nat /\ d \in Nat /\ Len(log) \in Nat
    BY DEF TypeOK, LifecycleState
  <1>r. Len(a) = d /\ \A i \in 1..d : a[i] = log[base.seq + i]
    BY <1>1, Slice, SMTT(30)
  <1>2. n + 1 \in Nat /\ base.seq <= n + 1 /\ n + 1 <= Len(log) /\ d + 1 = n + 1 - base.seq
    BY <1>1
  <1>s. Len(b) = d + 1 /\ \A i \in 1..(d + 1) : b[i] = log[base.seq + i]
    <2>1. /\ Len(b) = n + 1 - base.seq
          /\ \A i \in 1..(n + 1 - base.seq) : b[i] = log[base.seq + i]
      BY <1>1, <1>2, Slice, SMTT(30)
    <2> QED BY <1>2, <2>1
  <1>w. base.seq + (d + 1) = n + 1 /\ d + 1 \in 1..(d + 1)
    BY <1>1
  <1> HIDE DEF a, b, d
  <1>3. Len(a) = d /\ Len(b) = d + 1 /\ \A i \in 1..d : a[i] = b[i]
    BY <1>1, <1>r, <1>s
  <1>4. b[d + 1] = log[n + 1]
    BY <1>s, <1>w
  <1>5. ApplyAll(base, b) = ApplyContiguous(ApplyAll(base, a), b[d + 1])
    BY <1>1, <1>3, ApplyOneMore
  <1> QED BY <1>4, <1>5 DEF a, b, Replay

LEMMA ApplyKeeps ==
  ASSUME TypeOK, LogTells, NEW s, Good(s), s.seq < Len(log)
  PROVE  /\ Good(ApplyContiguous(s, log[s.seq + 1]))
         /\ ApplyContiguous(s, log[s.seq + 1]).seq = s.seq + 1
         /\ ApplyContiguous(s, log[s.seq + 1]).pending = s.pending
  <1> DEFINE n == s.seq
             e == log[s.seq + 1]
             a == ApplyContiguous(s, log[s.seq + 1])
             r == Replay(s.seq)
  <1>1. /\ s \in LifecycleState /\ n \in 0..Len(log) /\ base.seq <= n /\ n \in Nat
        /\ n + 1 \in DOMAIN log /\ n + 1 \in 1..Len(log) /\ Len(log) \in Nat
        /\ base.seq \in Nat
    BY DEF Good, TypeOK, LifecycleState
  <1>2. e \in Event /\ e.seq = n + 1 /\ NamesItsJob(e)
    BY <1>1 DEF TypeOK, LogTells, NamesItsJob
  <1>3. /\ a \in LifecycleState /\ a.seq = n + 1 /\ a.pending = s.pending
        /\ KeepsHost(a, s) \/ (a.ended /\ a.gone)
        /\ Applied(a) = Applied(ApplyContiguous(Applied(s), e))
    BY <1>1, <1>2, ApplyFields
  <1>4. a.gone <=> a.ended \/ paneGone
    BY <1>3 DEF Good, KeepsHost
  <1>5. r \in LifecycleState /\ Applied(s) = Applied(r)
    BY DEF Good
  <1>6. Replay(n + 1) = ApplyContiguous(r, e)
    BY <1>1, ReplayOneMore
  <1>7. /\ Replay(n + 1) \in LifecycleState
        /\ Applied(Replay(n + 1)) = Applied(ApplyContiguous(Applied(r), e))
    BY <1>2, <1>5, <1>6, ApplyFields
  <1>8. /\ ClearIsEmpty(a) /\ ForegroundTrue(a) /\ CountCovers(a)
    <2>1. CASE n = 0
      <3>1. e.type = "session.register"
        BY <1>1, <2>1 DEF LogTells
      <3>2. a = Moved(s, e)
        BY <1>1, <1>2, <3>1, ApplyTypes
      <3>3. /\ a.fg = s.fg /\ a.bg = s.bg /\ a.certified = s.certified
            /\ a.jobs = s.jobs /\ a.anonymous = s.anonymous /\ a.ended = s.ended
            /\ a.bgFresh = s.bgFresh
        BY <1>1, <3>2 DEF Moved, LifecycleState
      <3>4. s.ended \/ s.fg = "unknown"
        BY <2>1 DEF Good, ForegroundTrue
      <3> QED BY <3>3, <3>4 DEF Good, ClearIsEmpty, ForegroundTrue, CountCovers
    <2>2. CASE n # 0
      <3> DEFINE was == truthAt[n]
                 now == truthAt[n + 1]
      <3>1. was \in Truth /\ now \in Truth
        BY <1>1, <2>2 DEF TypeOK
      <3>2. FollowsTruth(was, e, now)
        <4>1. n + 1 > 1 /\ n + 1 - 1 = n
          BY <1>1, <2>2
        <4> QED BY <1>1, <4>1 DEF LogTells
      <3>3. ClearIsEmpty(s) /\ TellsForeground(s, was) /\ TellsJobs(s, was)
        BY DEF Good, ForegroundTrue, CountCovers, TellsForeground, TellsJobs
      <3> HIDE DEF was, now
      <3>4. ClearIsEmpty(a) /\ TellsForeground(a, now) /\ TellsJobs(a, now)
        BY <1>1, <1>2, <3>1, <3>2, <3>3, ApplyTells
      <3>5. now = truthAt[a.seq] /\ a.seq > 0
        BY <1>1, <1>3 DEF now
      <3> QED BY <3>4, <3>5 DEF ForegroundTrue, CountCovers, TellsForeground, TellsJobs
    <2> QED BY <2>1, <2>2
  <1>9. a.seq \in 0..Len(log) /\ base.seq <= a.seq
    BY <1>1, <1>3
  <1>10. Applied(a) = Applied(Replay(a.seq)) /\ Replay(a.seq) \in LifecycleState
    BY <1>3, <1>5, <1>7
  <1> HIDE DEF a, e
  <1>11. Good(a)
    BY <1>3, <1>4, <1>8, <1>9, <1>10 DEF Good
  <1> QED BY <1>3, <1>11 DEF a

(* What waits, and whether it says so, is beside what is said.                         *)
LEMMA FrameKeeps ==
  ASSUME NEW s, Good(s), NEW p \in SUBSET Event, NEW g \in BOOLEAN
  PROVE  /\ Good([s EXCEPT !.pending = p])
         /\ Good([s EXCEPT !.gap = g])
  <1>1. s \in LifecycleState
    BY DEF Good
  <1>2. ASSUME NEW a \in LifecycleState, a.seq = s.seq, a.fg = s.fg, a.bg = s.bg,
               a.certified = s.certified, a.jobs = s.jobs, a.anonymous = s.anonymous,
               a.ended = s.ended, a.gone = s.gone, a.bgFresh = s.bgFresh,
               Applied(a) = Applied(s)
        PROVE  Good(a)
    BY <1>2 DEF Good, ClearIsEmpty, ForegroundTrue, CountCovers
  <1>3. Good([s EXCEPT !.pending = p])
    <2> DEFINE a == [s EXCEPT !.pending = p]
    <2>1. a \in LifecycleState /\ Applied(a) = Applied(s)
      BY <1>1 DEF LifecycleState, Applied
    <2>2. /\ a.seq = s.seq /\ a.fg = s.fg /\ a.bg = s.bg /\ a.certified = s.certified
          /\ a.jobs = s.jobs /\ a.anonymous = s.anonymous /\ a.ended = s.ended
          /\ a.gone = s.gone /\ a.bgFresh = s.bgFresh
      BY <1>1 DEF LifecycleState
    <2> HIDE DEF a
    <2>3. Good(a)
      BY <1>2, <2>1, <2>2
    <2> QED BY <2>3 DEF a
  <1>4. Good([s EXCEPT !.gap = g])
    <2> DEFINE a == [s EXCEPT !.gap = g]
    <2>1. a \in LifecycleState /\ Applied(a) = Applied(s)
      BY <1>1 DEF LifecycleState, Applied
    <2>2. /\ a.seq = s.seq /\ a.fg = s.fg /\ a.bg = s.bg /\ a.certified = s.certified
          /\ a.jobs = s.jobs /\ a.anonymous = s.anonymous /\ a.ended = s.ended
          /\ a.gone = s.gone /\ a.bgFresh = s.bgFresh
      BY <1>1 DEF LifecycleState
    <2> HIDE DEF a
    <2>3. Good(a)
      BY <1>2, <2>1, <2>2
    <2> QED BY <2>3 DEF a
  <1> QED BY <1>3, <1>4

-----------------------------------------------------------------------------
(* The drain: every buffered event that became contiguous, and no other.             *)
Waits(s, arrived) == s.pending = {log[i] : i \in {k \in arrived : k > s.seq}}

LEMMA BufferedIffWaits ==
  ASSUME TypeOK, LogTells, NEW s, NEW arrived \in SUBSET (1..Len(log)), Waits(s, arrived),
         NEW n \in Int
  PROVE  /\ Buffered(s, n) <=> n \in arrived /\ n > s.seq
         /\ \A e \in s.pending : e \in Event /\ e.seq \in arrived /\ e = log[e.seq]
  <1>1. \A i \in arrived : log[i].seq = i /\ log[i] \in Event
    BY DEF LogTells, TypeOK
  <1>2. \A e \in s.pending : \E i \in arrived : i > s.seq /\ e = log[i]
    BY DEF Waits
  <1>3. \A i \in arrived : i > s.seq => log[i] \in s.pending
    BY DEF Waits
  <1> QED BY <1>1, <1>2, <1>3 DEF Buffered

LEMMA EndOfRun ==
  ASSUME TypeOK, LogTells, NEW s \in LifecycleState,
         NEW arrived \in SUBSET (1..Len(log)), Waits(s, arrived)
  PROVE  /\ ContiguousEnd(s) \in Nat /\ ContiguousEnd(s) >= s.seq
         /\ \A i \in (s.seq + 1)..ContiguousEnd(s) : i \in arrived
         /\ ContiguousEnd(s) + 1 \notin arrived
  <1> DEFINE S == {k \in Nat : s.seq + 1 + k \notin arrived}
  <1>1. s.seq \in Nat /\ Len(log) \in Nat /\ \A i \in arrived : i \in Nat /\ i <= Len(log)
    BY DEF TypeOK, LifecycleState
  <1>2. Len(log) \in S
    BY <1>1
  <1>3. PICK k \in S : \A y \in S : k <= y
    BY <1>2, Least
  <1> DEFINE n == s.seq + k
  <1>4. n \in Nat /\ n >= s.seq /\ k \in Nat
    BY <1>1, <1>3
  <1>5. n + 1 \notin arrived
    BY <1>1, <1>3
  <1>6. ASSUME NEW i \in (s.seq + 1)..n PROVE i \in arrived
    <2>1. i - (s.seq + 1) \in Nat /\ ~(k <= i - (s.seq + 1)) /\ s.seq + 1 + (i - (s.seq + 1)) = i
      BY <1>1, <1>4
    <2> QED BY <1>3, <2>1
  <1> HIDE DEF S, n
  <1>7. n \in {s.seq} \union {e.seq : e \in s.pending}
    <2>1. CASE n = s.seq
      BY <2>1
    <2>2. CASE n # s.seq
      <3>1. n \in (s.seq + 1)..n /\ n > s.seq /\ n \in Int
        BY <1>1, <1>4, <2>2
      <3>2. Buffered(s, n)
        BY <1>6, <3>1, BufferedIffWaits
      <3> QED BY <3>2 DEF Buffered
    <2> QED BY <2>1, <2>2
  <1>8. \A i \in (s.seq + 1)..n : Buffered(s, i)
    <2>1. \A i \in (s.seq + 1)..n : i \in Int /\ i > s.seq
      BY <1>1, <1>4
    <2> QED BY <1>6, <2>1, BufferedIffWaits
  <1>9. ~Buffered(s, n + 1)
    BY <1>4, <1>5, BufferedIffWaits
  <1> DEFINE c == ContiguousEnd(s)
  <1>10. /\ c \in {s.seq} \union {e.seq : e \in s.pending} /\ c >= s.seq
         /\ \A i \in (s.seq + 1)..c : Buffered(s, i)
         /\ ~Buffered(s, c + 1)
    BY <1>4, <1>7, <1>8, <1>9 DEF ContiguousEnd
  <1> HIDE DEF c
  <1>11. c \in Nat
    <2>1. \A e \in s.pending : e.seq \in arrived
      BY <1>1, BufferedIffWaits
    <2> QED BY <1>1, <1>10, <2>1
  <1>12. \A i \in (s.seq + 1)..c : i \in arrived
    <2>1. \A i \in (s.seq + 1)..c : i \in Int
      BY <1>1, <1>11
    <2> QED BY <1>10, <2>1, BufferedIffWaits
  <1>13. c + 1 \notin arrived
    <2>1. c + 1 > s.seq /\ c + 1 \in Int
      BY <1>1, <1>10, <1>11
    <2> QED BY <1>10, <2>1, BufferedIffWaits
  <1> QED BY <1>10, <1>11, <1>12, <1>13 DEF c

LEMMA RunKeeps ==
  ASSUME TypeOK, LogTells, NEW u, Good(u), NEW d \in Nat, u.seq + d <= Len(log)
  PROVE  LET r == ApplyAll(u, [i \in 1..d |-> log[u.seq + i]])
         IN  Good(r) /\ r.seq = u.seq + d /\ r.pending = u.pending
  <1> DEFINE run(k) == [i \in 1..k |-> log[u.seq + i]]
             T == {k \in Nat : k <= d => /\ Good(ApplyAll(u, run(k)))
                                         /\ ApplyAll(u, run(k)).seq = u.seq + k
                                         /\ ApplyAll(u, run(k)).pending = u.pending}
  <1>1. u.seq \in Nat /\ Len(log) \in Nat
    BY DEF Good, TypeOK
  <1>2. \A k \in Nat : Len(run(k)) = k /\ \A i \in 1..k : run(k)[i] = log[u.seq + i]
    OBVIOUS
  <1> HIDE DEF run
  <1>3. 0 \in T
    <2>1. ApplyAll(u, run(0)) = u
      BY <1>2, ApplyNone
    <2> QED BY <1>1, <2>1
  <1>4. ASSUME NEW k \in Nat, k \in T PROVE k + 1 \in T
    <2>1. SUFFICES ASSUME k + 1 <= d
                   PROVE  /\ Good(ApplyAll(u, run(k + 1)))
                          /\ ApplyAll(u, run(k + 1)).seq = u.seq + (k + 1)
                          /\ ApplyAll(u, run(k + 1)).pending = u.pending
      OBVIOUS
    <2> DEFINE r == ApplyAll(u, run(k))
    <2>2. Good(r) /\ r.seq = u.seq + k /\ r.pending = u.pending
      BY <1>4, <2>1
    <2>3. /\ Len(run(k)) = k /\ Len(run(k + 1)) = k + 1
          /\ \A i \in 1..k : run(k)[i] = run(k + 1)[i]
      <3>1. k + 1 \in Nat /\ \A i \in 1..k : i \in 1..(k + 1)
        OBVIOUS
      <3> QED BY <1>2, <3>1
    <2>4. run(k + 1)[k + 1] = log[r.seq + 1]
      <3>1. k + 1 \in Nat /\ k + 1 \in 1..(k + 1)
        OBVIOUS
      <3>2. run(k + 1)[k + 1] = log[u.seq + (k + 1)]
        BY <1>2, <3>1
      <3>3. u.seq + (k + 1) = r.seq + 1
        BY <1>1, <2>2
      <3> QED BY <3>2, <3>3
    <2>5. ApplyAll(u, run(k + 1)) = ApplyContiguous(r, log[r.seq + 1])
      BY <2>3, <2>4, ApplyOneMore
    <2> HIDE DEF r
    <2>6. r.seq < Len(log)
      BY <1>1, <2>1, <2>2
    <2>7. /\ Good(ApplyContiguous(r, log[r.seq + 1]))
          /\ ApplyContiguous(r, log[r.seq + 1]).seq = r.seq + 1
          /\ ApplyContiguous(r, log[r.seq + 1]).pending = r.pending
      BY <2>2, <2>6, ApplyKeeps
    <2> QED BY <1>1, <2>2, <2>5, <2>7
  <1> HIDE DEF T
  <1>5. d \in T
    BY <1>3, <1>4, Induct
  <1> QED BY <1>5 DEF T, run

LEMMA DrainKeeps ==
  ASSUME TypeOK, LogTells, NEW s, Good(s), NEW arrived \in SUBSET (1..Len(log)),
         Waits(s, arrived), 1..s.seq \subseteq arrived
  PROVE  Good(Drain(s)) /\ Accounted(Drain(s), arrived) /\ Drain(s).seq >= s.seq
  <1> DEFINE end == ContiguousEnd(s)
             rest == {e \in s.pending : e.seq > end}
             u == [s EXCEPT !.pending = {e \in s.pending : e.seq > end}]
             d == end - s.seq
             r == ApplyAll(u, [i \in 1..d |-> log[u.seq + i]])
  <1>1. s \in LifecycleState /\ s.seq \in Nat /\ Len(log) \in Nat
    BY DEF Good, TypeOK, LifecycleState
  <1>2. /\ end \in Nat /\ end >= s.seq /\ end + 1 \notin arrived
        /\ \A i \in (s.seq + 1)..end : i \in arrived
    BY <1>1, EndOfRun
  <1> HIDE DEF end
  <1>3. end <= Len(log)
    <2>1. CASE end = s.seq
      BY <2>1 DEF Good
    <2>2. CASE end # s.seq
      BY <1>1, <1>2, <2>2
    <2> QED BY <2>1, <2>2
  <1>4. rest \in SUBSET Event
    BY <1>1 DEF LifecycleState
  <1>5. u = [s EXCEPT !.pending = rest]
    OBVIOUS
  <1>6. Good(u) /\ u.seq = s.seq /\ u.pending = rest
    <2>1. u.seq = s.seq /\ u.pending = rest
      BY <1>1 DEF LifecycleState
    <2> HIDE DEF rest, u
    <2> QED BY <1>4, <1>5, <2>1, FrameKeeps
  <1> HIDE DEF u
  <1>7. [i \in 1..(end - s.seq) |-> CHOOSE e \in s.pending : e.seq = s.seq + i]
          = [i \in 1..d |-> log[u.seq + i]]
    <2>1. ASSUME NEW i \in 1..d
          PROVE  (CHOOSE e \in s.pending : e.seq = s.seq + i) = log[u.seq + i]
      <3>1. s.seq + i \in arrived /\ s.seq + i > s.seq /\ s.seq + i \in Int
        BY <1>1, <1>2
      <3>2. \A e \in s.pending : e = log[e.seq]
        BY <3>1, BufferedIffWaits
      <3>3. \E e \in s.pending : e.seq = s.seq + i
        BY <3>1, BufferedIffWaits DEF Buffered
      <3> QED BY <1>6, <3>2, <3>3
    <2> QED BY <2>1
  <1>8. Drain(s) = r
    BY <1>7 DEF Drain, u, end
  <1>9. d \in Nat /\ u.seq + d = end
    BY <1>1, <1>2, <1>6
  <1>10. Good(r) /\ r.seq = end /\ r.pending = rest
    BY <1>3, <1>6, <1>9, RunKeeps
  <1> HIDE DEF r, d
  <1>11. rest = {log[i] : i \in {k \in arrived : k > end}}
    <2>1. \A i \in arrived : log[i].seq = i
      BY DEF LogTells, TypeOK
    <2>2. \A i \in arrived : i > end => i > s.seq
      BY <1>1, <1>2
    <2>3. \A e \in s.pending : e.seq \in arrived /\ e = log[e.seq]
      BY <1>1, BufferedIffWaits
    <2>4. \A i \in arrived : i > s.seq => log[i] \in s.pending
      BY DEF Waits
    <2> QED BY <2>1, <2>2, <2>3, <2>4
  <1>12. 1..end \subseteq arrived
    <2>1. \A i \in 1..end : i \in 1..s.seq \/ i \in (s.seq + 1)..end
      BY <1>1, <1>2
    <2> QED BY <1>2, <2>1
  <1>13. Accounted(r, arrived)
    BY <1>2, <1>10, <1>11, <1>12 DEF Accounted
  <1> QED BY <1>2, <1>8, <1>10, <1>13

-----------------------------------------------------------------------------
(* The steps.  What is said of a state looks only at the log up to its event.        *)
LEMMA SliceSame ==
  ASSUME NEW l \in Seq(Event), NEW m \in Seq(Event), NEW lo \in Nat, NEW hi \in Nat,
         hi <= Len(l), hi <= Len(m), \A i \in 1..hi : l[i] = m[i]
  PROVE  SubSeq(l, lo + 1, hi) = SubSeq(m, lo + 1, hi)
  <1> DEFINE a == SubSeq(l, lo + 1, hi)
             b == SubSeq(m, lo + 1, hi)
  <1>1. Len(l) \in Nat /\ Len(m) \in Nat
    OBVIOUS
  <1>2. \A i \in (lo + 1)..hi : l[i] \in Event /\ m[i] \in Event /\ l[i] = m[i]
    BY <1>1
  <1>3. /\ a \in Seq(Event) /\ Len(a) = IF lo + 1 <= hi THEN hi - (lo + 1) + 1 ELSE 0
        /\ \A i \in 1..(hi - (lo + 1) + 1) : a[i] = l[lo + 1 + i - 1]
    BY <1>2, SubSeqProperties
  <1>4. /\ b \in Seq(Event) /\ Len(b) = IF lo + 1 <= hi THEN hi - (lo + 1) + 1 ELSE 0
        /\ \A i \in 1..(hi - (lo + 1) + 1) : b[i] = m[lo + 1 + i - 1]
    BY <1>2, SubSeqProperties
  <1> HIDE DEF a, b
  <1>5. ASSUME NEW i \in 1..Len(a) PROVE a[i] = b[i]
    <2>1. i \in 1..(hi - (lo + 1) + 1) /\ lo + 1 + i - 1 \in (lo + 1)..hi
      BY <1>3
    <2> QED BY <1>2, <1>3, <1>4, <2>1
  <1>6. a = b
    BY <1>3, <1>4, <1>5, SeqEqual
  <1> QED BY <1>6 DEF a, b

LEMMA InitIInv == Init => IInv
  <1> SUFFICES ASSUME Init PROVE IInv
    OBVIOUS
  <1>1. NewState \in LifecycleState
    BY DEF NewState, LifecycleState, Foreground, Background
  <1>2. TypeOK
    <2>1. truth \in Truth
      BY DEF Init, Truth
    <2>2. <<>> \in Seq(Event) /\ <<>> \in Seq(Truth) /\ Len(<<>>) = 0
      BY EmptySeq
    <2>3. 0 <= MaxEvents /\ 0 \in 0..MaxDisconnects
      BY ReplayBounds
    <2> QED BY <1>1, <2>1, <2>2, <2>3 DEF Init, TypeOK
  <1>3. LogTells
    BY DEF Init, LogTells
  <1>4. /\ NewState.seq = 0 /\ NewState.pending = {} /\ ~NewState.ended /\ ~NewState.gone
        /\ NewState.fg = "unknown" /\ NewState.bg = "unknown" /\ ~NewState.gap
    BY DEF NewState
  <1>5. Replay(0) = NewState
    <2>1. base.seq = 0 /\ Len(log) = 0 /\ base = NewState
      BY <1>4 DEF Init
    <2>2. Len(SubSeq(log, base.seq + 1, 0)) = 0
      BY <1>2, <2>1, Slice
    <2> HIDE DEF Replay
    <2>3. ApplyAll(base, SubSeq(log, base.seq + 1, 0)) = base
      BY <2>2, ApplyNone
    <2> QED BY <2>1, <2>3 DEF Replay
  <1>6. Good(state)
    BY <1>1, <1>4, <1>5 DEF Init, Good, ClearIsEmpty, ForegroundTrue, CountCovers
  <1>7. Accounted(state, received)
    BY <1>4 DEF Init, Accounted
  <1>8. ChangeUnfreshens /\ (state.gap <=> state.pending # {})
    BY <1>4 DEF Init, ChangeUnfreshens
  <1> QED BY <1>2, <1>3, <1>6, <1>7, <1>8 DEF IInv

(* An event that says what its type says, of a truth that moved on as FollowsTruth.   *)
Reports(type, job, active, count, now) ==
    /\ type \in {"background.start", "background.stop"} => job \in Jobs
    /\ log # <<>> => \A e \in Event : /\ e.type = type /\ e.job = job
                                     /\ e.active = active /\ e.count = count
                                     => FollowsTruth(truthAt[Len(log)], e, now)

LEMMA EmitIInv ==
  ASSUME IInv, NEW type \in EventType, NEW job \in Jobs \union {NoJob},
         NEW active \in {"true", "false", "null"}, NEW count \in Nat, NEW now \in Truth,
         Emit(type, job, active, count, now),
         Reports(type, job, active, count, now)
  PROVE  IInv'
  <1> DEFINE n == Len(log)
             e == [seq |-> Len(log) + 1, type |-> type, job |-> job,
                   active |-> active, count |-> count]
  <1>1. /\ TypeOK /\ LogTells /\ Good(state) /\ ChangeUnfreshens
        /\ Accounted(state, received) /\ (state.gap <=> state.pending # {})
    BY DEF IInv
  <1>2. /\ log \in Seq(Event) /\ truthAt \in Seq(Truth) /\ n \in Nat /\ Len(truthAt) = n
        /\ n < MaxEvents /\ MaxEvents \in Nat
    BY <1>1, ReplayBounds DEF TypeOK, Emit
  <1>3. e \in Event /\ e.seq = n + 1 /\ e.type = type /\ e.job = job /\ e.active = active
        /\ e.count = count
    BY <1>2 DEF Event
  <1>4. /\ truth' = now /\ log' = Append(log, e) /\ truthAt' = Append(truthAt, now)
        /\ (log = <<>>) => type = "session.register"
        /\ received' = received /\ state' = state /\ base' = base
        /\ paneGone' = paneGone /\ disconnects' = disconnects
    BY DEF Emit
  <1> HIDE DEF e
  <1>5. /\ log' \in Seq(Event) /\ Len(log') = n + 1 /\ log' # <<>>
        /\ \A i \in 1..n : log'[i] = log[i]
        /\ log'[n + 1] = e
    BY <1>2, <1>3, <1>4, AppendProperties
  <1>6. /\ truthAt' \in Seq(Truth) /\ Len(truthAt') = n + 1
        /\ \A i \in 1..n : truthAt'[i] = truthAt[i]
        /\ truthAt'[n + 1] = now
    BY <1>2, <1>4, AppendProperties
  <1>7. DOMAIN log' = 1..(n + 1) /\ DOMAIN log = 1..n
    BY <1>2, <1>5
  <1>8. log = <<>> <=> n = 0
    BY <1>2
  <1> HIDE DEF n
  <1>9. TypeOK'
    <2>1. received' \subseteq 1..Len(log')
      BY <1>1, <1>2, <1>4, <1>5 DEF TypeOK, n
    <2>2. Len(log') <= MaxEvents
      BY <1>2, <1>5
    <2> QED BY <1>1, <1>4, <1>5, <1>6, <2>1, <2>2 DEF TypeOK
  <1>10. LogTells'
    <2>1. ASSUME NEW i \in 1..(n + 1)
          PROVE  /\ log'[i].seq = i
                 /\ log'[i].type \in {"background.start", "background.stop"} => log'[i].job \in Jobs
                 /\ i > 1 => FollowsTruth(truthAt'[i - 1], log'[i], truthAt'[i])
      <3>1. CASE i \in 1..n
        <4>1. log'[i] = log[i] /\ truthAt'[i] = truthAt[i]
          BY <1>5, <1>6, <3>1
        <4>2. i > 1 => i - 1 \in 1..n
          BY <1>2, <3>1
        <4>3. i > 1 => truthAt'[i - 1] = truthAt[i - 1]
          BY <1>6, <4>2
        <4> QED BY <1>1, <1>7, <3>1, <4>1, <4>3 DEF LogTells
      <3>2. CASE i = n + 1
        <4>1. i > 1 => n \in 1..n /\ n # 0 /\ i - 1 = n
          BY <1>2, <3>2
        <4>2. i > 1 => truthAt'[i - 1] = truthAt[Len(log)]
          BY <1>6, <4>1 DEF n
        <4>3. i > 1 => FollowsTruth(truthAt[Len(log)], e, now)
          BY <1>3, <1>8, <4>1 DEF Reports
        <4> QED BY <1>3, <1>5, <1>6, <3>2, <4>2, <4>3 DEF Reports
      <3>3. i \in 1..n \/ i = n + 1
        BY <1>2
      <3> QED BY <3>1, <3>2, <3>3
    <2>2. log'[1].type = "session.register"
      <3>1. CASE n = 0
        BY <1>3, <1>4, <1>5, <1>8, <3>1
      <3>2. CASE n # 0
        <4>1. 1 \in 1..n
          BY <1>2, <3>2
        <4> QED BY <1>1, <1>5, <1>8, <3>2, <4>1 DEF LogTells
      <3> QED BY <3>1, <3>2
    <2>3. Drifted(truthAt'[Len(log')], truth')
      BY <1>4, <1>5, <1>6 DEF Drifted
    <2>4. DOMAIN (log') = 1..(n + 1)
      BY <1>7
    <2> QED BY <2>1, <2>2, <2>3, <2>4 DEF LogTells
  <1>11. Good(state)'
    <2>1. /\ state \in LifecycleState /\ state.seq \in 0..n /\ base.seq <= state.seq
          /\ state.seq \in Nat /\ state.seq <= n /\ base.seq \in Nat
      BY <1>1, <1>2 DEF Good, TypeOK, LifecycleState, n
    <2>2. SubSeq(log', base.seq + 1, state.seq) = SubSeq(log, base.seq + 1, state.seq)
      <3>1. state.seq <= Len(log) /\ state.seq <= Len(log')
        BY <1>2, <1>5, <2>1 DEF n
      <3>2. \A i \in 1..state.seq : log'[i] = log[i]
        BY <1>2, <1>5, <2>1
      <3>3. log \in Seq(Event) /\ log' \in Seq(Event)
        BY <1>2, <1>5
      <3> QED BY <2>1, <3>1, <3>2, <3>3, SliceSame
    <2>3. Replay(state.seq)' = Replay(state.seq)
      BY <1>4, <2>2 DEF Replay
    <2>4. state.seq > 0 => truthAt'[state.seq] = truthAt[state.seq]
      BY <1>2, <1>6, <2>1
    <2>5. ForegroundTrue(state)'
      BY <1>1, <1>4, <2>4 DEF Good, ForegroundTrue
    <2>6. CountCovers(state)'
      <3>1. SUFFICES ASSUME ~state.ended, state.fg = "stopped", state.certified
                     PROVE  Cardinality(truthAt'[state.seq] .jobs \ state.jobs) <= state.anonymous
        BY <1>4 DEF CountCovers
      <3>2. state.seq > 0
        BY <1>1, <3>1 DEF Good, ForegroundTrue
      <3> QED BY <1>1, <2>4, <3>1, <3>2 DEF Good, CountCovers
    <2>7. state'.seq \in 0..Len(log')
      BY <1>2, <1>4, <1>5, <2>1
    <2>8. ClearIsEmpty(state)'
      BY <1>1, <1>4 DEF Good, ClearIsEmpty
    <2>9. Replay(state.seq)' \in LifecycleState /\ Applied(state)' = Applied(Replay(state.seq))'
      <3>1. Applied(Replay(state.seq))' = Applied(Replay(state.seq))
        BY <2>3 DEF Applied
      <3>2. Applied(state)' = Applied(state)
        BY <1>4 DEF Applied
      <3> QED BY <1>1, <2>3, <3>1, <3>2 DEF Good
    <2> QED BY <1>1, <1>4, <2>1, <2>5, <2>6, <2>7, <2>8, <2>9 DEF Good
  <1>12. Accounted(state, received)'
    <2>1. \A i \in received : log'[i] = log[i]
      BY <1>1, <1>5 DEF TypeOK, n
    <2>2. {log'[i] : i \in {k \in received : k > state.seq}}
            = {log[i] : i \in {k \in received : k > state.seq}}
      BY <2>1
    <2> QED BY <1>1, <1>4, <2>2 DEF Accounted
  <1>13. ChangeUnfreshens' /\ (state.gap <=> state.pending # {})'
    BY <1>1, <1>4 DEF ChangeUnfreshens
  <1> QED BY <1>9, <1>10, <1>11, <1>12, <1>13 DEF IInv

LEMMA ReportedIInv ==
  ASSUME IInv,
         Registers \/ TurnStarts \/ TurnStops \/ Snapshots \/ Ends
         \/ \E j \in Jobs : JobStarts(j) \/ JobStops(j)
  PROVE  IInv'
  <1>1. /\ truth \in Truth /\ truth.jobs \in SUBSET Jobs
        /\ log # <<>> => Drifted(truthAt[Len(log)], truth)
    BY DEF IInv, TypeOK, LogTells, Truth
  <1>2. "null" \in {"true", "false", "null"} /\ NoJob \in Jobs \union {NoJob} /\ 0 \in Nat
    OBVIOUS
  <1> DEFINE was == truthAt[Len(log)]
  <1>3. CASE Registers
    <2> DEFINE now == [truth EXCEPT !.alive = TRUE]
    <2>1. now \in Truth /\ now.fg = truth.fg /\ now.jobs = truth.jobs
      BY <1>1 DEF Truth
    <2> HIDE DEF now
    <2>2. ASSUME log # <<>>, NEW e \in Event, e.type = "session.register"
          PROVE  FollowsTruth(was, e, now)
      BY <1>1, <2>1, <2>2 DEF FollowsTruth, Drifted
    <2>3. Emit("session.register", NoJob, "null", 0, now)
      BY <1>3 DEF Registers, now
    <2>5. Reports("session.register", NoJob, "null", 0, now)
      BY <2>2 DEF Reports
    <2>6. "session.register" \in EventType
      BY DEF EventType
    <2> QED BY <1>2, <2>1, <2>3, <2>5, <2>6, EmitIInv
  <1>4. CASE TurnStarts
    <2> DEFINE now == [truth EXCEPT !.fg = "running"]
    <2>1. now \in Truth /\ now.fg = "running" /\ now.jobs = truth.jobs
      BY <1>1 DEF Truth
    <2> HIDE DEF now
    <2>2. ASSUME log # <<>>, NEW e \in Event, e.type = "turn.start"
          PROVE  FollowsTruth(was, e, now)
      BY <1>1, <2>1, <2>2 DEF FollowsTruth, Drifted
    <2>3. Emit("turn.start", NoJob, "null", 0, now)
      BY <1>4 DEF TurnStarts, now
    <2>5. Reports("turn.start", NoJob, "null", 0, now)
      BY <2>2 DEF Reports
    <2>6. "turn.start" \in EventType
      BY DEF EventType
    <2> QED BY <1>2, <2>1, <2>3, <2>5, <2>6, EmitIInv
  <1>5. CASE TurnStops
    <2> DEFINE now == [truth EXCEPT !.fg = "stopped"]
    <2>1. now \in Truth /\ now.fg = "stopped" /\ now.jobs = truth.jobs
      BY <1>1 DEF Truth
    <2>2. PICK active \in {"null", IF truth.jobs = {} THEN "false" ELSE "true"} :
            Emit("turn.stop", NoJob, active, 0, now)
      BY <1>5 DEF TurnStops
    <2> HIDE DEF now
    <2>3. active \in {"true", "false", "null"} /\ (active = "false" => truth.jobs = {})
      OBVIOUS
    <2>4. ASSUME log # <<>>, NEW e \in Event, e.type = "turn.stop", e.active = active
          PROVE  FollowsTruth(was, e, now)
      BY <1>1, <2>1, <2>3, <2>4 DEF FollowsTruth, Drifted
    <2>5. Reports("turn.stop", NoJob, active, 0, now)
      BY <2>4 DEF Reports
    <2>6. "turn.stop" \in EventType
      BY DEF EventType
    <2> QED BY <1>2, <2>1, <2>2, <2>3, <2>5, <2>6, EmitIInv
  <1>6. CASE Snapshots
    <2>1. Cardinality(truth.jobs) \in Nat
      BY <1>1, JobsAssumption, FS_Subset, FS_CardinalityType
    <2>2. ASSUME log # <<>>, NEW e \in Event, e.type = "background.snapshot",
                 e.count = Cardinality(truth.jobs)
          PROVE  FollowsTruth(was, e, truth)
      BY <1>1, <2>2 DEF FollowsTruth, Drifted
    <2>3. Emit("background.snapshot", NoJob, "null", Cardinality(truth.jobs), truth)
      BY <1>6 DEF Snapshots
    <2>5. Reports("background.snapshot", NoJob, "null", Cardinality(truth.jobs), truth)
      BY <2>2 DEF Reports
    <2>6. "background.snapshot" \in EventType
      BY DEF EventType
    <2> QED BY <1>1, <1>2, <2>1, <2>3, <2>5, <2>6, EmitIInv
  <1>7. CASE Ends
    <2> DEFINE now == [fg |-> "stopped", jobs |-> {}, alive |-> FALSE]
    <2>1. now \in Truth /\ now.fg = "stopped" /\ now.jobs = {}
      BY DEF Truth
    <2> HIDE DEF now
    <2>2. ASSUME log # <<>>, NEW e \in Event, e.type = "session.end"
          PROVE  FollowsTruth(was, e, now)
      BY <1>1, <2>1, <2>2 DEF FollowsTruth, Drifted
    <2>3. Emit("session.end", NoJob, "null", 0, now)
      BY <1>7 DEF Ends, now
    <2>5. Reports("session.end", NoJob, "null", 0, now)
      BY <2>2 DEF Reports
    <2>6. "session.end" \in EventType
      BY DEF EventType
    <2> QED BY <1>2, <2>1, <2>3, <2>5, <2>6, EmitIInv
  <1>8. ASSUME NEW j \in Jobs, JobStarts(j) PROVE IInv'
    <2> DEFINE now == [truth EXCEPT !.jobs = @ \union {j}]
    <2>1. now \in Truth /\ now.fg = truth.fg /\ now.jobs = truth.jobs \union {j}
      BY <1>1 DEF Truth
    <2>3. Emit("background.start", j, "null", 0, now)
      BY <1>8 DEF JobStarts
    <2> HIDE DEF now
    <2>2. ASSUME log # <<>>, NEW e \in Event, e.type = "background.start", e.job = j
          PROVE  FollowsTruth(was, e, now)
      BY <1>1, <2>1, <2>2 DEF FollowsTruth, Drifted
    <2>5. Reports("background.start", j, "null", 0, now)
      BY <2>2 DEF Reports
    <2>6. "background.start" \in EventType
      BY DEF EventType
    <2> QED BY <1>2, <2>1, <2>3, <2>5, <2>6, EmitIInv
  <1>9. ASSUME NEW j \in Jobs, JobStops(j) PROVE IInv'
    <2> DEFINE now == [truth EXCEPT !.jobs = @ \ {j}]
    <2>1. now \in Truth /\ now.fg = truth.fg /\ now.jobs = truth.jobs \ {j} /\ j \in truth.jobs
      BY <1>1, <1>9 DEF Truth, JobStops
    <2>3. Emit("background.stop", j, "null", 0, now)
      BY <1>9 DEF JobStops
    <2> HIDE DEF now
    <2>2. ASSUME log # <<>>, NEW e \in Event, e.type = "background.stop", e.job = j
          PROVE  FollowsTruth(was, e, now)
      BY <1>1, <2>1, <2>2 DEF FollowsTruth, Drifted
    <2>5. Reports("background.stop", j, "null", 0, now)
      BY <2>2 DEF Reports
    <2>6. "background.stop" \in EventType
      BY DEF EventType
    <2> QED BY <1>2, <2>1, <2>3, <2>5, <2>6, EmitIInv
  <1> QED BY <1>3, <1>4, <1>5, <1>6, <1>7, <1>8, <1>9

LEMMA UnreportedIInv ==
  ASSUME IInv, NEW j \in Jobs, JobStartsUnreported(j) \/ JobStopsUnreported(j)
  PROVE  IInv'
  <1>1. PICK jobs \in SUBSET Jobs :
          /\ Unreported(jobs)
          /\ truth.fg = "stopped" => jobs \subseteq truth.jobs
    BY DEF IInv, TypeOK, Truth, JobStartsUnreported, JobStopsUnreported
  <1>2. truth' = [truth EXCEPT !.jobs = jobs] /\ truth \in Truth
    BY <1>1 DEF Unreported, IInv, TypeOK
  <1>3. truth' \in Truth /\ truth'.fg = truth.fg /\ truth'.jobs = jobs
    BY <1>2 DEF Truth
  <1>4. UNCHANGED <<log, truthAt, received, state, base, paneGone, disconnects>>
    BY <1>1 DEF Unreported
  <1>5. log # <<>> => Drifted(truthAt[Len(log)], truth)'
    <2>1. log # <<>> => Drifted(truthAt[Len(log)], truth)
      BY DEF IInv, LogTells
    <2> QED BY <1>1, <1>3, <1>4, <2>1 DEF Drifted
  <1>6. TypeOK'
    BY <1>3, <1>4 DEF IInv, TypeOK
  <1>7. LogTells'
    BY <1>4, <1>5 DEF IInv, LogTells
  <1>8. Good(state)'
    BY <1>4 DEF IInv, Good, ClearIsEmpty, ForegroundTrue, CountCovers, Replay, Applied
  <1>9. Accounted(state, received)' /\ ChangeUnfreshens' /\ (state.gap <=> state.pending # {})'
    BY <1>4 DEF IInv, Accounted, ChangeUnfreshens
  <1> QED BY <1>6, <1>7, <1>8, <1>9 DEF IInv

LEMMA ReduceKeeps ==
  ASSUME IInv, NEW i \in 1..Len(log)
  PROVE  LET s == ReduceEvent(state, log[i])
         IN  /\ Good(s) /\ Accounted(s, received \union {i}) /\ (s.gap <=> s.pending # {})
             /\ s.seq >= state.seq /\ (s.seq = state.seq => s.fgFresh = state.fgFresh)
  <1> DEFINE e == log[i]
             s == ReduceEvent(state, log[i])
             arrived == received \union {i}
  <1>1. /\ TypeOK /\ LogTells /\ Good(state) /\ Accounted(state, received)
        /\ (state.gap <=> state.pending # {})
    BY DEF IInv
  <1>2. /\ state \in LifecycleState /\ state.seq \in Nat /\ Len(log) \in Nat
        /\ received \in SUBSET (1..Len(log)) /\ i \in Nat /\ i <= Len(log)
        /\ arrived \in SUBSET (1..Len(log))
    BY <1>1 DEF TypeOK, LifecycleState
  <1>3. e \in Event /\ e.seq = i
    BY <1>1, <1>2 DEF TypeOK, LogTells
  <1>4. Waits(state, received) /\ 1..state.seq \subseteq received /\ state.seq + 1 \notin received
    BY <1>1 DEF Accounted, Waits
  <1> HIDE DEF e, s, arrived
  <1>5. Stale(state, e) <=> i <= state.seq \/ i \in received
    <2>1. Buffered(state, i) <=> i \in received /\ i > state.seq
      <3>1. i \in Int
        BY <1>2
      <3> QED BY <1>1, <1>2, <1>4, <3>1, BufferedIffWaits
    <2> QED BY <1>2, <1>3, <2>1 DEF Stale
  <1> USE DEF s, arrived
  <1>6. CASE Stale(state, e)
    <2>1. s = state
      BY <1>6 DEF ReduceEvent, e
    <2>2. i \in received
      BY <1>2, <1>4, <1>5, <1>6
    <2>3. arrived = received
      BY <2>2
    <2>4. state.seq >= state.seq
      BY <1>2
    <2> HIDE DEF s, arrived
    <2>5. /\ Good(s) /\ Accounted(s, arrived) /\ (s.gap <=> s.pending # {})
          /\ s.seq >= state.seq /\ (s.seq = state.seq => s.fgFresh = state.fgFresh)
      BY <1>1, <2>1, <2>3, <2>4
    <2> QED BY <2>5 DEF s, arrived
  <1>7. CASE ~Stale(state, e) /\ i > state.seq + 1
    <2> DEFINE p == state.pending \union {e}
               b == [state EXCEPT !.pending = p]
    <2>1. s = [b EXCEPT !.gap = TRUE]
      BY <1>3, <1>7 DEF ReduceEvent, e
    <2>2. p \in SUBSET Event /\ p # {}
      BY <1>2, <1>3 DEF LifecycleState
    <2>3. b.seq = state.seq /\ b.pending = p /\ b.fgFresh = state.fgFresh /\ b \in LifecycleState
      BY <1>2, <2>2 DEF LifecycleState
    <2> HIDE DEF p
    <2>4. Good(b)
      BY <1>1, <2>2, FrameKeeps
    <2> HIDE DEF b
    <2>5. Good(s)
      BY <2>1, <2>4, FrameKeeps
    <2>6. s.seq = state.seq /\ s.pending = p /\ s.gap /\ s.fgFresh = state.fgFresh
      BY <2>1, <2>3 DEF LifecycleState
    <2> HIDE DEF s
    <2>7. Accounted(s, arrived)
      <3>1. p = {log[k] : k \in {l \in arrived : l > state.seq}}
        <4>1. i > state.seq
          BY <1>2, <1>7
        <4>2. state.pending = {log[k] : k \in {l \in received : l > state.seq}}
          BY <1>4 DEF Waits
        <4> QED BY <4>1, <4>2 DEF p, e
      <3>2. state.seq + 1 \notin arrived
        BY <1>2, <1>4, <1>7
      <3> QED BY <1>4, <2>6, <3>1, <3>2 DEF Accounted
    <2> QED BY <1>2, <2>2, <2>5, <2>6, <2>7 DEF s
  <1>8. CASE ~Stale(state, e) /\ ~(i > state.seq + 1)
    <2> DEFINE t == ApplyContiguous(state, e)
               d == Drain(t)
    <2>1. i = state.seq + 1 /\ i \notin received
      BY <1>2, <1>5, <1>8
    <2>2. s = [d EXCEPT !.gap = d.pending # {}]
      BY <1>3, <1>8 DEF ReduceEvent, e
    <2>3. Good(t) /\ t.seq = i /\ t.pending = state.pending
      BY <1>1, <1>2, <2>1, ApplyKeeps DEF e
    <2> HIDE DEF t
    <2>4. Waits(t, arrived)
      <3>1. {k \in arrived : k > t.seq} = {k \in received : k > state.seq}
        <4>1. \A k \in received : k > state.seq <=> k > i
          BY <1>2, <1>4, <2>1
        <4> QED BY <2>1, <2>3, <4>1
      <3> QED BY <1>4, <2>3, <3>1 DEF Waits
    <2>5. 1..t.seq \subseteq arrived
      BY <1>2, <1>4, <2>1, <2>3
    <2>6. Good(d) /\ Accounted(d, arrived) /\ d.seq >= t.seq
      BY <1>1, <1>2, <2>3, <2>4, <2>5, DrainKeeps
    <2> HIDE DEF d
    <2>7. PICK g \in BOOLEAN : g = (d.pending # {})
      OBVIOUS
    <2>8. s = [d EXCEPT !.gap = g]
      BY <2>2, <2>7
    <2>9. d \in LifecycleState
      BY <2>6 DEF Good
    <2>10. s.seq = d.seq /\ s.pending = d.pending /\ s.gap = g
      BY <2>8, <2>9 DEF LifecycleState
    <2>11. Good(s)
      BY <2>6, <2>8, FrameKeeps
    <2> HIDE DEF s
    <2>12. Accounted(s, arrived)
      BY <2>6, <2>10 DEF Accounted
    <2>13. s.seq > state.seq /\ s.seq >= state.seq /\ s.seq # state.seq
      BY <1>2, <2>1, <2>3, <2>6, <2>9, <2>10 DEF LifecycleState
    <2> QED BY <2>7, <2>10, <2>11, <2>12, <2>13 DEF s
  <1> QED BY <1>6, <1>7, <1>8

LEMMA ReceivesIInv ==
  ASSUME IInv, NEW i \in 1..Len(log), Receives(i)
  PROVE  IInv'
  <1>1. /\ state' = ReduceEvent(state, log[i]) /\ received' = received \union {i}
        /\ UNCHANGED <<truth, log, truthAt, base, paneGone, disconnects>>
    BY DEF Receives
  <1>2. /\ Good(state') /\ Accounted(state', received') /\ (state'.gap <=> state'.pending # {})
        /\ state'.seq >= state.seq /\ (state'.seq = state.seq => state'.fgFresh = state.fgFresh)
    BY <1>1, ReduceKeeps
  <1>3. /\ TypeOK /\ LogTells /\ ChangeUnfreshens /\ base.seq <= state.seq
        /\ state.seq \in Nat /\ base.seq \in Nat
    BY DEF IInv, Good, TypeOK, LifecycleState
  <1>4. state' \in LifecycleState
    BY <1>2 DEF Good
  <1>5. TypeOK'
    BY <1>1, <1>3, <1>4 DEF TypeOK
  <1>6. LogTells'
    BY <1>1, <1>3 DEF LogTells
  <1>7. Good(state)'
    BY <1>1, <1>2 DEF Good, ClearIsEmpty, ForegroundTrue, CountCovers, Replay, Applied
  <1>8. Accounted(state, received)'
    BY <1>1, <1>2 DEF Accounted
  <1>9. ChangeUnfreshens'
    <2>1. SUFFICES ASSUME disconnects > 0, state'.seq = base.seq PROVE ~state'.fgFresh
      BY <1>1 DEF ChangeUnfreshens
    <2>2. state'.seq = state.seq
      BY <1>2, <1>3, <2>1
    <2> QED BY <1>2, <1>3, <2>1, <2>2 DEF ChangeUnfreshens
  <1> QED BY <1>2, <1>5, <1>6, <1>7, <1>8, <1>9 DEF IInv

LEMMA PaneObservedIInv ==
  ASSUME IInv, NEW gone \in BOOLEAN, PaneObserved(gone)
  PROVE  IInv'
  <1>1. /\ TypeOK /\ LogTells /\ Good(state) /\ ChangeUnfreshens /\ state \in LifecycleState
        /\ Accounted(state, received) /\ (state.gap <=> state.pending # {})
    BY DEF IInv, Good
  <1>2. /\ UNCHANGED <<truth, log, truthAt, received, base, disconnects>> /\ paneGone' = gone
    BY DEF PaneObserved
  <1>3. PICK g \in BOOLEAN : g = (state.ended \/ gone)
    OBVIOUS
  <1>4. state' = [state EXCEPT !.gone = g]
    BY <1>3 DEF PaneObserved, ObserveGone
  <1>5. /\ state' \in LifecycleState /\ state'.seq = state.seq /\ state'.fg = state.fg
        /\ state'.bg = state.bg /\ state'.certified = state.certified
        /\ state'.jobs = state.jobs /\ state'.anonymous = state.anonymous
        /\ state'.ended = state.ended /\ state'.bgFresh = state.bgFresh
        /\ state'.fgFresh = state.fgFresh /\ state'.pending = state.pending
        /\ state'.gap = state.gap /\ state'.gone = g
    BY <1>1, <1>4 DEF LifecycleState
  <1>6. Applied(state') = Applied(state)
    BY <1>1, <1>4 DEF LifecycleState, Applied
  <1>7. TypeOK'
    BY <1>1, <1>2, <1>5 DEF TypeOK
  <1>8. LogTells'
    BY <1>1, <1>2 DEF LogTells
  <1>9. Good(state)'
    <2>1. /\ ClearIsEmpty(state)' /\ ForegroundTrue(state)' /\ CountCovers(state)'
      BY <1>1, <1>2, <1>5 DEF Good, ClearIsEmpty, ForegroundTrue, CountCovers
    <2>2. Replay(state.seq)' = Replay(state.seq)
      BY <1>2, <1>5 DEF Replay
    <2>3. Applied(state)' = Applied(Replay(state.seq))' /\ Replay(state.seq)' \in LifecycleState
      <3>1. Applied(state)' = Applied(state)
        BY <1>6 DEF Applied
      <3>2. Applied(Replay(state.seq))' = Applied(Replay(state.seq))
        BY <2>2 DEF Applied
      <3> QED BY <1>1, <2>2, <3>1, <3>2 DEF Good
    <2>4. state'.gone <=> state'.ended \/ paneGone'
      BY <1>2, <1>3, <1>5
    <2> QED BY <1>1, <1>2, <1>5, <2>1, <2>3, <2>4 DEF Good
  <1>10. Accounted(state, received)' /\ ChangeUnfreshens' /\ (state.gap <=> state.pending # {})'
    BY <1>1, <1>2, <1>5 DEF Accounted, ChangeUnfreshens
  <1> QED BY <1>7, <1>8, <1>9, <1>10 DEF IInv

LEMMA ConnectionObservedIInv ==
  ASSUME IInv, NEW c \in BOOLEAN, ConnectionObserved(c)
  PROVE  IInv'
  <1>1. /\ TypeOK /\ LogTells /\ Good(state) /\ ChangeUnfreshens /\ state \in LifecycleState
        /\ Accounted(state, received) /\ (state.gap <=> state.pending # {})
        /\ MaxDisconnects \in Nat /\ disconnects \in 0..MaxDisconnects
        /\ state.seq \in Nat /\ state.seq <= Len(log) /\ Len(log) \in Nat
    BY ReplayBounds DEF IInv, Good, TypeOK
  <1>2. /\ UNCHANGED <<truth, log, truthAt, received, paneGone>>
        /\ disconnects' = disconnects + 1 /\ disconnects < MaxDisconnects
        /\ state' = [state EXCEPT !.connected = c, !.fgFresh = FALSE, !.bgFresh = FALSE,
                                  !.certified = FALSE]
        /\ base' = Applied(state')
    BY DEF ConnectionObserved, SetAdapterConnected
  <1>3. /\ state' \in LifecycleState /\ state'.seq = state.seq /\ state'.fg = state.fg
        /\ ~state'.certified /\ ~state'.fgFresh /\ ~state'.bgFresh
        /\ state'.ended = state.ended /\ state'.gone = state.gone
        /\ state'.pending = state.pending /\ state'.gap = state.gap
    BY <1>1, <1>2 DEF LifecycleState
  <1>4. base' \in LifecycleState /\ base'.seq = state.seq /\ Applied(base') = base'
    <2>1. ASSUME NEW s \in LifecycleState
          PROVE  /\ Applied(s) \in LifecycleState /\ Applied(s).seq = s.seq
                 /\ Applied(Applied(s)) = Applied(s)
      BY DEF Applied, LifecycleState
    <2> QED BY <1>2, <1>3, <2>1
  <1>5. TypeOK'
    <2>1. disconnects' \in 0..MaxDisconnects
      BY <1>1, <1>2
    <2> QED BY <1>1, <1>2, <1>3, <1>4, <2>1 DEF TypeOK
  <1>6. LogTells'
    BY <1>1, <1>2 DEF LogTells
  <1>7. Replay(state.seq)' = base'
    <2>1. Len(SubSeq(log, state.seq + 1, state.seq)) = 0
      BY <1>1, Slice
    <2>2. ApplyAll(base', SubSeq(log, state.seq + 1, state.seq)) = base'
      BY <2>1, ApplyNone
    <2> QED BY <1>2, <1>3, <1>4, <2>2 DEF Replay
  <1>8. Good(state)'
    <2>1. ForegroundTrue(state)'
      BY <1>1, <1>2, <1>3 DEF Good, ForegroundTrue
    <2>2. ClearIsEmpty(state)' /\ CountCovers(state)'
      BY <1>3 DEF ClearIsEmpty, CountCovers
    <2>3. Applied(state)' = Applied(Replay(state.seq))'
      <3>1. Applied(state)' = base'
        BY <1>2 DEF Applied
      <3>2. Applied(Replay(state.seq))' = Applied(base')
        BY <1>7 DEF Applied
      <3> QED BY <1>4, <3>1, <3>2
    <2>4. state'.seq \in 0..Len(log') /\ base'.seq <= state'.seq
      BY <1>1, <1>2, <1>3, <1>4
    <2>5. state'.gone <=> state'.ended \/ paneGone'
      BY <1>1, <1>2, <1>3 DEF Good
    <2> QED BY <1>3, <1>4, <1>7, <2>1, <2>2, <2>3, <2>4, <2>5 DEF Good
  <1>9. Accounted(state, received)'
    <2>1. log' = log /\ received' = received
      BY <1>2
    <2> QED BY <1>1, <1>3, <2>1 DEF Accounted
  <1>10. ChangeUnfreshens' /\ (state.gap <=> state.pending # {})'
    BY <1>1, <1>3 DEF ChangeUnfreshens
  <1> QED BY <1>5, <1>6, <1>8, <1>9, <1>10 DEF IInv

-----------------------------------------------------------------------------
LEMMA Invariance == Spec => []IInv
  <1>1. ASSUME IInv, [Next]_vars PROVE IInv'
    <2>1. CASE UNCHANGED vars
      <3>1. /\ truth' = truth /\ log' = log /\ truthAt' = truthAt /\ received' = received
            /\ state' = state /\ base' = base /\ paneGone' = paneGone
            /\ disconnects' = disconnects
        BY <2>1 DEF vars
      <3>2. TypeOK' /\ LogTells'
        BY <1>1, <3>1 DEF IInv, TypeOK, LogTells
      <3>3. Good(state)'
        BY <1>1, <3>1 DEF IInv, Good, ClearIsEmpty, ForegroundTrue, CountCovers, Replay, Applied
      <3>4. Accounted(state, received)' /\ ChangeUnfreshens'
        BY <1>1, <3>1 DEF IInv, Accounted, ChangeUnfreshens
      <3> QED BY <1>1, <3>1, <3>2, <3>3, <3>4 DEF IInv
    <2>2. CASE Registers \/ TurnStarts \/ TurnStops \/ Snapshots \/ Ends
      BY <1>1, <2>2, ReportedIInv
    <2>3. ASSUME NEW j \in Jobs,
                 JobStarts(j) \/ JobStops(j) \/ JobStartsUnreported(j) \/ JobStopsUnreported(j)
          PROVE  IInv'
      BY <1>1, <2>3, ReportedIInv, UnreportedIInv
    <2>4. ASSUME NEW i \in 1..Len(log), Receives(i) PROVE IInv'
      BY <1>1, <2>4, ReceivesIInv
    <2>5. ASSUME NEW b \in BOOLEAN, PaneObserved(b) \/ ConnectionObserved(b) PROVE IInv'
      BY <1>1, <2>5, PaneObservedIInv, ConnectionObservedIInv
    <2> QED BY <1>1, <2>1, <2>2, <2>3, <2>4, <2>5 DEF Next
  <1> QED BY InitIInv, <1>1, PTL DEF Spec

(* Type correctness: the reducer's state stays a lifecycle state whatever arrives.    *)
THEOREM TypeCorrect == Spec => []TypeOK
  <1>1. IInv => TypeOK
    BY DEF IInv
  <1> QED BY <1>1, Invariance, PTL

(* QuiescentIsTrue (reducer.py, _finish over _apply_contiguous and set_adapter_       *)
(* connected): a session called quiescent had stopped with no job running at the last  *)
(* event that arrived, whatever was reordered, repeated, hidden or disconnected.       *)
THEOREM QuiescenceIsHonest == Spec => []QuiescentIsTrue
  <1>1. IInv => QuiescentIsTrue
    <2>1. SUFFICES ASSUME IInv, Availability(state) = "quiescent"
                   PROVE  /\ \A i \in received : i <= state.seq
                          /\ truthAt[state.seq].fg = "stopped"
                          /\ truthAt[state.seq].jobs = {}
                          /\ disconnects > 0 => state.seq > base.seq
      BY DEF QuiescentIsTrue
    <2>2. /\ TypeOK /\ Good(state) /\ ChangeUnfreshens /\ Accounted(state, received)
          /\ (state.gap <=> state.pending # {}) /\ state \in LifecycleState
      BY <2>1 DEF IInv, Good
    <2>3. /\ ~state.ended /\ ~state.gone /\ ~state.gap /\ state.fg = "stopped"
          /\ state.fgFresh /\ state.bg = "clear" /\ state.bgFresh
      BY <2>1, <2>2 DEF Availability, DeriveAvailability, LifecycleState
    <2>4. \A i \in received : i <= state.seq
      <3>1. \A i \in received : i \in Nat
        BY <2>2 DEF TypeOK
      <3>2. \A i \in received : ~(i > state.seq)
        BY <2>2, <2>3 DEF Accounted
      <3>3. state.seq \in Nat
        BY <2>2 DEF LifecycleState
      <3> QED BY <3>1, <3>2, <3>3
    <2>5. state.seq > 0 /\ truthAt[state.seq].fg = "stopped"
      BY <2>2, <2>3 DEF Good, ForegroundTrue
    <2>6. state.certified /\ state.jobs = {} /\ state.anonymous = 0
      BY <2>2, <2>3 DEF Good, ClearIsEmpty
    <2>7. truthAt[state.seq].jobs = {}
      <3>1. state.seq \in 1..Len(truthAt)
        BY <2>2, <2>5 DEF Good, TypeOK
      <3>2. truthAt[state.seq].jobs \in SUBSET Jobs
        <4>1. truthAt[state.seq] \in Truth
          BY <2>2, <3>1, ElementOfSeq DEF TypeOK
        <4> QED BY <4>1 DEF Truth
      <3>3. Cardinality(truthAt[state.seq].jobs \ {}) <= 0
        BY <2>2, <2>3, <2>6 DEF Good, CountCovers
      <3>4. truthAt[state.seq].jobs \ {} = truthAt[state.seq].jobs
        OBVIOUS
      <3>5. /\ IsFiniteSet(truthAt[state.seq].jobs)
            /\ Cardinality(truthAt[state.seq].jobs) \in Nat
        BY <3>2, JobsAssumption, FS_Subset, FS_CardinalityType
      <3>6. Cardinality(truthAt[state.seq].jobs) = 0
        BY <3>3, <3>4, <3>5
      <3> QED BY <3>5, <3>6, FS_EmptySet
    <2>8. disconnects > 0 => state.seq > base.seq
      BY <2>2, <2>3 DEF ChangeUnfreshens, Good, TypeOK, LifecycleState
    <2> QED BY <2>4, <2>5, <2>7, <2>8
  <1> QED BY <1>1, Invariance, PTL

(* CountNeverShort (reducer.py, active_count): between turns the count shown covers     *)
(* every job that ran at the event the state accounts for.                        *)
THEOREM CountIsHonest == Spec => []CountNeverShort
  <1>1. IInv => CountNeverShort
    <2>1. SUFFICES ASSUME IInv, Counted(state), state.fg = "stopped", state.seq > 0,
                          ~state.ended
                   PROVE  ActiveCount(state) >= Cardinality(truthAt[state.seq].jobs)
      BY DEF CountNeverShort
    <2> DEFINE T == truthAt[state.seq].jobs
               K == state.jobs
    <2>2. TypeOK /\ Good(state) /\ state \in LifecycleState /\ state.certified
      BY <2>1 DEF IInv, Good, Counted
    <2>3. state.seq \in 1..Len(truthAt)
      BY <2>1, <2>2 DEF Good, TypeOK
    <2>4. T \in SUBSET Jobs /\ K \in SUBSET Jobs /\ state.anonymous \in Nat
      <3>1. truthAt[state.seq] \in Truth
        BY <2>2, <2>3, ElementOfSeq DEF TypeOK
      <3> QED BY <2>2, <3>1 DEF Truth, LifecycleState
    <2>5. Cardinality(T \ K) <= state.anonymous
      BY <2>1, <2>2 DEF Good, CountCovers
    <2> HIDE DEF T, K
    <2>6. /\ IsFiniteSet(T) /\ IsFiniteSet(K) /\ IsFiniteSet(T \cap K) /\ IsFiniteSet(T \ K)
      BY <2>4, JobsAssumption, FS_Subset
    <2>7. /\ Cardinality(T) \in Nat /\ Cardinality(K) \in Nat
          /\ Cardinality(T \cap K) \in Nat /\ Cardinality(T \ K) \in Nat
      BY <2>6, FS_CardinalityType
    <2>8. Cardinality(T \ K) = Cardinality(T) - Cardinality(T \cap K)
      BY <2>6, FS_Difference
    <2>9. Cardinality(T \cap K) <= Cardinality(K)
      <3>1. T \cap K \in SUBSET K
        OBVIOUS
      <3> QED BY <2>6, <3>1, FS_Subset
    <2>10. Cardinality(K) + state.anonymous >= Cardinality(T)
      BY <2>4, <2>5, <2>7, <2>8, <2>9
    <2> QED BY <2>10 DEF ActiveCount, T, K
  <1> QED BY <1>1, Invariance, PTL

(* ArrivalOrderIrrelevant (reducer.py, reduce_event): whatever the order and the        *)
(* repetitions of arrival, the state is that of the events applied in order since the   *)
(* last connection change; the early ones wait, and none is lost.                       *)
THEOREM OrderDoesNotMatter == Spec => []ArrivalOrderIrrelevant
  <1>1. IInv => ArrivalOrderIrrelevant
    BY DEF IInv, Good, Accounted, Replay, ArrivalOrderIrrelevant
  <1> QED BY <1>1, Invariance, PTL

-----------------------------------------------------------------------------
(* The event store.                                                             *)

(* A report as the parser summarises it; a row of the projection; a legal one.          *)
LegalReport(r) ==
    \/ r.state \in {"missing", "malformed"} /\ r.verdict = "null"
    \/ r.state = "valid" /\ r.verdict \in Verdict

IsRow(row) ==
    row = [session |-> row.session, availability |-> row.availability, fg |-> row.fg,
           bg |-> row.bg, count |-> row.count, report |-> row.report,
           reason |-> row.reason, pane |-> row.pane]

LegalRow(row) ==
    IsRow(row) /\ <<row.report.state, row.report.verdict, row.reason>> \in ReportTuples

Sequence(f) == \E S : f \in Seq(S)

NothingReported ==
    /\ handoff = NoReport /\ projection.report = NoReport
    /\ \A i \in DOMAIN frozen : frozen[i].row.report = NoReport

StoreIInv ==
    /\ Sequence(order) /\ LegalReport(handoff)
    /\ handoff.state = "missing" => NothingReported
    /\ IF projection.session = NoSession THEN projection = NoProjection
       ELSE LegalRow(projection)
    /\ Sequence(frozen) /\ \A i \in DOMAIN frozen : LegalRow(frozen[i].row)
    /\ latest \in Nat /\ (latest = 0 <=> frozen = <<>>)
    /\ ActionableIsTold

LEMMA ReasonIsLegal ==
  ASSUME NEW r, LegalReport(r), NEW a
  PROVE  /\ <<r.state, r.verdict, ActionableReason(a, r)>> \in ReportTuples
         /\ ActionableReason(a, r) = "missing-report" => r.state = "missing"
         /\ r.state = "missing" => ActionableReason(a, r) = "missing-report"
  <1>1. CASE r.state = "missing" /\ r.verdict = "null"
    BY <1>1 DEF ActionableReason, ReportTuples
  <1>2. CASE r.state = "malformed" /\ r.verdict = "null"
    BY <1>2 DEF ActionableReason, ReportTuples
  <1>3. CASE r.state = "valid" /\ r.verdict \in Verdict
    BY <1>3 DEF ActionableReason, ReportTuples, Verdict
  <1> QED BY <1>1, <1>2, <1>3 DEF LegalReport

LEMMA LegalRowReport ==
  ASSUME NEW row, LegalRow(row)
  PROVE  /\ LegalReport(row.report)
         /\ row.report.state = "missing" => row.reason = "missing-report"
  BY DEF LegalRow, LegalReport, ReportTuples, Verdict

LEMMA ObservedRowFields ==
  ASSUME NEW row, LegalRow(row), NEW st, NEW exists
  PROVE  LET o == ObservedRow(row, st, exists)
         IN  /\ LegalRow(o) /\ o.session = row.session /\ o.report = row.report
             /\ o.availability = Availability(st)
             /\ o.reason = ActionableReason(Availability(st), row.report)
  <1> DEFINE o == ObservedRow(row, st, exists)
             reason == ActionableReason(Availability(st), row.report)
  <1>1. PICK n : n = IF Counted(st) THEN ActiveCount(st) + 1 ELSE 0
    OBVIOUS
  <1>2. PICK p : p = IF exists = "unknown" THEN row.pane ELSE exists
    OBVIOUS
  <1>3. o = [row EXCEPT !.availability = Availability(st), !.fg = st.fg, !.bg = st.bg,
                        !.count = n, !.reason = reason, !.pane = p]
    BY <1>1, <1>2 DEF ObservedRow
  <1> HIDE DEF o, reason
  <1>4. /\ IsRow(o) /\ o.session = row.session /\ o.report = row.report
        /\ o.availability = Availability(st) /\ o.reason = reason
    BY <1>3 DEF LegalRow, IsRow
  <1>5. <<o.report.state, o.report.verdict, o.reason>> \in ReportTuples
    BY <1>4, LegalRowReport, ReasonIsLegal DEF reason
  <1> QED BY <1>4, <1>5 DEF LegalRow, o, reason

LEMMA ProjectionOfFields ==
  ASSUME NEW s, NEW st, NEW r, LegalReport(r)
  PROVE  LET o == ProjectionOf(s, st, r)
         IN  /\ LegalRow(o) /\ o.session = s /\ o.report = r
             /\ o.availability = Availability(st)
             /\ o.reason = ActionableReason(Availability(st), r)
  <1> DEFINE o == ProjectionOf(s, st, r)
  <1>1. PICK n : n = IF Counted(st) THEN ActiveCount(st) + 1 ELSE 0
    OBVIOUS
  <1>2. PICK reason : reason = ActionableReason(Availability(st), r)
    OBVIOUS
  <1>3. o = [session |-> s, availability |-> Availability(st), fg |-> st.fg,
             bg |-> st.bg, count |-> n, report |-> r, reason |-> reason, pane |-> "unset"]
    BY <1>1, <1>2 DEF ProjectionOf
  <1> HIDE DEF o
  <1>4. /\ IsRow(o) /\ o.session = s /\ o.report = r
        /\ o.availability = Availability(st) /\ o.reason = reason
    BY <1>3 DEF IsRow
  <1>5. <<o.report.state, o.report.verdict, o.reason>> \in ReportTuples
    BY <1>2, <1>4, ReasonIsLegal
  <1> QED BY <1>2, <1>4, <1>5 DEF LegalRow, o

(* The walk over the task's rows: what has been observed after each one.             *)
Walk(f, exists, n) ==
    f = [i \in 0..n |-> IF i = 0 THEN Ledger
                        ELSE ObserveRow(f[i - 1], order[i], exists)]

LEMMA WalksExist ==
  ASSUME NEW exists
  PROVE  \A n \in Nat : \E f : Walk(f, exists, n)
  <1> DEFINE T == {n \in Nat : \E f : Walk(f, exists, n)}
  <1>1. 0 \in T
    <2>1. Walk([i \in 0..0 |-> Ledger], exists, 0)
      BY DEF Walk
    <2> QED BY <2>1
  <1>2. ASSUME NEW n \in Nat, n \in T PROVE n + 1 \in T
    <2>1. PICK f : f = [i \in 0..n |-> IF i = 0 THEN Ledger
                                       ELSE ObserveRow(f[i - 1], order[i], exists)]
      BY <1>2 DEF Walk
    <2> DEFINE g == [i \in 0..(n + 1) |->
                       IF i = n + 1 THEN ObserveRow(f[n], order[n + 1], exists)
                       ELSE f[i]]
    <2>2. ASSUME NEW i \in 0..(n + 1)
          PROVE  g[i] = IF i = 0 THEN Ledger
                        ELSE ObserveRow(g[i - 1], order[i], exists)
      <3>1. CASE i = 0
        BY <2>1, <3>1
      <3>2. CASE i = n + 1
        BY <2>1, <3>2
      <3>3. CASE i \in 1..n
        <4>1. g[i] = f[i] /\ g[i - 1] = f[i - 1]
          BY <3>3
        <4>2. f[i] = ObserveRow(f[i - 1], order[i], exists)
          BY <2>1, <3>3
        <4> QED BY <3>3, <4>1, <4>2
      <3> QED BY <3>1, <3>2, <3>3
    <2>3. Walk(g, exists, n + 1)
      <3>1. g = [i \in 0..(n + 1) |-> g[i]]
        OBVIOUS
      <3> HIDE DEF g
      <3> QED BY <2>2, <3>1 DEF Walk
    <2> QED BY <2>3
  <1> HIDE DEF T
  <1>3. \A n \in Nat : n \in T
    BY <1>1, <1>2, Induct
  <1> QED BY <1>3 DEF T

LEMMA ObservedIsAWalk ==
  ASSUME NEW exists, Len(order) \in Nat
  PROVE  \E f : /\ f[0] = Ledger
                /\ \A i \in 0..(Len(order) - 1) :
                      f[i + 1] = ObserveRow(f[i], order[i + 1], exists)
                /\ Observed(exists) = f[Len(order)]
  <1> DEFINE g == CHOOSE f : Walk(f, exists, Len(order))
  <1>1. Walk(g, exists, Len(order))
    BY WalksExist
  <1>2. Observed(exists) = g[Len(order)]
    BY DEF Observed, Walk
  <1> HIDE DEF g
  <1>3. g = [i \in 0..Len(order) |-> IF i = 0 THEN Ledger
                                     ELSE ObserveRow(g[i - 1], order[i], exists)]
    BY <1>1 DEF Walk
  <1>4. g[0] = Ledger
    BY <1>3
  <1>5. ASSUME NEW i \in 0..(Len(order) - 1)
        PROVE  g[i + 1] = ObserveRow(g[i], order[i + 1], exists)
    <2>1. i + 1 \in 0..Len(order) /\ i + 1 # 0 /\ i + 1 - 1 = i
      OBVIOUS
    <2> QED BY <1>3, <2>1
  <1> QED BY <1>2, <1>4, <1>5

(* Untyped sequences: one more element, the last one, a sequence of one.               *)
LEMMA OneMore ==
  ASSUME NEW f, Sequence(f), NEW x
  PROVE  /\ Sequence(Append(f, x)) /\ Append(f, x) # <<>>
         /\ Last(Append(f, x)) = x /\ Len(f) \in Nat /\ Len(Append(f, x)) = Len(f) + 1
         /\ \A i \in DOMAIN Append(f, x) : Append(f, x)[i] = x
                                           \/ (i \in DOMAIN f /\ Append(f, x)[i] = f[i])
  <1>1. PICK S : f \in Seq(S)
    BY DEF Sequence
  <1> DEFINE T == S \union {x}
             g == Append(f, x)
  <1>2. f \in Seq(T) /\ x \in T
    BY <1>1, SeqMonotonic
  <1>3. /\ g \in Seq(T) /\ g # <<>> /\ Len(g) = Len(f) + 1
        /\ \A i \in 1..Len(f) : g[i] = f[i]
        /\ g[Len(f) + 1] = x
    BY <1>2, AppendProperties
  <1> HIDE DEF g, T
  <1>4. Len(f) \in Nat /\ DOMAIN f = 1..Len(f) /\ DOMAIN g = 1..Len(g)
    BY <1>2, <1>3
  <1>5. Last(g) = x
    BY <1>3 DEF Last
  <1>6. ASSUME NEW i \in DOMAIN g PROVE g[i] = x \/ (i \in DOMAIN f /\ g[i] = f[i])
    BY <1>3, <1>4
  <1>7. Sequence(g)
    BY <1>3 DEF Sequence
  <1> QED BY <1>3, <1>4, <1>5, <1>6, <1>7 DEF g

LEMMA OfOne ==
  ASSUME NEW x
  PROVE  /\ Sequence(<<x>>) /\ <<x>> # <<>> /\ Last(<<x>>) = x /\ Len(<<x>>) = 1
         /\ \A i \in DOMAIN <<x>> : <<x>>[i] = x
  <1>1. <<x>> \in Seq({x})
    OBVIOUS
  <1>2. Len(<<x>>) = 1 /\ <<x>>[1] = x /\ DOMAIN <<x>> = {1}
    OBVIOUS
  <1>3. Last(<<x>>) = x
    BY <1>2 DEF Last
  <1>4. Sequence(<<x>>)
    BY <1>1 DEF Sequence
  <1> QED BY <1>2, <1>3, <1>4

LEMMA OfNone == Sequence(<<>>) /\ Len(<<>>) = 0 /\ \A i \in DOMAIN <<>> : FALSE
  <1>1. <<>> \in Seq({})
    OBVIOUS
  <1> QED BY <1>1 DEF Sequence

LEMMA LengthTells ==
  ASSUME NEW f, Sequence(f)
  PROVE  Len(f) \in Nat /\ (Len(f) = 0 <=> f = <<>>)
  <1>1. PICK S : f \in Seq(S)
    BY DEF Sequence
  <1> QED BY <1>1

(* What every observed row keeps: legal rows of the same session and report, and the    *)
(* last news, when the reason is one, is what the projection shows.                   *)
LedgerKept(l) ==
    /\ l.projection.session = projection.session /\ l.projection.report = projection.report
    /\ IF projection.session = NoSession
       THEN l.projection = NoProjection /\ l.news = <<>>
       ELSE LegalRow(l.projection)
    /\ Sequence(l.news)
    /\ \A i \in DOMAIN l.news : /\ LegalRow(l.news[i].row)
                                /\ l.news[i].row.report = projection.report
    /\ l.projection.reason # "none" =>
         IF l.news = <<>> THEN l.projection.reason = projection.reason
         ELSE Last(l.news).row.reason = l.projection.reason
              /\ Last(l.news).row.report = projection.report

LEMMA ObserveRowKeeps ==
  ASSUME NEW l, LedgerKept(l), NEW s, NEW exists
  PROVE  LedgerKept(ObserveRow(l, s, exists))
  <1> DEFINE o == ObserveRow(l, s, exists)
  <1>1. PICK st : st = ObservedState(l.sessions[s], exists)
    OBVIOUS
  <1>2. CASE projection.session = NoSession
    <2>1. l.projection = NoProjection /\ l.news = <<>>
      BY <1>2 DEF LedgerKept
    <2>2. l.projection.session = NoSession /\ l.projection.reason = "none"
      BY <2>1 DEF NoProjection
    <2>3. o.projection = l.projection /\ o.news = l.news
      BY <1>1, <2>2 DEF ObserveRow
    <2> HIDE DEF o
    <2>4. LedgerKept(o)
      BY <1>2, <2>1, <2>2, <2>3 DEF LedgerKept
    <2> QED BY <2>4 DEF o
  <1>3. CASE projection.session # NoSession
    <2> DEFINE row == ObservedRow(l.projection, st, exists)
               x == Freeze(row.reason, row)
    <2>1. /\ l.projection.session # NoSession /\ LegalRow(l.projection)
          /\ l.projection.session = projection.session
          /\ l.projection.report = projection.report /\ Sequence(l.news)
      BY <1>3 DEF LedgerKept
    <2>2. LegalRow(row) /\ row.session = projection.session /\ row.report = projection.report
      BY <2>1, ObservedRowFields
    <2>3. /\ o.projection = row
          /\ o.news = IF row.reason \notin {"none", l.projection.reason}
                      THEN Append(l.news, x) ELSE l.news
      BY <1>1, <2>1 DEF ObserveRow
    <2> HIDE DEF row
    <2>4. x.row = row
      BY DEF Freeze
    <2> HIDE DEF o, x
    <2>5. CASE row.reason \notin {"none", l.projection.reason}
      <3>1. o.news = Append(l.news, x)
        BY <2>3, <2>5
      <3>2. Sequence(o.news) /\ o.news # <<>> /\ Last(o.news) = x
        BY <2>1, <3>1, OneMore
      <3>3. ASSUME NEW i \in DOMAIN o.news
            PROVE  LegalRow(o.news[i].row) /\ o.news[i].row.report = projection.report
        <4>1. o.news[i] = x \/ (i \in DOMAIN l.news /\ o.news[i] = l.news[i])
          BY <2>1, <3>1, OneMore
        <4> QED BY <2>2, <2>4, <4>1 DEF LedgerKept
      <3> QED BY <1>3, <2>2, <2>3, <2>4, <3>2, <3>3 DEF LedgerKept, o
    <2>6. CASE row.reason \in {"none", l.projection.reason}
      <3>1. o.news = l.news
        BY <2>3, <2>6
      <3> QED BY <1>3, <2>1, <2>2, <2>3, <2>6, <3>1 DEF LedgerKept, o
    <2> QED BY <2>5, <2>6
  <1> QED BY <1>2, <1>3

LEMMA ObservedKeeps ==
  ASSUME NEW exists, StoreIInv
  PROVE  LedgerKept(Observed(exists))
  <1>1. Len(order) \in Nat
    BY LengthTells DEF StoreIInv
  <1>2. PICK f : /\ f[0] = Ledger
                 /\ \A i \in 0..(Len(order) - 1) :
                       f[i + 1] = ObserveRow(f[i], order[i + 1], exists)
                 /\ Observed(exists) = f[Len(order)]
    BY <1>1, ObservedIsAWalk
  <1> DEFINE T == {n \in Nat : n <= Len(order) => LedgerKept(f[n])}
  <1>3. 0 \in T
    <2>1. /\ f[0].projection = projection /\ f[0].news = <<>>
      BY <1>2 DEF Ledger
    <2>2. LedgerKept(f[0])
      BY <2>1, OfNone DEF LedgerKept, StoreIInv, NoProjection
    <2> QED BY <2>2
  <1>4. ASSUME NEW n \in Nat, n \in T PROVE n + 1 \in T
    <2>1. SUFFICES ASSUME n + 1 <= Len(order) PROVE LedgerKept(f[n + 1])
      OBVIOUS
    <2>2. n \in 0..(Len(order) - 1) /\ n <= Len(order)
      BY <1>1, <2>1
    <2> QED BY <1>2, <1>4, <2>2, ObserveRowKeeps
  <1> HIDE DEF T
  <1>5. Len(order) \in T
    BY <1>1, <1>3, <1>4, Induct
  <1> QED BY <1>1, <1>2, <1>5 DEF T

LEMMA PublishKeeps ==
  ASSUME StoreIInv, NEW news, Sequence(news), Publish(news),
         \A i \in DOMAIN news : LegalRow(news[i].row)
  PROVE  /\ Sequence(frozen') /\ \A i \in DOMAIN frozen' : LegalRow(frozen'[i].row)
         /\ latest' \in Nat /\ (latest' = 0 <=> frozen' = <<>>)
         /\ IF news = <<>> THEN frozen' = frozen /\ latest' = latest
            ELSE frozen' = news /\ latest' # 0
  <1>1. /\ latest' = latest + Len(news) /\ frozen' = IF news = <<>> THEN frozen ELSE news
        /\ latest \in Nat /\ (latest = 0 <=> frozen = <<>>)
        /\ Sequence(frozen) /\ \A i \in DOMAIN frozen : LegalRow(frozen[i].row)
    BY DEF Publish, StoreIInv
  <1>2. Len(news) \in Nat /\ (Len(news) = 0 <=> news = <<>>)
    BY LengthTells
  <1> QED BY <1>1, <1>2

LEMMA AcceptKeeps ==
  ASSUME StoreIInv, NEW s \in Sessions, NEW e, Accept(s, e)
  PROVE  StoreIInv'
  <1> DEFINE st == ReduceEvent(sessions[s], e)
             known == s \in registered \/ e.type = "session.register"
             after == IF known THEN ProjectionOf(s, st, handoff) ELSE projection
             news == Announcements(s, e, after)
  <1>1. /\ Publish(news) /\ projection' = after /\ UNCHANGED <<harness, handoff>>
        /\ order' = order \/ order' = Append(order, s)
    BY DEF Accept
  <1>2. /\ LegalReport(handoff) /\ s # NoSession /\ Sequence(order)
        /\ (handoff.state = "missing" => NothingReported)
        /\ IF projection.session = NoSession THEN projection = NoProjection
           ELSE LegalRow(projection)
        /\ \A i \in DOMAIN frozen : LegalRow(frozen[i].row)
        /\ (latest = 0 <=> frozen = <<>>) /\ Sequence(frozen) /\ ActionableIsTold
    BY StoreBounds DEF StoreIInv
  <1>3. Sequence(order')
    BY <1>1, <1>2, OneMore
  <1>4. CASE ~known
    <2>1. after = projection
      BY <1>4
    <2>2. news = <<>>
      BY <1>4 DEF Announcements, CodexTurnReport, Projected
    <2> HIDE DEF after, news, known
    <2>3. frozen' = frozen /\ latest' = latest /\ projection' = projection
      BY <1>1, <2>1, <2>2, PublishKeeps, OfNone
    <2>4. harness' = harness /\ handoff' = handoff
      BY <1>1
    <2>5. ActionableIsTold'
      BY <1>2, <2>3, <2>4 DEF ActionableIsTold
    <2>6. (handoff.state = "missing" => NothingReported)'
      BY <1>2, <2>3, <2>4 DEF NothingReported
    <2> QED BY <1>3, <2>3, <2>4, <2>5, <2>6 DEF StoreIInv
  <1>5. CASE known
    <2>1. /\ LegalRow(after) /\ after.session = s /\ after.report = handoff
          /\ after.reason = ActionableReason(Availability(st), handoff)
      BY <1>2, <1>5, ProjectionOfFields
    <2> DEFINE x(r) == Freeze(r, after)
    <2>2. \A r : x(r).row = after
      BY DEF Freeze
    <2>3. \/ news = <<x("native-turn-ended-report")>>
          \/ news = <<x(after.reason)>>
          \/ news = <<>> /\ \/ after.reason = "none"
                            \/ after = projection
                            \/ StartupMissingReport(s, e, after)
      BY <1>2, <2>1 DEF Announcements
    <2> HIDE DEF after, news, known, x, st
    <2>4. /\ Sequence(news) /\ \A i \in DOMAIN news : news[i].row = after
          /\ news # <<>> => Last(news).row = after
      <3>1. CASE news = <<>>
        BY <3>1, OfNone
      <3>2. ASSUME NEW r, news = <<x(r)>>
            PROVE  /\ Sequence(news) /\ \A i \in DOMAIN news : news[i].row = after
                   /\ news # <<>> => Last(news).row = after
        BY <2>2, <3>2, OfOne
      <3> QED BY <2>3, <3>1, <3>2
    <2>5. /\ Sequence(frozen') /\ \A i \in DOMAIN frozen' : LegalRow(frozen'[i].row)
          /\ latest' \in Nat /\ (latest' = 0 <=> frozen' = <<>>)
          /\ IF news = <<>> THEN frozen' = frozen /\ latest' = latest
             ELSE frozen' = news /\ latest' # 0
      BY <1>1, <2>1, <2>4, PublishKeeps
    <2>6. harness' = harness /\ handoff' = handoff /\ projection' = after
      BY <1>1
    <2>7. (handoff.state = "missing" => NothingReported)'
      BY <1>2, <2>1, <2>4, <2>5, <2>6 DEF NothingReported
    <2>8. ActionableIsTold'
      <3>1. SUFFICES ASSUME after.reason # "none"
                     PROVE  \/ /\ frozen' # <<>>
                               /\ Last(frozen').row.reason = after.reason
                               /\ Last(frozen').row.report = after.report
                            \/ /\ latest' = 0
                               /\ after.reason = "missing-report"
                               /\ harness[after.session] \in {"pi", "codex"}
        BY <2>6 DEF ActionableIsTold
      <3>2. CASE news # <<>>
        BY <2>4, <2>5, <3>2
      <3>3. CASE news = <<>> /\ after = projection
        BY <1>2, <2>5, <3>1, <3>3 DEF ActionableIsTold
      <3>4. CASE news = <<>> /\ StartupMissingReport(s, e, after)
        <4>1. harness[s] \in {"pi", "codex"} /\ after.reason = "missing-report"
          BY <3>4 DEF StartupMissingReport
        <4>2. handoff.state = "missing"
          BY <1>2, <2>1, <4>1, ReasonIsLegal
        <4>3. CASE latest = 0
          BY <2>1, <2>5, <3>4, <4>1, <4>3
        <4>4. CASE latest # 0
          <5>1. frozen' = frozen /\ frozen # <<>>
            BY <1>2, <2>5, <3>4, <4>4
          <5>2. Len(frozen) \in DOMAIN frozen /\ Last(frozen) = frozen[Len(frozen)]
            <6>1. PICK S : frozen \in Seq(S)
              BY <1>2 DEF Sequence
            <6>2. Len(frozen) \in Nat /\ Len(frozen) # 0 /\ DOMAIN frozen = 1..Len(frozen)
              BY <5>1, <6>1
            <6> QED BY <6>2 DEF Last
          <5>3. Last(frozen).row.report = NoReport /\ LegalRow(Last(frozen).row)
            BY <1>2, <4>2, <5>2 DEF NothingReported
          <5>4. handoff = NoReport /\ NoReport.state = "missing"
            BY <1>2, <4>2 DEF NothingReported, NoReport
          <5>5. Last(frozen).row.reason = "missing-report"
            BY <5>3, <5>4, LegalRowReport
          <5> QED BY <2>1, <4>1, <5>1, <5>3, <5>4, <5>5
        <4> QED BY <4>3, <4>4
      <3>5. news = <<>> => after = projection \/ StartupMissingReport(s, e, after)
        <4>1. <<x("native-turn-ended-report")>> # <<>> /\ <<x(after.reason)>> # <<>>
          BY OfOne
        <4> QED BY <2>3, <3>1, <4>1
      <3> QED BY <3>2, <3>3, <3>4, <3>5
    <2> QED BY <1>2, <1>3, <2>1, <2>5, <2>6, <2>7, <2>8 DEF StoreIInv
  <1> QED BY <1>4, <1>5

LEMMA ReconcileKeeps ==
  ASSUME StoreIInv, NEW exists, ReconcileHerdrLiveness(exists)
  PROVE  StoreIInv'
  <1> DEFINE done == Observed(exists)
  <1>1. /\ Publish(done.news) /\ projection' = done.projection
        /\ harness' = harness /\ handoff' = handoff /\ order' = order
    BY DEF ReconcileHerdrLiveness
  <1>2. LedgerKept(done)
    BY ObservedKeeps
  <1> HIDE DEF done
  <1>3. /\ Sequence(order) /\ LegalReport(handoff)
        /\ (handoff.state = "missing" => NothingReported)
        /\ \A i \in DOMAIN frozen : LegalRow(frozen[i].row)
        /\ ActionableIsTold
    BY DEF StoreIInv
  <1>4. /\ done.projection.session = projection.session
        /\ done.projection.report = projection.report /\ Sequence(done.news)
        /\ \A i \in DOMAIN done.news : /\ LegalRow(done.news[i].row)
                                       /\ done.news[i].row.report = projection.report
        /\ IF projection.session = NoSession THEN done.projection = NoProjection
           ELSE LegalRow(done.projection)
    BY <1>2 DEF LedgerKept
  <1>5. /\ Sequence(frozen') /\ \A i \in DOMAIN frozen' : LegalRow(frozen'[i].row)
        /\ latest' \in Nat /\ (latest' = 0 <=> frozen' = <<>>)
        /\ IF done.news = <<>> THEN frozen' = frozen /\ latest' = latest
           ELSE frozen' = done.news /\ latest' # 0
    BY <1>1, <1>4, PublishKeeps
  <1>6. (handoff.state = "missing" => NothingReported)'
    BY <1>1, <1>3, <1>4, <1>5 DEF NothingReported
  <1>7. ActionableIsTold'
    <2>1. SUFFICES ASSUME projection'.reason # "none"
                   PROVE  \/ /\ frozen' # <<>>
                             /\ Last(frozen').row.reason = projection'.reason
                             /\ Last(frozen').row.report = projection'.report
                          \/ /\ latest' = 0
                             /\ projection'.reason = "missing-report"
                             /\ harness'[projection'.session] \in {"pi", "codex"}
      BY DEF ActionableIsTold
    <2>2. IF done.news = <<>> THEN done.projection.reason = projection.reason
          ELSE Last(done.news).row.reason = done.projection.reason
               /\ Last(done.news).row.report = projection.report
      BY <1>1, <1>2, <2>1 DEF LedgerKept
    <2>3. CASE done.news # <<>>
      BY <1>1, <1>4, <1>5, <2>2, <2>3
    <2>4. CASE done.news = <<>>
      <3>1. /\ frozen' = frozen /\ latest' = latest /\ projection'.reason = projection.reason
            /\ projection'.report = projection.report /\ projection'.session = projection.session
        BY <1>1, <1>4, <1>5, <2>2, <2>4
      <3> QED BY <1>1, <1>3, <2>1, <3>1 DEF ActionableIsTold
    <2> QED BY <2>3, <2>4
  <1>8. IF projection'.session = NoSession THEN projection' = NoProjection
        ELSE LegalRow(projection')
    BY <1>1, <1>4
  <1> QED BY <1>1, <1>3, <1>5, <1>6, <1>7, <1>8 DEF StoreIInv

LEMMA CrewReportsKeeps ==
  ASSUME StoreIInv, CrewReports
  PROVE  StoreIInv'
  <1>1. /\ UNCHANGED <<harness, order, projection, latest, frozen>>
        /\ handoff'.state \in {"malformed", "valid"}
        /\ handoff'.verdict \in Verdicts \union {"null"}
        /\ (handoff'.state = "valid" <=> handoff'.verdict # "null")
    BY DEF CrewReports
  <1>2. LegalReport(handoff')
    BY <1>1, StoreBounds DEF LegalReport, Verdict
  <1>3. ActionableIsTold'
    BY <1>1 DEF StoreIInv, ActionableIsTold
  <1>4. handoff'.state # "missing"
    BY <1>1
  <1>5. LegalReport(handoff)'
    BY <1>2 DEF LegalReport
  <1>6. (handoff.state = "missing" => NothingReported)'
    BY <1>4
  <1> QED BY <1>1, <1>3, <1>5, <1>6 DEF StoreIInv

LEMMA StoreInvariance == StoreSpec => []StoreIInv
  <1>1. StoreInit => StoreIInv
    <2> SUFFICES ASSUME StoreInit PROVE StoreIInv
      OBVIOUS
    <2>1. /\ handoff = NoReport /\ order = <<>> /\ projection = NoProjection
          /\ latest = 0 /\ frozen = <<>>
      BY DEF StoreInit
    <2>2. /\ NoProjection.session = NoSession /\ NoProjection.reason = "none"
          /\ NoProjection.report = NoReport
          /\ NoReport.state = "missing" /\ NoReport.verdict = "null"
      BY DEF NoProjection, NoReport
    <2>3. LegalReport(handoff) /\ NothingReported /\ ActionableIsTold
      BY <2>1, <2>2, OfNone DEF LegalReport, NothingReported, ActionableIsTold
    <2> QED BY <2>1, <2>2, <2>3, OfNone DEF StoreIInv
  <1>2. ASSUME StoreIInv, [StoreNext]_storeVars PROVE StoreIInv'
    <2>1. CASE UNCHANGED storeVars
      BY <1>2, <2>1 DEF storeVars, StoreIInv, NothingReported, ActionableIsTold,
                        LegalReport
    <2>2. CASE CrewReports
      BY <1>2, <2>2, CrewReportsKeeps
    <2>3. ASSUME NEW s \in Sessions, ProducerSends(s) PROVE StoreIInv'
      BY <1>2, <2>3, AcceptKeeps DEF ProducerSends
    <2>4. ASSUME NEW exists \in {"there", "gone", "unknown"},
                 ReconcileHerdrLiveness(exists)
          PROVE  StoreIInv'
      BY <1>2, <2>4, ReconcileKeeps
    <2> QED BY <1>2, <2>1, <2>2, <2>3, <2>4 DEF StoreNext
  <1> QED BY <1>1, <1>2, PTL DEF StoreSpec

(* ReportTuplesLegal (store.py, _actionable_reason and protocol.py's tuple matrix):       *)
(* for any sessions and verdicts every frozen row and the projection can be encoded.     *)
THEOREM TuplesStayLegal == StoreSpec => []ReportTuplesLegal
  <1>1. StoreIInv => ReportTuplesLegal
    BY DEF StoreIInv, ReportTuplesLegal, LegalRow
  <1> QED BY <1>1, StoreInvariance, PTL

(* ActionableIsTold (store.py, accept_event and reconcile_herdr_liveness): for any        *)
(* number of sessions, what the projection calls for is what the newest generation        *)
(* shows, but for the start-up of a Pi or Codex crew.                                *)
THEOREM NoNewsIsLost == StoreSpec => []ActionableIsTold
  <1>1. StoreIInv => ActionableIsTold
    BY DEF StoreIInv
  <1> QED BY <1>1, StoreInvariance, PTL

-----------------------------------------------------------------------------
(* The types of the store.  A producer may number its events as it likes: what a row     *)
(* keeps back is only known to be an envelope with a bounded number.                   *)
Envelope == {e \in Event : e.type \in {"session.register", "turn.start", "turn.stop",
                                       "session.end"}
                           /\ e.seq <= MaxSeq}

Row == {st \in LifecycleState : st.pending \subseteq Envelope}

OnceEach(f) == \A i, j \in DOMAIN f : f[i] = f[j] => i = j

StoreTyped ==
    /\ StoreTypeOK /\ sessions \in [Sessions -> Row] /\ OnceEach(order)
    /\ projection.session = NoSession => projection = NoProjection

LEMMA BoundsAreNat == MaxSeq \in Nat /\ MaxAccepted \in Nat /\ MaxGenerations \in Nat
  BY StoreBounds

(* An event taken in leaves what waits; what can be taken in is an envelope that waits.   *)
LEMMA ApplyRow ==
  ASSUME NEW st \in Row, NEW e \in Envelope
  PROVE  ApplyContiguous(st, e) \in Row
  <1>1. st \in LifecycleState /\ e \in Event /\ NamesItsJob(e)
    BY DEF Row, Envelope, NamesItsJob
  <1> QED BY <1>1, ApplyFields DEF Row

LEMMA ApplyAllRow ==
  ASSUME NEW st \in Row, NEW events, Len(events) \in Nat,
         \A i \in 1..Len(events) : events[i] \in Envelope
  PROVE  ApplyAll(st, events) \in Row
  <1>1. PICK f : Steps(f, st, events, Len(events)) /\ ApplyAll(st, events) = f[Len(events)]
    BY AllSteps
  <1> DEFINE N == Len(events)
             T == {n \in Nat : n <= N => f[n] \in Row}
  <1>2. f = [i \in 0..N |-> IF i = 0 THEN st ELSE ApplyContiguous(f[i - 1], events[i])]
    BY <1>1 DEF Steps
  <1> HIDE DEF N
  <1>3. 0 \in T
    BY <1>2
  <1>4. ASSUME NEW n \in Nat, n \in T PROVE n + 1 \in T
    <2>1. SUFFICES ASSUME n + 1 <= N PROVE f[n + 1] \in Row
      OBVIOUS
    <2>2. N \in Nat /\ n + 1 \in 0..N /\ n + 1 # 0 /\ n + 1 - 1 = n /\ n <= N /\ n + 1 \in 1..N
      BY <2>1 DEF N
    <2>3. f[n + 1] = ApplyContiguous(f[n], events[n + 1])
      BY <1>2, <2>2
    <2>4. f[n] \in Row /\ events[n + 1] \in Envelope
      BY <1>4, <2>2 DEF N
    <2> QED BY <2>3, <2>4, ApplyRow
  <1> HIDE DEF T
  <1>5. N \in T
    BY <1>3, <1>4, Induct DEF N
  <1> QED BY <1>1, <1>5 DEF T, N

(* However the buffered numbers lie, the run that can be taken in has an end.            *)
LEMMA RunEnds ==
  ASSUME NEW st \in Row
  PROVE  /\ ContiguousEnd(st) \in Nat /\ ContiguousEnd(st) >= st.seq
         /\ \A i \in (st.seq + 1)..ContiguousEnd(st) : Buffered(st, i)
  <1> DEFINE S == {k \in Nat : ~Buffered(st, st.seq + 1 + k)}
  <1>1. /\ st.seq \in Nat /\ MaxSeq \in Nat
        /\ \A e \in st.pending : e.seq \in Nat /\ e.seq <= MaxSeq
    BY BoundsAreNat DEF Row, LifecycleState, Envelope, Event
  <1>2. MaxSeq \in S
    <2>1. ~(st.seq + 1 + MaxSeq <= MaxSeq)
      BY <1>1
    <2> QED BY <1>1, <2>1 DEF Buffered
  <1>3. PICK k \in S : \A y \in S : k <= y
    BY <1>2, Least
  <1> DEFINE n == st.seq + k
  <1>4. n \in Nat /\ n >= st.seq /\ k \in Nat /\ n + 1 = st.seq + 1 + k
    BY <1>1, <1>3
  <1>5. ~Buffered(st, n + 1)
    BY <1>3, <1>4
  <1>6. ASSUME NEW i \in (st.seq + 1)..n PROVE Buffered(st, i)
    <2>1. i - (st.seq + 1) \in Nat /\ ~(k <= i - (st.seq + 1)) /\ st.seq + 1 + (i - (st.seq + 1)) = i
      BY <1>1, <1>4
    <2> QED BY <1>3, <2>1
  <1> HIDE DEF S, n
  <1>7. n \in {st.seq} \union {e.seq : e \in st.pending}
    <2>1. CASE n = st.seq
      BY <2>1
    <2>2. CASE n # st.seq
      <3>1. n \in (st.seq + 1)..n
        BY <1>1, <1>4, <2>2
      <3> QED BY <1>6, <3>1 DEF Buffered
    <2> QED BY <2>1, <2>2
  <1> DEFINE c == ContiguousEnd(st)
  <1>8. /\ c \in {st.seq} \union {e.seq : e \in st.pending} /\ c >= st.seq
        /\ \A i \in (st.seq + 1)..c : Buffered(st, i)
    BY <1>4, <1>5, <1>6, <1>7 DEF ContiguousEnd
  <1> HIDE DEF c
  <1> QED BY <1>1, <1>8 DEF c

LEMMA DrainRow ==
  ASSUME NEW st \in Row
  PROVE  Drain(st) \in Row
  <1> DEFINE end == ContiguousEnd(st)
             rest == {e \in st.pending : e.seq > end}
             u == [st EXCEPT !.pending = rest]
             ready == [i \in 1..(end - st.seq) |-> CHOOSE e \in st.pending : e.seq = st.seq + i]
  <1>1. /\ st \in LifecycleState /\ st.seq \in Nat /\ end \in Nat /\ end >= st.seq
        /\ \A i \in (st.seq + 1)..end : Buffered(st, i)
        /\ st.pending \subseteq Envelope
    BY RunEnds DEF Row, LifecycleState
  <1>2. Drain(st) = ApplyAll(u, ready)
    BY DEF Drain
  <1> HIDE DEF end
  <1>3. ASSUME NEW i \in 1..(end - st.seq) PROVE ready[i] \in Envelope
    <2>1. st.seq + i \in (st.seq + 1)..end
      BY <1>1
    <2>2. \E e \in st.pending : e.seq = st.seq + i
      BY <1>1, <2>1 DEF Buffered
    <2> QED BY <1>1, <2>2
  <1>4. Len(ready) = end - st.seq /\ end - st.seq \in Nat
    BY <1>1
  <1> HIDE DEF ready
  <1>5. rest \subseteq Envelope /\ rest \in SUBSET Event
    BY <1>1 DEF Envelope
  <1> HIDE DEF rest
  <1>6. u \in LifecycleState /\ u.pending = rest
    BY <1>1, <1>5 DEF LifecycleState
  <1> HIDE DEF u
  <1>7. u \in Row
    BY <1>5, <1>6 DEF Row
  <1> QED BY <1>2, <1>3, <1>4, <1>7, ApplyAllRow

LEMMA ReduceRow ==
  ASSUME NEW st \in Row, NEW e \in Envelope
  PROVE  ReduceEvent(st, e) \in Row
  <1>1. CASE Stale(st, e)
    BY <1>1 DEF ReduceEvent
  <1>2. CASE ~Stale(st, e) /\ e.seq > st.seq + 1
    <2>1. PICK p : p = st.pending \union {e}
      OBVIOUS
    <2>2. p \subseteq Envelope /\ p \in SUBSET Event
      BY <2>1 DEF Row, Envelope
    <2>3. ReduceEvent(st, e) = [st EXCEPT !.pending = p, !.gap = TRUE]
      BY <1>2, <2>1 DEF ReduceEvent
    <2> QED BY <2>2, <2>3 DEF Row, LifecycleState
  <1>3. CASE ~Stale(st, e) /\ ~(e.seq > st.seq + 1)
    <2> DEFINE t == Drain(ApplyContiguous(st, e))
    <2>1. t \in Row
      BY ApplyRow, DrainRow
    <2>2. PICK g \in BOOLEAN : g = (t.pending # {})
      OBVIOUS
    <2>3. ReduceEvent(st, e) = [t EXCEPT !.gap = g]
      BY <1>3, <2>2 DEF ReduceEvent
    <2> HIDE DEF t
    <2> QED BY <2>1, <2>3 DEF Row, LifecycleState
  <1> QED BY <1>1, <1>2, <1>3

LEMMA ObservedStateRow ==
  ASSUME NEW st \in Row, NEW exists
  PROVE  ObservedState(st, exists) \in Row
  <1>1. PICK g \in BOOLEAN : g = (st.ended \/ exists = "gone")
    BY DEF Row, LifecycleState
  <1>2. ObservedState(st, exists) = st \/ ObservedState(st, exists) = [st EXCEPT !.gone = g]
    BY <1>1 DEF ObservedState, ObserveGone
  <1> QED BY <1>2 DEF Row, LifecycleState

(* Rows of the projection.                                                        *)
LEMMA AvailabilityIsOne ==
  ASSUME NEW st \in LifecycleState
  PROVE  Availability(st) \in AvailabilityValue
  <1>1. PICK gone \in BOOLEAN : gone = (st.ended \/ st.gone)
    OBVIOUS
  <1>2. PICK connected \in BOOLEAN : connected = (st.connected /\ ~st.gap)
    OBVIOUS
  <1>3. PICK blocked \in BOOLEAN : blocked = (st.blocked /\ st.fgFresh)
    OBVIOUS
  <1>4. PICK fg : fg = IF st.fgFresh THEN st.fg ELSE "unknown"
    OBVIOUS
  <1>5. PICK bg : bg = IF st.bgFresh THEN st.bg ELSE "unknown"
    OBVIOUS
  <1>6. Availability(st) = DeriveAvailability(fg, bg, blocked, gone, connected)
    BY <1>1, <1>2, <1>3, <1>4, <1>5 DEF Availability
  <1>7. DeriveAvailability(fg, bg, blocked, gone, connected) \in AvailabilityValue
    BY DEF DeriveAvailability, AvailabilityValue
  <1> QED BY <1>6, <1>7

LEMMA CountIsNat ==
  ASSUME NEW st \in LifecycleState
  PROVE  (IF Counted(st) THEN ActiveCount(st) + 1 ELSE 0) \in Nat
  <1>1. IsFiniteSet(st.jobs) /\ st.anonymous \in Nat
    BY JobsAssumption, FS_Subset DEF LifecycleState
  <1>2. ActiveCount(st) \in Nat
    BY <1>1, FS_CardinalityType DEF ActiveCount
  <1> QED BY <1>2

LEMMA ReasonIsOne ==
  ASSUME NEW r \in Report, LegalReport(r), NEW a
  PROVE  ActionableReason(a, r) \in Reason
  <1>1. CASE r.state = "missing" \/ r.state = "malformed"
    BY <1>1 DEF ActionableReason, Reason
  <1>2. CASE r.state = "valid" /\ r.verdict \in Verdict
    BY <1>2 DEF ActionableReason, Reason, Verdict
  <1> QED BY <1>1, <1>2 DEF LegalReport

LEMMA ProjectionOfTyped ==
  ASSUME NEW s \in Sessions, NEW st \in LifecycleState, NEW r \in Report, LegalReport(r)
  PROVE  ProjectionOf(s, st, r) \in Projection
  <1>1. /\ Availability(st) \in AvailabilityValue
        /\ (IF Counted(st) THEN ActiveCount(st) + 1 ELSE 0) \in Nat
        /\ ActionableReason(Availability(st), r) \in Reason
        /\ st.fg \in Foreground /\ st.bg \in Background
    BY AvailabilityIsOne, CountIsNat, ReasonIsOne DEF LifecycleState
  <1> QED BY <1>1 DEF ProjectionOf, Projection

LEMMA ObservedRowTyped ==
  ASSUME NEW row \in Projection, LegalReport(row.report), NEW st \in LifecycleState,
         NEW exists \in {"there", "gone", "unknown"}
  PROVE  ObservedRow(row, st, exists) \in Projection
  <1>1. PICK n \in Nat : n = IF Counted(st) THEN ActiveCount(st) + 1 ELSE 0
    BY CountIsNat
  <1>2. PICK a \in AvailabilityValue : a = Availability(st)
    BY AvailabilityIsOne
  <1>3. row.report \in Report
    BY DEF Projection
  <1>4. PICK reason \in Reason : reason = ActionableReason(a, row.report)
    BY <1>3, ReasonIsOne
  <1>5. PICK p \in {"unset", "there", "gone"} : p = IF exists = "unknown" THEN row.pane ELSE exists
    BY DEF Projection
  <1>6. ObservedRow(row, st, exists)
          = [row EXCEPT !.availability = a, !.fg = st.fg, !.bg = st.bg, !.count = n,
                        !.reason = reason, !.pane = p]
    BY <1>1, <1>2, <1>4, <1>5 DEF ObservedRow
  <1> QED BY <1>6 DEF Projection, LifecycleState

(* A walk over n rows makes at most n announcements, of typed rows.                    *)
LedgerTyped(l, n) ==
    /\ l.sessions \in [Sessions -> Row] /\ l.news \in Seq(Generation) /\ Len(l.news) <= n
    /\ IF projection.session = NoSession
       THEN l.projection = NoProjection ELSE l.projection \in Projection

LEMMA ObserveRowTyped ==
  ASSUME NEW n \in Nat, NEW l, LedgerKept(l), LedgerTyped(l, n), NEW s \in Sessions,
         NEW exists \in {"there", "gone", "unknown"}
  PROVE  LedgerTyped(ObserveRow(l, s, exists), n + 1)
  <1> DEFINE o == ObserveRow(l, s, exists)
             row == IF l.projection.session = NoSession THEN l.projection
                    ELSE ObservedRow(l.projection, ObservedState(l.sessions[s], exists), exists)
             x == Freeze(row.reason, row)
  <1>1. PICK st \in Row : st = ObservedState(l.sessions[s], exists)
    BY ObservedStateRow DEF LedgerTyped
  <1>2. /\ o.sessions = [l.sessions EXCEPT ![s] = st] /\ o.projection = row
        /\ o.news = IF row.reason \notin {"none", l.projection.reason}
                    THEN Append(l.news, x) ELSE l.news
    BY <1>1 DEF ObserveRow
  <1>3. l.projection.session = projection.session
    BY DEF LedgerKept
  <1>4. l.news \in Seq(Generation) /\ Len(l.news) <= n /\ Len(l.news) \in Nat
    BY DEF LedgerTyped
  <1>5. o.sessions \in [Sessions -> Row]
    BY <1>2 DEF LedgerTyped
  <1>6. CASE projection.session = NoSession
    <2>1. row = NoProjection /\ l.projection = NoProjection
      BY <1>3, <1>6 DEF LedgerTyped
    <2>2. row.reason = "none"
      BY <2>1 DEF NoProjection
    <2> HIDE DEF row, o
    <2>3. o.news = l.news
      BY <1>2, <2>2
    <2>4. Len(o.news) <= n + 1
      BY <1>4, <2>3
    <2> QED BY <1>2, <1>4, <1>5, <1>6, <2>1, <2>3, <2>4 DEF LedgerTyped, o
  <1>7. CASE projection.session # NoSession
    <2>1. /\ l.projection \in Projection /\ LegalReport(l.projection.report)
          /\ row = ObservedRow(l.projection, st, exists)
      BY <1>1, <1>3, <1>7, LegalRowReport DEF LedgerTyped, LedgerKept
    <2>2. row \in Projection
      BY <2>1, ObservedRowTyped DEF Row
    <2> HIDE DEF row
    <2>3. x \in Generation
      BY <2>2 DEF Freeze, Generation, Projection
    <2> HIDE DEF x, o
    <2>4. o.news \in Seq(Generation) /\ Len(o.news) <= n + 1
      <3>1. /\ Append(l.news, x) \in Seq(Generation)
            /\ Len(Append(l.news, x)) = Len(l.news) + 1
        BY <1>4, <2>3
      <3> QED BY <1>2, <1>4, <3>1
    <2> QED BY <1>2, <1>5, <1>7, <2>2, <2>4 DEF LedgerTyped, o
  <1> QED BY <1>6, <1>7

LEMMA ObservedTyped ==
  ASSUME StoreIInv, StoreTyped, NEW exists \in {"there", "gone", "unknown"}
  PROVE  LedgerTyped(Observed(exists), Len(order))
  <1>1. /\ order \in Seq(Sessions) /\ Len(order) \in Nat
        /\ \A i \in 1..Len(order) : order[i] \in Sessions
    BY DEF StoreTyped, StoreTypeOK
  <1>2. PICK f : /\ f[0] = Ledger
                 /\ \A i \in 0..(Len(order) - 1) :
                       f[i + 1] = ObserveRow(f[i], order[i + 1], exists)
                 /\ Observed(exists) = f[Len(order)]
    BY <1>1, ObservedIsAWalk
  <1> DEFINE T == {n \in Nat : n <= Len(order) => LedgerKept(f[n]) /\ LedgerTyped(f[n], n)}
  <1>3. 0 \in T
    <2>1. /\ f[0].projection = projection /\ f[0].news = <<>> /\ f[0].sessions = sessions
      BY <1>2 DEF Ledger
    <2>2. LedgerKept(f[0])
      BY <2>1, OfNone DEF LedgerKept, StoreIInv, NoProjection
    <2>3. <<>> \in Seq(Generation) /\ Len(<<>>) <= 0
      OBVIOUS
    <2>4. IF projection.session = NoSession
          THEN projection = NoProjection ELSE projection \in Projection
      BY DEF StoreTyped, StoreTypeOK, NoProjection
    <2>5. LedgerTyped(f[0], 0)
      BY <2>1, <2>3, <2>4 DEF LedgerTyped, StoreTyped
    <2> QED BY <2>2, <2>5
  <1>4. ASSUME NEW n \in Nat, n \in T PROVE n + 1 \in T
    <2>1. SUFFICES ASSUME n + 1 <= Len(order)
                   PROVE  LedgerKept(f[n + 1]) /\ LedgerTyped(f[n + 1], n + 1)
      OBVIOUS
    <2>2. n \in 0..(Len(order) - 1) /\ n <= Len(order) /\ n + 1 \in 1..Len(order)
      BY <1>1, <2>1
    <2>3. f[n + 1] = ObserveRow(f[n], order[n + 1], exists) /\ order[n + 1] \in Sessions
      BY <1>1, <1>2, <2>2
    <2>4. LedgerKept(f[n]) /\ LedgerTyped(f[n], n)
      BY <1>4, <2>2
    <2>5. LedgerKept(f[n + 1])
      BY <2>3, <2>4, ObserveRowKeeps
    <2>6. LedgerTyped(f[n + 1], n + 1)
      BY <2>3, <2>4, ObserveRowTyped
    <2> QED BY <2>5, <2>6
  <1> HIDE DEF T
  <1>5. Len(order) \in T
    BY <1>1, <1>3, <1>4, Induct
  <1> QED BY <1>1, <1>2, <1>5 DEF T

(* Each row is of another session, so there are at most as many.                       *)
LEMMA RowsAreFew ==
  ASSUME NEW f \in Seq(Sessions), OnceEach(f)
  PROVE  Len(f) \in Nat /\ Len(f) <= Cardinality(Sessions) /\ Cardinality(Sessions) \in Nat
  <1>1. Len(f) \in Nat /\ f \in [1..Len(f) -> Sessions] /\ DOMAIN f = 1..Len(f)
    OBVIOUS
  <1>2. IsFiniteSet(Sessions) /\ Cardinality(Sessions) \in Nat
    BY StoreBounds, FS_CardinalityType
  <1>3. IsFiniteSet(1..Len(f)) /\ Cardinality(1..Len(f)) = Len(f)
    BY <1>1, FS_Interval
  <1>4. ~(Cardinality(Sessions) < Len(f))
    <2>1. SUFFICES ASSUME Cardinality(Sessions) < Len(f) PROVE FALSE
      OBVIOUS
    <2>2. \E i, j \in 1..Len(f) : i # j /\ f[i] = f[j]
      BY <1>1, <1>2, <1>3, <2>1, FS_PigeonHole
    <2> QED BY <1>1, <2>2 DEF OnceEach
  <1> QED BY <1>1, <1>2, <1>4

LEMMA PublishTyped ==
  ASSUME StoreTyped, NEW news \in Seq(Generation), Len(news) <= Cardinality(Sessions),
         Cardinality(Sessions) \in Nat, Publish(news)
  PROVE  /\ latest' \in 0..(MaxGenerations + Cardinality(Sessions))
         /\ frozen' \in Seq(Generation)
  <1>1. /\ latest \in Nat /\ latest < MaxGenerations /\ latest' = latest + Len(news)
        /\ MaxGenerations \in Nat /\ Len(news) \in Nat
    BY BoundsAreNat DEF Publish, StoreTyped, StoreTypeOK
  <1>2. frozen' \in Seq(Generation)
    BY DEF Publish, StoreTyped, StoreTypeOK
  <1> QED BY <1>1, <1>2

LEMMA AcceptTyped ==
  ASSUME StoreIInv, StoreTyped, NEW s \in Sessions, NEW e \in Envelope, Accept(s, e)
  PROVE  StoreTyped'
  <1> DEFINE st == ReduceEvent(sessions[s], e)
             known == s \in registered \/ e.type = "session.register"
             after == IF known THEN ProjectionOf(s, st, handoff) ELSE projection
             news == Announcements(s, e, after)
  <1>1. /\ durable < MaxAccepted /\ Publish(news) /\ durable' = durable + 1
        /\ sessions' = [sessions EXCEPT ![s] = st]
        /\ order' = IF s \in ToSet(order) THEN order ELSE Append(order, s)
        /\ registered' = IF known THEN registered \union {s} ELSE registered
        /\ projection' = after /\ harness' = harness /\ handoff' = handoff
    BY DEF Accept
  <1>2. /\ harness \in [Sessions -> Harness] /\ handoff \in Report /\ LegalReport(handoff)
        /\ sessions \in [Sessions -> Row] /\ order \in Seq(Sessions) /\ OnceEach(order)
        /\ registered \subseteq Sessions /\ projection \in Projection \union {NoProjection}
        /\ durable \in 0..MaxAccepted /\ NoSession \notin Sessions
        /\ projection.session = NoSession => projection = NoProjection
    BY StoreBounds DEF StoreTyped, StoreTypeOK, StoreIInv
  <1>3. st \in Row
    BY <1>2, ReduceRow
  <1> HIDE DEF st
  <1>4. sessions' \in [Sessions -> Row]
    BY <1>1, <1>2, <1>3
  <1>5. sessions' \in [Sessions -> LifecycleState]
    BY <1>4 DEF Row
  <1>6. order' \in Seq(Sessions) /\ OnceEach(order')
    <2>1. CASE s \in ToSet(order)
      BY <1>1, <1>2, <2>1
    <2>2. CASE s \notin ToSet(order)
      <3>1. /\ order' \in Seq(Sessions) /\ Len(order') = Len(order) + 1 /\ Len(order) \in Nat
            /\ DOMAIN order' = 1..Len(order') /\ DOMAIN order = 1..Len(order)
            /\ \A i \in 1..Len(order) : order'[i] = order[i]
            /\ order'[Len(order) + 1] = s
        BY <1>1, <1>2, <2>2
      <3>2. \A i \in 1..Len(order) : order[i] # s
        BY <1>2, <2>2, <3>1 DEF ToSet
      <3>3. \A i \in DOMAIN order' : i \in 1..Len(order) \/ i = Len(order) + 1
        BY <3>1
      <3>4. ASSUME NEW i \in DOMAIN order', NEW j \in DOMAIN order', order'[i] = order'[j]
            PROVE  i = j
        BY <1>2, <3>1, <3>2, <3>3, <3>4 DEF OnceEach
      <3> QED BY <3>1, <3>4 DEF OnceEach
    <2> QED BY <2>1, <2>2
  <1>7. /\ after \in Projection \union {NoProjection}
        /\ after.session = NoSession => after = NoProjection
    <2>1. CASE known
      <3>1. after \in Projection
        BY <1>2, <1>3, <2>1, ProjectionOfTyped DEF Row
      <3> QED BY <1>2, <3>1 DEF Projection
    <2>2. CASE ~known
      BY <1>2, <2>2
    <2> QED BY <2>1, <2>2
  <1> HIDE DEF after
  <1>8. Cardinality(Sessions) \in Nat /\ 1 <= Cardinality(Sessions)
    <2>1. <<s>> \in Seq(Sessions) /\ OnceEach(<<s>>) /\ Len(<<s>>) = 1
      BY DEF OnceEach
    <2> QED BY <2>1, RowsAreFew
  <1>9. news \in Seq(Generation) /\ Len(news) <= 1
    <2>1. CASE after.session = NoSession
      <3>1. news = <<>>
        BY <2>1 DEF Announcements
      <3>2. <<>> \in Seq(Generation) /\ Len(<<>>) <= 1
        OBVIOUS
      <3> HIDE DEF news
      <3> QED BY <3>1, <3>2, Zenon
    <2>2. CASE after.session # NoSession
      <3>1. after \in Projection /\ after.reason \in Reason
        BY <1>7, <2>2 DEF Projection, NoProjection
      <3>2. /\ Freeze(after.reason, after) \in Generation
            /\ Freeze("native-turn-ended-report", after) \in Generation
        BY <3>1 DEF Freeze, Generation
      <3>3. \/ news = <<>>
            \/ \E x \in Generation : news = <<x>>
        BY <2>2, <3>2 DEF Announcements
      <3> HIDE DEF news
      <3>4. CASE news = <<>>
        BY <3>4
      <3>5. ASSUME NEW x \in Generation, news = <<x>>
            PROVE  news \in Seq(Generation) /\ Len(news) <= 1
        <4>1. <<x>> \in Seq(Generation) /\ Len(<<x>>) <= 1
          OBVIOUS
        <4> QED BY <3>5, <4>1, Zenon
      <3> QED BY <3>3, <3>4, <3>5
    <2> QED BY <2>1, <2>2
  <1> HIDE DEF news
  <1>10. Len(news) <= Cardinality(Sessions)
    BY <1>8, <1>9
  <1>11. /\ latest' \in 0..(MaxGenerations + Cardinality(Sessions))
         /\ frozen' \in Seq(Generation)
    BY <1>1, <1>8, <1>9, <1>10, PublishTyped
  <1>12. durable' \in 0..MaxAccepted /\ registered' \subseteq Sessions
    BY <1>1, <1>2, BoundsAreNat
  <1> QED BY <1>1, <1>2, <1>4, <1>5, <1>6, <1>7, <1>11, <1>12 DEF StoreTyped, StoreTypeOK

LEMMA ReconcileTyped ==
  ASSUME StoreIInv, StoreTyped, NEW exists \in {"there", "gone", "unknown"},
         ReconcileHerdrLiveness(exists)
  PROVE  StoreTyped'
  <1> DEFINE done == Observed(exists)
  <1>1. /\ Publish(done.news) /\ sessions' = done.sessions /\ projection' = done.projection
        /\ UNCHANGED <<harness, handoff, order, registered, durable>>
    BY DEF ReconcileHerdrLiveness
  <1>2. LedgerTyped(done, Len(order))
    BY ObservedTyped
  <1> HIDE DEF done
  <1>3. order \in Seq(Sessions) /\ OnceEach(order)
    BY DEF StoreTyped, StoreTypeOK
  <1>4. /\ Len(order) \in Nat /\ Len(order) <= Cardinality(Sessions)
        /\ Cardinality(Sessions) \in Nat
    BY <1>3, RowsAreFew
  <1>5. done.news \in Seq(Generation) /\ Len(done.news) <= Len(order) /\ Len(done.news) \in Nat
    BY <1>2 DEF LedgerTyped
  <1>6. Len(done.news) <= Cardinality(Sessions)
    BY <1>4, <1>5
  <1>7. /\ latest' \in 0..(MaxGenerations + Cardinality(Sessions))
        /\ frozen' \in Seq(Generation)
    BY <1>1, <1>4, <1>5, <1>6, PublishTyped
  <1>8. sessions' \in [Sessions -> Row] /\ sessions' \in [Sessions -> LifecycleState]
    BY <1>1, <1>2 DEF LedgerTyped, Row
  <1>9. /\ projection' \in Projection \union {NoProjection}
        /\ projection'.session = NoSession => projection' = NoProjection
    <2>1. \A row \in Projection : row.session # NoSession
      BY StoreBounds DEF Projection
    <2> QED BY <1>1, <1>2, <2>1 DEF LedgerTyped
  <1> QED BY <1>1, <1>3, <1>7, <1>8, <1>9 DEF StoreTyped, StoreTypeOK

LEMMA CrewReportsTyped ==
  ASSUME StoreTyped, CrewReports
  PROVE  StoreTyped'
  <1>1. handoff.blocks \in Nat /\ Verdicts \subseteq Verdict
    BY StoreBounds DEF StoreTyped, StoreTypeOK, Report, Verdict
  <1>2. handoff' \in Report
    BY <1>1 DEF CrewReports, Report
  <1> QED BY <1>2 DEF CrewReports, StoreTyped, StoreTypeOK

LEMMA EnvelopesAreEnvelopes ==
  ASSUME StoreTyped, NEW s \in Sessions, NEW e \in Envelopes(s)
  PROVE  e \in Envelope
  <1>1. sessions[s].seq \in Nat /\ MaxSeq \in Nat
    BY BoundsAreNat DEF StoreTyped, Row, LifecycleState
  <1>2. PICK n \in {k \in sessions[s].seq..(sessions[s].seq + 2) : k \in 1..MaxSeq},
             t \in {"session.register", "turn.start", "turn.stop", "session.end"},
             a \in {"true", "false", "null"} :
               e = [seq |-> n, type |-> t, job |-> NoJob, active |-> a, count |-> 0]
    BY DEF Envelopes
  <1>3. n \in Nat /\ n <= MaxSeq /\ 0 \in Nat
    BY <1>1, <1>2
  <1> QED BY <1>2, <1>3 DEF Envelope, Event, EventType

(* Type correctness of the store (store.py), for any number of sessions and however their *)
(* producers number their events: what the reducer keeps back always ends, a transaction   *)
(* publishes at most one generation a row, and every frozen row is a whole projection.    *)
THEOREM StoreTypeCorrect == StoreSpec => []StoreTypeOK
  <1>1. StoreInit => StoreTyped
    <2> SUFFICES ASSUME StoreInit PROVE StoreTyped
      OBVIOUS
    <2>1. NewState \in Row
      BY DEF NewState, Row, LifecycleState, Foreground, Background
    <2>2. sessions \in [Sessions -> Row] /\ sessions \in [Sessions -> LifecycleState]
      BY <2>1 DEF StoreInit, Row
    <2>3. NoReport \in Report
      BY DEF NoReport, Report
    <2>4. <<>> \in Seq(Sessions) /\ OnceEach(<<>>) /\ <<>> \in Seq(Generation)
      BY DEF OnceEach
    <2>5. 0 \in 0..MaxAccepted /\ 0 \in 0..(MaxGenerations + Cardinality(Sessions))
      BY BoundsAreNat, StoreBounds, FS_CardinalityType
    <2> QED BY <2>2, <2>3, <2>4, <2>5 DEF StoreInit, StoreTyped, StoreTypeOK
  <1>2. ASSUME StoreIInv, StoreTyped, [StoreNext]_storeVars PROVE StoreTyped'
    <2>1. CASE UNCHANGED storeVars
      BY <1>2, <2>1 DEF storeVars, StoreTyped, StoreTypeOK
    <2>2. CASE CrewReports
      BY <1>2, <2>2, CrewReportsTyped
    <2>3. ASSUME NEW s \in Sessions, ProducerSends(s) PROVE StoreTyped'
      BY <1>2, <2>3, AcceptTyped, EnvelopesAreEnvelopes DEF ProducerSends
    <2>4. ASSUME NEW exists \in {"there", "gone", "unknown"},
                 ReconcileHerdrLiveness(exists)
          PROVE  StoreTyped'
      BY <1>2, <2>4, ReconcileTyped
    <2> QED BY <1>2, <2>1, <2>2, <2>3, <2>4 DEF StoreNext
  <1>3. StoreTyped => StoreTypeOK
    BY DEF StoreTyped
  <1> QED BY <1>1, <1>2, <1>3, StoreInvariance, PTL DEF StoreSpec

-----------------------------------------------------------------------------
(* A task served by one session, the only case in which the projection follows the      *)
(* states of its rows: with more rows the last one observed overwrites it.              *)
SoleIInv(s) ==
    /\ sessions = [r \in Sessions |-> sessions[r]]
    /\ durable \in Nat
    /\ (order = <<>> /\ registered = {}) \/ order = <<s>>
    /\ projection.session # NoSession =>
          /\ projection.session = s /\ s \in registered
          /\ projection.availability = Availability(sessions[s])
          /\ projection.reason = ActionableReason(projection.availability,
                                                        projection.report)

LEMMA SoleObserved ==
  ASSUME NEW s, order = <<>> \/ order = <<s>>, NEW exists
  PROVE  Observed(exists) = IF order = <<>> THEN Ledger
                                  ELSE ObserveRow(Ledger, s, exists)
  <1>1. CASE order = <<>>
    <2>1. Len(order) = 0
      BY <1>1
    <2>2. PICK f : f[0] = Ledger /\ Observed(exists) = f[Len(order)]
      BY <2>1, ObservedIsAWalk
    <2> QED BY <1>1, <2>1, <2>2
  <1>2. CASE order = <<s>>
    <2>1. Len(order) = 1 /\ order[1] = s /\ order # <<>> /\ 0 \in 0..(Len(order) - 1)
      BY <1>2
    <2>2. PICK f : /\ f[0] = Ledger
                   /\ \A i \in 0..(Len(order) - 1) :
                         f[i + 1] = ObserveRow(f[i], order[i + 1], exists)
                   /\ Observed(exists) = f[Len(order)]
      BY <2>1, ObservedIsAWalk
    <2>3. f[0 + 1] = ObserveRow(f[0], order[0 + 1], exists)
      BY <2>1, <2>2
    <2> QED BY <2>1, <2>2, <2>3
  <1> QED BY <1>1, <1>2

(* What the observation of the only row makes of session and projection.                *)
LEMMA SoleReconciled ==
  ASSUME StoreIInv, NEW s \in Sessions, SoleIInv(s), NEW exists,
         ReconcileHerdrLiveness(exists)
  PROVE  \/ /\ sessions' = sessions /\ projection' = projection /\ latest' = latest
         \/ /\ projection.session = NoSession /\ latest' = latest
            /\ projection' = projection /\ order = <<s>>
            /\ \E st : sessions' = [sessions EXCEPT ![s] = st]
         \/ /\ projection.session # NoSession /\ order = <<s>>
            /\ \E st : /\ sessions' = [sessions EXCEPT ![s] = st]
                       /\ projection'.session = projection.session
                       /\ projection'.report = projection.report
                       /\ projection'.availability = Availability(st)
                       /\ projection'.reason
                            = ActionableReason(Availability(st), projection.report)
                       /\ projection'.reason = projection.reason => latest' = latest
  <1> DEFINE done == Observed(exists)
  <1>1. /\ latest' = latest + Len(done.news) /\ projection' = done.projection
        /\ sessions' = done.sessions /\ latest \in Nat
    BY DEF ReconcileHerdrLiveness, Publish, StoreIInv
  <1>2. done = IF order = <<>> THEN Ledger ELSE ObserveRow(Ledger, s, exists)
    BY SoleObserved DEF SoleIInv
  <1> HIDE DEF done
  <1>3. /\ Ledger.sessions = sessions /\ Ledger.projection = projection
        /\ Ledger.news = <<>>
    BY DEF Ledger
  <1>4. CASE order = <<>>
    <2>1. done = Ledger
      BY <1>2, <1>4
    <2>2. done.news = <<>> /\ done.sessions = sessions /\ done.projection = projection
      BY <1>3, <2>1
    <2>3. latest' = latest
      BY <1>1, <2>2, OfNone
    <2>4. sessions' = sessions /\ projection' = projection
      BY <1>1, <2>2
    <2> QED BY <2>3, <2>4
  <1>5. CASE order # <<>>
    <2> DEFINE st == ObservedState(sessions[s], exists)
               row == ObservedRow(projection, st, exists)
    <2>1. order = <<s>>
      BY <1>5 DEF SoleIInv
    <2>2. /\ done.sessions = [sessions EXCEPT ![s] = st]
          /\ done.projection = IF projection.session = NoSession THEN projection ELSE row
          /\ done.news = IF done.projection.reason \notin {"none", projection.reason}
                         THEN Append(<<>>, Freeze(done.projection.reason,
                                                        done.projection))
                         ELSE <<>>
      BY <1>2, <1>3, <1>5 DEF ObserveRow
    <2> HIDE DEF st
    <2>3. CASE projection.session = NoSession
      <3>1. done.news = <<>> /\ done.projection = projection
        BY <2>2, <2>3
      <3>2. latest' = latest
        BY <1>1, <3>1, OfNone
      <3>3. sessions' = [sessions EXCEPT ![s] = st] /\ projection' = projection
        BY <1>1, <2>2, <3>1
      <3> HIDE DEF row
      <3> QED BY <2>1, <2>3, <3>2, <3>3
    <2>4. CASE projection.session # NoSession
      <3>1. LegalRow(projection)
        BY <2>4 DEF StoreIInv
      <3>2. /\ row.session = projection.session /\ row.report = projection.report
            /\ row.availability = Availability(st)
            /\ row.reason = ActionableReason(Availability(st), projection.report)
        BY <3>1, ObservedRowFields
      <3> HIDE DEF row
      <3>3. done.projection = row
        BY <2>2, <2>4
      <3>4. row.reason = projection.reason => done.news = <<>>
        BY <2>2, <3>3
      <3>5. row.reason = projection.reason => latest' = latest
        BY <1>1, <3>4, OfNone
      <3>6. sessions' = [sessions EXCEPT ![s] = st] /\ projection' = row
        BY <1>1, <2>2, <3>3
      <3> QED BY <2>1, <2>4, <3>2, <3>5, <3>6
    <2> QED BY <2>3, <2>4
  <1> QED BY <1>4, <1>5

LEMMA SoleKeeps ==
  ASSUME NEW s, Sessions = {s}, StoreIInv, SoleIInv(s),
         [StoreNext]_storeVars
  PROVE  SoleIInv(s)'
  <1>1. s \in Sessions /\ s # NoSession
    BY StoreBounds
  <1>2. CASE UNCHANGED storeVars
    BY <1>2 DEF storeVars, SoleIInv, Availability, ActionableReason
  <1>3. CASE CrewReports
    BY <1>3 DEF CrewReports, SoleIInv, Availability, ActionableReason
  <1>4. ASSUME NEW e, Accept(s, e) PROVE SoleIInv(s)'
    <2> DEFINE st == ReduceEvent(sessions[s], e)
               known == s \in registered \/ e.type = "session.register"
    <2>1. /\ durable' = durable + 1 /\ sessions' = [sessions EXCEPT ![s] = st]
          /\ order' = IF s \in ToSet(order) THEN order ELSE Append(order, s)
          /\ registered' = IF known THEN registered \union {s} ELSE registered
          /\ projection' = IF known THEN ProjectionOf(s, st, handoff) ELSE projection
          /\ handoff' = handoff
      BY <1>4 DEF Accept
    <2> HIDE DEF st, known
    <2>a. sessions = [r \in Sessions |-> sessions[r]] /\ durable \in Nat
      BY DEF SoleIInv
    <2>b. sessions' = [r \in Sessions |-> sessions'[r]] /\ sessions'[s] = st
      BY <1>1, <2>1, <2>a
    <2>c. durable' \in Nat
      BY <2>1, <2>a
    <2>2. /\ sessions' = [r \in Sessions |-> sessions'[r]] /\ sessions'[s] = st
          /\ durable' \in Nat
      BY <2>b, <2>c
    <2>3. order' = <<s>>
      <3>1. CASE order = <<>>
        <4>1. s \notin ToSet(order)
          BY <3>1 DEF ToSet
        <4> QED BY <2>1, <3>1, <4>1
      <3>2. CASE order = <<s>>
        <4>1. 1 \in DOMAIN order /\ order[1] = s
          BY <3>2
        <4>2. s \in ToSet(order)
          BY <4>1 DEF ToSet
        <4> QED BY <2>1, <3>2, <4>2
      <3> QED BY <3>1, <3>2 DEF SoleIInv
    <2>4. CASE ~known
      <3>1. projection.session = NoSession
        BY <2>4 DEF SoleIInv, known
      <3> QED BY <2>1, <2>2, <2>3, <2>4, <3>1 DEF SoleIInv
    <2>5. CASE known
      <3>1. /\ projection'.session = s /\ projection'.report = handoff
            /\ projection'.availability = Availability(st)
            /\ projection'.reason = ActionableReason(Availability(st), handoff)
        BY <2>1, <2>5, ProjectionOfFields DEF StoreIInv
      <3>2. s \in registered'
        BY <2>1, <2>5
      <3>3. SoleIInv(s)'
        <4>1. projection'.availability = Availability(sessions'[s])
          BY <2>2, <3>1
        <4>2. projection'.reason = ActionableReason(projection'.availability,
                                                          projection'.report)
          BY <3>1
        <4> QED BY <2>2, <2>3, <3>1, <3>2, <4>1, <4>2 DEF SoleIInv
      <3> QED BY <3>3
    <2> QED BY <2>4, <2>5
  <1>5. ASSUME NEW exists, ReconcileHerdrLiveness(exists) PROVE SoleIInv(s)'
    <2>1. order' = order /\ registered' = registered /\ durable' = durable
      BY <1>5 DEF ReconcileHerdrLiveness
    <2>2. CASE sessions' = sessions /\ projection' = projection
      BY <2>1, <2>2 DEF SoleIInv
    <2>3. CASE projection.session = NoSession /\ projection' = projection
               /\ \E st : sessions' = [sessions EXCEPT ![s] = st]
      BY <1>1, <2>1, <2>3 DEF SoleIInv
    <2>4. ASSUME projection.session # NoSession, NEW st,
                 sessions' = [sessions EXCEPT ![s] = st],
                 projection'.session = projection.session,
                 projection'.report = projection.report,
                 projection'.availability = Availability(st),
                 projection'.reason
                    = ActionableReason(Availability(st), projection.report)
          PROVE  SoleIInv(s)'
      <3>1. sessions'[s] = st /\ sessions' = [r \in Sessions |-> sessions'[r]]
        BY <1>1, <2>4 DEF SoleIInv
      <3>2. projection'.availability = Availability(sessions'[s])
        BY <2>4, <3>1
      <3>3. projection'.reason = ActionableReason(projection'.availability,
                                                        projection'.report)
        BY <2>4
      <3> QED BY <2>1, <2>4, <3>1, <3>2, <3>3 DEF SoleIInv
    <2> QED BY <1>1, <1>5, <2>2, <2>3, <2>4, SoleReconciled
  <1>6. StoreNext => \/ CrewReports
                      \/ \E e : Accept(s, e)
                      \/ \E exists : ReconcileHerdrLiveness(exists)
    BY DEF StoreNext, ProducerSends
  <1> QED BY <1>2, <1>3, <1>4, <1>5, <1>6

LEMMA SoleInvariance ==
  ASSUME NEW s, Sessions = {s}
  PROVE  StoreSpec => [](StoreIInv /\ SoleIInv(s))
  <1>1. StoreInit => SoleIInv(s)
    BY DEF StoreInit, SoleIInv, NoProjection
  <1>2. StoreIInv /\ SoleIInv(s) /\ [StoreNext]_storeVars => SoleIInv(s)'
    BY SoleKeeps
  <1> QED BY <1>1, <1>2, StoreInvariance, PTL DEF StoreSpec

(* ProjectionIsCurrent (store.py, accept_event and reconcile_herdr_liveness): the         *)
(* projection of a task served by one session is that of the session's current state.    *)
THEOREM ProjectionFollows ==
  ASSUME NEW s, Sessions = {s}
  PROVE  StoreSpec => []ProjectionIsCurrent
  <1>1. SoleIInv(s) => ProjectionIsCurrent
    BY DEF SoleIInv, ProjectionIsCurrent, Projected
  <1> QED BY <1>1, SoleInvariance, PTL

(* SettledBumpsNothing (the comment in reconcile_herdr_liveness): for a task served by    *)
(* one session an observation that changes nothing publishes no generation.              *)
THEOREM SettledStaysQuiet ==
  ASSUME NEW s, Sessions = {s}
  PROVE  StoreSpec => SettledBumpsNothing
  <1>1. ASSUME StoreIInv, SoleIInv(s), [StoreNext]_storeVars
        PROVE  [durable' = durable /\ sessions' = sessions => latest' = latest]_storeVars
    <2>1. SUFFICES ASSUME durable' = durable, sessions' = sessions PROVE latest' = latest
      OBVIOUS
    <2>2. s \in Sessions /\ sessions = [r \in Sessions |-> sessions[r]] /\ durable \in Nat
      BY <1>1 DEF SoleIInv
    <2>3. CASE UNCHANGED storeVars
      BY <2>3 DEF storeVars
    <2>4. CASE CrewReports
      BY <2>4 DEF CrewReports
    <2>5. ASSUME NEW e, Accept(s, e) PROVE FALSE
      <3>1. durable' = durable + 1
        BY <2>5 DEF Accept
      <3> QED BY <2>1, <2>2, <3>1
    <2>6. ASSUME NEW exists, ReconcileHerdrLiveness(exists) PROVE latest' = latest
      <3>1. ASSUME projection.session # NoSession, NEW st,
                   sessions' = [sessions EXCEPT ![s] = st],
                   projection'.reason
                     = ActionableReason(Availability(st), projection.report)
            PROVE  projection'.reason = projection.reason
        <4>1. sessions[s] = st
          BY <2>1, <2>2, <3>1
        <4> QED BY <1>1, <3>1, <4>1 DEF SoleIInv
      <3> QED BY <1>1, <2>2, <2>6, <3>1, SoleReconciled
    <2> QED BY <1>1, <2>3, <2>4, <2>5, <2>6 DEF StoreNext, ProducerSends
  <1> QED BY <1>1, SoleInvariance, PTL DEF StoreSpec, SettledBumpsNothing

=============================================================================
