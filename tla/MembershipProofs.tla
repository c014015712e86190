------------------------- MODULE MembershipProofs -------------------------
(***************************************************************************)
(* What the membership monitor keeps for any number of tasks, panes, statuses   *)
(* and faults: the types, ConnectedIsCovered, LevelNeverOverridesEdge and        *)
(* EdgesFollowTheRoute.                                                      *)
(*                                                                          *)
(* The monitor's fields mean different things at different points of _replace.    *)
(* At rest the subscription is the active stream and carries the members and the   *)
(* routes as they are; from the first await of _replace it carries the ones to go   *)
(* back to.  The inductive invariant says which of the two holds when, and that a   *)
(* level in flight is never behind what its task has been told in the same epoch.   *)
(***************************************************************************)
EXTENDS Membership, FiniteSetTheorems, SequenceTheorems, TLAPS

(* Between the start of the new stream and the end of _replace.                    *)
Replacing == scan.pc = "levels" /\ scan.replacing

(* The routes are already those of the successor.                                 *)
Changing == scan.pc = "starting" \/ Replacing

(* A stream has every pane of m that was open when it subscribed.                  *)
Covers(s, m) ==
    \A t \in Tasks : m[t] # NoPane => m[t] \in stream[s].panes \/ pane[m[t]] = Closed

(* What the awaits of the scan leave in its frame.                                *)
ScanFrame ==
    /\ scan.pc = "new" => sub = NoStream /\ ~connected
    /\ scan.pc = "starting" => scan.before = members /\ scan.replacing
    /\ scan.pc = "levels" => scan.found = members
    /\ scan.task # NoTask =>
          /\ scan.pc = "levels" /\ scan.found[scan.task] # NoPane
          /\ scan.frontier <= epoch[scan.found[scan.task]]
    /\ \A t \in scan.left : scan.found[t] # NoPane
    /\ scan.answer # {} => scan.task # NoTask /\ \E a \in 0..Unknown : scan.answer = {a}

(* The subscription is the active stream and covers the members, but between the   *)
(* start of its successor and the end of _replace, when it covers the ones before.   *)
Coverage ==
    /\ ~Replacing => /\ active = sub
                     /\ sub # NoStream => Covers(sub, members)
                     /\ connected => Running(sub)
    /\ Replacing => /\ active = Other
                    /\ Covers(Other, members)
                    /\ sub # NoStream => Covers(sub, scan.before)

(* The routes a stream captured.                                              *)
Carries(s, m, r) ==
    \A t \in Tasks : stream[s].routing[t] = [pane |-> m[t], route |-> r[t]]

(* The scan took the tasks that change to their next route.                       *)
RoutesBumped ==
    \A t \in Tasks :
       route[t] = IF scan.before[t] # scan.found[t] THEN scan.routes[t] + 1 ELSE scan.routes[t]

(* A captured route that is still the task's route names the task's pane.            *)
RoutesAgree(s) ==
    \A t \in Tasks :
       stream[s].routing[t].route = route[t] => stream[s].routing[t].pane = members[t]

Routing ==
    /\ Changing => /\ RoutesBumped
                   /\ sub # NoStream => Carries(sub, scan.before, scan.routes)
    /\ ~Changing => (sub # NoStream => Carries(sub, members, route))
    /\ Replacing => Carries(Other, members, route)
    /\ scan.pc = "draining" => sub # NoStream /\ RoutesAgree(Other)

(* Only the subscription, its successor and the stream that is drained have a        *)
(* consumer.                                                                 *)
SparesAreClosed ==
    scan.pc # "draining" => \A s \in Streams \ {sub, active} : stream[s].consumer = "none"

(* Nothing is ahead of the pane it tells of.                                     *)
Honest(q, truth) ==
    \A i \in DOMAIN q : q[i].pane # NoPane /\ q[i].status <= truth[q[i].pane]

NothingAhead ==
    /\ \A t \in Tasks : seen[t].pane # NoPane => seen[t].status <= pane[seen[t].pane]
    /\ \A s \in Streams : Honest(stream[s].queue, pane)
    /\ \A a \in scan.answer : a # Unknown => a <= pane[scan.found[scan.task]]

(* A level in flight is not behind its task, as long as it would be applied.        *)
LevelInFlight ==
    \A a \in scan.answer :
       (a # Unknown /\ Fresh(scan.task) /\ seen[scan.task].pane = scan.found[scan.task])
          => seen[scan.task].status <= a

IInv == /\ TypeOK /\ ScanFrame /\ Coverage /\ Routing /\ SparesAreClosed
        /\ NothingAhead /\ LevelInFlight

-----------------------------------------------------------------------------
(* There are two streams, so the one that is not the subscription is Other.         *)
LEMMA TwoStreams ==
  ASSUME sub \in Streams \union {NoStream}
  PROVE  /\ Other \in Streams /\ Other # sub
         /\ sub # NoStream => \A s \in Streams : s # sub => s = Other
  <1>1. IsFiniteSet(Streams) /\ Cardinality(Streams) = 2 /\ NoStream \notin Streams
    BY MembershipAssumption
  <1>2. PICK a \in Streams : TRUE
    BY <1>1, FS_EmptySet
  <1>3. IsFiniteSet(Streams \ {a}) /\ Cardinality(Streams \ {a}) = 1
    BY <1>1, <1>2, FS_RemoveElement
  <1>4. PICK b : Streams \ {a} = {b}
    BY <1>3, FS_Singleton
  <1>5. Streams = {a, b} /\ a # b
    BY <1>2, <1>4
  <1>6. \E s \in Streams : s # sub
    BY <1>5
  <1>7. Other \in Streams /\ Other # sub
    BY <1>6 DEF Other
  <1> QED BY <1>1, <1>5, <1>7

LEMMA Constants ==
  /\ NoPane \notin Panes /\ Torn \notin Panes /\ Torn # NoPane
  /\ NoStream \notin Streams /\ NoTask \notin Tasks
  /\ MaxStatus \in Nat /\ MaxMeta \in Nat /\ MaxFaults \in Nat
  BY MembershipAssumption

LEMMA InventoryTyped ==
  ASSUME TypeOK
  PROVE  Inventory \in [Tasks -> Pane] /\ Nothing \in [Tasks -> Pane] /\ NoRoutes \in [Tasks -> Nat]
  BY DEF TypeOK, Inventory, Nothing, NoRoutes, Pane

LEMMA IdleTyped ==
  /\ Idle \in Scan
  /\ Idle.pc = "idle" /\ ~Idle.replacing /\ Idle.task = NoTask /\ Idle.answer = {}
  /\ Idle.left = {}
  BY DEF Idle, Scan, Nothing, NoRoutes, Pane

LEMMA ClosedTyped ==
  ClosedStream \in Stream /\ ClosedStream.consumer = "none" /\ ClosedStream.queue = <<>>
  BY DEF ClosedStream, Stream, Pane, Observation

(* What a scan is about stays with it.                                         *)
SameScan(a, b) == a.found = b.found /\ a.before = b.before /\ a.routes = b.routes

(* What the scan is when the level of t is asked for.                              *)
LevelOf(next, sc, left, t) ==
    /\ next.pc = "levels" /\ next.left = left \ {t} /\ next.task = t
    /\ next.answer = {} /\ next.frontier = epoch[sc.found[t]]
    /\ SameScan(next, sc) /\ next.replacing = sc.replacing

LEMMA LevelAsked ==
  ASSUME NEW sc \in Scan, NEW left \in SUBSET Tasks, NEW t \in left,
         \A u \in left : sc.found[u] # NoPane, epoch \in [Panes -> Nat],
         NEW next, next = NextLevel(sc, left, t)
  PROVE  next \in Scan /\ LevelOf(next, sc, left, t) /\ sc.found[t] \in Panes
  <1>1. sc.found[t] \in Panes
    BY DEF Scan, Pane
  <1> DEFINE e == epoch[sc.found[t]]
  <1>2. e \in Nat
    BY <1>1
  <1> HIDE DEF e
  <1>3. NextLevel(sc, left, t) = [sc EXCEPT !.pc = "levels", !.left = left \ {t}, !.task = t,
                                             !.answer = {}, !.frontier = e]
    BY DEF NextLevel, e
  <1>4. [sc EXCEPT !.pc = "levels", !.left = left \ {t}, !.task = t,
                   !.answer = {}, !.frontier = e] \in Scan
    BY <1>2 DEF Scan
  <1> QED BY <1>1, <1>3, <1>4 DEF Scan, SameScan, LevelOf, e

-----------------------------------------------------------------------------
(* What the steps of the scan do, with their fields spelt out once.  The next member's level has been asked for.                                  *)
Asked(left, t) ==
    /\ t \in left /\ scan'.pc = "levels" /\ scan'.left = left \ {t}
    /\ scan'.task = t /\ scan'.answer = {} /\ scan'.frontier = epoch[scan'.found[t]]
    /\ scan'.found[t] \in Panes

BeginsReplace(found) ==
    /\ route' = Bumped(found)
    /\ scan'.pc = "starting" /\ scan'.replacing /\ scan'.found = found
    /\ scan'.before = members /\ scan'.routes = route
    /\ scan'.left = {} /\ scan'.task = NoTask /\ scan'.answer = {}
    /\ UNCHANGED <<stream, members, sub, active, epoch, force, connected, seen>>

FindsNobody ==
    /\ scan.pc = "idle" /\ ~connected'
    /\ UNCHANGED <<scan, stream, members, sub, active, route, epoch, force, seen>>

ReadsLevels(t) ==
    /\ scan.pc = "idle" /\ Asked(Members(members), t)
    /\ scan'.found = members /\ ~scan'.replacing
    /\ connected' = connected
    /\ UNCHANGED <<stream, members, sub, active, route, epoch, force, seen>>

LEMMA ScanForCases ==
  ASSUME TypeOK, NEW found \in [Tasks -> Pane], ScanFor(found), scan.pc \in {"new", "idle"}
  PROVE  /\ scan' \in Scan /\ route' \in [Tasks -> Nat] /\ connected' \in BOOLEAN
         /\ BeginsReplace(found) \/ FindsNobody \/ \E t \in Tasks : ReadsLevels(t)
  <1>0. /\ members \in [Tasks -> Pane] /\ route \in [Tasks -> Nat] /\ scan \in Scan
        /\ epoch \in [Panes -> Nat] /\ connected \in BOOLEAN
    BY DEF TypeOK
  <1>1. CASE force \/ scan.pc = "new" \/ found # members
    <2>1. /\ route' = Bumped(found)
          /\ scan' = [Idle EXCEPT !.pc = "starting", !.replacing = TRUE, !.found = found,
                                  !.before = members, !.routes = route]
          /\ UNCHANGED <<stream, members, sub, active, epoch, force, connected, seen>>
      BY <1>1 DEF ScanFor
    <2>2. Bumped(found) \in [Tasks -> Nat]
      BY <1>0 DEF Bumped
    <2>3. scan' \in Scan
      BY <1>0, <2>1, IdleTyped DEF Scan
    <2>4. BeginsReplace(found)
      BY <2>1, IdleTyped DEF BeginsReplace, Idle
    <2> QED BY <1>0, <2>1, <2>2, <2>3, <2>4
  <1>2. CASE ~(force \/ scan.pc = "new" \/ found # members) /\ Members(members) = {}
    BY <1>0, <1>2 DEF ScanFor, FindsNobody
  <1>3. CASE ~(force \/ scan.pc = "new" \/ found # members) /\ Members(members) # {}
    <2>1. PICK t \in Members(members) :
            scan' = NextLevel([Idle EXCEPT !.found = members], Members(members), t)
      BY <1>3 DEF ScanFor
    <2>2. /\ UNCHANGED <<stream, members, sub, active, route, epoch, force, seen>>
          /\ connected' = connected /\ scan.pc = "idle"
      BY <1>0, <1>3 DEF ScanFor
    <2> DEFINE sc == [Idle EXCEPT !.found = members]
    <2>3. /\ sc \in Scan /\ sc.found = members /\ ~sc.replacing
          /\ Members(members) \in SUBSET Tasks
          /\ \A u \in Members(members) : sc.found[u] # NoPane
      BY <1>0, IdleTyped DEF Scan, Idle, Members
    <2> HIDE DEF sc
    <2>4. scan' = NextLevel(sc, Members(members), t)
      BY <2>1 DEF sc
    <2>5. /\ scan' \in Scan /\ Asked(Members(members), t)
          /\ scan'.found = members /\ ~scan'.replacing
      <3>1. /\ scan' \in Scan /\ LevelOf(scan', sc, Members(members), t)
            /\ sc.found[t] \in Panes
        BY <1>0, <2>3, <2>4, LevelAsked
      <3> QED BY <2>3, <3>1 DEF Asked, LevelOf, SameScan
    <2>6. t \in Tasks
      BY <2>1, <2>3
    <2> QED BY <1>0, <2>2, <2>5, <2>6 DEF ReadsLevels
  <1> QED BY <1>1, <1>2, <1>3

AnswersAreIn ==
    /\ scan'.pc = "levels" /\ scan'.task = NoTask /\ scan'.answer = {} /\ scan'.left = scan.left

LEMMA SubscribeCases ==
  ASSUME TypeOK, ScanFrame, Subscribe
  PROVE  /\ scan' \in Scan /\ SameScan(scan', scan) /\ scan'.replacing = scan.replacing
         /\ AnswersAreIn \/ \E t \in Tasks : Asked(Members(scan.found), t)
  <1>0. scan \in Scan /\ epoch \in [Panes -> Nat]
    BY DEF TypeOK
  <1>1. CASE Members(scan.found) = {}
    <2>1. scan' = [scan EXCEPT !.pc = "levels", !.task = NoTask] /\ scan.pc = "starting"
      BY <1>1 DEF Subscribe
    <2>2. scan.answer = {}
      BY <2>1 DEF ScanFrame
    <2> QED BY <1>0, <2>1, <2>2 DEF Scan, SameScan, AnswersAreIn
  <1>2. CASE Members(scan.found) # {}
    <2>1. PICK t \in Members(scan.found) : scan' = NextLevel(scan, Members(scan.found), t)
      BY <1>2 DEF Subscribe
    <2>2. /\ Members(scan.found) \in SUBSET Tasks
          /\ \A u \in Members(scan.found) : scan.found[u] # NoPane
      BY DEF Members
    <2>3. /\ scan' \in Scan /\ LevelOf(scan', scan, Members(scan.found), t)
          /\ scan.found[t] \in Panes
      BY <1>0, <2>1, <2>2, LevelAsked
    <2>4. /\ Asked(Members(scan.found), t) /\ SameScan(scan', scan)
          /\ scan'.replacing = scan.replacing
      BY <2>1, <2>3 DEF Asked, LevelOf, SameScan
    <2> QED BY <2>1, <2>2, <2>3, <2>4
  <1> QED BY <1>1, <1>2

LEMMA LevelArrivesCases ==
  ASSUME TypeOK, ScanFrame, LevelArrives
  PROVE  /\ scan' \in Scan /\ SameScan(scan', scan) /\ scan'.replacing = scan.replacing
         /\ AnswersAreIn \/ \E t \in scan.left : Asked(scan.left, t)
  <1>0. scan \in Scan /\ epoch \in [Panes -> Nat] /\ scan.pc = "levels" /\ scan.task # NoTask
    BY DEF TypeOK, ScanFrame, LevelArrives
  <1>1. PICK ok \in BOOLEAN : ok = (scan.ok /\ Unknown \notin scan.answer)
    BY <1>0 DEF Scan
  <1> DEFINE done == [scan EXCEPT !.task = NoTask, !.answer = {}, !.ok = ok]
  <1>2. [scan EXCEPT !.task = NoTask, !.answer = {}, !.ok = @ /\ Unknown \notin scan.answer] = done
    BY <1>0, <1>1 DEF Scan
  <1>3. IF scan.left = {} THEN scan' = done
        ELSE \E next \in scan.left : scan' = NextLevel(done, scan.left, next)
    BY <1>2 DEF LevelArrives
  <1>4. /\ done \in Scan /\ SameScan(done, scan) /\ done.replacing = scan.replacing
        /\ done.pc = "levels" /\ done.task = NoTask /\ done.answer = {} /\ done.left = scan.left
    BY <1>0, <1>1 DEF Scan, SameScan
  <1> HIDE DEF done
  <1>5. CASE scan.left = {}
    BY <1>3, <1>4, <1>5 DEF AnswersAreIn
  <1>6. CASE scan.left # {}
    <2>1. PICK t \in scan.left : scan' = NextLevel(done, scan.left, t)
      BY <1>3, <1>6
    <2>2. /\ scan.left \in SUBSET Tasks
          /\ \A u \in scan.left : done.found[u] # NoPane
      BY <1>0, <1>4 DEF Scan, SameScan, ScanFrame
    <2>3. /\ scan' \in Scan /\ LevelOf(scan', done, scan.left, t)
          /\ done.found[t] \in Panes
      BY <1>0, <1>4, <2>1, <2>2, LevelAsked
    <2>4. /\ Asked(scan.left, t) /\ SameScan(scan', scan)
          /\ scan'.replacing = scan.replacing
      BY <1>4, <2>1, <2>3 DEF Asked, LevelOf, SameScan
    <2> QED BY <1>4, <2>3, <2>4
  <1> QED BY <1>5, <1>6

-----------------------------------------------------------------------------
(* Types.                                                                    *)
HerdrTyped ==
    /\ meta \in [Tasks -> Pane \union {Torn}]
    /\ pane \in [Panes -> Status]
    /\ budget \in [meta: 0..MaxMeta, faults: 0..MaxFaults]

LEMMA FaultTyped ==
  ASSUME HerdrTyped, Fault
  PROVE  HerdrTyped' /\ pane' = pane
  <1>1. PICK n \in 0..MaxFaults : n = budget.faults + 1
    BY Constants DEF HerdrTyped, Fault
  <1>2. budget' = [budget EXCEPT !.faults = n]
    BY <1>1 DEF Fault, HerdrTyped
  <1> QED BY <1>2 DEF HerdrTyped, Fault

LEMMA HerdrStepTyped ==
  ASSUME TypeOK, Herdr
  PROVE  /\ HerdrTyped' /\ stream' \in [Streams -> Stream]
         /\ UNCHANGED <<scan, monitorVars>>
  <1>0. HerdrTyped /\ stream \in [Streams -> Stream] /\ MaxStatus \in Nat
    BY Constants DEF TypeOK, HerdrTyped
  <1>1. ASSUME NEW t \in Tasks, NEW value \in Pane \union {Torn}, WriteMeta(t, value)
        PROVE  HerdrTyped' /\ UNCHANGED <<stream, scan, monitorVars>>
    <2>1. PICK n \in 0..MaxMeta : n = budget.meta + 1
      BY <1>0, <1>1, Constants DEF HerdrTyped, WriteMeta
    <2>2. budget' = [budget EXCEPT !.meta = n]
      BY <1>0, <1>1, <2>1 DEF HerdrTyped, WriteMeta
    <2> QED BY <1>0, <1>1, <2>2 DEF HerdrTyped, WriteMeta
  <1>2. ASSUME NEW p \in Panes, PaneChanges(p)
        PROVE  HerdrTyped' /\ stream' \in [Streams -> Stream] /\ UNCHANGED <<scan, monitorVars>>
    <2>1. pane[p] + 1 \in Status
      BY <1>0, <1>2 DEF HerdrTyped, PaneChanges, Status, Closed
    <2>2. [pane |-> p, status |-> pane[p] + 1] \in Observation
      BY <2>1 DEF Observation, Pane
    <2>3. ASSUME NEW s \in Streams
          PROVE  [stream[s] EXCEPT !.queue = Append(stream[s].queue, [pane |-> p, status |-> pane[p] + 1])] \in Stream
      <3>1. PICK edge \in Observation : edge = [pane |-> p, status |-> pane[p] + 1]
        BY <2>2
      <3>2. stream[s].queue \in Seq(Observation)
        BY <1>0 DEF Stream
      <3>3. PICK q \in Seq(Observation) : q = Append(stream[s].queue, edge)
        BY <3>2, AppendProperties
      <3>4. [stream[s] EXCEPT !.queue = q] \in Stream
        BY <1>0, <3>3 DEF Stream
      <3> QED BY <3>1, <3>3, <3>4
    <2>4. stream' \in [Streams -> Stream]
      BY <1>0, <1>2, <2>3 DEF PaneChanges
    <2>5. HerdrTyped'
      BY <1>0, <1>2, <2>1 DEF HerdrTyped, PaneChanges
    <2> QED BY <1>2, <2>4, <2>5 DEF PaneChanges
  <1>3. ASSUME NEW p \in Panes, PaneCloses(p)
        PROVE  HerdrTyped' /\ UNCHANGED <<stream, scan, monitorVars>>
    <2>1. Closed \in Status
      BY <1>0 DEF Status, Closed
    <2> QED BY <1>0, <1>3, <2>1 DEF HerdrTyped, PaneCloses
  <1>4. ASSUME NEW s \in Streams, StreamBreaks(s)
        PROVE  HerdrTyped' /\ stream' \in [Streams -> Stream] /\ UNCHANGED <<scan, monitorVars>>
    <2>1. stream' \in [Streams -> Stream]
      BY <1>0, <1>4 DEF StreamBreaks, Stream
    <2> QED BY <1>0, <1>4, <2>1, FaultTyped DEF StreamBreaks
  <1> QED BY <1>0, <1>1, <1>2, <1>3, <1>4 DEF Herdr

LEMMA HerdrUnchanged ==
  ASSUME HerdrTyped, UNCHANGED herdrVars
  PROVE  HerdrTyped'
  BY DEF HerdrTyped, herdrVars

(* The monitor's fields; with the streams and the scan they are the rest of TypeOK.   *)
MonitorTyped ==
    /\ members \in [Tasks -> Pane]
    /\ {sub, active} \subseteq Streams \union {NoStream}
    /\ route \in [Tasks -> Nat] /\ epoch \in [Panes -> Nat]
    /\ force \in BOOLEAN /\ connected \in BOOLEAN
    /\ seen \in [Tasks -> Observation]

LEMMA TypeParts ==
  TypeOK <=> HerdrTyped /\ MonitorTyped /\ stream \in [Streams -> Stream] /\ scan \in Scan
  BY DEF TypeOK, HerdrTyped, MonitorTyped

LEMMA RollbackTyped ==
  ASSUME TypeOK, Rollback
  PROVE  MonitorTyped' /\ stream' \in [Streams -> Stream] /\ scan' \in Scan
  <1>0. /\ MonitorTyped /\ stream \in [Streams -> Stream] /\ scan \in Scan
    BY TypeParts
  <1>1. stream' \in [Streams -> Stream]
    BY <1>0, ClosedTyped DEF Rollback
  <1>2. scan.before \in [Tasks -> Pane] /\ scan.routes \in [Tasks -> Nat]
    BY <1>0 DEF Scan
  <1> QED BY <1>0, <1>1, <1>2, IdleTyped DEF Rollback, MonitorTyped

LEMMA ScanForTyped ==
  ASSUME TypeOK, NEW found \in [Tasks -> Pane], ScanFor(found), scan.pc \in {"new", "idle"}
  PROVE  MonitorTyped' /\ stream' \in [Streams -> Stream] /\ scan' \in Scan
  <1>0. MonitorTyped /\ stream \in [Streams -> Stream]
    BY TypeParts
  <1>1. /\ scan' \in Scan /\ route' \in [Tasks -> Nat] /\ connected' \in BOOLEAN
        /\ BeginsReplace(found) \/ FindsNobody \/ \E t \in Tasks : ReadsLevels(t)
    BY ScanForCases
  <1>2. UNCHANGED <<stream, members, sub, active, epoch, force, seen>>
    BY <1>1 DEF BeginsReplace, FindsNobody, ReadsLevels
  <1> QED BY <1>0, <1>1, <1>2 DEF MonitorTyped

LEMMA SubscribeTyped ==
  ASSUME TypeOK, ScanFrame, Subscribe
  PROVE  MonitorTyped' /\ stream' \in [Streams -> Stream] /\ scan' \in Scan
  <1>0. /\ MonitorTyped /\ stream \in [Streams -> Stream] /\ scan \in Scan
    BY TypeParts
  <1>1. scan' \in Scan
    BY SubscribeCases
  <1>2. scan.found \in [Tasks -> Pane] /\ route \in [Tasks -> Nat]
    BY <1>0 DEF Scan, MonitorTyped
  <1>3. Subscribed \in Stream
    <2>1. [t \in Tasks |-> [pane |-> scan.found[t], route |-> route[t]]]
            \in [Tasks -> [pane: Pane, route: Nat]]
      BY <1>2
    <2>2. {p \in PanesOf(scan.found) : pane[p] # Closed} \in SUBSET Panes
      BY <1>2 DEF PanesOf, Members, Pane
    <2>3. <<>> \in Seq(Observation)
      OBVIOUS
    <2> QED BY <2>1, <2>2, <2>3 DEF Subscribed, Stream
  <1>4. Other \in Streams
    BY <1>0, TwoStreams DEF MonitorTyped
  <1>5. stream' \in [Streams -> Stream]
    BY <1>0, <1>3 DEF Subscribe
  <1> QED BY <1>0, <1>1, <1>2, <1>4, <1>5 DEF Subscribe, MonitorTyped

LEMMA HerdrAnswersTyped ==
  ASSUME TypeOK, ScanFrame, HerdrAnswers
  PROVE  /\ HerdrTyped' /\ scan' \in Scan /\ UNCHANGED <<stream, monitorVars>>
         /\ pane' = pane
         /\ SameScan(scan', scan) /\ scan'.pc = "levels" /\ scan'.task = scan.task
         /\ scan.pc = "levels" /\ scan.task # NoTask
         /\ scan'.left = scan.left /\ scan'.frontier = scan.frontier
         /\ scan'.replacing = scan.replacing
         /\ scan.found[scan.task] \in Panes
         /\ \E a \in 0..Unknown : /\ scan'.answer = {a}
                                  /\ a # Unknown => a = pane[scan.found[scan.task]]
  <1>0. HerdrTyped /\ scan \in Scan /\ MaxStatus \in Nat
    BY Constants, TypeParts
  <1>1. /\ scan.task # NoTask /\ scan.pc = "levels" /\ scan.task \in Tasks
        /\ scan.found[scan.task] \in Panes
    BY <1>0 DEF HerdrAnswers, ScanFrame, Scan, Pane
  <1>2. pane[scan.found[scan.task]] \in Status /\ Status \subseteq 0..Unknown
        /\ Unknown \in 0..Unknown
    BY <1>0, <1>1 DEF HerdrTyped, Status, Closed, Unknown
  <1>3. \E a \in 0..Unknown : /\ scan' = [scan EXCEPT !.answer = {a}]
                              /\ a # Unknown => a = pane[scan.found[scan.task]]
    BY <1>2 DEF HerdrAnswers
  <1>4. HerdrTyped' /\ pane' = pane
    BY <1>0, FaultTyped, HerdrUnchanged DEF HerdrAnswers, herdrVars
  <1> QED BY <1>0, <1>1, <1>3, <1>4 DEF Scan, SameScan, HerdrAnswers

LEMMA LevelArrivesTyped ==
  ASSUME TypeOK, ScanFrame, LevelArrives
  PROVE  MonitorTyped' /\ scan' \in Scan
  <1>0. MonitorTyped /\ scan \in Scan /\ MaxStatus \in Nat
    BY Constants, TypeParts
  <1>1. scan' \in Scan
    BY LevelArrivesCases
  <1>2. scan.task \in Tasks /\ scan.found[scan.task] \in Pane
    BY <1>0 DEF LevelArrives, ScanFrame, Scan
  <1>3. ASSUME Unknown \notin scan.answer
        PROVE  (CHOOSE a \in scan.answer : TRUE) \in Status
    <2>1. (CHOOSE a \in scan.answer : TRUE) \in scan.answer
      BY DEF LevelArrives
    <2>2. scan.answer \subseteq (0..Unknown) \ {Unknown}
      BY <1>0, <1>3 DEF Scan
    <2> QED BY <1>0, <2>1, <2>2 DEF Status, Closed, Unknown
  <1>4. seen' \in [Tasks -> Observation]
    BY <1>0, <1>2, <1>3 DEF LevelArrives, MonitorTyped, Observation
  <1>5. connected' \in BOOLEAN
    BY DEF LevelArrives
  <1> QED BY <1>0, <1>1, <1>4, <1>5 DEF LevelArrives, MonitorTyped

LEMMA ConsumeTyped ==
  ASSUME TypeOK, NEW s \in Streams, Consume(s)
  PROVE  /\ MonitorTyped' /\ stream' \in [Streams -> Stream]
         /\ stream' = [stream EXCEPT ![s] = [stream[s] EXCEPT !.queue = Tail(stream[s].queue)]]
         /\ Tail(stream[s].queue) \in Seq(Observation)
         /\ Head(stream[s].queue) \in Observation
  <1>0. MonitorTyped /\ stream \in [Streams -> Stream]
    BY TypeParts
  <1>1. stream[s].queue \in Seq(Observation) /\ stream[s].queue # <<>>
    BY <1>0 DEF Stream, Consume
  <1>2. Head(stream[s].queue) \in Observation /\ Tail(stream[s].queue) \in Seq(Observation)
    BY <1>1
  <1>3. PICK edge \in Observation : edge = Head(stream[s].queue)
    BY <1>2
  <1>4. epoch' = [epoch EXCEPT ![edge.pane] = epoch[edge.pane] + 1]
    BY <1>3 DEF Consume
  <1>5. epoch' \in [Panes -> Nat]
    <2>1. epoch \in [Panes -> Nat]
      BY <1>0 DEF MonitorTyped
    <2>2. CASE edge.pane \in Panes
      <3>1. epoch[edge.pane] + 1 \in Nat
        BY <2>1, <2>2
      <3> QED BY <1>4, <2>1, <3>1
    <2>3. CASE edge.pane \notin Panes
      BY <1>4, <2>1, <2>3
    <2> QED BY <2>2, <2>3
  <1>6. seen' \in [Tasks -> Observation]
    BY <1>0, <1>3 DEF Consume, MonitorTyped
  <1>7. stream' = [stream EXCEPT ![s] = [stream[s] EXCEPT !.queue = Tail(stream[s].queue)]]
    BY <1>0 DEF Consume
  <1>8. [stream[s] EXCEPT !.queue = Tail(stream[s].queue)] \in Stream
    BY <1>0, <1>2 DEF Stream
  <1>9. stream' \in [Streams -> Stream]
    BY <1>0, <1>7, <1>8
  <1> QED BY <1>0, <1>2, <1>5, <1>6, <1>7, <1>9 DEF Consume, MonitorTyped

LEMMA TypeInit == Init => TypeOK
  <1> SUFFICES ASSUME Init PROVE TypeOK
    OBVIOUS
  <1>1. HerdrTyped
    BY Constants DEF Init, HerdrTyped, Status, Closed, Pane
  <1>2. MonitorTyped
    <2>1. [pane |-> NoPane, status |-> 0] \in Observation
      BY Constants DEF Pane, Observation, Status, Closed
    <2>2. Nothing \in [Tasks -> Pane] /\ NoRoutes \in [Tasks -> Nat]
      BY DEF Nothing, NoRoutes, Pane
    <2>3. epoch \in [Panes -> Nat] /\ seen \in [Tasks -> Observation]
      BY <2>1 DEF Init
    <2> QED BY <2>2, <2>3 DEF Init, MonitorTyped
  <1>3. stream \in [Streams -> Stream]
    BY ClosedTyped DEF Init
  <1>4. scan \in Scan
    BY IdleTyped DEF Init, Scan
  <1> QED BY <1>1, <1>2, <1>3, <1>4, TypeParts

LEMMA TypeStep == TypeOK /\ ScanFrame /\ [Next]_vars => TypeOK'
  <1> SUFFICES ASSUME TypeOK, ScanFrame, [Next]_vars PROVE TypeOK'
    OBVIOUS
  <1>0. /\ HerdrTyped /\ MonitorTyped /\ stream \in [Streams -> Stream] /\ scan \in Scan
        /\ Inventory \in [Tasks -> Pane] /\ Nothing \in [Tasks -> Pane] /\ Other \in Streams
    BY TypeParts, InventoryTyped, TwoStreams DEF MonitorTyped
  <1> DEFINE Typed == HerdrTyped /\ MonitorTyped /\ stream \in [Streams -> Stream] /\ scan \in Scan
  <1>t. Typed' => TypeOK'
    BY TypeParts, PTL
  <1>1. CASE Herdr
    <2>1. HerdrTyped' /\ stream' \in [Streams -> Stream] /\ UNCHANGED <<scan, monitorVars>>
      BY <1>1, HerdrStepTyped
    <2>2. MonitorTyped'
      BY <1>0, <2>1 DEF MonitorTyped, monitorVars
    <2> QED BY <1>0, <1>t, <2>1, <2>2
  <1>2. CASE StartScan
    BY <1>0, <1>2, <1>t, ScanForTyped, HerdrUnchanged DEF StartScan
  <1>3. CASE ScanBlind
    BY <1>0, <1>3, <1>t, ScanForTyped, FaultTyped DEF ScanBlind
  <1>4. CASE SubscribeFails
    BY <1>0, <1>4, <1>t, RollbackTyped, HerdrUnchanged, FaultTyped DEF SubscribeFails
  <1>5. CASE Subscribe
    <2>1. UNCHANGED herdrVars
      BY <1>5 DEF Subscribe, herdrVars
    <2> QED BY <1>0, <1>5, <1>t, <2>1, SubscribeTyped, HerdrUnchanged
  <1>6. CASE HerdrAnswers
    <2>1. MonitorTyped'
      BY <1>0, <1>6, HerdrAnswersTyped DEF MonitorTyped, monitorVars
    <2> QED BY <1>0, <1>6, <1>t, <2>1, HerdrAnswersTyped
  <1>7. CASE LevelArrives
    <2>1. UNCHANGED herdrVars /\ stream' = stream
      BY <1>7 DEF LevelArrives, herdrVars
    <2> QED BY <1>0, <1>7, <1>t, <2>1, LevelArrivesTyped, HerdrUnchanged
  <1>8. CASE ScanEnds
    <2>1. UNCHANGED herdrVars /\ stream' = stream /\ scan' = Idle
      BY <1>8 DEF ScanEnds, herdrVars
    <2>2. MonitorTyped'
      BY <1>0, <1>8 DEF ScanEnds, MonitorTyped
    <2> QED BY <1>0, <1>t, <2>1, <2>2, IdleTyped, HerdrUnchanged
  <1>9. CASE ReplaceFails
    BY <1>0, <1>9, <1>t, RollbackTyped, HerdrUnchanged DEF ReplaceFails
  <1>10. CASE ReplaceCommits
    <2>1. UNCHANGED herdrVars /\ stream' = stream
      BY <1>10 DEF ReplaceCommits, herdrVars
    <2>2. scan' \in Scan
      BY <1>10, IdleTyped DEF ReplaceCommits, Scan
    <2>3. MonitorTyped'
      BY <1>0, <1>10 DEF ReplaceCommits, MonitorTyped
    <2> QED BY <1>0, <1>t, <2>1, <2>2, <2>3, HerdrUnchanged
  <1>11. CASE DrainEnds
    <2>1. UNCHANGED herdrVars /\ scan' = Idle
      BY <1>11 DEF DrainEnds, herdrVars
    <2>2. stream' \in [Streams -> Stream]
      BY <1>0, <1>11, ClosedTyped DEF DrainEnds
    <2>3. MonitorTyped'
      BY <1>0, <1>11 DEF DrainEnds, MonitorTyped
    <2> QED BY <1>0, <1>t, <2>1, <2>2, <2>3, IdleTyped, HerdrUnchanged
  <1>12. ASSUME NEW s \in Streams, Consume(s) PROVE TypeOK'
    <2>1. UNCHANGED herdrVars /\ scan' = scan
      BY <1>12 DEF Consume, herdrVars
    <2> QED BY <1>0, <1>12, <1>t, <2>1, ConsumeTyped, HerdrUnchanged
  <1>13. ASSUME NEW s \in Streams, ConsumerDies(s) PROVE TypeOK'
    <2>1. UNCHANGED herdrVars /\ scan' = scan
      BY <1>13 DEF ConsumerDies, herdrVars
    <2>2. stream' \in [Streams -> Stream]
      BY <1>0, <1>13 DEF ConsumerDies, Stream
    <2>3. MonitorTyped'
      BY <1>0, <1>13 DEF ConsumerDies, MonitorTyped
    <2> QED BY <1>0, <1>t, <2>1, <2>2, <2>3, HerdrUnchanged
  <1>14. CASE UNCHANGED vars
    BY <1>14 DEF vars, herdrVars, TypeOK
  <1> QED BY <1>1, <1>2, <1>3, <1>4, <1>5, <1>6, <1>7, <1>8, <1>9, <1>10, <1>11, <1>12,
             <1>13, <1>14 DEF Next, Scanning

-----------------------------------------------------------------------------
(* The frame of the scan.                                                     *)
LEMMA EpochGrows ==
  ASSUME TypeOK, NEW s \in Streams, Consume(s)
  PROVE  /\ \A p \in Panes : epoch[p] <= epoch'[p]
         /\ \A p \in Panes : p = Head(stream[s].queue).pane => epoch[p] < epoch'[p]
  <1>1. PICK edge : edge = Head(stream[s].queue)
    OBVIOUS
  <1>2. epoch' = [epoch EXCEPT ![edge.pane] = epoch[edge.pane] + 1] /\ epoch \in [Panes -> Nat]
    BY <1>1 DEF Consume, TypeOK
  <1>3. ASSUME NEW p \in Panes
        PROVE  epoch'[p] = IF p = edge.pane THEN epoch[p] + 1 ELSE epoch[p]
    BY <1>2
  <1>4. ASSUME NEW p \in Panes
        PROVE  epoch[p] <= epoch'[p] /\ (p = edge.pane => epoch[p] < epoch'[p])
    <2>1. epoch[p] \in Nat
      BY <1>2
    <2> QED BY <1>3, <2>1
  <1> QED BY <1>1, <1>4

(* A scan whose frame is empty.                                                *)
AtRest == scan'.pc \in {"idle", "draining"} /\ scan'.left = {} /\ scan'.task = NoTask /\ scan'.answer = {}

LEMMA RestKeepsFrame ==
  ASSUME AtRest
  PROVE  ScanFrame'
  BY DEF AtRest, ScanFrame

LEMMA IdleAtRest ==
  /\ scan' = Idle => AtRest /\ ~scan'.replacing /\ scan'.pc = "idle"
  /\ scan' = [Idle EXCEPT !.pc = "draining"] => AtRest /\ ~scan'.replacing /\ scan'.pc = "draining"
  BY DEF AtRest, Idle

LEMMA FrameAsked ==
  ASSUME NEW left, NEW t \in Tasks, Asked(left, t), TypeOK, scan' \in Scan,
         \A u \in left : scan'.found[u] # NoPane, scan'.found = members', epoch' = epoch
  PROVE  ScanFrame'
  <1>1. epoch[scan'.found[t]] \in Nat /\ scan'.found[t] # NoPane
    BY Constants DEF Asked, TypeOK
  <1>2. scan'.frontier <= epoch'[scan'.found[t]]
    BY <1>1 DEF Asked
  <1> QED BY <1>1, <1>2 DEF Asked, ScanFrame

LEMMA FrameAnswered ==
  ASSUME AnswersAreIn, ScanFrame, SameScan(scan', scan), scan'.found = members'
  PROVE  ScanFrame'
  BY DEF AnswersAreIn, ScanFrame, SameScan

LEMMA ScanForFrame ==
  ASSUME TypeOK, ScanFrame, NEW found \in [Tasks -> Pane], ScanFor(found),
         scan.pc \in {"new", "idle"}
  PROVE  ScanFrame'
  <1>0. scan' \in Scan
    BY ScanForCases
  <1>1. CASE BeginsReplace(found)
    BY <1>1 DEF BeginsReplace, ScanFrame
  <1>2. CASE FindsNobody
    BY <1>2 DEF FindsNobody, ScanFrame
  <1>3. ASSUME NEW t \in Tasks, ReadsLevels(t) PROVE ScanFrame'
    <2>1. \A u \in Members(members) : scan'.found[u] # NoPane
      BY <1>3 DEF ReadsLevels, Members
    <2> QED BY <1>0, <1>3, <2>1, FrameAsked DEF ReadsLevels
  <1> QED BY <1>1, <1>2, <1>3, ScanForCases

LEMMA FrameStep == TypeOK /\ ScanFrame /\ [Next]_vars => ScanFrame'
  <1> SUFFICES ASSUME TypeOK, ScanFrame, [Next]_vars PROVE ScanFrame'
    OBVIOUS
  <1>0. Inventory \in [Tasks -> Pane] /\ Nothing \in [Tasks -> Pane]
    BY InventoryTyped
  <1>1. CASE Herdr
    BY <1>1, HerdrStepTyped DEF ScanFrame, monitorVars
  <1>2. CASE StartScan \/ ScanBlind
    BY <1>0, <1>2, ScanForFrame DEF StartScan, ScanBlind
  <1>3. CASE SubscribeFails \/ ReplaceFails \/ ScanEnds \/ DrainEnds
    <2>1. scan' = Idle
      BY <1>3 DEF SubscribeFails, ReplaceFails, Rollback, ScanEnds, DrainEnds
    <2> QED BY <2>1, IdleAtRest, RestKeepsFrame
  <1>4. CASE ReplaceCommits
    BY <1>4, IdleAtRest, RestKeepsFrame DEF ReplaceCommits
  <1>5. CASE Subscribe
    <2>1. /\ scan' \in Scan /\ SameScan(scan', scan)
          /\ AnswersAreIn \/ \E t \in Tasks : Asked(Members(scan.found), t)
      BY <1>5, SubscribeCases
    <2>2. scan'.found = members' /\ epoch' = epoch
      BY <1>5, <2>1 DEF Subscribe, SameScan
    <2>3. \A u \in Members(scan.found) : scan'.found[u] # NoPane
      BY <2>1 DEF Members, SameScan
    <2> QED BY <2>1, <2>2, <2>3, FrameAsked, FrameAnswered
  <1>6. CASE HerdrAnswers
    <2>1. UNCHANGED monitorVars
      BY <1>6, HerdrAnswersTyped
    <2> QED BY <1>6, <2>1, HerdrAnswersTyped DEF ScanFrame, SameScan, monitorVars
  <1>7. CASE LevelArrives
    <2>1. /\ scan' \in Scan /\ SameScan(scan', scan)
          /\ AnswersAreIn \/ \E t \in scan.left : Asked(scan.left, t)
      BY <1>7, LevelArrivesCases
    <2>2. scan'.found = members' /\ epoch' = epoch
      BY <1>7, <2>1 DEF LevelArrives, SameScan, ScanFrame
    <2>3. \A u \in scan.left : scan'.found[u] # NoPane /\ u \in Tasks
      BY <2>1 DEF ScanFrame, SameScan, TypeOK, Scan
    <2> QED BY <2>1, <2>2, <2>3, FrameAsked, FrameAnswered
  <1>8. ASSUME NEW s \in Streams, Consume(s) PROVE ScanFrame'
    <2>1. UNCHANGED <<scan, sub, connected, members>>
      BY <1>8 DEF Consume
    <2>2. ASSUME scan.task # NoTask PROVE scan.frontier <= epoch'[scan.found[scan.task]]
      <3>1. scan.found[scan.task] \in Panes /\ scan.frontier \in Nat
        BY <2>2 DEF ScanFrame, TypeOK, Scan, Pane
      <3>2. PICK p \in Panes : p = scan.found[scan.task]
        BY <3>1
      <3>3. epoch[p] \in Nat /\ epoch'[p] \in Nat
        BY <1>8, <3>2, ConsumeTyped DEF TypeOK, MonitorTyped
      <3>4. scan.frontier <= epoch[p] /\ epoch[p] <= epoch'[p]
        BY <1>8, <2>2, <3>2, EpochGrows DEF ScanFrame
      <3> QED BY <3>1, <3>2, <3>3, <3>4
    <2> QED BY <2>1, <2>2 DEF ScanFrame
  <1>9. ASSUME NEW s \in Streams, ConsumerDies(s) PROVE ScanFrame'
    BY <1>9 DEF ConsumerDies, ScanFrame
  <1>10. CASE UNCHANGED vars
    BY <1>10 DEF vars, herdrVars, ScanFrame
  <1> QED BY <1>1, <1>2, <1>3, <1>4, <1>5, <1>6, <1>7, <1>8, <1>9, <1>10 DEF Next, Scanning

-----------------------------------------------------------------------------
(* Coverage.                                                                 *)

(* Herdr and what breaks touch of a stream only its connection and its queue; a      *)
(* pane only moves on.                                                        *)
LEMMA HerdrKeepsStreams ==
  ASSUME TypeOK, Herdr
  PROVE  /\ \A s \in Streams : /\ stream'[s].panes = stream[s].panes
                               /\ stream'[s].routing = stream[s].routing
                               /\ stream'[s].consumer = stream[s].consumer
         /\ \A p \in Panes : pane[p] <= pane'[p]
  <1>0. /\ stream \in [Streams -> Stream] /\ pane \in [Panes -> Status] /\ MaxStatus \in Nat
        /\ Status \subseteq Nat
    BY Constants DEF TypeOK, Status, Closed
  <1> DEFINE Kept == \A s \in Streams : /\ stream'[s].panes = stream[s].panes
                                        /\ stream'[s].routing = stream[s].routing
                                        /\ stream'[s].consumer = stream[s].consumer
             Grown == \A p \in Panes : pane[p] <= pane'[p]
  <1>1. ASSUME NEW t \in Tasks, NEW value \in Pane \union {Torn}, WriteMeta(t, value)
        PROVE  Kept /\ Grown
    BY <1>0, <1>1 DEF WriteMeta
  <1>2. ASSUME NEW p \in Panes, PaneChanges(p)
        PROVE  Kept /\ Grown
    <2>1. Grown
      BY <1>0, <1>2 DEF PaneChanges
    <2>2. Kept
      BY <1>0, <1>2 DEF PaneChanges, Stream
    <2> QED BY <2>1, <2>2
  <1>3. ASSUME NEW p \in Panes, PaneCloses(p)
        PROVE  Kept /\ Grown
    BY <1>0, <1>3 DEF PaneCloses, Status, Closed
  <1>4. ASSUME NEW s \in Streams, StreamBreaks(s)
        PROVE  Kept /\ Grown
    <2>1. Grown
      BY <1>0, <1>4 DEF StreamBreaks, Fault
    <2>2. Kept
      BY <1>0, <1>4 DEF StreamBreaks, Stream
    <2> QED BY <2>1, <2>2
  <1> QED BY <1>1, <1>2, <1>3, <1>4 DEF Herdr

CoversNext(s, m) ==
    \A t \in Tasks : m[t] # NoPane => m[t] \in stream'[s].panes \/ pane'[m[t]] = Closed

LEMMA CoversKept ==
  ASSUME TypeOK, TypeOK', NEW s, NEW m \in [Tasks -> Pane], Covers(s, m),
         stream'[s].panes = stream[s].panes, \A p \in Panes : pane[p] <= pane'[p]
  PROVE  CoversNext(s, m)
  <1>1. ASSUME NEW p \in Panes, pane[p] = Closed PROVE pane'[p] = Closed
    BY <1>1, Constants DEF TypeOK, Status, Closed
  <1> QED BY <1>1 DEF Covers, CoversNext, Pane

(* Most steps change nothing that coverage speaks of.                              *)
LEMMA CoverageKept ==
  ASSUME TypeOK, TypeOK', Coverage, UNCHANGED <<members, sub, active>>,
         Replacing' <=> Replacing, Replacing => scan'.before = scan.before,
         sub # NoStream => stream'[sub].panes = stream[sub].panes,
         Replacing => stream'[Other].panes = stream[Other].panes,
         \A p \in Panes : pane[p] <= pane'[p],
         connected' /\ ~Replacing => Running(sub)'
  PROVE  Coverage'
  <1>0. members \in [Tasks -> Pane] /\ scan.before \in [Tasks -> Pane] /\ Other' = Other
    BY DEF TypeOK, Scan, Other
  <1>1. CASE ~Replacing
    <2>1. active' = sub'
      BY <1>1 DEF Coverage
    <2>2. sub # NoStream => CoversNext(sub, members)
      BY <1>0, <1>1, CoversKept DEF Coverage
    <2>3. (sub # NoStream => Covers(sub, members))'
      BY <2>2 DEF Covers, CoversNext
    <2> QED BY <1>1, <2>1, <2>3 DEF Coverage
  <1>2. CASE Replacing
    <2>1. active' = Other'
      BY <1>0, <1>2 DEF Coverage
    <2>2. CoversNext(Other, members) /\ (sub # NoStream => CoversNext(sub, scan.before))
      BY <1>0, <1>2, CoversKept DEF Coverage
    <2>3. Covers(Other, members)'
      BY <1>0, <2>2 DEF Covers, CoversNext
    <2>4. (sub # NoStream => Covers(sub, scan.before))'
      BY <1>2, <2>2 DEF Covers, CoversNext
    <2> QED BY <1>2, <2>1, <2>3, <2>4 DEF Coverage
  <1> QED BY <1>1, <1>2

LEMMA RollbackCoverage ==
  ASSUME TypeOK, TypeOK', Rollback, sub # NoStream => Covers(sub, scan.before), pane' = pane
  PROVE  Coverage'
  <1>0. /\ scan.before \in [Tasks -> Pane] /\ stream \in [Streams -> Stream] /\ Other # sub
        /\ pane \in [Panes -> Status] /\ Status \subseteq Nat /\ sub \in Streams \union {NoStream}
    BY TwoStreams, Constants DEF TypeOK, Scan, Status, Closed
  <1>1. /\ members' = scan.before /\ active' = sub /\ sub' = sub /\ ~connected' /\ ~Replacing'
    BY IdleAtRest DEF Rollback, Replacing
  <1>2. sub # NoStream => stream'[sub].panes = stream[sub].panes
    BY <1>0 DEF Rollback
  <1>3. sub # NoStream => CoversNext(sub, scan.before)
    <2>1. \A p \in Panes : pane[p] <= pane'[p]
      <3>1. ASSUME NEW p \in Panes PROVE pane[p] \in Nat
        BY <1>0
      <3> QED BY <3>1
    <2> QED BY <1>0, <1>2, <2>1, CoversKept
  <1>4. (sub # NoStream => Covers(sub, members))'
    BY <1>1, <1>3 DEF Covers, CoversNext
  <1> QED BY <1>1, <1>4 DEF Coverage

LEMMA PaneStays ==
  ASSUME TypeOK, pane' = pane
  PROVE  \A p \in Panes : pane[p] <= pane'[p]
  <1>1. ASSUME NEW p \in Panes PROVE pane[p] \in Nat
    BY Constants DEF TypeOK, Status, Closed
  <1> QED BY <1>1

LEMMA CoverageStep ==
  TypeOK /\ TypeOK' /\ ScanFrame /\ Coverage /\ [Next]_vars => Coverage'
  <1> SUFFICES ASSUME TypeOK, TypeOK', ScanFrame, Coverage, [Next]_vars PROVE Coverage'
    OBVIOUS
  <1>0. /\ Inventory \in [Tasks -> Pane] /\ Nothing \in [Tasks -> Pane]
        /\ Other \in Streams /\ Other # sub /\ sub \in Streams \union {NoStream}
        /\ active \in Streams \union {NoStream}
        /\ stream \in [Streams -> Stream] /\ scan \in Scan
    BY InventoryTyped, TwoStreams DEF TypeOK
  <1>1. CASE Herdr
    <2>1. /\ UNCHANGED <<scan, monitorVars>>
          /\ \A s \in Streams : /\ stream'[s].panes = stream[s].panes
                                /\ stream'[s].consumer = stream[s].consumer
          /\ \A p \in Panes : pane[p] <= pane'[p]
      BY <1>1, HerdrStepTyped, HerdrKeepsStreams
    <2>2. UNCHANGED <<members, sub, active, connected, scan>>
      BY <2>1 DEF monitorVars
    <2>3. (Replacing' <=> Replacing) /\ scan'.before = scan.before
      BY <2>2 DEF Replacing
    <2>4. connected' /\ ~Replacing => Running(sub)'
      BY <1>0, <2>1, <2>2 DEF Coverage, Running
    <2> QED BY <1>0, <2>1, <2>2, <2>3, <2>4, CoverageKept
  <1>2. ASSUME NEW found \in [Tasks -> Pane], ScanFor(found), scan.pc \in {"new", "idle"},
               pane' = pane
        PROVE  Coverage'
    <2>1. /\ UNCHANGED <<members, sub, active, stream>>
          /\ ~Replacing' /\ ~Replacing
          /\ connected' => connected
      BY <1>2, ScanForCases
         DEF BeginsReplace, FindsNobody, ReadsLevels, Asked, Replacing
    <2>2. connected' => Running(sub)'
      BY <2>1 DEF Coverage, Running
    <2> QED BY <1>2, <2>1, <2>2, PaneStays, CoverageKept
  <1>3. CASE StartScan \/ ScanBlind
    BY <1>0, <1>2, <1>3 DEF StartScan, ScanBlind, Fault, herdrVars
  <1>4. CASE SubscribeFails
    <2>1. pane' = pane /\ Rollback /\ scan.pc = "starting"
      BY <1>4 DEF SubscribeFails, Fault, herdrVars
    <2>2. sub # NoStream => Covers(sub, scan.before)
      BY <2>1 DEF ScanFrame, Coverage, Replacing
    <2> QED BY <2>1, <2>2, RollbackCoverage
  <1>5. CASE ReplaceFails
    <2>1. pane' = pane /\ Rollback /\ Replacing
      BY <1>5 DEF ReplaceFails, herdrVars, Levelled, Replacing
    <2> QED BY <2>1, RollbackCoverage DEF Coverage
  <1>6. CASE Subscribe
    <2>1. /\ pane' = pane /\ scan.pc = "starting" /\ sub' = sub
          /\ stream' = [stream EXCEPT ![Other] = Subscribed]
          /\ members' = scan.found /\ active' = Other
      BY <1>6 DEF Subscribe, herdrVars
    <2>2. /\ scan.before = members /\ scan.replacing /\ ~Replacing
      BY <2>1 DEF ScanFrame, Replacing
    <2>3. Replacing' /\ scan'.before = scan.before
      BY <1>6, <2>2, SubscribeCases DEF Replacing, SameScan, AnswersAreIn, Asked
    <2>4. Other' = Other
      BY <2>1 DEF Other
    <2>5. CoversNext(Other, scan.found)
      <3>1. stream'[Other].panes = {p \in PanesOf(scan.found) : pane[p] # Closed}
        BY <1>0, <2>1 DEF Subscribed
      <3>2. \A t \in Tasks : scan.found[t] # NoPane => scan.found[t] \in PanesOf(scan.found)
        BY DEF PanesOf, Members
      <3> QED BY <2>1, <3>1, <3>2 DEF CoversNext
    <2>6. sub # NoStream => CoversNext(sub, scan.before)
      <3>1. sub # NoStream => stream'[sub].panes = stream[sub].panes
        BY <1>0, <2>1
      <3>2. sub # NoStream => Covers(sub, scan.before)
        BY <2>2 DEF Coverage
      <3>3. scan.before \in [Tasks -> Pane]
        BY <1>0 DEF Scan
      <3> QED BY <2>1, <3>1, <3>2, <3>3, PaneStays, CoversKept
    <2>7. Covers(Other, members)'
      BY <2>1, <2>4, <2>5 DEF Covers, CoversNext
    <2>8. (sub # NoStream => Covers(sub, scan.before))'
      BY <2>1, <2>3, <2>6 DEF Covers, CoversNext
    <2> QED BY <2>1, <2>3, <2>4, <2>7, <2>8 DEF Coverage
  <1>7. CASE HerdrAnswers
    <2>1. UNCHANGED <<stream, members, sub, active, connected, pane>> /\ (Replacing' <=> Replacing)
          /\ scan'.before = scan.before
      BY <1>7, HerdrAnswersTyped DEF monitorVars, Replacing, SameScan
    <2>2. connected' /\ ~Replacing => Running(sub)'
      BY <2>1 DEF Coverage, Running
    <2> QED BY <2>1, <2>2, PaneStays, CoverageKept
  <1>8. CASE LevelArrives
    <2>1. UNCHANGED <<stream, members, sub, active, pane>> /\ (connected' => connected)
      BY <1>8 DEF LevelArrives, herdrVars
    <2>2. scan.pc = "levels"
      BY <1>8 DEF ScanFrame, LevelArrives
    <2>3. (Replacing' <=> Replacing) /\ scan'.before = scan.before
      BY <1>8, <2>2, LevelArrivesCases DEF Replacing, SameScan, AnswersAreIn, Asked
    <2>4. connected' /\ ~Replacing => Running(sub)'
      BY <2>1 DEF Coverage, Running
    <2> QED BY <2>1, <2>3, <2>4, PaneStays, CoverageKept
  <1>9. CASE ScanEnds
    <2>1. /\ UNCHANGED <<stream, members, sub, active, pane>> /\ scan' = Idle
          /\ connected' => Running(sub) /\ ~Replacing
      BY <1>9 DEF ScanEnds, herdrVars, Replacing
    <2>2. ~Replacing /\ ~Replacing'
      BY <1>9, <2>1, IdleAtRest DEF Replacing, ScanEnds
    <2>3. connected' => Running(sub)'
      BY <2>1 DEF Running
    <2> QED BY <2>1, <2>2, <2>3, PaneStays, CoverageKept
  <1>10. CASE ReplaceCommits
    <2>1. /\ Replacing /\ Running(Other) /\ sub' = Other
          /\ UNCHANGED <<pane, stream, members, active>>
      BY <1>10 DEF ReplaceCommits, Levelled, Replacing, herdrVars
    <2>2. ~Replacing'
      BY <1>10, IdleAtRest DEF ReplaceCommits, Replacing
    <2>3. active = Other /\ Covers(Other, members)
      BY <2>1 DEF Coverage
    <2>4. Covers(sub, members)' /\ Running(sub)'
      BY <2>1, <2>3 DEF Covers, Running
    <2> QED BY <2>1, <2>2, <2>3, <2>4 DEF Coverage
  <1>11. CASE DrainEnds
    <2>1. /\ UNCHANGED <<pane, members, sub, active, connected>> /\ scan' = Idle
          /\ scan.pc = "draining" /\ stream' = [stream EXCEPT ![Other] = ClosedStream]
      BY <1>11 DEF DrainEnds, herdrVars
    <2>2. ~Replacing /\ ~Replacing'
      BY <2>1, IdleAtRest DEF Replacing
    <2>3. sub # NoStream => stream'[sub] = stream[sub]
      BY <1>0, <2>1
    <2>4. connected' => Running(sub)'
      BY <2>1, <2>2, <2>3 DEF Coverage, Running
    <2> QED BY <2>1, <2>2, <2>3, <2>4, PaneStays, CoverageKept
  <1>12. ASSUME NEW s \in Streams, Consume(s) PROVE Coverage'
    <2>1. UNCHANGED <<pane, members, sub, active, connected, scan>>
      BY <1>12 DEF Consume, herdrVars
    <2>2. \A r \in Streams : /\ stream'[r].panes = stream[r].panes
                             /\ stream'[r].consumer = stream[r].consumer
      <3>1. stream' = [stream EXCEPT ![s] = [stream[s] EXCEPT !.queue = Tail(stream[s].queue)]]
        BY <1>12, ConsumeTyped
      <3> QED BY <1>0, <3>1 DEF Stream
    <2>3. (Replacing' <=> Replacing) /\ scan'.before = scan.before
      BY <2>1 DEF Replacing
    <2>4. connected' /\ ~Replacing => Running(sub)'
      BY <1>0, <2>1, <2>2 DEF Coverage, Running
    <2> QED BY <1>0, <2>1, <2>2, <2>3, <2>4, PaneStays, CoverageKept
  <1>13. ASSUME NEW s \in Streams, ConsumerDies(s) PROVE Coverage'
    <2>1. UNCHANGED <<pane, members, sub, active, scan>>
      BY <1>13 DEF ConsumerDies, herdrVars
    <2>2. \A r \in Streams : /\ stream'[r].panes = stream[r].panes
                             /\ r # s => stream'[r].consumer = stream[r].consumer
      BY <1>0, <1>13 DEF ConsumerDies, Stream
    <2>3. (Replacing' <=> Replacing) /\ scan'.before = scan.before
      BY <2>1 DEF Replacing
    <2>4. ASSUME connected', ~Replacing PROVE Running(sub)'
      <3>1. s # active /\ connected' = connected
        BY <1>13, <2>4 DEF ConsumerDies
      <3>2. active = sub /\ Running(sub)
        BY <2>4, <3>1 DEF Coverage
      <3> QED BY <1>0, <2>1, <2>2, <3>1, <3>2 DEF Running
    <2> QED BY <1>0, <2>1, <2>2, <2>3, <2>4, PaneStays, CoverageKept
  <1>14. CASE UNCHANGED vars
    BY <1>14 DEF vars, herdrVars, Coverage, Replacing, Covers, Running, Other
  <1> QED BY <1>1, <1>3, <1>4, <1>5, <1>6, <1>7, <1>8, <1>9, <1>10, <1>11, <1>12,
             <1>13, <1>14 DEF Next, Scanning

-----------------------------------------------------------------------------
(* Routing.                                                                  *)

(* Most steps change nothing that routing speaks of.                               *)
LEMMA RoutingKept ==
  ASSUME Routing, UNCHANGED <<members, sub, route>>,
         Changing' <=> Changing, Replacing' <=> Replacing,
         scan'.pc = "draining" => scan.pc = "draining",
         Changing => SameScan(scan', scan),
         sub # NoStream => stream'[sub].routing = stream[sub].routing,
         Replacing \/ scan'.pc = "draining" => stream'[Other].routing = stream[Other].routing
  PROVE  Routing'
  <1>0. Other' = Other
    BY DEF Other
  <1>1. CASE Changing
    <2>1. RoutesBumped'
      BY <1>1 DEF Routing, RoutesBumped, SameScan
    <2>2. (sub # NoStream => Carries(sub, scan.before, scan.routes))'
      BY <1>1 DEF Routing, Carries, SameScan
    <2>3. Replacing => Carries(Other, members, route)'
      BY <1>0 DEF Routing, Carries
    <2>4. scan'.pc # "draining"
      BY <1>1 DEF Changing, Replacing
    <2> QED BY <1>1, <2>1, <2>2, <2>3, <2>4 DEF Routing
  <1>2. CASE ~Changing
    <2>1. (sub # NoStream => Carries(sub, members, route))'
      BY <1>2 DEF Routing, Carries
    <2>2. scan'.pc = "draining" => sub' # NoStream /\ RoutesAgree(Other)'
      BY <1>0 DEF Routing, RoutesAgree
    <2>3. ~Replacing
      BY <1>2 DEF Changing
    <2> QED BY <1>2, <2>1, <2>2, <2>3 DEF Routing
  <1> QED BY <1>1, <1>2

LEMMA RollbackRouting ==
  ASSUME TypeOK, Routing, Rollback, Changing
  PROVE  Routing'
  <1>0. stream \in [Streams -> Stream] /\ Other # sub /\ sub \in Streams \union {NoStream}
    BY TwoStreams DEF TypeOK
  <1>1. /\ members' = scan.before /\ route' = scan.routes /\ sub' = sub
        /\ ~Changing' /\ ~Replacing' /\ scan'.pc # "draining"
    BY IdleAtRest DEF Rollback, Changing, Replacing
  <1>2. sub # NoStream => stream'[sub] = stream[sub]
    BY <1>0 DEF Rollback
  <1>3. (sub # NoStream => Carries(sub, members, route))'
    BY <1>1, <1>2 DEF Routing, Carries
  <1> QED BY <1>1, <1>3 DEF Routing

LEMMA ScanForRouting ==
  ASSUME TypeOK, Routing, NEW found \in [Tasks -> Pane], ScanFor(found),
         scan.pc \in {"new", "idle"}
  PROVE  Routing'
  <1>0. ~Changing /\ ~Replacing
    BY DEF Changing, Replacing
  <1>1. CASE BeginsReplace(found)
    <2>1. /\ UNCHANGED <<stream, members, sub>> /\ Changing' /\ ~Replacing'
          /\ scan'.pc # "draining" /\ scan'.before = members /\ scan'.routes = route
          /\ scan'.found = found /\ route' = Bumped(found)
      BY <1>1 DEF BeginsReplace, Changing, Replacing
    <2>2. RoutesBumped'
      BY <2>1 DEF RoutesBumped, Bumped
    <2>3. (sub # NoStream => Carries(sub, scan.before, scan.routes))'
      BY <1>0, <2>1 DEF Routing, Carries
    <2> QED BY <2>1, <2>2, <2>3 DEF Routing
  <1>2. CASE FindsNobody
    BY <1>0, <1>2, RoutingKept DEF FindsNobody, Changing, Replacing
  <1>3. ASSUME NEW t \in Tasks, ReadsLevels(t) PROVE Routing'
    <2>1. /\ UNCHANGED <<stream, members, sub, route>>
          /\ ~Changing' /\ ~Replacing' /\ scan'.pc # "draining"
      BY <1>3 DEF ReadsLevels, Asked, Changing, Replacing
    <2> QED BY <1>0, <2>1, RoutingKept
  <1> QED BY <1>1, <1>2, <1>3, ScanForCases

LEMMA RoutingStep ==
  TypeOK /\ TypeOK' /\ ScanFrame /\ Routing /\ [Next]_vars => Routing'
  <1> SUFFICES ASSUME TypeOK, TypeOK', ScanFrame, Routing, [Next]_vars PROVE Routing'
    OBVIOUS
  <1>0. /\ Inventory \in [Tasks -> Pane] /\ Nothing \in [Tasks -> Pane]
        /\ Other \in Streams /\ Other # sub /\ sub \in Streams \union {NoStream}
        /\ stream \in [Streams -> Stream] /\ scan \in Scan /\ NoStream \notin Streams
    BY InventoryTyped, TwoStreams, Constants DEF TypeOK
  <1>k. ASSUME UNCHANGED <<members, sub, route, scan>>,
               \A s \in Streams : stream'[s].routing = stream[s].routing
        PROVE  Routing'
    BY <1>0, <1>k, RoutingKept DEF Changing, Replacing, SameScan
  <1>1. CASE Herdr
    BY <1>1, <1>k, HerdrStepTyped, HerdrKeepsStreams DEF monitorVars
  <1>2. CASE StartScan \/ ScanBlind
    BY <1>0, <1>2, ScanForRouting DEF StartScan, ScanBlind
  <1>3. CASE SubscribeFails \/ ReplaceFails
    <2>1. Rollback /\ Changing
      BY <1>3 DEF SubscribeFails, ReplaceFails, Levelled, Changing, Replacing
    <2> QED BY <2>1, RollbackRouting
  <1>4. CASE Subscribe
    <2>1. /\ scan.pc = "starting" /\ UNCHANGED <<sub, route>>
          /\ stream' = [stream EXCEPT ![Other] = Subscribed] /\ members' = scan.found
      BY <1>4 DEF Subscribe
    <2>2. Changing /\ scan.replacing /\ Other' = Other
      BY <2>1 DEF ScanFrame, Changing, Other
    <2>3. SameScan(scan', scan) /\ Replacing' /\ Changing' /\ scan'.pc # "draining"
      BY <1>4, <2>2, SubscribeCases DEF Replacing, Changing, AnswersAreIn, Asked
    <2>4. RoutesBumped'
      BY <2>1, <2>2, <2>3 DEF Routing, RoutesBumped, SameScan
    <2>5. (sub # NoStream => Carries(sub, scan.before, scan.routes))'
      <3>1. sub # NoStream => stream'[sub] = stream[sub]
        BY <1>0, <2>1
      <3> QED BY <2>1, <2>2, <2>3, <3>1 DEF Routing, Carries, SameScan
    <2>6. Carries(Other, members, route)'
      <3>1. stream'[Other].routing
              = [t \in Tasks |-> [pane |-> scan.found[t], route |-> route[t]]]
        BY <1>0, <2>1 DEF Subscribed
      <3> QED BY <2>1, <2>2, <3>1 DEF Carries
    <2> QED BY <2>3, <2>4, <2>5, <2>6 DEF Routing
  <1>5. CASE HerdrAnswers
    <2>1. UNCHANGED <<stream, members, sub, route>> /\ SameScan(scan', scan)
          /\ (Changing' <=> Changing) /\ (Replacing' <=> Replacing) /\ scan'.pc # "draining"
      BY <1>5, HerdrAnswersTyped DEF monitorVars, Changing, Replacing
    <2> QED BY <2>1, RoutingKept
  <1>6. CASE LevelArrives
    <2>1. UNCHANGED <<stream, members, sub, route>> /\ scan.pc = "levels"
      BY <1>6 DEF LevelArrives, ScanFrame
    <2>2. /\ SameScan(scan', scan) /\ scan'.pc # "draining"
          /\ (Changing' <=> Changing) /\ (Replacing' <=> Replacing)
      BY <1>6, <2>1, LevelArrivesCases DEF Changing, Replacing, AnswersAreIn, Asked
    <2> QED BY <2>1, <2>2, RoutingKept
  <1>7. CASE ScanEnds
    <2>1. UNCHANGED <<stream, members, sub, route>> /\ scan' = Idle /\ ~Changing
      BY <1>7 DEF ScanEnds, Levelled, Changing, Replacing
    <2>2. ~Changing' /\ ~Replacing' /\ ~Replacing /\ scan'.pc # "draining"
      BY <2>1, IdleAtRest DEF Changing, Replacing
    <2> QED BY <2>1, <2>2, RoutingKept
  <1>8. CASE ReplaceCommits
    <2>1. /\ Replacing /\ sub' = Other /\ UNCHANGED <<stream, members, route>>
          /\ sub = NoStream => scan' = Idle
          /\ sub # NoStream => scan' = [Idle EXCEPT !.pc = "draining"]
      BY <1>8 DEF ReplaceCommits, Levelled, Replacing
    <2>2. ~Changing' /\ ~Replacing' /\ (scan'.pc = "draining" => sub # NoStream)
      BY <2>1, IdleAtRest DEF Changing, Replacing
    <2>3. Carries(sub, members, route)'
      BY <2>1 DEF Routing, Carries
    <2>4. ASSUME sub # NoStream PROVE RoutesAgree(Other)'
      <3>1. Other' = sub
        <4>1. sub \in Streams /\ sub' \in Streams /\ sub # sub' /\ NoStream # sub'
          BY <1>0, <2>1, <2>4
        <4>2. \E s \in Streams : s # sub'
          BY <4>1
        <4>3. Other' \in Streams /\ Other' # sub'
          BY <4>2 DEF Other
        <4> QED BY <1>0, <2>1, <2>4, <4>1, <4>3, TwoStreams
      <3>2. Carries(sub, scan.before, scan.routes) /\ RoutesBumped /\ scan.found = members
        BY <2>1, <2>4 DEF Routing, Changing, ScanFrame, Replacing
      <3>3. ASSUME NEW t \in Tasks, stream[sub].routing[t].route = route[t]
            PROVE  stream[sub].routing[t].pane = members[t]
        <4>1. scan.routes[t] \in Nat
          BY <1>0 DEF Scan
        <4>2. stream[sub].routing[t] = [pane |-> scan.before[t], route |-> scan.routes[t]]
          BY <3>2 DEF Carries
        <4>3. scan.before[t] = scan.found[t]
          BY <3>2, <3>3, <4>1, <4>2 DEF RoutesBumped
        <4> QED BY <3>2, <4>2, <4>3
      <3> QED BY <2>1, <3>1, <3>3 DEF RoutesAgree
    <2>5. sub' # NoStream
      BY <1>0, <2>1
    <2> QED BY <2>2, <2>3, <2>4, <2>5 DEF Routing
  <1>9. CASE DrainEnds
    <2>1. /\ UNCHANGED <<members, sub, route>> /\ scan' = Idle /\ scan.pc = "draining"
          /\ stream' = [stream EXCEPT ![Other] = ClosedStream]
      BY <1>9 DEF DrainEnds
    <2>2. /\ ~Changing /\ ~Replacing /\ ~Changing' /\ ~Replacing' /\ scan'.pc # "draining"
      BY <2>1, IdleAtRest DEF Changing, Replacing
    <2>3. sub # NoStream => stream'[sub] = stream[sub]
      BY <1>0, <2>1
    <2> QED BY <2>1, <2>2, <2>3, RoutingKept
  <1>10. ASSUME NEW s \in Streams, Consume(s) PROVE Routing'
    <2>1. UNCHANGED <<members, sub, route, scan>>
      BY <1>10 DEF Consume
    <2>2. \A r \in Streams : stream'[r].routing = stream[r].routing
      <3>1. stream' = [stream EXCEPT ![s] = [stream[s] EXCEPT !.queue = Tail(stream[s].queue)]]
        BY <1>10, ConsumeTyped
      <3> QED BY <1>0, <3>1 DEF Stream
    <2> QED BY <1>k, <2>1, <2>2
  <1>11. ASSUME NEW s \in Streams, ConsumerDies(s) PROVE Routing'
    <2>1. UNCHANGED <<members, sub, route, scan>>
      BY <1>11 DEF ConsumerDies
    <2>2. \A r \in Streams : stream'[r].routing = stream[r].routing
      BY <1>0, <1>11 DEF ConsumerDies, Stream
    <2> QED BY <1>k, <2>1, <2>2
  <1>12. CASE UNCHANGED vars
    BY <1>12, <1>k DEF vars
  <1> QED BY <1>1, <1>2, <1>3, <1>4, <1>5, <1>6, <1>7, <1>8, <1>9, <1>10, <1>11,
             <1>12 DEF Next, Scanning

-----------------------------------------------------------------------------
(* Spare streams.                                                             *)
LEMMA SparesStep ==
  TypeOK /\ ScanFrame /\ Coverage /\ Routing /\ SparesAreClosed /\ [Next]_vars => SparesAreClosed'
  <1> SUFFICES ASSUME TypeOK, ScanFrame, Coverage, Routing, SparesAreClosed, [Next]_vars
               PROVE  SparesAreClosed'
    OBVIOUS
  <1>0. /\ Inventory \in [Tasks -> Pane] /\ Nothing \in [Tasks -> Pane]
        /\ Other \in Streams /\ Other # sub /\ sub \in Streams \union {NoStream}
        /\ sub # NoStream => \A s \in Streams : s # sub => s = Other
        /\ stream \in [Streams -> Stream] /\ NoStream \notin Streams
    BY InventoryTyped, TwoStreams, Constants DEF TypeOK
  <1>k. ASSUME UNCHANGED <<sub, active>>, scan.pc = "draining" => scan'.pc = "draining",
               \A s \in Streams : stream'[s].consumer = stream[s].consumer
        PROVE  SparesAreClosed'
    BY <1>k DEF SparesAreClosed
  <1>1. CASE Herdr
    BY <1>1, <1>k, HerdrStepTyped, HerdrKeepsStreams DEF monitorVars
  <1>2. CASE StartScan \/ ScanBlind
    <2>1. PICK found \in [Tasks -> Pane] : ScanFor(found) /\ scan.pc \in {"new", "idle"}
      BY <1>0, <1>2 DEF StartScan, ScanBlind
    <2>2. UNCHANGED <<sub, active, stream>>
      BY <2>1, ScanForCases DEF BeginsReplace, FindsNobody, ReadsLevels
    <2> QED BY <1>k, <2>1, <2>2
  <1>3. CASE SubscribeFails \/ ReplaceFails
    <2>1. /\ active' = sub /\ sub' = sub /\ stream' = [stream EXCEPT ![Other] = ClosedStream]
          /\ scan.pc # "draining" /\ active \in {sub, Other}
      BY <1>3 DEF SubscribeFails, ReplaceFails, Levelled, Rollback, Coverage, Replacing
    <2>2. ASSUME NEW s \in Streams, s # sub PROVE stream'[s].consumer = "none"
      BY <1>0, <2>1, <2>2, ClosedTyped DEF SparesAreClosed
    <2> QED BY <2>1, <2>2 DEF SparesAreClosed
  <1>4. CASE Subscribe
    <2>1. /\ active' = Other /\ sub' = sub /\ stream' = [stream EXCEPT ![Other] = Subscribed]
          /\ scan.pc = "starting"
      BY <1>4 DEF Subscribe
    <2>2. active = sub
      BY <2>1 DEF Coverage, Replacing
    <2> QED BY <1>0, <2>1, <2>2 DEF SparesAreClosed
  <1>5. CASE HerdrAnswers
    BY <1>5, <1>k, HerdrAnswersTyped DEF monitorVars
  <1>6. CASE LevelArrives
    BY <1>6, <1>k DEF LevelArrives, ScanFrame
  <1>7. CASE ScanEnds
    BY <1>7, <1>k DEF ScanEnds, Levelled
  <1>8. CASE ReplaceCommits
    <2>1. /\ Replacing /\ sub' = Other /\ UNCHANGED <<stream, active>> /\ scan.pc = "levels"
          /\ sub # NoStream => scan' = [Idle EXCEPT !.pc = "draining"]
      BY <1>8 DEF ReplaceCommits, Levelled, Replacing
    <2>2. sub # NoStream => scan'.pc = "draining"
      BY <2>1, IdleAtRest
    <2>3. active = Other
      BY <2>1 DEF Coverage
    <2> QED BY <1>0, <2>1, <2>2, <2>3 DEF SparesAreClosed
  <1>9. CASE DrainEnds
    <2>1. /\ UNCHANGED <<sub, active>> /\ stream' = [stream EXCEPT ![Other] = ClosedStream]
          /\ scan.pc = "draining"
      BY <1>9 DEF DrainEnds
    <2>2. sub # NoStream
      BY <2>1 DEF Routing
    <2>3. stream'[Other].consumer = "none"
      BY <1>0, <2>1, ClosedTyped
    <2> QED BY <1>0, <2>1, <2>2, <2>3 DEF SparesAreClosed
  <1>10. ASSUME NEW s \in Streams, Consume(s) PROVE SparesAreClosed'
    <2>1. UNCHANGED <<sub, active, scan>>
      BY <1>10 DEF Consume
    <2>2. \A r \in Streams : stream'[r].consumer = stream[r].consumer
      <3>1. stream' = [stream EXCEPT ![s] = [stream[s] EXCEPT !.queue = Tail(stream[s].queue)]]
        BY <1>10, ConsumeTyped
      <3> QED BY <1>0, <3>1 DEF Stream
    <2> QED BY <1>k, <2>1, <2>2
  <1>11. ASSUME NEW s \in Streams, ConsumerDies(s) PROVE SparesAreClosed'
    <2>1. UNCHANGED <<sub, active, scan>> /\ stream[s].consumer = "running"
          /\ \A r \in Streams : r # s => stream'[r] = stream[r]
      BY <1>0, <1>11 DEF ConsumerDies, Running
    <2> QED BY <2>1 DEF SparesAreClosed
  <1>12. CASE UNCHANGED vars
    BY <1>12, <1>k DEF vars
  <1> QED BY <1>1, <1>2, <1>3, <1>4, <1>5, <1>6, <1>7, <1>8, <1>9, <1>10, <1>11,
             <1>12 DEF Next, Scanning

-----------------------------------------------------------------------------
(* Nothing is ahead of the truth.                                              *)
LEMMA HonestGrows ==
  ASSUME NEW q \in Seq(Observation), NEW truth \in [Panes -> Status], NEW later \in [Panes -> Status],
         Honest(q, truth), \A p \in Panes : truth[p] <= later[p]
  PROVE  Honest(q, later)
  <1>1. ASSUME NEW i \in DOMAIN q PROVE q[i].pane # NoPane /\ q[i].status <= later[q[i].pane]
    <2>1. q[i] \in Observation
      BY <1>1
    <2>2. q[i].pane \in Panes /\ q[i].status \in Nat
      BY <2>1 DEF Honest, Observation, Pane, Status
    <2>3. truth[q[i].pane] \in Nat /\ later[q[i].pane] \in Nat
      BY <2>2 DEF Status
    <2>4. q[i].status <= truth[q[i].pane] /\ truth[q[i].pane] <= later[q[i].pane]
      BY <1>1, <2>2 DEF Honest
    <2> QED BY <2>2, <2>3, <2>4, Constants
  <1> QED BY <1>1 DEF Honest

LEMMA HonestAppend ==
  ASSUME NEW q \in Seq(Observation), NEW truth, Honest(q, truth), NEW e \in Observation,
         e.pane # NoPane, e.status <= truth[e.pane]
  PROVE  Honest(Append(q, e), truth)
  <1>1. ASSUME NEW i \in DOMAIN Append(q, e)
        PROVE  Append(q, e)[i].pane # NoPane /\ Append(q, e)[i].status <= truth[Append(q, e)[i].pane]
    <2>1. i \in 1..Len(q) + 1 /\ Len(q) \in Nat
      BY <1>1, AppendProperties
    <2>2. CASE i = Len(q) + 1
      BY <2>2, AppendProperties
    <2>3. CASE i # Len(q) + 1
      <3>1. i \in DOMAIN q /\ Append(q, e)[i] = q[i]
        BY <2>1, <2>3, AppendProperties
      <3> QED BY <3>1 DEF Honest
    <2> QED BY <2>2, <2>3
  <1> QED BY <1>1 DEF Honest

LEMMA HonestTail ==
  ASSUME NEW q \in Seq(Observation), q # <<>>, NEW truth, Honest(q, truth)
  PROVE  /\ Honest(Tail(q), truth)
         /\ Head(q).pane # NoPane /\ Head(q).status <= truth[Head(q).pane]
  <1>1. ASSUME NEW i \in DOMAIN Tail(q)
        PROVE  Tail(q)[i].pane # NoPane /\ Tail(q)[i].status <= truth[Tail(q)[i].pane]
    <2>1. i + 1 \in DOMAIN q /\ Tail(q)[i] = q[i + 1]
      BY <1>1, HeadTailProperties
    <2> QED BY <2>1 DEF Honest
  <1>2. 1 \in DOMAIN q /\ Head(q) = q[1]
    BY HeadTailProperties, EmptySeq
  <1> QED BY <1>1, <1>2 DEF Honest

LEMMA SeenTyped ==
  ASSUME TypeOK, NEW t \in Tasks
  PROVE  /\ seen[t] \in Observation /\ seen[t].status \in Nat
         /\ seen[t].pane # NoPane => seen[t].pane \in Panes /\ pane[seen[t].pane] \in Nat
  BY Constants DEF TypeOK, Observation, Status, Closed, Pane

(* Panes move on under what has been told of them.                                *)
LEMMA AheadKept ==
  ASSUME TypeOK, TypeOK', NothingAhead, UNCHANGED seen, \A p \in Panes : pane[p] <= pane'[p],
         \A s \in Streams : Honest(stream'[s].queue, pane'),
         \/ UNCHANGED scan /\ ScanFrame
         \/ scan'.answer = {}
  PROVE  NothingAhead'
  <1>1. ASSUME NEW t \in Tasks, seen'[t].pane # NoPane
        PROVE  seen'[t].status <= pane'[seen'[t].pane]
    <2>1. seen[t].pane # NoPane
      BY <1>1
    <2>2. PICK p \in Panes : p = seen[t].pane
      BY <2>1, SeenTyped
    <2>3. pane[p] \in Nat /\ pane'[p] \in Nat /\ seen[t].status \in Nat
      BY SeenTyped, Constants DEF TypeOK, Status, Closed
    <2>4. seen[t].status <= pane[p] /\ pane[p] <= pane'[p]
      BY <2>1, <2>2 DEF NothingAhead
    <2>5. seen[t].status <= pane'[p]
      BY <2>3, <2>4
    <2> QED BY <2>2, <2>5
  <1>2. ASSUME NEW a \in scan'.answer, a # Unknown
        PROVE  a <= pane'[scan'.found[scan'.task]]
    <2>1. scan' = scan /\ ScanFrame /\ a \in scan.answer
      BY <1>2
    <2>2. scan.found[scan.task] \in Panes /\ a \in Nat
      BY <2>1, Constants DEF ScanFrame, TypeOK, Scan, Pane, Unknown
    <2>3. PICK p \in Panes : p = scan.found[scan.task]
      BY <2>2
    <2>4. pane[p] \in Nat /\ pane'[p] \in Nat
      BY Constants DEF TypeOK, Status, Closed
    <2>5. a <= pane[p] /\ pane[p] <= pane'[p]
      BY <1>2, <2>1, <2>3 DEF NothingAhead
    <2>6. a <= pane'[p]
      BY <2>2, <2>4, <2>5
    <2> QED BY <2>1, <2>3, <2>6
  <1> QED BY <1>1, <1>2 DEF NothingAhead

LEMMA AheadHerdr ==
  ASSUME TypeOK, TypeOK', ScanFrame, NothingAhead, Herdr
  PROVE  NothingAhead'
  <1>0. /\ stream \in [Streams -> Stream] /\ pane \in [Panes -> Status] /\ pane' \in [Panes -> Status]
        /\ UNCHANGED <<scan, seen>> /\ \A p \in Panes : pane[p] <= pane'[p]
    BY HerdrStepTyped, HerdrKeepsStreams DEF TypeOK, monitorVars
  <1>1. ASSUME NEW s \in Streams
        PROVE  /\ stream[s].queue \in Seq(Observation) /\ Honest(stream[s].queue, pane)
               /\ Honest(stream[s].queue, pane')
    <2>1. stream[s].queue \in Seq(Observation) /\ Honest(stream[s].queue, pane)
      BY <1>0 DEF Stream, NothingAhead
    <2> QED BY <1>0, <2>1, HonestGrows
  <1>2. ASSUME NEW p \in Panes, PaneChanges(p), NEW s \in Streams
        PROVE  Honest(stream'[s].queue, pane')
    <2>1. CASE stream[s].up /\ p \in stream[s].panes
      <3>1. PICK n \in Status : n = pane[p] + 1 /\ pane'[p] = n
        BY <1>0, <1>2, Constants DEF PaneChanges, Status, Closed
      <3>2. PICK edge \in Observation : edge = [pane |-> p, status |-> n]
        BY Constants DEF Observation, Pane
      <3>3. stream'[s].queue = Append(stream[s].queue, edge)
        BY <1>0, <1>2, <2>1, <3>1, <3>2 DEF PaneChanges, Stream
      <3>4. edge.pane # NoPane /\ edge.status <= pane'[edge.pane]
        BY <3>1, <3>2, Constants DEF Status, Closed
      <3> QED BY <1>1, <3>3, <3>4, HonestAppend
    <2>2. CASE ~(stream[s].up /\ p \in stream[s].panes)
      <3>1. stream'[s].queue = stream[s].queue
        BY <1>2, <2>2 DEF PaneChanges
      <3> QED BY <1>1, <3>1
    <2> QED BY <2>1, <2>2
  <1>3. ASSUME NEW s \in Streams, \A p \in Panes : ~PaneChanges(p)
        PROVE  Honest(stream'[s].queue, pane')
    <2>1. stream'[s].queue = stream[s].queue
      <3>1. CASE \E t \in Tasks, value \in Pane \union {Torn} : WriteMeta(t, value)
        BY <3>1 DEF WriteMeta
      <3>2. CASE \E p \in Panes : PaneCloses(p)
        BY <3>2 DEF PaneCloses
      <3>3. ASSUME NEW r \in Streams, StreamBreaks(r) PROVE stream'[s].queue = stream[s].queue
        BY <1>0, <3>3 DEF StreamBreaks, Stream
      <3> QED BY <1>3, <3>1, <3>2, <3>3 DEF Herdr
    <2> QED BY <1>1, <2>1
  <1>4. \A s \in Streams : Honest(stream'[s].queue, pane')
    BY <1>2, <1>3
  <1> QED BY <1>0, <1>4, AheadKept

LEMMA AheadStep ==
  TypeOK /\ TypeOK' /\ ScanFrame /\ NothingAhead /\ [Next]_vars => NothingAhead'
  <1> SUFFICES ASSUME TypeOK, TypeOK', ScanFrame, NothingAhead, [Next]_vars PROVE NothingAhead'
    OBVIOUS
  <1>0. /\ Inventory \in [Tasks -> Pane] /\ Nothing \in [Tasks -> Pane]
        /\ stream \in [Streams -> Stream] /\ Other \in Streams
        /\ \A s \in Streams : Honest(stream[s].queue, pane)
    BY InventoryTyped, TwoStreams DEF TypeOK, NothingAhead
  <1>e. Honest(<<>>, pane)
    BY DEF Honest
  <1>k. ASSUME UNCHANGED <<seen, pane>>, scan' = scan \/ scan'.answer = {},
               \A s \in Streams : Honest(stream'[s].queue, pane)
        PROVE  NothingAhead'
    BY <1>k, PaneStays, AheadKept
  <1>1. CASE Herdr
    BY <1>1, AheadHerdr
  <1>2. CASE StartScan \/ ScanBlind
    <2>1. PICK found \in [Tasks -> Pane] : /\ ScanFor(found) /\ scan.pc \in {"new", "idle"}
                                           /\ pane' = pane
      BY <1>0, <1>2 DEF StartScan, ScanBlind, Fault, herdrVars
    <2>2. /\ UNCHANGED <<stream, seen>>
          /\ scan' = scan \/ scan'.answer = {}
      BY <2>1, ScanForCases DEF BeginsReplace, FindsNobody, ReadsLevels, Asked
    <2> QED BY <1>0, <1>k, <2>1, <2>2
  <1>3. CASE SubscribeFails \/ ReplaceFails \/ DrainEnds
    <2>1. /\ UNCHANGED <<seen, pane>> /\ scan' = Idle
          /\ stream' = [stream EXCEPT ![Other] = ClosedStream]
      BY <1>3 DEF SubscribeFails, ReplaceFails, Rollback, DrainEnds, Fault, herdrVars
    <2>2. \A s \in Streams : stream'[s].queue = stream[s].queue \/ stream'[s].queue = <<>>
      BY <1>0, <2>1, ClosedTyped
    <2>3. \A s \in Streams : Honest(stream'[s].queue, pane)
      BY <1>0, <1>e, <2>2
    <2> QED BY <1>k, <2>1, <2>3, IdleTyped
  <1>4. CASE Subscribe
    <2>1. /\ UNCHANGED <<seen, pane>> /\ stream' = [stream EXCEPT ![Other] = Subscribed]
      BY <1>4 DEF Subscribe, herdrVars
    <2>2. scan'.answer = {}
      BY <1>4, SubscribeCases DEF AnswersAreIn, Asked
    <2>3. \A s \in Streams : stream'[s].queue = stream[s].queue \/ stream'[s].queue = <<>>
      BY <1>0, <2>1 DEF Subscribed
    <2>4. \A s \in Streams : Honest(stream'[s].queue, pane)
      BY <1>0, <1>e, <2>3
    <2> QED BY <1>k, <2>1, <2>2, <2>4
  <1>5. CASE HerdrAnswers
    <2>1. /\ UNCHANGED <<seen, stream, pane>> /\ SameScan(scan', scan) /\ scan'.task = scan.task
          /\ scan.found[scan.task] \in Panes
      BY <1>5, HerdrAnswersTyped DEF monitorVars
    <2>2. PICK b : scan'.answer = {b} /\ (b # Unknown => b = pane[scan.found[scan.task]])
      BY <1>5, HerdrAnswersTyped
    <2>3. pane[scan.found[scan.task]] \in Nat
      BY <2>1, Constants DEF TypeOK, Status, Closed
    <2>4. \A a \in scan'.answer : a # Unknown => a <= pane'[scan'.found[scan'.task]]
      BY <2>1, <2>2, <2>3 DEF SameScan
    <2> QED BY <2>1, <2>4 DEF NothingAhead
  <1>6. CASE LevelArrives
    <2>1. UNCHANGED <<stream, pane>> /\ scan'.answer = {}
      BY <1>6, LevelArrivesCases DEF LevelArrives, herdrVars, AnswersAreIn, Asked
    <2>2. ASSUME NEW t \in Tasks, seen'[t].pane # NoPane
          PROVE  seen'[t].status <= pane[seen'[t].pane]
      <3>1. CASE t = scan.task /\ Unknown \notin scan.answer /\ Fresh(t)
        <4>1. PICK a : scan.answer = {a}
          BY <1>6 DEF LevelArrives, ScanFrame
        <4>2. seen'[t] = [pane |-> scan.found[t], status |-> a]
          BY <1>6, <3>1, <4>1 DEF LevelArrives, TypeOK
        <4> QED BY <3>1, <4>1, <4>2 DEF NothingAhead
      <3>2. CASE ~(t = scan.task /\ Unknown \notin scan.answer /\ Fresh(t))
        <4>1. seen'[t] = seen[t]
          BY <1>6, <3>2 DEF LevelArrives, TypeOK
        <4> QED BY <2>2, <4>1 DEF NothingAhead
      <3> QED BY <3>1, <3>2
    <2> QED BY <2>1, <2>2 DEF NothingAhead
  <1>7. CASE ScanEnds \/ ReplaceCommits
    <2>1. UNCHANGED <<stream, seen, pane>> /\ scan'.answer = {}
      BY <1>7, IdleAtRest DEF ScanEnds, ReplaceCommits, herdrVars, AtRest
    <2> QED BY <1>0, <1>k, <2>1
  <1>8. ASSUME NEW s \in Streams, Consume(s) PROVE NothingAhead'
    <2>1. /\ UNCHANGED <<scan, pane>> /\ stream[s].queue # <<>>
          /\ stream[s].queue \in Seq(Observation)
          /\ \A r \in Streams : r # s => stream'[r] = stream[r]
          /\ stream'[s].queue = Tail(stream[s].queue)
      <3>1. stream' = [stream EXCEPT ![s] = [stream[s] EXCEPT !.queue = Tail(stream[s].queue)]]
        BY <1>8, ConsumeTyped
      <3> QED BY <1>0, <1>8, <3>1 DEF Stream, Consume, herdrVars
    <2>2. PICK edge : edge = Head(stream[s].queue)
      OBVIOUS
    <2>3. /\ Honest(stream'[s].queue, pane)
          /\ edge.pane # NoPane /\ edge.status <= pane[edge.pane]
      BY <1>0, <2>1, <2>2, HonestTail
    <2>4. \A t \in Tasks : seen'[t] = edge \/ seen'[t] = seen[t]
      BY <1>8, <2>2 DEF Consume
    <2>5. ASSUME NEW t \in Tasks, seen'[t].pane # NoPane
          PROVE  seen'[t].status <= pane[seen'[t].pane]
      <3>1. CASE seen'[t] = edge
        BY <2>3, <3>1
      <3>2. CASE seen'[t] = seen[t]
        BY <2>5, <3>2 DEF NothingAhead
      <3> QED BY <2>4, <3>1, <3>2
    <2>6. \A r \in Streams : Honest(stream'[r].queue, pane)
      BY <1>0, <2>1, <2>3
    <2> QED BY <2>1, <2>5, <2>6 DEF NothingAhead
  <1>9. ASSUME NEW s \in Streams, ConsumerDies(s) PROVE NothingAhead'
    <2>1. UNCHANGED <<scan, seen, pane>> /\ \A r \in Streams : stream'[r].queue = stream[r].queue
      BY <1>0, <1>9 DEF ConsumerDies, Stream, herdrVars
    <2> QED BY <1>0, <1>k, <2>1
  <1>10. CASE UNCHANGED vars
    BY <1>0, <1>10, <1>k DEF vars, herdrVars
  <1> QED BY <1>1, <1>2, <1>3, <1>4, <1>5, <1>6, <1>7, <1>8, <1>9, <1>10 DEF Next, Scanning

-----------------------------------------------------------------------------
(* The level in flight.                                                        *)
LEMMA FlightStep ==
  TypeOK /\ TypeOK' /\ ScanFrame /\ NothingAhead /\ LevelInFlight /\ [Next]_vars => LevelInFlight'
  <1> SUFFICES ASSUME TypeOK, TypeOK', ScanFrame, NothingAhead, LevelInFlight, [Next]_vars
               PROVE  LevelInFlight'
    OBVIOUS
  <1>0. Inventory \in [Tasks -> Pane] /\ Nothing \in [Tasks -> Pane]
    BY InventoryTyped
  <1>k. ASSUME UNCHANGED <<scan, epoch, seen>> PROVE LevelInFlight'
    BY <1>k DEF LevelInFlight, Fresh
  <1>e. ASSUME scan'.answer = {} PROVE LevelInFlight'
    BY <1>e DEF LevelInFlight
  <1>1. CASE Herdr
    BY <1>1, <1>k, HerdrStepTyped DEF monitorVars
  <1>2. CASE StartScan \/ ScanBlind
    <2>1. PICK found \in [Tasks -> Pane] : ScanFor(found) /\ scan.pc \in {"new", "idle"}
      BY <1>0, <1>2 DEF StartScan, ScanBlind
    <2>2. UNCHANGED <<scan, epoch, seen>> \/ scan'.answer = {}
      BY <2>1, ScanForCases DEF BeginsReplace, FindsNobody, ReadsLevels, Asked
    <2> QED BY <1>k, <1>e, <2>2
  <1>3. CASE SubscribeFails \/ ReplaceFails \/ DrainEnds \/ ScanEnds \/ ReplaceCommits
    BY <1>3, <1>e, IdleAtRest
       DEF SubscribeFails, ReplaceFails, Rollback, DrainEnds, ScanEnds, ReplaceCommits, AtRest
  <1>4. CASE Subscribe
    BY <1>4, <1>e, SubscribeCases DEF AnswersAreIn, Asked
  <1>5. CASE LevelArrives
    BY <1>5, <1>e, LevelArrivesCases DEF AnswersAreIn, Asked
  <1>6. CASE HerdrAnswers
    <2>1. /\ UNCHANGED seen /\ SameScan(scan', scan) /\ scan'.task = scan.task
          /\ scan.found[scan.task] \in Panes /\ scan.task \in Tasks
      BY <1>6, HerdrAnswersTyped DEF monitorVars, TypeOK, Scan
    <2>2. PICK b : scan'.answer = {b} /\ (b # Unknown => b = pane[scan.found[scan.task]])
      BY <1>6, HerdrAnswersTyped
    <2>3. seen[scan.task].pane # NoPane => seen[scan.task].status <= pane[seen[scan.task].pane]
      BY <2>1 DEF NothingAhead
    <2>4. scan.found[scan.task] # NoPane
      BY <2>1, Constants
    <2> QED BY <2>1, <2>2, <2>3, <2>4 DEF LevelInFlight, SameScan
  <1>7. ASSUME NEW s \in Streams, Consume(s) PROVE LevelInFlight'
    <2>1. UNCHANGED scan
      BY <1>7 DEF Consume
    <2>2. SUFFICES ASSUME NEW a \in scan.answer, a # Unknown,
                          epoch'[scan.found[scan.task]] = scan.frontier,
                          seen'[scan.task].pane = scan.found[scan.task]
                   PROVE  seen'[scan.task].status <= a
      BY <2>1 DEF LevelInFlight, Fresh
    <2>3. scan.task \in Tasks /\ scan.found[scan.task] \in Panes /\ scan.frontier \in Nat
      BY <2>2 DEF ScanFrame, TypeOK, Scan, Pane
    <2>4. PICK p \in Panes : p = scan.found[scan.task]
      BY <2>3
    <2>5. epoch[p] \in Nat /\ epoch'[p] \in Nat
      BY DEF TypeOK
    <2>6. scan.frontier <= epoch[p]
      BY <2>2, <2>4 DEF ScanFrame
    <2>7. /\ epoch[p] <= epoch'[p]
          /\ p = Head(stream[s].queue).pane => epoch[p] < epoch'[p]
      BY <1>7, EpochGrows
    <2>8. epoch'[p] = scan.frontier
      BY <2>2, <2>4
    <2>9. epoch[p] = scan.frontier /\ p # Head(stream[s].queue).pane
      BY <2>3, <2>5, <2>6, <2>7, <2>8
    <2>10. seen'[scan.task] = seen[scan.task]
      <3>1. seen'[scan.task] = Head(stream[s].queue) \/ seen'[scan.task] = seen[scan.task]
        BY <1>7, <2>3 DEF Consume
      <3> QED BY <2>2, <2>4, <2>9, <3>1
    <2> QED BY <2>2, <2>4, <2>9, <2>10 DEF LevelInFlight, Fresh
  <1>8. ASSUME NEW s \in Streams, ConsumerDies(s) PROVE LevelInFlight'
    BY <1>8, <1>k DEF ConsumerDies
  <1>9. CASE UNCHANGED vars
    BY <1>9, <1>k DEF vars
  <1> QED BY <1>1, <1>2, <1>3, <1>4, <1>5, <1>6, <1>7, <1>8, <1>9 DEF Next, Scanning

-----------------------------------------------------------------------------
LEMMA InvInit == Init => IInv
  <1> SUFFICES ASSUME Init PROVE IInv
    OBVIOUS
  <1>1. TypeOK
    BY TypeInit
  <1>2. /\ scan.pc = "new" /\ ~scan.replacing /\ scan.left = {} /\ scan.task = NoTask
        /\ scan.answer = {}
    BY DEF Init, Idle
  <1>3. sub = NoStream /\ active = NoStream /\ ~connected /\ members = Nothing
    BY DEF Init
  <1>4. ScanFrame
    BY <1>2, <1>3 DEF ScanFrame
  <1>5. ~Replacing /\ ~Changing
    BY <1>2 DEF Replacing, Changing
  <1>6. Coverage /\ Routing
    BY <1>2, <1>3, <1>5 DEF Coverage, Routing
  <1>7. \A s \in Streams : stream[s].consumer = "none" /\ stream[s].queue = <<>>
    BY ClosedTyped DEF Init
  <1>8. SparesAreClosed
    BY <1>7 DEF SparesAreClosed
  <1>9. \A t \in Tasks : seen[t].pane = NoPane
    BY DEF Init
  <1>10. NothingAhead /\ LevelInFlight
    BY <1>2, <1>7, <1>9 DEF NothingAhead, LevelInFlight, Honest
  <1> QED BY <1>1, <1>4, <1>6, <1>8, <1>10 DEF IInv

LEMMA InvStep == IInv /\ [Next]_vars => IInv'
  <1>1. IInv /\ [Next]_vars => TypeOK' /\ ScanFrame'
    BY TypeStep, FrameStep DEF IInv
  <1>2. IInv /\ [Next]_vars => Coverage' /\ Routing' /\ SparesAreClosed'
    BY <1>1, CoverageStep, RoutingStep, SparesStep DEF IInv
  <1>3. IInv /\ [Next]_vars => NothingAhead' /\ LevelInFlight'
    BY <1>1, AheadStep, FlightStep DEF IInv
  <1> QED BY <1>1, <1>2, <1>3 DEF IInv

LEMMA Inductive == Spec => []IInv
  <1> QED BY InvInit, InvStep, PTL DEF Spec

(* Every field of the daemon's view and of its streams is of its type, also behind     *)
(* a torn file, a rollback and a drain.                                          *)
THEOREM TypeCorrect == Spec => []TypeOK
  <1>1. IInv => TypeOK
    BY DEF IInv
  <1> QED BY <1>1, Inductive, PTL

(* A monitor that rests and is connected reads a stream with every member's pane,       *)
(* but for panes that had closed, however often it replaced and rolled back.         *)
THEOREM RestingIsCovered == Spec => []ConnectedIsCovered
  <1>1. IInv => ConnectedIsCovered
    BY DEF IInv, Coverage, Replacing, ConnectedIsCovered, Covers, Members, Running
  <1> QED BY <1>1, Inductive, PTL

(* No level read, however late its answer, takes a task behind an edge of the same      *)
(* pane: an edge consumed after the request moved the epoch, and one consumed before    *)
(* is not ahead of the pane.                                                    *)
THEOREM LevelsNeverOverride == Spec => LevelNeverOverridesEdge
  <1> DEFINE A == \A t \in Tasks :
                    (seen'[t] # seen[t] /\ seen'[t].pane = seen[t].pane /\ scan' # scan)
                       => seen'[t].status > seen[t].status
  <1>1. ASSUME IInv, [Next]_vars PROVE [A]_vars
    <2>0. TypeOK /\ ScanFrame /\ NothingAhead /\ LevelInFlight
      BY <1>1 DEF IInv
    <2>1. CASE LevelArrives
      <3> SUFFICES ASSUME NEW t \in Tasks, seen'[t] # seen[t], seen'[t].pane = seen[t].pane
                   PROVE  seen'[t].status > seen[t].status
        OBVIOUS
      <3>1. t = scan.task /\ Unknown \notin scan.answer /\ Fresh(t)
        BY <2>0, <2>1 DEF LevelArrives, TypeOK
      <3>2. PICK a \in 0..Unknown : scan.answer = {a}
        BY <2>0, <2>1 DEF LevelArrives, ScanFrame
      <3>3. seen'[t] = [pane |-> scan.found[t], status |-> a]
        BY <2>0, <2>1, <3>1, <3>2 DEF LevelArrives, TypeOK
      <3>4. seen[t].status <= a
        BY <2>0, <3>1, <3>2, <3>3 DEF LevelInFlight
      <3>5. seen[t].status # a
        <4>1. seen[t] \in [pane : Pane, status : Status]
          BY <2>0 DEF TypeOK, Observation
        <4> QED BY <3>3, <4>1
      <3>6. seen[t].status \in Nat /\ a \in Nat
        BY <2>0, SeenTyped, Constants DEF Unknown
      <3> QED BY <3>3, <3>4, <3>5, <3>6
    <2>2. CASE Herdr
      BY <2>0, <2>2, HerdrStepTyped DEF monitorVars
    <2>3. CASE StartScan \/ ScanBlind
      <3>1. seen' = seen
        BY <2>3 DEF StartScan, ScanBlind, ScanFor
      <3> QED BY <3>1
    <2>4. CASE SubscribeFails \/ ReplaceFails \/ DrainEnds \/ ScanEnds \/ ReplaceCommits
      BY <2>4 DEF SubscribeFails, ReplaceFails, Rollback, DrainEnds, ScanEnds, ReplaceCommits
    <2>5. CASE Subscribe
      BY <2>5 DEF Subscribe
    <2>6. CASE HerdrAnswers
      BY <2>6 DEF HerdrAnswers, monitorVars
    <2>7. CASE \E s \in Streams : Consume(s) \/ ConsumerDies(s)
      BY <2>7 DEF Consume, ConsumerDies
    <2> QED BY <1>1, <2>1, <2>2, <2>3, <2>4, <2>5, <2>6, <2>7 DEF Next, Scanning
  <1> QED BY <1>1, Inductive, PTL DEF Spec, LevelNeverOverridesEdge

(* An observation reaches a task only for the pane it is a member with: an edge held     *)
(* back in an old stream carries an old route, and a rollback does not revive it.       *)
THEOREM EdgesKeepTheRoute == Spec => EdgesFollowTheRoute
  <1> DEFINE A == \A t \in Tasks : seen'[t] # seen[t] => seen'[t].pane = members'[t]
  <1>1. ASSUME IInv, [Next]_vars PROVE [A]_vars
    <2>0. TypeOK /\ ScanFrame /\ Coverage /\ Routing /\ SparesAreClosed
      BY <1>1 DEF IInv
    <2>1. CASE LevelArrives
      <3> SUFFICES ASSUME NEW t \in Tasks, seen'[t] # seen[t] PROVE seen'[t].pane = members'[t]
        OBVIOUS
      <3>1. seen'[t].pane = scan.found[t] /\ members' = members
        BY <2>0, <2>1 DEF LevelArrives, TypeOK
      <3>2. scan.found = members
        BY <2>0, <2>1 DEF LevelArrives, ScanFrame
      <3> QED BY <3>1, <3>2
    <2>2. ASSUME NEW s \in Streams, Consume(s) PROVE A
      <3> SUFFICES ASSUME NEW t \in Tasks, seen'[t] # seen[t] PROVE seen'[t].pane = members'[t]
        OBVIOUS
      <3>1. PICK edge : edge = Head(stream[s].queue)
        OBVIOUS
      <3>2. /\ seen'[t] = edge /\ members' = members
            /\ stream[s].routing[t] = [pane |-> edge.pane, route |-> route[t]]
        BY <2>2, <3>1 DEF Consume, Routed
      <3>3. stream[s].consumer = "running"
        BY <2>2 DEF Consume, Running
      <3>4. RoutesAgree(s)
        <4>0. ASSUME Carries(s, members, route) PROVE RoutesAgree(s)
          <5>1. ASSUME NEW u \in Tasks PROVE stream[s].routing[u].pane = members[u]
            <6>1. stream[s].routing[u] = [pane |-> members[u], route |-> route[u]]
              BY <4>0 DEF Carries
            <6> QED BY <6>1
          <5> QED BY <5>1 DEF RoutesAgree
        <4>1. CASE s = sub /\ ~Changing
          <5>1. Carries(s, members, route)
            BY <2>0, <4>1, Constants DEF Routing
          <5> QED BY <4>0, <5>1
        <4>2. CASE s = sub /\ Changing
          <5>1. Carries(s, scan.before, scan.routes) /\ RoutesBumped
            BY <2>0, <4>2, Constants DEF Routing
          <5>2. ASSUME NEW u \in Tasks, stream[s].routing[u].route = route[u]
                PROVE  stream[s].routing[u].pane = members[u]
            <6>1. scan.routes[u] \in Nat
              BY <2>0 DEF TypeOK, Scan
            <6>2. stream[s].routing[u] = [pane |-> scan.before[u], route |-> scan.routes[u]]
              BY <5>1 DEF Carries
            <6>3. scan.before[u] = scan.found[u]
              BY <5>1, <5>2, <6>1, <6>2 DEF RoutesBumped
            <6>4. scan.before = members \/ scan.found = members
              BY <2>0, <4>2 DEF Changing, Replacing, ScanFrame
            <6> QED BY <6>2, <6>3, <6>4
          <5> QED BY <5>2 DEF RoutesAgree
        <4>3. CASE s # sub /\ scan.pc = "draining"
          <5>1. s = Other /\ RoutesAgree(Other)
            BY <2>0, <4>3, TwoStreams DEF Routing, TypeOK
          <5> QED BY <5>1
        <4>4. CASE s # sub /\ scan.pc # "draining"
          <5>1. s = active
            BY <3>3, <2>0, <4>4 DEF SparesAreClosed
          <5>2. Replacing /\ s = Other
            BY <2>0, <4>4, <5>1 DEF Coverage
          <5>3. Carries(s, members, route)
            BY <2>0, <5>2 DEF Routing
          <5> QED BY <4>0, <5>3
        <4> QED BY <4>1, <4>2, <4>3, <4>4
      <3> QED BY <3>2, <3>4 DEF RoutesAgree
    <2>3. CASE Herdr
      BY <2>0, <2>3, HerdrStepTyped DEF monitorVars
    <2>4. CASE StartScan \/ ScanBlind
      <3>1. seen' = seen
        BY <2>4 DEF StartScan, ScanBlind, ScanFor
      <3> QED BY <3>1
    <2>5. CASE SubscribeFails \/ ReplaceFails \/ DrainEnds \/ ScanEnds \/ ReplaceCommits
      BY <2>5 DEF SubscribeFails, ReplaceFails, Rollback, DrainEnds, ScanEnds, ReplaceCommits
    <2>6. CASE Subscribe
      BY <2>6 DEF Subscribe
    <2>7. CASE HerdrAnswers
      BY <2>7 DEF HerdrAnswers, monitorVars
    <2>8. CASE \E s \in Streams : ConsumerDies(s)
      BY <2>8 DEF ConsumerDies
    <2>9. CASE UNCHANGED vars
      BY <2>9 DEF vars
    <2> QED BY <1>1, <2>1, <2>2, <2>3, <2>4, <2>5, <2>6, <2>7, <2>8, <2>9 DEF Next, Scanning
  <1> QED BY <1>1, Inductive, PTL DEF Spec, EdgesFollowTheRoute

=============================================================================
