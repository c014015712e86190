------------------------------- MODULE Membership -------------------------------
(***************************************************************************)
(* The daemon's view of the crew's panes: MembershipMonitor and               *)
(* UnixHerdrSubscription of lib/rozoro_monitor/herdr.py.  A scan compares the   *)
(* task metadata with the members, replaces the event stream when they differ,  *)
(* and reads every member's level; a consumer task per stream applies the        *)
(* pushed edges meanwhile.  All of it is one event loop: what lies between two   *)
(* awaits is one action.                                                     *)
(*                                                                          *)
(* Herdr is external: a pane goes through the statuses 0..MaxStatus and may      *)
(* close; every change is an edge on each stream that subscribed to the pane,     *)
(* a close is not.                                                           *)
(***************************************************************************)
EXTENDS Naturals, Sequences, FiniteSets

CONSTANTS
    Tasks, Panes,
    Streams,     \* two: the current stream, and the one that replaces it
    NoPane, Torn, NoStream, NoTask,
    MaxStatus,   \* bound on the status changes of a pane
    MaxMeta,     \* bound on the changes of metadata
    MaxFaults    \* bound on lost connections, failed calls and directory errors

ASSUME MembershipAssumption ==
    /\ NoPane \notin Panes /\ Torn \notin Panes \union {NoPane}
    /\ NoStream \notin Streams /\ NoTask \notin Tasks
    /\ IsFiniteSet(Streams) /\ Cardinality(Streams) = 2
    /\ MaxStatus \in Nat /\ MaxMeta \in Nat /\ MaxFaults \in Nat

VARIABLES
    meta,        \* [Tasks -> the pane its .meta file names, Torn, or NoPane]
    pane,        \* [Panes -> Status] the truth
    budget,      \* changes of metadata and faults so far
    stream,      \* [Streams -> Stream]
    members,     \* [Tasks -> pane or NoPane], self.members
    sub,         \* self._subscription and self._consumer
    active,      \* the stream whose token is self._active_token
    route,       \* self._route_generation
    epoch,       \* self._pane_epoch
    force,       \* self._force_rebuild
    connected,   \* self.connected
    scan,        \* how far the scan under way is
    seen         \* [Tasks -> the last observation reconciled into the store]

herdrVars == <<meta, pane, budget>>
vars == <<herdrVars, stream, members, sub, active, route, epoch, force,
          connected, scan, seen>>

-----------------------------------------------------------------------------
(* Statuses grow, and a closed pane comes last; Unknown is a read that failed.   *)
Closed == MaxStatus + 1
Unknown == MaxStatus + 2
Status == 0..Closed

Pane == Panes \union {NoPane}
Observation == [pane: Pane, status: Status]

(* `up` is the connection, `consumer` the task that reads it.                   *)
Stream == [up: BOOLEAN, panes: SUBSET Panes, queue: Seq(Observation),
           routing: [Tasks -> [pane: Pane, route: Nat]],
           consumer: {"none", "running", "dead"}]

(* What an await of the scan leaves behind: the replaced membership, the tasks    *)
(* whose level is still to be read, the read in flight with the epoch it started   *)
(* in, and its answer once Herdr has given it.                                 *)
Scan == [pc: {"new", "idle", "starting", "levels", "draining"}, replacing: BOOLEAN,
         found: [Tasks -> Pane], before: [Tasks -> Pane], routes: [Tasks -> Nat],
         left: SUBSET Tasks, task: Tasks \union {NoTask}, frontier: Nat,
         answer: SUBSET (0..Unknown), ok: BOOLEAN]

TypeOK ==
    /\ meta \in [Tasks -> Pane \union {Torn}]
    /\ pane \in [Panes -> Status]
    /\ budget \in [meta: 0..MaxMeta, faults: 0..MaxFaults]
    /\ stream \in [Streams -> Stream]
    /\ members \in [Tasks -> Pane]
    /\ {sub, active} \subseteq Streams \union {NoStream}
    /\ route \in [Tasks -> Nat] /\ epoch \in [Panes -> Nat]
    /\ force \in BOOLEAN /\ connected \in BOOLEAN
    /\ scan \in Scan
    /\ seen \in [Tasks -> Observation]

Nothing == [t \in Tasks |-> NoPane]
NoRoutes == [t \in Tasks |-> 0]

ClosedStream == [up |-> FALSE, panes |-> {}, queue |-> <<>>, consumer |-> "none",
                 routing |-> [t \in Tasks |-> [pane |-> NoPane, route |-> 0]]]

Idle == [pc |-> "idle", replacing |-> FALSE, found |-> Nothing, before |-> Nothing,
         routes |-> NoRoutes, left |-> {}, task |-> NoTask, frontier |-> 0,
         answer |-> {}, ok |-> TRUE]

Init ==
    /\ meta \in [Tasks -> Pane]
    /\ pane = [p \in Panes |-> 0]
    /\ budget = [meta |-> 0, faults |-> 0]
    /\ stream = [s \in Streams |-> ClosedStream]
    /\ members = Nothing
    /\ sub = NoStream /\ active = NoStream
    /\ route = NoRoutes
    /\ epoch = [p \in Panes |-> 0]
    /\ force = FALSE
    /\ connected = FALSE
    /\ scan = [Idle EXCEPT !.pc = "new"]
    /\ seen = [t \in Tasks |-> [pane |-> NoPane, status |-> 0]]

Members(m) == {t \in Tasks : m[t] # NoPane}
PanesOf(m) == {m[t] : t \in Members(m)}

-----------------------------------------------------------------------------
(* Herdr, the task scripts and what may break.                               *)
monitorVars == <<members, sub, active, route, epoch, force, connected, seen>>

WriteMeta(t, value) ==
    /\ budget.meta < MaxMeta
    /\ value # meta[t]
    /\ meta' = [meta EXCEPT ![t] = value]
    /\ budget' = [budget EXCEPT !.meta = @ + 1]
    /\ UNCHANGED <<pane, stream, scan, monitorVars>>

PaneChanges(p) ==
    /\ pane[p] < MaxStatus
    /\ pane' = [pane EXCEPT ![p] = @ + 1]
    /\ stream' = [s \in Streams |->
         IF stream[s].up /\ p \in stream[s].panes
         THEN [stream[s] EXCEPT !.queue = Append(@, [pane |-> p, status |-> pane[p] + 1])]
         ELSE stream[s]]
    /\ UNCHANGED <<meta, budget, scan, monitorVars>>

PaneCloses(p) ==
    /\ pane[p] # Closed
    /\ pane' = [pane EXCEPT ![p] = Closed]
    /\ UNCHANGED <<meta, budget, stream, scan, monitorVars>>

Fault ==
    /\ budget.faults < MaxFaults
    /\ budget' = [budget EXCEPT !.faults = @ + 1]
    /\ UNCHANGED <<meta, pane>>

(* EmptySubscription has no connection.                                      *)
StreamBreaks(s) ==
    /\ stream[s].up /\ stream[s].panes # {}
    /\ Fault
    /\ stream' = [stream EXCEPT ![s].up = FALSE]
    /\ UNCHANGED <<scan, monitorVars>>

-----------------------------------------------------------------------------
(* inventory, and the known entries that a torn read would omit.               *)
Inventory ==
    [t \in Tasks |-> IF meta[t] = Torn THEN members[t] ELSE meta[t]]

(* Mutant: the levels are read without regard to the edges consumed meanwhile.    *)
FreshAlways(t) == TRUE

(* _apply's check of the epoch; the route that _levels hands it is the one of      *)
(* that moment, and never differs.                                           *)
Fresh(t) == epoch[scan.found[t]] = scan.frontier

(* _levels asks for the next level, having noted the pane's epoch; members in     *)
(* any order.                                                               *)
NextLevel(sc, left, t) ==
    [sc EXCEPT !.pc = "levels", !.left = left \ {t}, !.task = t, !.answer = {},
               !.frontier = epoch[sc.found[t]]]

(* Mutant: only new and removed tasks get a new route.                         *)
BumpedNew(found) ==
    [t \in Tasks |-> IF (members[t] = NoPane) # (found[t] = NoPane)
                     THEN route[t] + 1 ELSE route[t]]

Bumped(found) ==
    [t \in Tasks |-> IF members[t] # found[t] THEN route[t] + 1 ELSE route[t]]

(* Mutant: the levels are read only behind a new subscription.                    *)
ScanForChanges(found) ==
    /\ force \/ scan.pc = "new" \/ found # members
    /\ route' = Bumped(found)
    /\ scan' = [Idle EXCEPT !.pc = "starting", !.replacing = TRUE, !.found = found,
                            !.before = members, !.routes = route]
    /\ UNCHANGED <<stream, members, sub, active, epoch, force, connected, seen>>

(* scan, forced at the start, later when a hint or the interval wakes _run; with a  *)
(* change _replace begins, without one only the levels are read.                  *)
ScanFor(found) ==
    IF force \/ scan.pc = "new" \/ found # members
    THEN /\ route' = Bumped(found)
         /\ scan' = [Idle EXCEPT !.pc = "starting", !.replacing = TRUE, !.found = found,
                                 !.before = members, !.routes = route]
         /\ UNCHANGED <<stream, members, sub, active, epoch, force, connected, seen>>
    ELSE /\ IF Members(members) = {}
            THEN UNCHANGED scan
            ELSE \E t \in Members(members) :
                   scan' = NextLevel([Idle EXCEPT !.found = members], Members(members), t)
         /\ connected' = (connected /\ Members(members) # {})
         /\ UNCHANGED <<stream, members, sub, active, route, epoch, force, seen>>

StartScan ==
    /\ scan.pc \in {"new", "idle"}
    /\ ScanFor(Inventory)
    /\ UNCHANGED herdrVars

(* The state directory cannot be opened: an inventory without a member.          *)
ScanBlind ==
    /\ scan.pc \in {"new", "idle"}
    /\ Fault
    /\ ScanFor(Nothing)

Other == CHOOSE s \in Streams : s # sub

(* The new stream failed: members, token and routes are put back, the scan ends.   *)
Rollback ==
    /\ members' = scan.before
    /\ active' = sub
    /\ route' = scan.routes
    /\ stream' = [stream EXCEPT ![Other] = ClosedStream]
    /\ connected' = FALSE
    /\ scan' = Idle
    /\ UNCHANGED <<sub, epoch, force, seen>>

(* new.start(): Herdr refuses a subscription with a closed pane; with several       *)
(* panes each is then tried alone, with one it fails.                           *)
Refused == \E p \in Panes : PanesOf(scan.found) = {p} /\ pane[p] = Closed

SubscribeFails ==
    /\ scan.pc = "starting"
    /\ \/ Refused /\ UNCHANGED herdrVars
       \/ ~Refused /\ PanesOf(scan.found) # {} /\ Fault
    /\ Rollback

(* ... or it starts: the members and the token change, a consumer runs, and the     *)
(* levels are read behind the subscription.                                    *)
Subscribed ==
    [up |-> TRUE, queue |-> <<>>, consumer |-> "running",
     panes |-> {p \in PanesOf(scan.found) : pane[p] # Closed},
     routing |-> [t \in Tasks |-> [pane |-> scan.found[t], route |-> route[t]]]]

Subscribe ==
    /\ scan.pc = "starting"
    /\ ~Refused
    /\ stream' = [stream EXCEPT ![Other] = Subscribed]
    /\ members' = scan.found
    /\ active' = Other
    /\ IF Members(scan.found) = {}
       THEN scan' = [scan EXCEPT !.pc = "levels", !.task = NoTask]
       ELSE \E t \in Members(scan.found) :
              scan' = NextLevel(scan, Members(scan.found), t)
    /\ UNCHANGED <<herdrVars, sub, route, epoch, force, connected, seen>>

-----------------------------------------------------------------------------
(* read_pane_level: Herdr answers with the level of that moment, or a call fails.    *)
HerdrAnswers ==
    /\ scan.task # NoTask /\ scan.answer = {}
    /\ \/ scan' = [scan EXCEPT !.answer = {pane[scan.found[scan.task]]}]
          /\ UNCHANGED herdrVars
       \/ scan' = [scan EXCEPT !.answer = {Unknown}] /\ Fault
    /\ UNCHANGED <<stream, monitorVars>>

(* The answer is applied unless an edge of the pane was consumed since the request;   *)
(* an Unknown changes nothing in the store.  Then the next member's turn.           *)
LevelArrives ==
    /\ scan.answer # {}
    /\ LET t == scan.task
           known == Unknown \notin scan.answer
           done == [scan EXCEPT !.task = NoTask, !.answer = {}, !.ok = @ /\ known]
       IN  /\ seen' = IF known /\ Fresh(t)
                      THEN [seen EXCEPT ![t] = [pane |-> scan.found[t],
                                                status |-> CHOOSE a \in scan.answer : TRUE]]
                      ELSE seen
           /\ connected' = (connected /\ known)
           /\ IF scan.left = {} THEN scan' = done
              ELSE \E next \in scan.left : scan' = NextLevel(done, scan.left, next)
    /\ UNCHANGED <<herdrVars, stream, members, sub, active, route, epoch, force>>

Levelled == scan.pc = "levels" /\ scan.task = NoTask

Running(s) == s # NoStream /\ stream[s].consumer = "running"

(* Mutant: good levels mean connected.                                          *)
ScanEndsTrusting ==
    /\ Levelled /\ ~scan.replacing
    /\ connected' = scan.ok
    /\ scan' = Idle
    /\ UNCHANGED <<herdrVars, stream, members, sub, active, route, epoch, force, seen>>

(* The rest of scan after the levels of a scan without a change.                   *)
ScanEnds ==
    /\ Levelled /\ ~scan.replacing
    /\ connected' = (scan.ok /\ Running(sub))
    /\ scan' = Idle
    /\ UNCHANGED <<herdrVars, stream, members, sub, active, route, epoch, force, seen>>

(* The rest of _replace: if the new stream has died under the levels, it is rolled   *)
(* back; otherwise it becomes the subscription, and the old one is drained.          *)
ReplaceFails ==
    /\ Levelled /\ scan.replacing /\ ~Running(Other)
    /\ Rollback
    /\ UNCHANGED herdrVars

ReplaceCommits ==
    /\ Levelled /\ scan.replacing /\ Running(Other)
    /\ sub' = Other
    /\ connected' = (Members(scan.found) # {} /\ scan.ok)
    /\ IF sub = NoStream
       THEN scan' = Idle /\ force' = FALSE
       ELSE scan' = [Idle EXCEPT !.pc = "draining"] /\ UNCHANGED force
    /\ UNCHANGED <<herdrVars, stream, members, active, route, epoch, seen>>

(* The bounded drain is over: what the old stream still holds is lost; only now does   *)
(* scan clear the request to rebuild.                                            *)
DrainEnds ==
    /\ scan.pc = "draining"
    /\ stream' = [stream EXCEPT ![Other] = ClosedStream]
    /\ force' = FALSE
    /\ scan' = Idle
    /\ UNCHANGED <<herdrVars, members, sub, active, route, epoch, connected, seen>>

-----------------------------------------------------------------------------
Routed(s, p) ==
    {t \in Tasks : stream[s].routing[t] = [pane |-> p, route |-> route[t]]}

(* _consume takes an edge: the pane's epoch moves, and the tasks that are still on     *)
(* the route it captured get it.                                                 *)
Consume(s) ==
    /\ Running(s) /\ stream[s].queue # <<>>
    /\ LET edge == Head(stream[s].queue)
       IN  /\ epoch' = [epoch EXCEPT ![edge.pane] = @ + 1]
           /\ seen' = [t \in Tasks |-> IF t \in Routed(s, edge.pane) THEN edge ELSE seen[t]]
    /\ stream' = [stream EXCEPT ![s].queue = Tail(@)]
    /\ UNCHANGED <<herdrVars, members, sub, active, route, force, connected, scan>>

(* _consume at the end of its stream: only the active one asks for a rebuild.         *)
ConsumerDies(s) ==
    /\ Running(s) /\ stream[s].queue = <<>> /\ ~stream[s].up
    /\ stream' = [stream EXCEPT ![s].consumer = "dead"]
    /\ IF s = active THEN connected' = FALSE /\ force' = TRUE
       ELSE UNCHANGED <<connected, force>>
    /\ UNCHANGED <<herdrVars, members, sub, active, route, epoch, scan, seen>>

-----------------------------------------------------------------------------
Herdr ==
    \/ \E t \in Tasks, value \in Pane \union {Torn} : WriteMeta(t, value)
    \/ \E p \in Panes : PaneChanges(p) \/ PaneCloses(p)
    \/ \E s \in Streams : StreamBreaks(s)

Scanning ==
    \/ StartScan \/ ScanBlind \/ SubscribeFails \/ Subscribe \/ HerdrAnswers
    \/ LevelArrives \/ ScanEnds \/ ReplaceFails \/ ReplaceCommits \/ DrainEnds

Next ==
    \/ Herdr \/ Scanning
    \/ \E s \in Streams : Consume(s) \/ ConsumerDies(s)

(* _run scans at least every scan_interval; calls and the drain have timeouts; a       *)
(* consumer task that can go on is scheduled.  Herdr and the scripts owe nothing.      *)
Fairness ==
    /\ WF_vars(Scanning)
    /\ \A s \in Streams : WF_vars(Consume(s)) /\ WF_vars(ConsumerDies(s))

Spec == Init /\ [][Next]_vars /\ Fairness

-----------------------------------------------------------------------------
(* docs/architecture/contracts/herdr-port.md: a level read never takes a task back     *)
(* behind something the task has been told of the same pane; only an edge that was      *)
(* under way can, and the next level puts it right.                                *)
LevelNeverOverridesEdge ==
    [][\A t \in Tasks :
          (seen'[t] # seen[t] /\ seen'[t].pane = seen[t].pane /\ scan' # scan)
             => seen'[t].status > seen[t].status]_vars

(* An observation reaches a task only for the pane it is a member with: an edge of       *)
(* the old pane, still in the old stream's queue, never resurrects a re-routed task,      *)
(* also not across a rollback.                                                   *)
EdgesFollowTheRoute ==
    [][\A t \in Tasks : seen'[t] # seen[t] => seen'[t].pane = members'[t]]_vars

(* A monitor that rests and calls itself connected reads a stream that holds every      *)
(* member's pane, but for panes that were closed when it subscribed.                *)
ConnectedIsCovered ==
    scan.pc = "idle" /\ connected =>
        /\ sub = active /\ Running(sub)
        /\ \A t \in Members(members) :
              members[t] \in stream[sub].panes \/ pane[members[t]] = Closed

Truth(t) ==
    meta[t] = Torn \/ (/\ members[t] = meta[t]
                       /\ meta[t] # NoPane => seen[t] = [pane |-> meta[t], status |-> pane[meta[t]]])

(* One pane in all the metadata, and it has closed.                              *)
LoneClosedPane == \E p \in Panes : PanesOf(Inventory) = {p} /\ pane[p] = Closed

(* When Herdr and the scripts have come to rest, every task is known in the end by its    *)
(* pane and its true level, whatever was torn, lost or failed: a task whose pane closed   *)
(* is told to be gone; unless it has the only pane of all.                           *)
EveryPaneSettles == <>[](LoneClosedPane \/ \A t \in Tasks : Truth(t))

=============================================================================
