---------------------------- MODULE LifecycleReplay ----------------------------
(***************************************************************************)
(* One session: a harness whose true state changes, the producer that       *)
(* reports it, and the reducer that sees the reports late, out of order and  *)
(* more than once, between host liveness observations and transport changes. *)
(*                                                                          *)
(* The producer is the environment, restricted to what the adapters send:    *)
(* events numbered without gaps, each true when it is emitted; jobs begin    *)
(* unreported only within a turn (Claude reports subagents, not shells) and  *)
(* may stop unreported at any time (Claude reports no stop); turn.stop says  *)
(* true, false or null about the background (Claude, Pi, Codex); a session   *)
(* may be resumed under the same id after its end.                          *)
(***************************************************************************)
EXTENDS Reducer

CONSTANTS
    MaxEvents,       \* bound: events emitted
    MaxDisconnects   \* bound: adapter connection changes

ASSUME ReplayBounds == MaxEvents \in Nat /\ MaxDisconnects \in Nat

VARIABLES
    truth,        \* the harness: turn running, jobs running, session alive
    log,          \* events emitted, log[i].seq = i
    truthAt,      \* history: the truth each event was emitted in
    received,     \* history: sequence numbers given to reduce_event
    state,        \* the reducer's state, as sessions.reducer_state_json
    base,         \* history: the applied state at the last connection change
    paneGone,     \* history: the last host observation said gone
    disconnects   \* counter for MaxDisconnects

vars == <<truth, log, truthAt, received, state, base, paneGone, disconnects>>

Truth == [fg : {"running", "stopped"}, jobs : SUBSET Jobs, alive : BOOLEAN]

TypeOK ==
    /\ truth \in Truth
    /\ log \in Seq(Event) /\ Len(log) <= MaxEvents
    /\ truthAt \in Seq(Truth) /\ Len(truthAt) = Len(log)
    /\ received \subseteq 1..Len(log)
    /\ state \in LifecycleState
    /\ base \in LifecycleState
    /\ paneGone \in BOOLEAN
    /\ disconnects \in 0..MaxDisconnects

Init ==
    /\ truth \in [fg : {"running", "stopped"}, jobs : {{}}, alive : {TRUE}]
    /\ log = <<>>
    /\ truthAt = <<>>
    /\ received = {}
    /\ state = NewState
    /\ base = NewState
    /\ paneGone = FALSE
    /\ disconnects = 0

-----------------------------------------------------------------------------
Emit(type, job, active, count, now) ==
    /\ Len(log) < MaxEvents
    /\ (log = <<>>) => type = "session.register"
    /\ truth' = now
    /\ log' = Append(log, [seq |-> Len(log) + 1, type |-> type, job |-> job,
                           active |-> active, count |-> count])
    /\ truthAt' = Append(truthAt, now)
    /\ UNCHANGED <<received, state, base, paneGone, disconnects>>

(* At first, and again when an ended session is resumed under its id.       *)
Registers ==
    /\ log = <<>> \/ ~truth.alive
    /\ Emit("session.register", NoJob, "null", 0, [truth EXCEPT !.alive = TRUE])

TurnStarts ==
    /\ truth.alive
    /\ Emit("turn.start", NoJob, "null", 0, [truth EXCEPT !.fg = "running"])

TurnStops ==
    /\ truth.alive
    /\ \E active \in {"null", IF truth.jobs = {} THEN "false" ELSE "true"} :
          Emit("turn.stop", NoJob, active, 0, [truth EXCEPT !.fg = "stopped"])

JobStarts(j) ==
    /\ truth.alive /\ j \notin truth.jobs
    /\ Emit("background.start", j, "null", 0, [truth EXCEPT !.jobs = @ \union {j}])

JobStops(j) ==
    /\ truth.alive /\ j \in truth.jobs
    /\ Emit("background.stop", j, "null", 0, [truth EXCEPT !.jobs = @ \ {j}])

Unreported(jobs) ==
    /\ Len(log) < MaxEvents
    /\ truth' = [truth EXCEPT !.jobs = jobs]
    /\ UNCHANGED <<log, truthAt, received, state, base, paneGone, disconnects>>

JobStartsUnreported(j) ==
    /\ truth.alive /\ truth.fg = "running" /\ j \notin truth.jobs
    /\ Unreported(truth.jobs \union {j})

JobStopsUnreported(j) ==
    /\ truth.alive /\ j \in truth.jobs
    /\ Unreported(truth.jobs \ {j})

Snapshots ==
    /\ truth.alive
    /\ Emit("background.snapshot", NoJob, "null", Cardinality(truth.jobs), truth)

Ends ==
    /\ truth.alive
    /\ Emit("session.end", NoJob, "null", 0,
            [fg |-> "stopped", jobs |-> {}, alive |-> FALSE])

(* A frame arrives: any emitted event, again or for the first time.          *)
Receives(i) ==
    /\ state' = ReduceEvent(state, log[i])
    /\ received' = received \union {i}
    /\ UNCHANGED <<truth, log, truthAt, base, paneGone, disconnects>>

(* Herdr reports the pane gone or there (reconcile_herdr_liveness).          *)
PaneObserved(gone) ==
    /\ state' = ObserveGone(state, gone)
    /\ paneGone' = gone
    /\ UNCHANGED <<truth, log, truthAt, received, base, disconnects>>

(* What the applied events alone have made of a state.                       *)
Applied(s) == [s EXCEPT !.pending = {}, !.gap = FALSE, !.gone = FALSE]

(* The adapter's connection is reported lost or back: reconcile_herdr_       *)
(* liveness takes it as an argument that the daemon's own caller leaves out.  *)
ConnectionObserved(connected) ==
    /\ disconnects < MaxDisconnects
    /\ disconnects' = disconnects + 1
    /\ state' = SetAdapterConnected(state, connected)
    /\ base' = Applied(state')
    /\ UNCHANGED <<truth, log, truthAt, received, paneGone>>

Next ==
    \/ Registers
    \/ TurnStarts
    \/ TurnStops
    \/ Snapshots
    \/ Ends
    \/ \E j \in Jobs : JobStarts(j) \/ JobStops(j)
                       \/ JobStartsUnreported(j) \/ JobStopsUnreported(j)
    \/ \E i \in 1..Len(log) : Receives(i)
    \/ \E b \in BOOLEAN : PaneObserved(b) \/ ConnectionObserved(b)

Spec == Init /\ [][Next]_vars

-----------------------------------------------------------------------------
(* The daemon calls a session quiescent only when at the last event it       *)
(* accounts for the turn had stopped and no job ran, no later event has       *)
(* arrived, and that event was applied after the last change of the adapter's *)
(* connection: no gap, no lost or restored connection, no hidden job and no    *)
(* mismatched stop ever certifies idleness that was not there.                *)
QuiescentIsTrue ==
    Availability(state) = "quiescent" =>
        /\ \A i \in received : i <= state.seq
        /\ truthAt[state.seq].fg = "stopped"
        /\ truthAt[state.seq].jobs = {}
        /\ disconnects > 0 => state.seq > base.seq

(* The background count the daemon shows between turns is never below the    *)
(* number of jobs that ran at that event.  (Within a turn it can be: a shell  *)
(* started since the last snapshot is not known yet.)                        *)
CountNeverShort ==
    Counted(state) /\ state.fg = "stopped" /\ state.seq > 0 /\ ~state.ended =>
        ActiveCount(state) >= Cardinality(truthAt[state.seq].jobs)

(* Arrival order and repetition do not matter: the state is what the        *)
(* events since the last connection change give when applied in order, the   *)
(* early ones wait, and none is lost.  The host's word on the pane is beside   *)
(* the sequence: it holds until the next observation, or for good once ended. *)
ArrivalOrderIrrelevant ==
    LET replay == ApplyAll(base, SubSeq(log, base.seq + 1, state.seq))
    IN  /\ \A i \in 1..state.seq : i \in received
        /\ state.pending = {log[i] : i \in {k \in received : k > state.seq}}
        /\ state.seq + 1 \notin received
        /\ state.gap <=> state.pending # {}
        /\ state.gone <=> state.ended \/ paneGone
        /\ Applied(state) = Applied(replay)

=============================================================================
