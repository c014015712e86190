-------------------------------- MODULE Reducer --------------------------------
(***************************************************************************)
(* The pure lifecycle reducer, lib/rozoro_monitor/reducer.py: one session's  *)
(* certified state, and how producer events, host liveness and transport     *)
(* changes transform it.  No variables; the replay and the event store use   *)
(* these operators on the states they keep.                                  *)
(*                                                                          *)
(* The stored `availability` is always the one of the other fields (every    *)
(* operator below ends in _finish), so it is the operator Availability here. *)
(* The report field is carried by the store's projection and left out.       *)
(***************************************************************************)
EXTENDS Naturals, FiniteSets, SequencesExt

CONSTANTS
    Jobs,   \* background job ids
    NoJob   \* the job of an event that names none

ASSUME JobsAssumption == NoJob \notin Jobs /\ IsFiniteSet(Jobs)

Foreground == {"running", "stopped", "unknown"}

Background == {"active", "clear", "unknown"}

AvailabilityValue ==
    {"busy", "waiting-background", "quiescent", "blocked", "gone", "unknown"}

EventType == {"session.register", "turn.start", "turn.stop", "background.start",
              "background.stop", "background.snapshot", "session.end"}

(* `active` is turn.stop's background_active, "null" when absent; `count`   *)
(* is a snapshot's active_count.                                            *)
Event == [seq : Nat, type : EventType, job : Jobs \union {NoJob},
          active : {"true", "false", "null"}, count : Nat]

LifecycleState ==
    [fg : Foreground, bg : Background, certified : BOOLEAN,
     jobs : SUBSET Jobs, anonymous : Nat, presence : BOOLEAN,
     seq : Nat, pending : SUBSET Event, gap : BOOLEAN,
     ended : BOOLEAN, gone : BOOLEAN, connected : BOOLEAN,
     fgFresh : BOOLEAN, bgFresh : BOOLEAN, blocked : BOOLEAN]

NewState ==
    [fg |-> "unknown", bg |-> "unknown", certified |-> FALSE,
     jobs |-> {}, anonymous |-> 0, presence |-> FALSE,
     seq |-> 0, pending |-> {}, gap |-> FALSE,
     ended |-> FALSE, gone |-> FALSE, connected |-> TRUE,
     fgFresh |-> TRUE, bgFresh |-> TRUE, blocked |-> FALSE]

(* active_count: a number only over a certified baseline.                   *)
Counted(s) == s.bg # "unknown" /\ s.certified

ActiveCount(s) == Cardinality(s.jobs) + s.anonymous

DeriveAvailability(fg, bg, blocked, gone, connected) ==
    CASE gone -> "gone"
      [] ~gone /\ ~connected -> "unknown"
      [] ~gone /\ connected /\ blocked -> "blocked"
      [] ~gone /\ connected /\ ~blocked ->
            CASE fg = "running" -> "busy"
              [] fg = "stopped" /\ bg = "active" -> "waiting-background"
              [] fg = "stopped" /\ bg = "clear" -> "quiescent"
              [] OTHER -> "unknown"

(* _finish.                                                                 *)
Availability(s) ==
    DeriveAvailability(IF s.fgFresh THEN s.fg ELSE "unknown",
                       IF s.bgFresh THEN s.bg ELSE "unknown",
                       s.blocked /\ s.fgFresh,
                       s.ended \/ s.gone,
                       s.connected /\ ~s.gap)

-----------------------------------------------------------------------------
(* _apply_contiguous, one operator per event type.                          *)

TurnStart(s) == [s EXCEPT !.fg = "running", !.fgFresh = TRUE, !.blocked = FALSE]

Occupied(jobs, anonymous, presence) == jobs # {} \/ anonymous > 0 \/ presence

TurnStop(s, active) ==
    LET stopped == [s EXCEPT !.fg = "stopped", !.fgFresh = TRUE, !.blocked = FALSE]
    IN  CASE active = "false" ->
               [stopped EXCEPT !.jobs = {}, !.anonymous = 0, !.presence = FALSE,
                               !.bg = "clear", !.certified = TRUE, !.bgFresh = TRUE]
          [] active = "true" ->
               [stopped EXCEPT !.presence = @ \/ (s.jobs = {} /\ s.anonymous = 0),
                               !.bg = "active", !.certified = FALSE, !.bgFresh = TRUE]
          [] active = "null" ->
               [stopped EXCEPT !.certified = FALSE,
                               !.bg = IF Occupied(s.jobs, s.anonymous, s.presence)
                                      THEN "active" ELSE "unknown"]

BackgroundStart(s, j) ==
    [s EXCEPT !.jobs = @ \union {j}, !.bg = "active", !.bgFresh = TRUE]

(* Mutant: the last stop clears the background without a certified baseline. *)
BackgroundStopUncertified(s, j) ==
    LET jobs == s.jobs \ {j}
        anonymous == IF j \notin s.jobs /\ s.anonymous > 0
                     THEN s.anonymous - 1 ELSE s.anonymous
    IN  [s EXCEPT !.jobs = jobs, !.anonymous = anonymous, !.presence = FALSE,
                  !.bgFresh = TRUE,
                  !.bg = IF Occupied(jobs, anonymous, FALSE)
                         THEN "active" ELSE "clear"]

(* A stop names a known job, else counts down the anonymous ones, else uses  *)
(* up the bare presence.                                                    *)
BackgroundStop(s, j) ==
    LET named == j \in s.jobs
        counted == ~named /\ s.anonymous > 0
        jobs == s.jobs \ {j}
        anonymous == IF counted THEN s.anonymous - 1 ELSE s.anonymous
        presence == s.presence /\ (named \/ counted)
    IN  [s EXCEPT !.jobs = jobs, !.anonymous = anonymous, !.presence = presence,
                  !.bgFresh = TRUE,
                  !.bg = IF Occupied(jobs, anonymous, presence) THEN "active"
                         ELSE IF s.certified THEN "clear" ELSE "unknown"]

(* Mutant: only the jobs not known by name are counted, and the names go.    *)
BackgroundSnapshotRest(s, n) ==
    LET rest == IF n > Cardinality(s.jobs) THEN n - Cardinality(s.jobs) ELSE 0
    IN  [s EXCEPT !.jobs = {}, !.anonymous = rest, !.presence = FALSE,
                  !.certified = TRUE, !.bgFresh = TRUE,
                  !.bg = IF rest > 0 THEN "active" ELSE "clear"]

BackgroundSnapshot(s, n) ==
    [s EXCEPT !.jobs = {}, !.anonymous = n, !.presence = FALSE,
              !.certified = TRUE, !.bgFresh = TRUE,
              !.bg = IF n > 0 THEN "active" ELSE "clear"]

SessionEnd(s) ==
    [s EXCEPT !.fg = "stopped", !.fgFresh = TRUE, !.bgFresh = TRUE,
              !.ended = TRUE, !.gone = TRUE, !.jobs = {}, !.anonymous = 0,
              !.presence = FALSE, !.bg = "clear", !.certified = TRUE]

(* Once ended, later events only move the sequence number.                  *)
ApplyContiguous(s, e) ==
    LET t == [s EXCEPT !.seq = e.seq, !.connected = TRUE]
    IN  IF s.ended \/ e.type = "session.register" THEN t
        ELSE CASE e.type = "turn.start" -> TurnStart(t)
               [] e.type = "turn.stop" -> TurnStop(t, e.active)
               [] e.type = "background.start" -> BackgroundStart(t, e.job)
               [] e.type = "background.stop" -> BackgroundStop(t, e.job)
               [] e.type = "background.snapshot" -> BackgroundSnapshot(t, e.count)
               [] e.type = "session.end" -> SessionEnd(t)

-----------------------------------------------------------------------------
Buffered(s, n) == \E e \in s.pending : e.seq = n

(* The last sequence number reachable from s.seq through buffered events.   *)
ContiguousEnd(s) ==
    CHOOSE n \in {s.seq} \union {e.seq : e \in s.pending} :
        /\ n >= s.seq
        /\ \A i \in (s.seq + 1)..n : Buffered(s, i)
        /\ ~Buffered(s, n + 1)

(* Events applied one after the other.                                      *)
ApplyAll(s, events) ==
    LET after[i \in 0..Len(events)] ==
            IF i = 0 THEN s ELSE ApplyContiguous(after[i - 1], events[i])
    IN  after[Len(events)]

(* Mutant: only the next buffered event is taken out.                       *)
DrainOne(s) ==
    LET ready == {e \in s.pending : e.seq = s.seq + 1}
        rest == [s EXCEPT !.pending = @ \ ready]
    IN  IF ready = {} THEN s ELSE ApplyContiguous(rest, CHOOSE e \in ready : TRUE)

(* reduce_event's loop: apply the buffered events that became contiguous.   *)
Drain(s) ==
    LET end == ContiguousEnd(s)
        ready == [i \in 1..(end - s.seq) |->
                    CHOOSE e \in s.pending : e.seq = s.seq + i]
    IN  ApplyAll([s EXCEPT !.pending = {e \in s.pending : e.seq > end}], ready)

Stale(s, e) == e.seq <= s.seq \/ Buffered(s, e.seq)

(* reduce_event: drop what was seen, buffer what is early, apply the rest.  *)
ReduceEvent(s, e) ==
    IF Stale(s, e) THEN s
    ELSE IF e.seq > s.seq + 1
         THEN [s EXCEPT !.pending = @ \union {e}, !.gap = TRUE]
         ELSE LET t == Drain(ApplyContiguous(s, e))
              IN  [t EXCEPT !.gap = t.pending # {}]

(* observe_gone: an explicit session end is terminal.                       *)
ObserveGone(s, gone) == [s EXCEPT !.gone = s.ended \/ gone]

(* Mutant: a reconnect certifies again what was known before.               *)
SetAdapterConnectedFresh(s, connected) ==
    [s EXCEPT !.connected = connected, !.certified = FALSE]

(* set_adapter_connected: neither direction recertifies what was known.     *)
SetAdapterConnected(s, connected) ==
    [s EXCEPT !.connected = connected, !.fgFresh = FALSE, !.bgFresh = FALSE,
              !.certified = FALSE]

=============================================================================
