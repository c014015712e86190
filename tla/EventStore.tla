------------------------------ MODULE EventStore ------------------------------
(***************************************************************************)
(* Event acceptance and the task projection of lib/rozoro_monitor/store.py:  *)
(* accept_event with its default reducer and actionable decision, and        *)
(* reconcile_herdr_liveness, each one SQLite transaction, for one task and   *)
(* the sessions that have served it.  A decision to announce a change        *)
(* freezes the projection in a new generation.                               *)
(*                                                                          *)
(* The environment is the crew, which writes its handoff file at any time,   *)
(* the producers, whose envelopes may be new, late (a sequence number seen   *)
(* before) or early (a gap), and Herdr's word on the pane.                   *)
(***************************************************************************)
EXTENDS Reducer

CONSTANTS
    Sessions,        \* session ids of the task
    NoSession,       \* the session of a projection not there yet
    MaxSeq,          \* bound: producer_seq of a session
    MaxAccepted,     \* bound: events accepted
    Verdicts,        \* the verdicts the crew writes
    MaxBlocks,       \* bound: blocks in the handoff file
    MaxGenerations   \* bound: generations published

ASSUME StoreBounds ==
    /\ NoSession \notin Sessions /\ IsFiniteSet(Sessions)
    /\ Verdicts \subseteq {"done", "waiting", "needs-action", "failed", "blocked"}
    /\ {MaxSeq, MaxAccepted, MaxBlocks, MaxGenerations} \subseteq Nat

VARIABLES
    harness,     \* [Sessions -> Harness] the sessions.harness column
    handoff,     \* the handoff file as its parser summarises it
    sessions,    \* [Sessions -> LifecycleState] sessions.reducer_state_json
    order,       \* the persisted sessions rows, in rowid order
    registered,  \* those with registered = 1
    projection,  \* the task_projections row
    durable,     \* last durable_seq: events accepted
    latest,      \* daemon_metadata 'latest_generation'
    frozen       \* the generations the last publishing transaction froze

storeVars == <<harness, handoff, sessions, order, registered, projection, durable,
               latest, frozen>>

-----------------------------------------------------------------------------
(* Copilot has no event producer; the store would treat it like Claude.      *)
Harness == {"claude", "pi", "codex"}

Verdict == {"done", "waiting", "needs-action", "failed", "blocked"}

(* What _report_projection keeps of the file and its acknowledgement cursor; *)
(* `blocks` tells one content of the two from another.                       *)
Report == [state : {"missing", "malformed", "valid"},
           verdict : Verdict \union {"null"}, blocks : Nat]

NoReport == [state |-> "missing", verdict |-> "null", blocks |-> 0]

Reason == {"none", "quiescent", "missing-report", "malformed-report",
           "waiting-background", "blocked", "failed", "needs-action", "gone",
           "unknown"}

(* projection_json; `count` is background_count plus one, 0 for null.         *)
Projection == [session : Sessions, availability : AvailabilityValue,
               fg : Foreground, bg : Background, count : Nat,
               report : Report, reason : Reason,
               pane : {"unset", "there", "gone"}]

NoProjection ==
    [session |-> NoSession, availability |-> "unknown", fg |-> "unknown",
     bg |-> "unknown", count |-> 0, report |-> NoReport, reason |-> "none",
     pane |-> "unset"]

Projected == projection.session # NoSession

(* pending_generation_tasks.actionable_reason and generation_task_snapshots. *)
Generation == [reason : Reason \union {"native-turn-ended-report"},
               row : Projection]

StoreTypeOK ==
    /\ harness \in [Sessions -> Harness]
    /\ handoff \in Report
    /\ sessions \in [Sessions -> LifecycleState]
    /\ order \in Seq(Sessions)
    /\ registered \subseteq Sessions
    /\ projection \in Projection \union {NoProjection}
    /\ durable \in 0..MaxAccepted
    /\ latest \in 0..(MaxGenerations + Cardinality(Sessions))
    /\ frozen \in Seq(Generation)

StoreInit ==
    /\ harness \in [Sessions -> Harness]
    /\ handoff = NoReport
    /\ sessions = [s \in Sessions |-> NewState]
    /\ order = <<>>
    /\ registered = {}
    /\ projection = NoProjection
    /\ durable = 0
    /\ latest = 0
    /\ frozen = <<>>

-----------------------------------------------------------------------------
(* The combinations of the protocol's frozen report tuple matrix.            *)
ReportTuples ==
    { <<"missing", "null", "missing-report">>,
      <<"malformed", "null", "malformed-report">>,
      <<"valid", "done", "none">>, <<"valid", "done", "quiescent">>,
      <<"valid", "waiting", "waiting-background">>,
      <<"valid", "waiting", "unknown">>,
      <<"valid", "needs-action", "needs-action">>,
      <<"valid", "failed", "failed">>, <<"valid", "blocked", "blocked">> }
    \union {<<"valid", v, "gone">> : v \in Verdict}

(* Mutant: a crew that is gone is announced as gone whatever it reported.    *)
ActionableReasonGoneFirst(availability, report) ==
    CASE availability = "gone" -> "gone"
      [] OTHER -> IF report.state = "missing" THEN "missing-report"
                  ELSE IF report.state = "malformed" THEN "malformed-report"
                  ELSE IF report.verdict = "done"
                  THEN IF availability = "quiescent" THEN "quiescent" ELSE "none"
                  ELSE IF report.verdict = "waiting"
                  THEN IF availability = "waiting-background"
                       THEN "waiting-background" ELSE "unknown"
                  ELSE report.verdict

(* _actionable_reason: the report comes first, then the pane, then what the  *)
(* verdict says of the availability.                                        *)
ActionableReason(availability, report) ==
    CASE report.state = "missing" -> "missing-report"
      [] report.state = "malformed" -> "malformed-report"
      [] report.state = "valid" ->
            CASE availability = "gone" -> "gone"
              [] availability # "gone" /\ report.verdict = "done" ->
                    IF availability = "quiescent" THEN "quiescent" ELSE "none"
              [] availability # "gone" /\ report.verdict = "waiting" ->
                    IF availability = "waiting-background"
                    THEN "waiting-background" ELSE "unknown"
              [] OTHER -> report.verdict

(* The projection _reduce_projection writes for session s in state st.       *)
ProjectionOf(s, st, report) ==
    [session |-> s, availability |-> Availability(st), fg |-> st.fg, bg |-> st.bg,
     count |-> IF Counted(st) THEN ActiveCount(st) + 1 ELSE 0,
     report |-> report, reason |-> ActionableReason(Availability(st), report),
     pane |-> "unset"]

(* bump_actionable for each of the generations a transaction publishes.      *)
Publish(news) ==
    /\ latest < MaxGenerations
    /\ latest' = latest + Len(news)
    /\ frozen' = IF news = <<>> THEN frozen ELSE news

Freeze(reason, row) == [reason |-> reason, row |-> row]

(* A missing report is not news while a Pi or Codex session is starting up.  *)
StartupMissingReport(s, e, after) ==
    /\ harness[s] \in {"pi", "codex"}
    /\ after.reason = "missing-report"
    /\ \/ e.type = "session.register"
       \/ e.type = "turn.start" /\ after.availability = "busy"

(* A Codex turn that ends with another report than the projection had.       *)
CodexTurnReport(s, e, after) ==
    /\ harness[s] = "codex"
    /\ e.type = "turn.stop"
    /\ after.report.state = "valid"
    /\ \/ ~Projected
       \/ projection.report.state # after.report.state
       \/ projection.report.verdict # after.report.verdict

(* Mutant: a change is news only when the reason itself changes.            *)
AnnouncementsByReason(s, e, after) ==
    IF after.session = NoSession THEN <<>>
    ELSE IF CodexTurnReport(s, e, after)
         THEN <<Freeze("native-turn-ended-report", after)>>
         ELSE IF /\ ~StartupMissingReport(s, e, after)
                 /\ after.reason \notin {"none", projection.reason}
              THEN <<Freeze(after.reason, after)>> ELSE <<>>

(* accept_event's decision: the generations (none or one) the change makes.  *)
Announcements(s, e, after) ==
    IF after.session = NoSession THEN <<>>
    ELSE IF CodexTurnReport(s, e, after)
         THEN <<Freeze("native-turn-ended-report", after)>>
         ELSE IF /\ ~StartupMissingReport(s, e, after)
                 /\ after.reason # "none"
                 /\ after # projection
              THEN <<Freeze(after.reason, after)>> ELSE <<>>

(* accept_event for an event_id not seen before; a repeated one returns      *)
(* before it writes.  Only a session that has registered is projected.       *)
Accept(s, e) ==
    LET st == ReduceEvent(sessions[s], e)
        known == s \in registered \/ e.type = "session.register"
        after == IF known THEN ProjectionOf(s, st, handoff) ELSE projection
    IN  /\ durable < MaxAccepted
        /\ Publish(Announcements(s, e, after))
        /\ durable' = durable + 1
        /\ sessions' = [sessions EXCEPT ![s] = st]
        /\ order' = IF s \in ToSet(order) THEN order ELSE Append(order, s)
        /\ registered' = IF known THEN registered \union {s} ELSE registered
        /\ projection' = after
        /\ UNCHANGED <<harness, handoff>>

(* The envelopes a producer may send now: the next one, an early one, or one *)
(* whose sequence number the session has used.  A further session of the     *)
(* task begins once the earlier ones have ended or their pane was gone.      *)
Envelopes(s) ==
    {[seq |-> n, type |-> t, job |-> NoJob, active |-> a, count |-> 0] :
        n \in {k \in sessions[s].seq..(sessions[s].seq + 2) : k \in 1..MaxSeq},
        t \in {"session.register", "turn.start", "turn.stop", "session.end"},
        a \in {"true", "false", "null"}}

ProducerSends(s) ==
    /\ s \notin ToSet(order) =>
          \A r \in ToSet(order) : sessions[r].ended \/ sessions[r].gone
    /\ \E e \in Envelopes(s) :
          /\ e.active # "null" => e.type = "turn.stop"
          /\ Accept(s, e)

-----------------------------------------------------------------------------
(* What the transaction of reconcile_herdr_liveness has done so far.         *)
Ledger == [sessions |-> sessions, projection |-> projection,
           news |-> <<>>]

(* None ("unknown") leaves the state as it is.                              *)
ObservedState(st, exists) ==
    IF exists = "unknown" THEN st ELSE ObserveGone(st, exists = "gone")

(* The projection's row overwritten from the state of one session.          *)
ObservedRow(row, st, exists) ==
    [row EXCEPT !.availability = Availability(st), !.fg = st.fg, !.bg = st.bg,
                !.count = IF Counted(st) THEN ActiveCount(st) + 1 ELSE 0,
                !.reason = ActionableReason(Availability(st), row.report),
                !.pane = IF exists = "unknown" THEN @ ELSE exists]

(* Mutant: every observation with an actionable reason is announced.        *)
ObserveRowAlways(l, s, exists) ==
    LET st == ObservedState(l.sessions[s], exists)
        row == IF l.projection.session = NoSession THEN l.projection
               ELSE ObservedRow(l.projection, st, exists)
    IN  [sessions |-> [l.sessions EXCEPT ![s] = st],
         projection |-> row,
         news |-> IF row.reason # "none"
                  THEN Append(l.news, Freeze(row.reason, row)) ELSE l.news]

(* One sessions row: the pane's word goes into its state, the task's         *)
(* projection is overwritten from that state, and a reason that differs from *)
(* the one before this row is announced.                                    *)
ObserveRow(l, s, exists) ==
    LET st == ObservedState(l.sessions[s], exists)
        row == IF l.projection.session = NoSession THEN l.projection
               ELSE ObservedRow(l.projection, st, exists)
    IN  [sessions |-> [l.sessions EXCEPT ![s] = st],
         projection |-> row,
         news |-> IF row.reason \notin {"none", l.projection.reason}
                  THEN Append(l.news, Freeze(row.reason, row)) ELSE l.news]

(* The task's rows one after the other.                                     *)
Observed(exists) ==
    LET after[i \in 0..Len(order)] ==
            IF i = 0 THEN Ledger ELSE ObserveRow(after[i - 1], order[i], exists)
    IN  after[Len(order)]

(* Mutant: the observation is kept in the session but not projected.        *)
ReconcileHerdrSessionsOnly(exists) ==
    LET done == Observed(exists)
    IN  /\ Publish(done.news)
        /\ sessions' = done.sessions
        /\ UNCHANGED <<harness, handoff, order, registered, projection, durable>>

(* reconcile_herdr_liveness: every row of the task in one transaction, at    *)
(* each membership scan and status edge.                                    *)
ReconcileHerdrLiveness(exists) ==
    LET done == Observed(exists)
    IN  /\ Publish(done.news)
        /\ sessions' = done.sessions
        /\ projection' = done.projection
        /\ UNCHANGED <<harness, handoff, order, registered, durable>>

(* The crew appends or mends a block, perhaps a malformed one, or the        *)
(* watchtower acknowledges open items: the file's summary becomes another.   *)
CrewReports ==
    /\ handoff.blocks < MaxBlocks
    /\ handoff' \in
          {r \in [state : {"malformed", "valid"}, verdict : Verdicts \union {"null"},
                  blocks : {handoff.blocks + 1}] :
              (r.state = "valid") <=> (r.verdict # "null")}
    /\ UNCHANGED <<harness, sessions, order, registered, projection, durable,
                   latest, frozen>>

StoreNext ==
    \/ CrewReports
    \/ \E s \in Sessions : ProducerSends(s)
    \/ \E exists \in {"there", "gone", "unknown"} : ReconcileHerdrLiveness(exists)

StoreSpec == StoreInit /\ [][StoreNext]_storeVars

-----------------------------------------------------------------------------
(* Every row frozen for a driver, and the projection itself, is one of the   *)
(* protocol's legal report tuples: the daemon can always encode the answer   *)
(* to a reconcile request, however reports, gaps, ends and pane observations *)
(* interleave.                                                              *)
ReportTuplesLegal ==
    \A row \in {frozen[i].row : i \in DOMAIN frozen} \union {projection} :
        row.session # NoSession =>
            <<row.report.state, row.report.verdict, row.reason>> \in ReportTuples

(* No actionable change is lost: what the projection calls for now is what   *)
(* the newest generation shows, with the same report.  The one exception is  *)
(* a Pi or Codex crew without any report, which start-up keeps quiet.        *)
ActionableIsTold ==
    projection.reason # "none" =>
        \/ /\ frozen # <<>>
           /\ Last(frozen).row.reason = projection.reason
           /\ Last(frozen).row.report = projection.report
        \/ /\ latest = 0
           /\ projection.reason = "missing-report"
           /\ harness[projection.session] \in {"pi", "codex"}

(* The projection is the one of its session's current state, also after pane *)
(* observations and late or early events.                                   *)
ProjectionIsCurrent ==
    Projected =>
        LET st == sessions[projection.session]
        IN  /\ projection.availability = Availability(st)
            /\ projection.reason = ActionableReason(Availability(st), projection.report)

(* The comment in reconcile_herdr_liveness: an observation that changes      *)
(* nothing must not announce an unchanged reason again.                      *)
SettledBumpsNothing ==
    [][durable' = durable /\ sessions' = sessions => latest' = latest]_storeVars

=============================================================================
