----------------------------- MODULE PendingSends -----------------------------
(***************************************************************************)
(* Follow-up sends: text a driver leaves with the daemon for a crew that is *)
(* mid-turn.  The pending_sends table of lib/rozoro_monitor/store.py and    *)
(* the observers of lib/rozoro_monitor/server.py that race for its rows:    *)
(* the enqueueing request itself, Herdr status edges, the overdue check and *)
(* sweep, and the delivery coroutines that outlive all of them.             *)
(*                                                                         *)
(* Herdr and the clock are the environment.  A send is its creation number, *)
(* so "newer" is "greater".                                                 *)
(***************************************************************************)
EXTENDS Naturals, FiniteSets

CONSTANTS
    Tasks,      \* task ids
    MaxSends,   \* bound: follow-ups enqueued
    NoTask      \* the task of a row not there yet

ASSUME SendsAssumption == MaxSends \in Nat /\ NoTask \notin Tasks

VARIABLES
    rows,      \* [Sends -> Row] the pending_sends table
    overdue,   \* sends past deadline_at
    aged,      \* sends created more than stale_delivering_seconds ago
    up,        \* the daemon runs
    live,      \* sends a _deliver coroutine of this daemon holds
    pane,      \* [Sends -> PaneView] where Herdr has the text
    submitted, \* [Sends -> Nat] history: agent.prompt calls
    late,      \* history: sends that reached the pane after a newer one was enqueued
    sweeper    \* the _pending_send_loop: running, tasks to check, awaited sends

vars == <<rows, overdue, aged, up, live, pane, submitted, late, sweeper>>

-----------------------------------------------------------------------------
Sends == 1..MaxSends

State == {"absent", "pending", "delivering", "delivered", "failed", "cancelled"}

Error == {"none", "superseded", "timeout", "abandoned", "gone", "rpc"}

Row == [task : Tasks \union {NoTask}, state : State, error : Error]

NoRow == [task |-> NoTask, state |-> "absent", error |-> "none"]

(* What a level read tells the code: DELIVERABLE_STATUS, another status of  *)
(* an existing pane, a pane certified gone, or nothing.                     *)
Level == {"deliverable", "busy", "gone", "unknown"}

(* The text of a send: not submitted, on its way, or typed into the pane.   *)
PaneView == {"unseen", "sent", "landed"}

Asleep == [on |-> FALSE, todo |-> {}, awaits |-> {}]

TypeOK ==
    /\ rows \in [Sends -> Row]
    /\ overdue \subseteq Sends /\ aged \subseteq Sends
    /\ up \in BOOLEAN
    /\ live \subseteq Sends /\ late \subseteq Sends
    /\ pane \in [Sends -> PaneView]
    /\ submitted \in [Sends -> Nat]
    /\ sweeper \in [on : BOOLEAN, todo : SUBSET Tasks, awaits : SUBSET Sends]

Init ==
    /\ rows = [s \in Sends |-> NoRow]
    /\ overdue = {} /\ aged = {}
    /\ up = TRUE
    /\ live = {} /\ late = {}
    /\ pane = [s \in Sends |-> "unseen"]
    /\ submitted = [s \in Sends |-> 0]
    /\ sweeper = Asleep

Created(s) == rows[s].state # "absent"

Open(s) == rows[s].state \in {"pending", "delivering"}

Terminal(s) == rows[s].state \in {"delivered", "failed", "cancelled"}

PendingOf(t) == {s \in Sends : rows[s].task = t /\ rows[s].state = "pending"}

-----------------------------------------------------------------------------
(* claim_pending_send and the start of _deliver for the claimed rows S (one *)
(* or none): the row is owned before agent.prompt is called.                *)
Submit(S) ==
    /\ live' = live \union S
    /\ pane' = [s \in Sends |-> IF s \in S THEN "sent" ELSE pane[s]]
    /\ submitted' = [s \in Sends |-> IF s \in S THEN submitted[s] + 1
                                                ELSE submitted[s]]

(* Mutant: the claim does not ask for state='pending', so a row another      *)
(* observer is delivering is taken again.                                   *)
ClaimableOpen(t) == {s \in Sends : rows[s].task = t /\ Open(s)}

(* claim_pending_send: the rows (one at most) a claim for task t takes.      *)
Claimable(t) == PendingOf(t)

(* _claim_deliverable: a gone pane retires the row, a deliverable one is    *)
(* claimed and delivered, anything else leaves it.                          *)
ClaimDeliverable(t, level) ==
    LET S == Claimable(t)
    IN  \/ /\ level = "deliverable"
           /\ rows' = [s \in Sends |-> IF s \in S
                         THEN [rows[s] EXCEPT !.state = "delivering"]
                         ELSE rows[s]]
           /\ Submit(S)
        \/ /\ level = "gone"
           /\ rows' = [s \in Sends |-> IF s \in S
                         THEN [rows[s] EXCEPT !.state = "failed", !.error = "gone"]
                         ELSE rows[s]]
           /\ UNCHANGED <<live, pane, submitted>>
        \/ /\ level \in {"busy", "unknown"}
           /\ UNCHANGED <<rows, live, pane, submitted>>

-----------------------------------------------------------------------------
(* Mutant: only a row still waiting is superseded.                          *)
SupersededWaiting(t) == PendingOf(t)

(* The rows enqueue_pending_send cancels.                                   *)
Superseded(t) == {s \in Sends : rows[s].task = t /\ Open(s)}

(* send.enqueue after its level read: a pane that exists gets the row, and  *)
(* if it is deliverable the same request claims and submits it.  The unique *)
(* index on open rows is enforced by OneOpenPerTask below.                  *)
Enqueue(t, level) ==
    /\ up
    /\ level \in {"deliverable", "busy"}
    /\ \E s \in Sends :
         /\ ~Created(s)
         /\ \A r \in 1..(s - 1) : Created(r)
         /\ rows' = [r \in Sends |->
              IF r = s
              THEN [task |-> t, error |-> "none",
                    state |-> IF level = "deliverable" THEN "delivering"
                                                       ELSE "pending"]
              ELSE IF r \in Superseded(t)
              THEN [rows[r] EXCEPT !.state = "cancelled", !.error = "superseded"]
              ELSE rows[r]]
         /\ Submit(IF level = "deliverable" THEN {s} ELSE {})
    /\ UNCHANGED <<overdue, aged, up, late, sweeper>>

(* A status edge (the membership monitor's reconcile callback).             *)
StatusEdge(t, level) ==
    /\ up
    /\ ClaimDeliverable(t, level)
    /\ UNCHANGED <<overdue, aged, up, late, sweeper>>

(* Mutant: an RPC that timed out counts as a delivery.                      *)
RpcReturnsOptimist(s) ==
    /\ up
    /\ s \in live
    /\ rows' = [rows EXCEPT ![s].state = "delivered", ![s].error = "none"]
    /\ live' = live \ {s}
    /\ UNCHANGED <<overdue, aged, up, pane, submitted, late, sweeper>>

(* _deliver after the await: resolve_pending_send overwrites whatever the   *)
(* row holds by now.  An error says nothing about the text: it may have     *)
(* landed, or land later.                                                   *)
RpcReturns(s) ==
    /\ up
    /\ s \in live
    /\ \/ /\ pane[s] = "landed"
          /\ rows' = [rows EXCEPT ![s].state = "delivered", ![s].error = "none"]
       \/ rows' = [rows EXCEPT ![s].state = "failed", ![s].error = "rpc"]
    /\ live' = live \ {s}
    /\ UNCHANGED <<overdue, aged, up, pane, submitted, late, sweeper>>

(* The loop wakes and lists the tasks whose pending row is overdue.         *)
SweepTick ==
    /\ up
    /\ ~sweeper.on
    /\ sweeper' = [on |-> TRUE, awaits |-> {},
                   todo |-> {t \in Tasks : PendingOf(t) \cap overdue # {}}]
    /\ UNCHANGED <<rows, overdue, aged, up, live, pane, submitted, late>>

(* _deliver_if_ready for one listed task: a fresh level read, a claim, and  *)
(* the delivery, which the loop awaits before it goes on.                   *)
SweepCheck(t, level) ==
    /\ up
    /\ sweeper.on
    /\ t \in sweeper.todo
    /\ sweeper.awaits \cap live = {}
    /\ ClaimDeliverable(t, level)
    /\ sweeper' = [sweeper EXCEPT !.todo = @ \ {t}, !.awaits = live' \ live]
    /\ UNCHANGED <<overdue, aged, up, late>>

(* Mutant: the sweep retires overdue rows only, so a row whose daemon died  *)
(* mid-delivery stays open.                                                 *)
SweepOverdueOnly ==
    /\ up
    /\ sweeper.on /\ sweeper.todo = {} /\ sweeper.awaits \cap live = {}
    /\ rows' = [s \in Sends |->
         IF rows[s].state = "pending" /\ s \in overdue
         THEN [rows[s] EXCEPT !.state = "failed", !.error = "timeout"]
         ELSE rows[s]]
    /\ sweeper' = Asleep
    /\ UNCHANGED <<overdue, aged, up, live, pane, submitted, late>>

(* sweep_expired_pending_sends: one transaction over both kinds of row.     *)
Sweep ==
    /\ up
    /\ sweeper.on
    /\ sweeper.todo = {}
    /\ sweeper.awaits \cap live = {}
    /\ rows' = [s \in Sends |->
         IF rows[s].state = "pending" /\ s \in overdue
         THEN [rows[s] EXCEPT !.state = "failed", !.error = "timeout"]
         ELSE IF rows[s].state = "delivering" /\ s \in aged
         THEN [rows[s] EXCEPT !.state = "failed", !.error = "abandoned"]
         ELSE rows[s]]
    /\ sweeper' = Asleep
    /\ UNCHANGED <<overdue, aged, up, live, pane, submitted, late>>

(* The daemon dies: its coroutines vanish, its rows stay.                   *)
Crash ==
    /\ up
    /\ up' = FALSE
    /\ live' = {}
    /\ sweeper' = Asleep
    /\ UNCHANGED <<rows, overdue, aged, pane, submitted, late>>

Restart ==
    /\ ~up
    /\ up' = TRUE
    /\ UNCHANGED <<rows, overdue, aged, live, pane, submitted, late, sweeper>>

(* Herdr types a submitted text into the pane, whatever became of the row.  *)
PaneReceives(s) ==
    /\ pane[s] = "sent"
    /\ pane' = [pane EXCEPT ![s] = "landed"]
    /\ late' = late \union
         (IF \E r \in Sends : r > s /\ rows[r].task = rows[s].task
          THEN {s} ELSE {})
    /\ UNCHANGED <<rows, overdue, aged, up, live, submitted, sweeper>>

DeadlinePasses(s) ==
    /\ Created(s) /\ s \notin overdue
    /\ overdue' = overdue \union {s}
    /\ UNCHANGED <<rows, aged, up, live, pane, submitted, late, sweeper>>

(* An RPC lasts seconds and this age is an hour, so a row does not reach it *)
(* in the middle of its delivery; it may have reached it while it waited.   *)
StaleAgePasses(s) ==
    /\ Created(s) /\ s \notin aged
    /\ s \notin live
    /\ aged' = aged \union {s}
    /\ UNCHANGED <<rows, overdue, up, live, pane, submitted, late, sweeper>>

Next ==
    \/ \E t \in Tasks, level \in Level :
          \/ Enqueue(t, level)
          \/ StatusEdge(t, level)
          \/ SweepCheck(t, level)
    \/ \E s \in Sends :
          \/ RpcReturns(s)
          \/ PaneReceives(s)
          \/ DeadlinePasses(s)
          \/ StaleAgePasses(s)
    \/ SweepTick
    \/ Sweep
    \/ Crash
    \/ Restart

Spec == Init /\ [][Next]_vars

(* Time passes, the daemon is started again and from some point on stays    *)
(* up, its loop runs, and an awaited RPC returns (it has a timeout).        *)
Fairness ==
    /\ <>[][~Crash]_vars
    /\ WF_vars(Restart)
    /\ WF_vars(SweepTick)
    /\ WF_vars(Sweep)
    /\ \A t \in Tasks : WF_vars(\E level \in Level : SweepCheck(t, level))
    /\ \A s \in Sends :
          /\ WF_vars(RpcReturns(s))
          /\ WF_vars(DeadlinePasses(s))
          /\ WF_vars(StaleAgePasses(s))

LiveSpec == Spec /\ Fairness

-----------------------------------------------------------------------------
(* A task never has two open follow-ups: the partial unique index never     *)
(* aborts an enqueue, whichever observer holds the older row.               *)
OneOpenPerTask ==
    \A r, s \in Sends : Open(r) /\ Open(s) /\ rows[r].task = rows[s].task => r = s

(* Racing observers, crashes, restarts and sweeps together submit the text  *)
(* of a follow-up to its pane at most once.                                 *)
SubmittedAtMostOnce == \A s \in Sends : submitted[s] <= 1

(* What send-status answers is true: "delivered" text is in the pane, and a *)
(* follow-up that timed out, or whose pane was gone, never reached it and   *)
(* never will.                                                              *)
OutcomeHonest ==
    \A s \in Sends :
        /\ rows[s].state = "delivered" => pane[s] = "landed"
        /\ rows[s].error \in {"timeout", "gone"} => pane[s] = "unseen"

(* Liveness: a follow-up does not stay open for ever.                       *)
EveryFollowUpResolves == \A s \in Sends : Open(s) ~> Terminal(s)

(* The docstring of enqueue_pending_send: once a newer follow-up is         *)
(* enqueued, the older text never lands.                                    *)
OlderTextNeverLands == late = {}

=============================================================================
