--------------------------- MODULE PendingSendsProofs ---------------------------
(***************************************************************************)
(* Machine-checked safety of the follow-up sends for any number of tasks and  *)
(* follow-ups: type correctness, one open row per task, one submission per    *)
(* follow-up, and outcomes that are true.                                    *)
(***************************************************************************)
EXTENDS PendingSends, TLAPS

(* A row tells whether its text was submitted: never while it waits or after  *)
(* an outcome that says so, and at most once.                                *)
SendInv(s) ==
    /\ submitted[s] \in {0, 1}
    /\ submitted[s] = 0 => pane[s] = "unseen" /\ s \notin live
    /\ rows[s].state \in {"absent", "pending"} =>
          submitted[s] = 0 /\ rows[s].error = "none"
    /\ rows[s].error \in {"timeout", "gone"} => submitted[s] = 0
    /\ rows[s].state = "delivered" => pane[s] = "landed"

IInv ==
    /\ TypeOK
    /\ OneOpenPerTask
    /\ \A s \in Sends : SendInv(s)

LEMMA InitInv == Init => IInv
  BY DEF Init, IInv, TypeOK, OneOpenPerTask, SendInv, Sends, Row, NoRow, State,
         Error, PaneView, Asleep, Open

(* A claim: whoever makes it, the row it takes was waiting.                   *)
LEMMA ClaimInv ==
  ASSUME IInv, NEW t \in Tasks, NEW level \in Level, ClaimDeliverable(t, level)
  PROVE  /\ rows' \in [Sends -> Row] /\ live' \subseteq Sends
         /\ pane' \in [Sends -> PaneView] /\ submitted' \in [Sends -> Nat]
         /\ OneOpenPerTask'
         /\ \A s \in Sends : SendInv(s)'
  <1> DEFINE S == Claimable(t)
  <1>1. S \subseteq Sends /\ \A s \in S : rows[s].state = "pending"
    BY DEF Claimable, PendingOf
  <1>2. TypeOK /\ OneOpenPerTask /\ \A s \in Sends : SendInv(s)
    BY DEF IInv
  <1> HIDE DEF S
  <1>3. CASE /\ level = "deliverable"
             /\ rows' = [s \in Sends |-> IF s \in S
                           THEN [rows[s] EXCEPT !.state = "delivering"]
                           ELSE rows[s]]
             /\ Submit(S)
    <2>1. /\ rows' \in [Sends -> Row] /\ live' \subseteq Sends
          /\ pane' \in [Sends -> PaneView] /\ submitted' \in [Sends -> Nat]
      <3>1. rows' \in [Sends -> Row]
        BY <1>2, <1>3 DEF TypeOK, Row, State
      <3> QED BY <1>1, <1>2, <1>3, <3>1 DEF TypeOK, Submit, PaneView
    <2>2. OneOpenPerTask'
      BY <1>1, <1>2, <1>3 DEF TypeOK, Row, OneOpenPerTask, Open
    <2>3. \A s \in Sends : SendInv(s)'
      BY <1>1, <1>2, <1>3 DEF TypeOK, Row, SendInv, Submit
    <2> QED BY <2>1, <2>2, <2>3
  <1>4. CASE /\ level = "gone"
             /\ rows' = [s \in Sends |-> IF s \in S
                           THEN [rows[s] EXCEPT !.state = "failed", !.error = "gone"]
                           ELSE rows[s]]
             /\ UNCHANGED <<live, pane, submitted>>
    <2>1. rows' \in [Sends -> Row]
      <3>1. "failed" \in State /\ "gone" \in Error
        BY DEF State, Error
      <3>2. rows \in [Sends -> Row]
        BY <1>2 DEF TypeOK
      <3> QED BY <1>4, <3>1, <3>2 DEF Row
    <2>2. /\ UNCHANGED <<live, pane, submitted>>
          /\ \A s \in Sends :
                \/ rows'[s] = rows[s]
                \/ /\ rows[s].state = "pending"
                   /\ rows'[s].state = "failed" /\ rows'[s].error = "gone"
      BY <1>1, <1>2, <1>4 DEF TypeOK, Row
    <2>3. OneOpenPerTask'
      BY <1>2, <2>2 DEF OneOpenPerTask, Open
    <2>4. \A s \in Sends : SendInv(s)'
      BY <1>2, <2>2 DEF SendInv
    <2> QED BY <1>2, <2>1, <2>2, <2>3, <2>4 DEF TypeOK
  <1>5. CASE UNCHANGED <<rows, live, pane, submitted>>
    BY <1>2, <1>5 DEF TypeOK, OneOpenPerTask, Open, SendInv
  <1> QED BY <1>3, <1>4, <1>5 DEF ClaimDeliverable, S

(* A new follow-up cancels what is open for its task and stands alone.         *)
LEMMA EnqueueInv ==
  ASSUME IInv, NEW t \in Tasks, NEW level \in Level, Enqueue(t, level)
  PROVE  IInv'
  <1>1. TypeOK /\ OneOpenPerTask /\ \A s \in Sends : SendInv(s)
    BY DEF IInv
  <1>2. PICK n \in Sends :
          /\ ~Created(n)
          /\ rows' = [r \in Sends |->
               IF r = n
               THEN [task |-> t, error |-> "none",
                     state |-> IF level = "deliverable" THEN "delivering"
                                                        ELSE "pending"]
               ELSE IF r \in Superseded(t)
               THEN [rows[r] EXCEPT !.state = "cancelled", !.error = "superseded"]
               ELSE rows[r]]
          /\ Submit(IF level = "deliverable" THEN {n} ELSE {})
    BY DEF Enqueue
  <1>3. UNCHANGED <<overdue, aged, up, late, sweeper>>
    BY DEF Enqueue
  <1>4. TypeOK'
    <2>1. rows' \in [Sends -> Row]
      <3>1. (IF level = "deliverable" THEN "delivering" ELSE "pending") \in State
        BY DEF State
      <3>2. "none" \in Error /\ "superseded" \in Error /\ "cancelled" \in State
        BY DEF Error, State
      <3> QED BY <1>1, <1>2, <3>1, <3>2 DEF TypeOK, Row
    <2>2. /\ live' \subseteq Sends
          /\ pane' \in [Sends -> PaneView] /\ submitted' \in [Sends -> Nat]
      <3> DEFINE N == IF level = "deliverable" THEN {n} ELSE {}
      <3>1. N \subseteq Sends
        OBVIOUS
      <3>2. Submit(N)
        BY <1>2
      <3> HIDE DEF N
      <3> QED BY <1>1, <3>1, <3>2 DEF TypeOK, Submit, PaneView
    <2> QED BY <1>1, <1>3, <2>1, <2>2 DEF TypeOK
  <1>5. OneOpenPerTask'
    <2>1. \A r \in Sends : r # n /\ Open(r)' => Open(r) /\ rows'[r] = rows[r] /\ rows[r].task # t
      BY <1>1, <1>2 DEF TypeOK, Row, Open, Superseded
    <2>2. rows'[n].task = t
      BY <1>2
    <2> QED BY <1>1, <2>1, <2>2 DEF OneOpenPerTask
  <1>6. \A s \in Sends : SendInv(s)'
    <2>1. SendInv(n)'
      <3>1. submitted[n] = 0 /\ pane[n] = "unseen" /\ n \notin live
        BY <1>1, <1>2 DEF SendInv, Created
      <3>2. CASE level = "deliverable"
        <4>1. rows'[n].state = "delivering" /\ rows'[n].error = "none"
          BY <1>2, <3>2
        <4>2. submitted'[n] = 1
          <5>1. Submit({n})
            BY <1>2, <3>2
          <5>2. submitted'[n] = submitted[n] + 1
            BY <5>1 DEF Submit
          <5> QED BY <3>1, <5>2
        <4> QED BY <4>1, <4>2 DEF SendInv
      <3>3. CASE level # "deliverable"
        <4>1. rows'[n].state = "pending" /\ rows'[n].error = "none"
          BY <1>2, <3>3
        <4>2. submitted'[n] = 0 /\ pane'[n] = "unseen" /\ n \notin live'
          BY <1>2, <3>1, <3>3 DEF Submit
        <4> QED BY <4>1, <4>2 DEF SendInv
      <3> QED BY <3>2, <3>3
    <2>2. ASSUME NEW s \in Sends, s # n
          PROVE  SendInv(s)'
      <3>1. pane'[s] = pane[s] /\ submitted'[s] = submitted[s] /\ (s \in live' <=> s \in live)
        BY <1>2, <2>2 DEF Submit
      <3>2. \/ rows'[s] = rows[s]
            \/ rows'[s].state = "cancelled" /\ rows'[s].error = "superseded"
        BY <1>1, <1>2, <2>2 DEF TypeOK, Row
      <3> QED BY <1>1, <3>1, <3>2 DEF SendInv
    <2> QED BY <2>1, <2>2
  <1> QED BY <1>4, <1>5, <1>6 DEF IInv

LEMMA RpcReturnsInv ==
  ASSUME IInv, NEW s \in Sends, RpcReturns(s)
  PROVE  IInv'
  <1>1. TypeOK /\ OneOpenPerTask /\ \A r \in Sends : SendInv(r)
    BY DEF IInv
  <1>2. PICK row \in Row :
          /\ rows' = [rows EXCEPT ![s] = row]
          /\ \/ row.state = "delivered" /\ row.error = "none" /\ pane[s] = "landed"
             \/ row.state = "failed" /\ row.error = "rpc"
    BY <1>1 DEF RpcReturns, TypeOK, Row, State, Error
  <1>3. /\ s \in live /\ live' = live \ {s}
        /\ UNCHANGED <<overdue, aged, up, pane, submitted, late, sweeper>>
    BY DEF RpcReturns
  <1>4. TypeOK'
    BY <1>1, <1>2, <1>3 DEF TypeOK
  <1>5. OneOpenPerTask'
    BY <1>1, <1>2 DEF TypeOK, OneOpenPerTask, Open
  <1>6. \A r \in Sends : SendInv(r)'
    BY <1>1, <1>2, <1>3 DEF TypeOK, SendInv
  <1> QED BY <1>4, <1>5, <1>6 DEF IInv

LEMMA SweepInv ==
  ASSUME IInv, Sweep
  PROVE  IInv'
  <1>1. TypeOK /\ OneOpenPerTask /\ \A r \in Sends : SendInv(r)
    BY DEF IInv
  <1>2. UNCHANGED <<overdue, aged, up, live, pane, submitted, late>>
    BY DEF Sweep
  <1>3. \A r \in Sends :
          \/ rows'[r] = rows[r]
          \/ /\ rows[r].state \in {"pending", "delivering"}
             /\ rows'[r] \in Row /\ rows'[r].state = "failed"
             /\ \/ rows[r].state = "pending" /\ rows'[r].error = "timeout"
                \/ rows'[r].error = "abandoned"
    BY <1>1 DEF Sweep, TypeOK, Row, State, Error
  <1>4. TypeOK'
    <2>1. rows' \in [Sends -> Row]
      <3>1. \A r \in Sends : rows'[r] \in Row
        BY <1>1, <1>3 DEF TypeOK
      <3>2. rows' = [r \in Sends |-> rows'[r]]
        BY DEF Sweep
      <3> QED BY <3>1, <3>2
    <2> QED BY <1>1, <1>2, <2>1 DEF Sweep, TypeOK, Asleep
  <1>5. OneOpenPerTask'
    BY <1>1, <1>3 DEF OneOpenPerTask, Open
  <1>6. \A r \in Sends : SendInv(r)'
    BY <1>1, <1>2, <1>3 DEF SendInv
  <1> QED BY <1>4, <1>5, <1>6 DEF IInv

(* Herdr types the text of a submitted follow-up.                           *)
LEMMA PaneReceivesInv ==
  ASSUME IInv, NEW s \in Sends, PaneReceives(s)
  PROVE  IInv'
  <1>1. TypeOK /\ OneOpenPerTask /\ \A r \in Sends : SendInv(r)
    BY DEF IInv
  <1>2. TypeOK'
    BY <1>1 DEF PaneReceives, TypeOK, PaneView
  <1>3. OneOpenPerTask'
    BY <1>1 DEF PaneReceives, OneOpenPerTask, Open
  <1>4. \A r \in Sends : SendInv(r)'
    BY <1>1 DEF PaneReceives, TypeOK, SendInv
  <1> QED BY <1>2, <1>3, <1>4 DEF IInv

LEMMA StepInv == IInv /\ [Next]_vars => IInv'
  <1> SUFFICES ASSUME IInv, [Next]_vars PROVE IInv'
    OBVIOUS
  <1>1. ASSUME NEW t \in Tasks, NEW level \in Level, Enqueue(t, level) PROVE IInv'
    BY <1>1, EnqueueInv
  <1>2. ASSUME NEW t \in Tasks, NEW level \in Level, StatusEdge(t, level) PROVE IInv'
    BY <1>2, ClaimInv DEF StatusEdge, IInv, TypeOK
  <1>3. ASSUME NEW t \in Tasks, NEW level \in Level, SweepCheck(t, level) PROVE IInv'
    <2>1. /\ rows' \in [Sends -> Row] /\ live' \subseteq Sends
          /\ pane' \in [Sends -> PaneView] /\ submitted' \in [Sends -> Nat]
          /\ OneOpenPerTask'
          /\ \A s \in Sends : SendInv(s)'
      BY <1>3, ClaimInv DEF SweepCheck
    <2>2. sweeper' \in [on : BOOLEAN, todo : SUBSET Tasks, awaits : SUBSET Sends]
      BY <1>3, <2>1 DEF SweepCheck, IInv, TypeOK
    <2> QED BY <1>3, <2>1, <2>2 DEF SweepCheck, IInv, TypeOK
  <1>4. ASSUME NEW s \in Sends, RpcReturns(s) PROVE IInv'
    BY <1>4, RpcReturnsInv
  <1>5. ASSUME NEW s \in Sends, PaneReceives(s) PROVE IInv'
    BY <1>5, PaneReceivesInv
  <1>6. CASE Sweep
    BY <1>6, SweepInv
  <1>7. CASE Crash
    <2>1. /\ live' = {} /\ sweeper' = Asleep /\ up' = FALSE
          /\ UNCHANGED <<rows, overdue, aged, pane, submitted, late>>
      BY <1>7 DEF Crash
    <2>2. TypeOK'
      BY <2>1 DEF IInv, TypeOK, Asleep
    <2>3. OneOpenPerTask' /\ \A s \in Sends : SendInv(s)'
      BY <2>1 DEF IInv, OneOpenPerTask, Open, SendInv
    <2> QED BY <2>2, <2>3 DEF IInv
  <1>8. ASSUME UNCHANGED <<rows, live, pane, submitted>>, TypeOK' PROVE IInv'
    BY <1>8 DEF IInv, OneOpenPerTask, Open, SendInv
  <1>9. CASE SweepTick \/ Restart \/ UNCHANGED vars
    <2>1. UNCHANGED <<rows, live, pane, submitted>>
      BY <1>9 DEF SweepTick, Restart, vars
    <2>2. TypeOK'
      <3>1. CASE SweepTick
        <4>1. sweeper' \in [on : BOOLEAN, todo : SUBSET Tasks, awaits : SUBSET Sends]
          BY <3>1 DEF SweepTick
        <4> QED BY <3>1, <4>1 DEF IInv, TypeOK, SweepTick
      <3>2. CASE Restart \/ UNCHANGED vars
        BY <3>2 DEF IInv, TypeOK, Restart, vars
      <3> QED BY <1>9, <3>1, <3>2
    <2> QED BY <1>8, <2>1, <2>2
  <1>10. ASSUME NEW s \in Sends, DeadlinePasses(s) \/ StaleAgePasses(s) PROVE IInv'
    <2>1. UNCHANGED <<rows, live, pane, submitted>>
      BY <1>10 DEF DeadlinePasses, StaleAgePasses
    <2>2. TypeOK'
      BY <1>10 DEF IInv, TypeOK, DeadlinePasses, StaleAgePasses
    <2> QED BY <1>8, <2>1, <2>2
  <1> QED BY <1>1, <1>2, <1>3, <1>4, <1>5, <1>6, <1>7, <1>9, <1>10 DEF Next

LEMMA Invariance == Spec => []IInv
  BY InitInv, StepInv, PTL DEF Spec

(* Type correctness.                                                        *)
THEOREM TypeCorrect == Spec => []TypeOK
  <1>1. IInv => TypeOK
    BY DEF IInv
  <1> QED BY <1>1, Invariance, PTL

(* The partial unique index on open rows never aborts an enqueue.             *)
THEOREM SingleOpen == Spec => []OneOpenPerTask
  <1>1. IInv => OneOpenPerTask
    BY DEF IInv
  <1> QED BY <1>1, Invariance, PTL

(* Enqueue, status edges, overdue checks, restarts and sweeps in any order     *)
(* submit a follow-up at most once.                                          *)
THEOREM AtMostOneSubmission == Spec => []SubmittedAtMostOnce
  <1>1. IInv => SubmittedAtMostOnce
    BY DEF IInv, SendInv, SubmittedAtMostOnce
  <1> QED BY <1>1, Invariance, PTL

(* What send-status answers about a delivered, timed out or gone follow-up is  *)
(* true of the pane.                                                        *)
THEOREM OutcomesHonest == Spec => []OutcomeHonest
  <1>1. IInv => OutcomeHonest
    BY DEF IInv, SendInv, OutcomeHonest
  <1> QED BY <1>1, Invariance, PTL

=============================================================================
