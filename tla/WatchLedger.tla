------------------------------ MODULE WatchLedger ------------------------------
(* The wake ledger of the watchers that preceded the daemon, and that is still  *)
(* the fallback: rzr-watch.sh with the Herdr backend, the reducer of a pane's   *)
(* status (rzr-runtime.py), the ledger of one driver (rzr_ledger_* in           *)
(* rzr-lib.sh), rzr-reconcile.sh, and the marker by which the event bus takes   *)
(* the driver over.  Watchers may overlap, each with its own subscription; what *)
(* they share is files.  A step is one read, or one locked write, of a file, or *)
(* one call of Herdr.                                                           *)
EXTENDS Naturals, Sequences, FiniteSets

CONSTANTS
    Tasks,          \* the crew tasks watched, one pane each
    Watchers,       \* watchers that may run at once
    Driver,         \* the driver's own pane, as a stream names it
    MaxChanges,     \* bound: status changes of a crew pane
    MaxTurns,       \* bound: turns and reconciles the driver begins unasked
    MaxFaults       \* bound: kills, failed prompts and activations of the event bus

ASSUME WatchAssumption ==
    /\ Driver \notin Tasks
    /\ MaxChanges \in Nat /\ MaxTurns \in Nat /\ MaxFaults \in Nat

VARIABLES
    pane,       \* the true status of each crew pane and its revision
    driver,     \* the driver: in a turn or not, prompts unread, own steps taken
    runtime,    \* <task>.runtime.json: revision, foreground, edge of the action
    pending,    \* pending.json: generation, delivered and each task's last edge
    ack,        \* the ack file
    marker,     \* .event-bus-authority is there
    watch,      \* the watcher processes
    reader,     \* the driver's rzr-reconcile.sh
    told,       \* the newest generation whose whole report was printed (history)
    unseen,     \* the newest acknowledged one whose report was not, or not whole (history)
    used        \* faults and activations so far (bound)

vars == <<pane, driver, runtime, pending, ack, marker, watch, reader, told, unseen, used>>

Status == {"idle", "working", "blocked"}
Places == {"off", "snapshot", "apply", "loop", "bump", "gate", "readAck",
           "readDelivered", "attempt", "ask", "prompt", "record"}

Larger(m, n) == IF m > n THEN m ELSE n

NoHand == [task |-> Driver, st |-> "idle", seq |-> 0]

\* No rzr-reconcile.sh runs.
NoReader == [at |-> "idle", gen |-> 0, report |-> 0]

\* A watcher that does not run; also the fresh variables of one that starts.
Off == [at |-> "off", stream |-> <<>>, seen |-> [t \in Tasks |-> "none"], todo |-> {},
        hand |-> NoHand, known |-> "ask", gen |-> 0, ack |-> 0]

Init ==
    /\ pane \in [Tasks -> [st : {"idle", "working"}, seq : {1}]]
    /\ driver = [busy |-> FALSE, inbox |-> 0, turns |-> 0]
    /\ runtime = [t \in Tasks |-> [seq |-> 0, fg |-> "none", action |-> 0]]
    /\ pending = [generation |-> 0, delivered |-> 0, edge |-> [t \in Tasks |-> 0]]
    /\ ack = 0
    /\ marker = FALSE
    /\ watch = [w \in Watchers |-> Off]
    /\ reader = NoReader
    /\ told = 0 /\ unseen = 0
    /\ used = 0

-----------------------------------------------------------------------------
(* Herdr.  An edge goes to every subscription open at that moment.            *)

Subscribed(w) == watch[w].at # "off"

Pushed(e) ==
    [w \in Watchers |->
        IF Subscribed(w) THEN [watch[w] EXCEPT !.stream = Append(@, e)] ELSE watch[w]]

\* What calls for a wake: a turn that ends, or a crew that is stuck.
Settles(old, st) == st = "blocked" \/ (old = "working" /\ st = "idle")

PaneChanges(t) ==
    /\ pane[t].seq <= MaxChanges
    /\ \E st \in Status \ {pane[t].st} :
         LET seq == pane[t].seq + 1
         IN  /\ pane' = [pane EXCEPT ![t] = [st |-> st, seq |-> seq]]
             /\ watch' = Pushed([task |-> t, st |-> st, seq |-> seq])
    /\ UNCHANGED <<driver, runtime, pending, ack, marker, reader, told, unseen, used>>

DriverEdgeOf(busy) == [task |-> Driver, st |-> IF busy THEN "working" ELSE "idle", seq |-> 0]

-----------------------------------------------------------------------------
(* rzr-runtime.py, under the lock of the task's file.  An edge is named by its *)
(* revision; 0 is no action.                                                   *)

Newer(t, seq) == seq > runtime[t].seq

Reconciled(t, st, seq) ==
    IF Newer(t, seq) THEN [runtime[t] EXCEPT !.seq = seq, !.fg = st] ELSE runtime[t]

Reduced(t, st, seq) ==
    LET old == runtime[t].fg
    IN  IF ~Newer(t, seq) THEN runtime[t]
        ELSE [seq |-> seq, fg |-> st,
              action |-> CASE st = "working" /\ old # "working" -> 0
                           [] Settles(old, st) -> seq
                           [] OTHER -> runtime[t].action]

-----------------------------------------------------------------------------
(* A watcher starts: it subscribes, then reads each pane's level.             *)

Start(w) ==
    /\ watch[w].at = "off"
    /\ watch' = [watch EXCEPT ![w] = [Off EXCEPT !.at = "snapshot", !.todo = Tasks]]
    /\ UNCHANGED <<pane, driver, runtime, pending, ack, marker, reader, told, unseen, used>>

ReadSnapshot(w) ==
    /\ watch[w].at = "snapshot"
    /\ \E t \in watch[w].todo :
         watch' = [watch EXCEPT ![w] = [@ EXCEPT !.at = "apply",
                      !.hand = [task |-> t, st |-> pane[t].st, seq |-> pane[t].seq]]]
    /\ UNCHANGED <<pane, driver, runtime, pending, ack, marker, reader, told, unseen, used>>

ApplySnapshot(w) ==
    LET h == watch[w].hand
        rest == watch[w].todo \ {h.task}
    IN  /\ watch[w].at = "apply"
        /\ runtime' = [runtime EXCEPT ![h.task] = Reconciled(h.task, h.st, h.seq)]
        /\ watch' = [watch EXCEPT ![w] = [@ EXCEPT
                        !.at = IF rest = {} THEN "gate" ELSE "snapshot", !.todo = rest,
                        !.seen[h.task] = h.st, !.hand = NoHand, !.known = "ask"]]
        /\ UNCHANGED <<pane, driver, pending, ack, marker, reader, told, unseen, used>>

-----------------------------------------------------------------------------
(* The event loop.                                                            *)

\* Mutant: only crew edges make the watcher look at the ledger again.
DriverEdgePassed(w) ==
    LET s == watch[w].stream
    IN  /\ watch[w].at = "loop" /\ s # <<>> /\ Head(s).task = Driver
        /\ watch' = [watch EXCEPT ![w].stream = Tail(s)]
        /\ UNCHANGED <<pane, driver, runtime, pending, ack, marker, reader, told, unseen, used>>

\* An edge of the driver's pane: a wake that was held back may go now.
DriverEdge(w) ==
    LET s == watch[w].stream
    IN  /\ watch[w].at = "loop" /\ s # <<>> /\ Head(s).task = Driver
        /\ watch' = [watch EXCEPT ![w] = [@ EXCEPT !.at = "gate", !.stream = Tail(s),
                                                   !.known = Head(s).st]]
        /\ UNCHANGED <<pane, driver, runtime, pending, ack, marker, reader, told, unseen, used>>

\* An edge of a crew pane: passed over if this watcher saw that status last, or
\* if the reducer has gone beyond it.
CrewEdge(w) ==
    LET s == watch[w].stream
        e == Head(s)
        new == Reduced(e.task, e.st, e.seq)
        popped == [watch[w] EXCEPT !.stream = Tail(s)]
        taken == [popped EXCEPT !.seen[e.task] = e.st]
    IN  /\ watch[w].at = "loop" /\ s # <<>> /\ e.task # Driver
        /\ \/ /\ e.st = watch[w].seen[e.task]
              /\ watch' = [watch EXCEPT ![w] = popped]
              /\ UNCHANGED runtime
           \/ /\ e.st # watch[w].seen[e.task]
              /\ runtime' = [runtime EXCEPT ![e.task] = new]
              /\ watch' = [watch EXCEPT ![w] =
                    CASE new.seq # e.seq -> popped
                      [] new.seq = e.seq /\ new.action = 0 -> taken
                      [] OTHER -> [taken EXCEPT !.at = "bump",
                                      !.hand = [e EXCEPT !.seq = new.action]]]
        /\ UNCHANGED <<pane, driver, pending, ack, marker, reader, told, unseen, used>>

-----------------------------------------------------------------------------
(* The ledger.  Its writers take pending.json.lock; its readers do not.       *)

Unlocked == reader.at # "ack"

Ends(w) == watch' = [watch EXCEPT ![w] = Off]

\* rzr_ledger_bump.  Once the event bus has the driver it refuses, and the
\* watcher ends; an edge the task already has is not counted again.
Bump(w) ==
    LET h == watch[w].hand
        known == pending.edge[h.task] = h.seq
    IN  /\ watch[w].at = "bump" /\ Unlocked
        /\ \/ marker /\ Ends(w) /\ UNCHANGED pending
           \/ /\ ~marker
              /\ pending' = IF known THEN pending
                            ELSE [pending EXCEPT !.generation = pending.generation + 1,
                                                 !.edge = [@ EXCEPT ![h.task] = h.seq]]
              /\ watch' = [watch EXCEPT ![w] = [@ EXCEPT !.at = "gate", !.hand = NoHand,
                                                         !.known = "ask"]]
        /\ UNCHANGED <<pane, driver, runtime, ack, marker, reader, told, unseen, used>>

\* rzr_ledger_should_deliver: the marker and generation, then ack, then delivered.
Gate(w) ==
    /\ watch[w].at = "gate"
    /\ watch' = [watch EXCEPT ![w] = [@ EXCEPT !.at = IF marker THEN "loop" ELSE "readAck",
                                               !.gen = IF marker THEN 0 ELSE pending.generation]]
    /\ UNCHANGED <<pane, driver, runtime, pending, ack, marker, reader, told, unseen, used>>

ReadAck(w) ==
    /\ watch[w].at = "readAck"
    /\ watch' = [watch EXCEPT ![w] = [@ EXCEPT !.at = "readDelivered", !.ack = ack]]
    /\ UNCHANGED <<pane, driver, runtime, pending, ack, marker, reader, told, unseen, used>>

ReadDelivered(w) ==
    LET due == watch[w].gen > watch[w].ack /\ pending.delivered <= watch[w].ack
    IN  /\ watch[w].at = "readDelivered"
        /\ watch' = [watch EXCEPT ![w] = [@ EXCEPT !.at = IF due THEN "attempt" ELSE "loop",
                                                   !.gen = 0, !.ack = 0]]
        /\ UNCHANGED <<pane, driver, runtime, pending, ack, marker, reader, told, unseen, used>>

\* deliver_wake: the generation this attempt is for, the driver's status if no
\* edge has told it, the prompt, and the record of it.  A driver in its turn is
\* left alone.
Attempt(w) ==
    LET k == watch[w].known
        next == CASE k = "ask" -> "ask" [] k = "idle" -> "prompt" [] OTHER -> "loop"
    IN  /\ watch[w].at = "attempt"
        /\ watch' = [watch EXCEPT ![w] = [@ EXCEPT !.at = next,
                        !.gen = IF next = "loop" THEN 0 ELSE pending.generation]]
        /\ UNCHANGED <<pane, driver, runtime, pending, ack, marker, reader, told, unseen, used>>

AskStatus(w) ==
    /\ watch[w].at = "ask"
    /\ watch' = [watch EXCEPT ![w] = [@ EXCEPT !.at = IF driver.busy THEN "loop" ELSE "prompt",
                                               !.gen = IF driver.busy THEN 0 ELSE watch[w].gen]]
    /\ UNCHANGED <<pane, driver, runtime, pending, ack, marker, reader, told, unseen, used>>

Prompt(w) ==
    /\ watch[w].at = "prompt"
    /\ driver' = [driver EXCEPT !.inbox = @ + 1]
    /\ watch' = [watch EXCEPT ![w].at = "record"]
    /\ UNCHANGED <<pane, runtime, pending, ack, marker, reader, told, unseen, used>>

\* Herdr refuses the prompt: the watcher records the error and ends.
PromptFails(w) ==
    /\ watch[w].at = "prompt" /\ used < MaxFaults
    /\ Ends(w)
    /\ used' = used + 1
    /\ UNCHANGED <<pane, driver, runtime, pending, ack, marker, reader, told, unseen>>

\* rzr_ledger_record: what was attempted, not what has come since.
Record(w) ==
    /\ watch[w].at = "record" /\ Unlocked
    /\ pending' = IF marker THEN pending
                  ELSE [pending EXCEPT !.delivered = Larger(@, watch[w].gen)]
    /\ watch' = [watch EXCEPT ![w] = [@ EXCEPT !.at = "loop", !.gen = 0]]
    /\ UNCHANGED <<pane, driver, runtime, ack, marker, reader, told, unseen, used>>

Kill(w) ==
    /\ Subscribed(w) /\ used < MaxFaults
    /\ Ends(w)
    /\ used' = used + 1
    /\ UNCHANGED <<pane, driver, runtime, pending, ack, marker, reader, told, unseen>>

-----------------------------------------------------------------------------
(* The driver: turns, and rzr-reconcile.sh within one.  It goes idle when it  *)
(* has read its prompts.                                                      *)

Unasked == driver.turns < MaxTurns

BeginTurn ==
    /\ ~driver.busy /\ (driver.inbox > 0 \/ Unasked)
    /\ driver' = [driver EXCEPT !.busy = TRUE,
                                !.turns = IF driver.inbox > 0 THEN @ ELSE @ + 1]
    /\ watch' = Pushed(DriverEdgeOf(TRUE))
    /\ UNCHANGED <<pane, runtime, pending, ack, marker, reader, told, unseen, used>>

EndTurn ==
    /\ driver.busy /\ driver.inbox = 0 /\ reader.at = "idle"
    /\ driver' = [driver EXCEPT !.busy = FALSE]
    /\ watch' = Pushed(DriverEdgeOf(FALSE))
    /\ UNCHANGED <<pane, runtime, pending, ack, marker, reader, told, unseen, used>>

\* The generation is read first, the tasks afterwards.
ReadGeneration ==
    /\ driver.busy /\ reader.at = "idle" /\ (driver.inbox > 0 \/ Unasked)
    /\ reader' = [NoReader EXCEPT !.at = "gather", !.gen = pending.generation]
    /\ driver' = [driver EXCEPT !.inbox = 0,
                                !.turns = IF driver.inbox > 0 THEN @ ELSE @ + 1]
    /\ UNCHANGED <<pane, runtime, pending, ack, marker, watch, told, unseen, used>>

\* The report takes in every task the ledger names by now, but leaves out one that
\* has no handoff yet or whose status call fails: then it is no whole report.
GatherTasks ==
    /\ reader.at = "gather"
    /\ \E report \in {pending.generation, 0} :
         reader' = [reader EXCEPT !.at = "pending", !.report = report]
    /\ UNCHANGED <<pane, driver, runtime, pending, ack, marker, watch, told, unseen, used>>

\* rzr_ledger_ack: first pending.json, then the ack file, under one lock.  Refused,
\* it ends the script, which prints nothing.
AckPending ==
    /\ reader.at = "pending"
    /\ \/ marker /\ reader' = NoReader /\ UNCHANGED pending
       \/ /\ ~marker
          /\ pending' = [pending EXCEPT !.delivered = Larger(@, reader.gen)]
          /\ reader' = [reader EXCEPT !.at = "ack"]
    /\ UNCHANGED <<pane, driver, runtime, ack, marker, watch, told, unseen, used>>

\* Mutant: the generation is read again when it is acknowledged.
AckFileLatest ==
    /\ reader.at = "ack"
    /\ ack' = pending.generation
    /\ reader' = [reader EXCEPT !.at = "print"]
    /\ UNCHANGED <<pane, driver, runtime, pending, marker, watch, told, unseen, used>>

AckFile ==
    /\ reader.at = "ack"
    /\ ack' = reader.gen
    /\ reader' = [reader EXCEPT !.at = "print"]
    /\ UNCHANGED <<pane, driver, runtime, pending, marker, watch, told, unseen, used>>

\* What the driver does not get to see of what was acknowledged.
Unseen == Larger(unseen, reader.gen)

\* Only now does the report reach the driver.
PrintReport ==
    /\ reader.at = "print"
    /\ told' = Larger(told, reader.report)
    /\ unseen' = IF reader.report = 0 THEN Unseen ELSE unseen
    /\ reader' = NoReader
    /\ UNCHANGED <<pane, driver, runtime, pending, ack, marker, watch, used>>

\* Killed anywhere; the driver sees that and will run it again.
ReconcileDies ==
    /\ reader.at # "idle" /\ used < MaxFaults
    /\ unseen' = IF reader.at = "print" THEN Unseen ELSE unseen
    /\ reader' = NoReader
    /\ driver' = [driver EXCEPT !.inbox = @ + 1]
    /\ used' = used + 1
    /\ UNCHANGED <<pane, runtime, pending, ack, marker, watch, told>>

-----------------------------------------------------------------------------
(* The event bus takes the driver over, or gives it back, with the authority  *)
(* lock held alone.                                                           *)

CursorsOrdered == ack <= pending.delivered /\ pending.delivered <= pending.generation

Activate ==
    /\ ~marker /\ Unlocked /\ used < MaxFaults
    /\ CursorsOrdered /\ pending.generation <= ack
    /\ marker' = TRUE
    /\ used' = used + 1
    /\ UNCHANGED <<pane, driver, runtime, pending, ack, watch, reader, told, unseen>>

Disable ==
    /\ marker /\ Unlocked
    /\ marker' = FALSE
    /\ UNCHANGED <<pane, driver, runtime, pending, ack, watch, reader, told, unseen, used>>

-----------------------------------------------------------------------------
WatcherStep(w) ==
    \/ ReadSnapshot(w) \/ ApplySnapshot(w) \/ DriverEdge(w) \/ CrewEdge(w)
    \/ Bump(w) \/ Gate(w) \/ ReadAck(w) \/ ReadDelivered(w)
    \/ Attempt(w) \/ AskStatus(w) \/ Prompt(w) \/ Record(w)

ReaderStep == GatherTasks \/ AckPending \/ AckFile \/ PrintReport

Next ==
    \/ \E t \in Tasks : PaneChanges(t)
    \/ \E w \in Watchers : Start(w) \/ WatcherStep(w) \/ PromptFails(w) \/ Kill(w)
    \/ BeginTurn \/ EndTurn \/ ReadGeneration \/ ReaderStep \/ ReconcileDies
    \/ Activate \/ Disable

Spec == Init /\ [][Next]_vars

\* Watchers are scheduled and started again when they end; the driver reads its
\* prompts and its turns end.  Panes and faults owe nothing.
Fairness ==
    /\ \A w \in Watchers : WF_vars(WatcherStep(w)) /\ WF_vars(Start(w))
    /\ WF_vars(BeginTurn /\ driver.inbox > 0)
    /\ WF_vars(ReadGeneration /\ driver.inbox > 0)
    /\ WF_vars(ReaderStep) /\ WF_vars(EndTurn)

LiveSpec == Spec /\ Fairness

-----------------------------------------------------------------------------
(* Properties.                                                                *)

WatcherType ==
    [at : Places, stream : Seq([task : Tasks \union {Driver}, st : Status, seq : Nat]),
     seen : [Tasks -> Status \union {"none"}], todo : SUBSET Tasks,
     hand : [task : Tasks \union {Driver}, st : Status, seq : Nat],
     known : Status \union {"ask"}, gen : Nat, ack : Nat]

\* Every variable has the shape its file or process has.
TypeOK ==
    /\ pane \in [Tasks -> [st : Status, seq : Nat]]
    /\ driver \in [busy : BOOLEAN, inbox : Nat, turns : Nat]
    /\ runtime \in [Tasks -> [seq : Nat, fg : Status \union {"none"}, action : Nat]]
    /\ pending \in [generation : Nat, delivered : Nat, edge : [Tasks -> Nat]]
    /\ ack \in Nat /\ marker \in BOOLEAN
    /\ watch \in [Watchers -> WatcherType]
    /\ reader \in [at : {"idle", "gather", "pending", "ack", "print"},
                   gen : Nat, report : Nat]
    /\ told \in Nat /\ unseen \in Nat
    /\ used \in Nat

\* The event bus requires acked <= delivered <= generation of a ledger before it
\* answers any command (AuthorityBoundary), also after a reconcile that was killed
\* between its two files.
LedgerStaysUsable == CursorsOrdered

\* What is counted while a reconcile runs is not acknowledged by it.  It acknowledges
\* before it prints, so of what is acknowledged the driver has seen a whole report,
\* or the report is the one about to be printed, or that report was lost in one
\* of two ways: its run was killed in between, or it had left a task out
\* (rzr-reconcile.sh).
AckedWasReported ==
    ack <= told \/ ack <= unseen \/ (reader.at = "print" /\ ack <= reader.gen)

\* While the event bus has the driver nothing is left unread in the ledger it
\* has replaced, whatever watchers and reconciles were under way.
MarkerMeansDrained == marker => pending.generation <= ack

\* The ledger hides an edge from its driver in none of these three ways: a ledger
\* the bridge refuses, an acknowledgement of what no report was made of, or a cutover
\* that leaves something behind (rzr_ledger_ack, AuthorityBoundary).
LedgerSound == LedgerStaysUsable /\ AckedWasReported /\ MarkerMeansDrained

\* Whatever is counted is acknowledged in the end: a prompt held back for the driver's
\* turn goes when the turn ends, and a watcher that ended is made up for by the
\* next one (rzr-watch.sh, driver edges and recovery gate).
EveryGenerationRead == []<>(ack = pending.generation)

=============================================================================
