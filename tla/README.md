# Rozoro in TLA+

Rozoro lets one *watchtower* (a driver: a Claude or Pi session that supervises)
follow a *crew* of coding-agent sessions (Claude, Pi, Codex) that run in Herdr
terminal panes, each on one *task*. Producers (hooks and extensions inside the
agents) report lifecycle events to a monitor daemon, `rozorod`. The daemon
reduces them, together with the task's handoff file and what Herdr says about the
pane, to a *projection* per task; a projection that calls for attention is
published as a numbered *generation*, and each driver is nudged, reads the
generation with `rozoro reconcile` and acknowledges it.

This directory holds TLA+ modules of that system, TLC configurations that check
them on small instances, and proofs that TLAPS checks. `PROJECT.json` maps every
definition to the lines it translates. All paths below are relative to the
repository.

## The parts of the system

| Part | Code | State it keeps | Operations |
|---|---|---|---|
| Lifecycle reducer | `lib/rozoro_monitor/reducer.py` | one `LifecycleState` per session (foreground, background evidence, sequence number, buffered events, ended/gone, freshness) | `reduce_event`, `observe_gone`, `set_adapter_connected` |
| Event store | `lib/rozoro_monitor/store.py` 298-440, 727-895 | `events`, `sessions`, `task_projections`, generations and their frozen rows | `accept_event`, `reconcile_herdr_liveness`, `rebuild_projections`, `bump_actionable` |
| Delivery ledger | `store.py` 897-1365 | per driver: registration epoch, latest/delivered/acked cursors, offers, disabled drivers | register, offer, withdraw, outcome, confirm, reconcile, ack, disable |
| Follow-up sends | `store.py` 1382-1484, `server.py` 377-441, 588-625 | `pending_sends` | enqueue, claim, deliver, resolve, overdue check, sweep |
| Wake coalescer | `notify.py` | an in-memory window per connection | `offer_pending` |
| Daemon server | `server.py` | lock file, socket, connections with their bound epoch | start, close, spool import, one handler per frame type |
| Producer client | `client.py` | spool directory, sequence counter per session | reserve, publish, send, remove |
| Herdr membership | `herdr.py` | tasks' panes, the subscription, cached levels | scan, replace, apply, edge |
| Protocol | `protocol.py` | none | encode, decode, validate |
| Handoff parser | `handoff.py` | none | parse |
| Pi, Claude, Codex adapters | `.pi/`, `hooks/`, `bin/rzr-claude-*.py`, `bin/rzr-codex-event-adapter.py` | queue, pending frame, registration | publish, reconnect, poll, confirm |
| Command line bridge | `bin/rzr-event-bus-client.py`, `bin/rzr-reconcile.sh`, `bin/rzr-ack.sh` | none | reconcile, print, ack; cutover |
| Daemon control | `bin/rzr-monitor.py`, `bin/rozorod.py` | pid and lock files | start, stop, reset |
| Legacy wake ledger | `bin/rzr-lib.sh`, `bin/rzr-watch.sh`, `bin/rzr-runtime.py`, `bin/rzr-reconcile.sh` | a runtime file per task; `pending.json`, `ack` and the authority marker per driver | level read, edge, bump, nudge, record, reconcile, acknowledge; cutover |
| Home lock | `bin/rzr-lib.sh` 1311-1352, `bin/rzr-spawn.sh`, `bin/rzr-resume.sh` | `state/.lock` with the holder's pid | acquire, reclaim, release around spawn and resume |
| Attention ledger skill | `.agents/skills/watchtower-attention-ledger/scripts/ledger.py` | one file per item, a lock file | add, update, list and other readers |
| Task scripts, skills, reports | `bin/rzr-*.sh`, `.agents/skills/` | files under the task folder | spawn, resume, send, teardown, reports |

How they interact: producers call the daemon over a Unix socket, or leave the
event in the spool when it is down. The daemon is one asyncio process: handlers
interleave only at `await`, and every store operation is one SQLite `IMMEDIATE`
transaction under a lock. So the steps of the models are transactions, and what
lies between two steps is an `await`, a second request, a crash, or another
process. Herdr's subscription calls back into the store and, through the same
callback, into the follow-up sends. Adapters and the command line talk to the
delivery ledger over separate connections.

What is hard about it, in one list (each at its line under `hazards` in
`PROJECT.json`, with the properties that guard it): reordered, repeated and
missing events; facts that are old when used (a replaced connection's offer, a
level read before an edge, a report compared by its verdict only); a client that
dies between print and acknowledgement; a daemon that dies with a prompt call
under way; a hook killed between two file operations; several sessions on one task;
connections that break under a request; a membership scan with an await between any
two of its reads; processes that share a home or a ledger directory by file locks, or
by a directory that each of them may remove; overlapping watchers of one pane.

## Modules

| Module | Models | Kind |
|---|---|---|
| `DeliveryLedger` | the delivery ledger with its adapter and a reconcile client | system |
| `WakeCursor` | what the ledger promises per driver: three cursors | abstract |
| `DeliveryLedgerProofs` | theorems about `DeliveryLedger`, and about `PiAdapter` over it | proofs |
| `PendingSends` | follow-up sends with the daemon's crash and restart | system |
| `PendingSendsProofs` | theorems about `PendingSends` | proofs |
| `ProducerSpool` | hook runs, their outbox and counter, and the daemon's spool import | system |
| `ProducerSpoolProofs` | theorems about `ProducerSpool` | proofs |
| `Reducer` | the pure reducer | operators |
| `LifecycleReplay` | a true session, its producer and the reducer | system over `Reducer` |
| `EventStore` | `accept_event` and `reconcile_herdr_liveness` of one task | system over `Reducer` |
| `LifecycleProofs` | theorems about `Reducer`, `LifecycleReplay` and `EventStore` | proofs |
| `PiAdapter` | the Pi client, the connection handler and the coalescer over the ledger | composition with `DeliveryLedger` |
| `Membership` | the Herdr membership monitor | system |
| `MembershipProofs` | theorems about `Membership` | proofs |
| `MonitorHome` | daemons, the reset and the hooks on one home | system |
| `MonitorHomeProofs` | theorems about `MonitorHome` | proofs |
| `AttentionLedger` | the attention ledger's writers and its paging reader | system |
| `AttentionLedgerProofs` | theorems about `AttentionLedger` | proofs |
| `WatchLedger` | the legacy watchers, their ledger, its reader, and the cutover to the event bus | system |
| `WatchLedgerProofs` | theorems about `WatchLedger` | proofs |
| `MC*` | instances of these for TLC | |

### DeliveryLedger

`ledger[d]` is the `watchtower_deliveries` row of driver `d` (its copy of the
newest generation, delivered, acked, delivery state), `latest` the global
generation counter, `epoch[d]` the registration epoch (0 without one),
`offered[d]` the `delivery_offers` rows and `confirmed[d]` those of them that are
confirmed, `disabled` the drivers without authority. `cli[d]` is a run of the
command-line client: the generation it has printed and will acknowledge, or 0.
`reported` is a history variable: the generations such runs have printed.

Each store operation is one action with the guards of its early returns:
`Bump` (bump_actionable), `Register`, `OfferNotification` with `Frontier`
(notification_frontier), `WithdrawUnconfirmedOffer`, `RecordDeliveryOutcome`,
`ConfirmDelivery`, `CliReconcile` (reconcile_delivered, including its retirement
of the offers of dead epochs), `CliAck` (ack_delivered), `AckGeneration` and
`DisableDriverAuthority`. A replaced connection may go on calling: `AdapterStep`
takes any epoch and `Bound` (_require_registration) decides. `CliCrash` is the
client's death between its two requests.

`WakeCursor` is the abstract specification: generations are published for all
drivers; a cursor is delivered only when everything delivered before has been
acknowledged, acknowledged only when delivered, and authority is lost only when
nothing is unread.

### PendingSends

`rows` is the table, `live` the delivery coroutines of the running daemon, `pane`
where Herdr has each text, `sweeper` the periodic loop between its awaits; time
is the two sets `overdue` and `aged`. `ClaimDeliverable`
is shared by three callers as in the code: the enqueue handler, the status edge
callback and the overdue check. The overdue loop is three kinds of steps, because
it awaits between them: `SweepTick` lists the overdue tasks, `SweepCheck` reads
one pane and may deliver, `Sweep` retires what is overdue or abandoned. `Crash`
stops every coroutine; the prompt of a call under way may or may not have landed.

### ProducerSpool

One session. A *producer* is one run of a hook with one event; `pc` says how far
it is, `seq` the number it has reserved. `spool` is the set of published
envelopes, `counter` the session's `.seq` file, `lock` the holder of the spool's
`.lock`, `durable` the events table in commit order, `wire` the frames the daemon
has not read, `acks` the answers it has written. One step is one file operation
or one transaction: `LockSpool`, `Publish` (rename), `SaveCounter`, `Send`,
`AckArrives` or `GivesUp`, `RemoveReserved`; on the daemon's side `HandleFrame`,
and the import as `ImportStart`, then `ImportAccept` and `ImportUnlink` per file,
then `ImportEnd`. `Dies` kills a run between any two of them and `DaemonDies` the
daemon; the lock goes with its holder, the files stay. A daemon listens only after
its first import. `"torn"` marks a run that died after publication and before the
counter: the one place where a number can come twice.

### Reducer and LifecycleReplay

`Reducer` is `reducer.py` operator for operator: `ApplyContiguous` per event
type, `ReduceEvent` with its buffer of early events, and the availability derived
in `_finish`. It has no variables; the loop over buffered events is a recursive
function (`ApplyAll`), which proofs can unfold.

`LifecycleReplay` puts it into a world. `truth` is the harness: turn running or
stopped, which jobs run, session alive. The producer emits events that are true
at that moment (`truthAt`), and the reducer receives any emitted event at any
time, once or more. Which events exist, and what may happen unreported, is taken
from the adapters: Claude reports subagents that start but not those that stop,
and no shell jobs; Pi says "no background" at each stop; Codex says nothing about
it. The properties compare what the daemon claims with `truthAt`.

### EventStore

One task, the sessions that served it, the handoff file and the projection.
`Accept` is one `accept_event` transaction: reduce, persist the session, project
if it has registered, decide whether to announce (`StartupMissingReport`,
`CodexTurnReport`, `Announcements`), publish. `ReconcileHerdrLiveness` applies
`ObserveRow` to all sessions of the task in row order, in one transaction, as
the code's loop does (`Observed`, a recursive function), and may publish several
generations at once. The file's
content is abstracted to its validity, its verdict (after the first-open-item
rule), and a number that tells one content from another.

### PiAdapter

`EXTENDS DeliveryLedger`: what there are environment assumptions is done here by
the code that does it. `pi` is the client: its connection, queue, the one request
under way (`pending`), what it has told the session, the wake in progress and those
that wait. `conn[c]` is connection `c`: the frames on it in both directions, the
epoch the handler has bound it to, and its coalescer. `waking` are the calls of
`onNotification` that have not settled; they outlive their connection.

`Connect`, `Activate` (finishRegistration), `Publish`, `Poll`, `ReceiveOk`,
`ReceiveError`, `ReceiveNotification`, `WakeSettles` and `WakeFails` are the
client's callbacks, each one turn of the JavaScript event loop with the `flush` it
ends in. `Disconnected` keeps the events (`Events`), the one under way first, and
forgets the rest. `HandleRegister`, `HandlePoll`, `HandleDelivered` and `HandleEvent` are the
daemon's, each one step: there is no await between a poll's frontier and its offer
(`Offers`), nor between a registration and its reply. The queue is not flushed when the
registration is answered, only by `Activate` or by an event published in between. A
connection that `Closes` loses its replies, but a
request that had arrived may be handled later, also a registration.

### Membership

`meta` is what the task files say of each task's pane (`Torn` when half written),
`pane` the true status of each pane, a number that grows, and `stream` the
subscriptions with their queues of edges and their consumers. `members`, `sub`,
`active`, `route`, `epoch`, `force` and `connected` are the fields of
MembershipMonitor, `seen` is what `reconcile` has been told per task. `scan` holds
the locals of a scan between its awaits: `StartScan` reads the inventory
(`ScanBlind` if the directory cannot be read), `Subscribe` or `SubscribeFails`
starts the new stream, `HerdrAnswers` and `LevelArrives` are the two ends of a level
read, `ScanEnds`, `ReplaceFails`, `ReplaceCommits` and `DrainEnds` the rest.
`Consume` and `ConsumerDies` run between any two of them.

### MonitorHome

`lock` is the holder of `monitor.lock`, `owner` the run its record names, `socket`
the run whose socket the entry `monitor.sock` is, `run[r]` how far a daemon's start
or close is. `there` are the files and directories that exist under their names,
`store` the runs whose open database is the one of that name, and `hook[p].open`
what a hook has open under its name: removing a name and making it again leaves who
has the old one open with something nobody else sees. `AcquireLock`,
`PrepareEntries`, `OpenStore`, `ImportSpool`, `Bind`, `RecordOwner`, `CloseListener`,
`CloseHome` are start and close in their order, `ResetLock` to `RemoveSpool` are
`reset --force`, `OpenDirs` to `RemoveReserved` are a hook; `Kill`, `HookDies` and
`ResetDies` end each anywhere. `darwin` is the platform, chosen once: there
`_prepare_entries` removes no socket at all (`server.py:172-178`), so any daemon killed
after `Bind` leaves the next start to an operator; elsewhere (`Stale`) only a start
torn between socket and record does, or a reused pid. The import is one step here; `ProducerSpool` has
its parts.

### AttentionLedger

`items` is the directory: every id is missing, torn (its name exists, its content is
not all there) or an item. A run of `add` or `update` fixes its time and id, takes
the lock or gives up, and works file by file: `WriteSuperseded` and `WriteUpdate`
make the temporary file, `Replace` renames it, `Create` makes the new item's name
and `Fill` its content. `Die` leaves everything as it is. One task is modelled: a
second one has its own items. `walk` is a reader that follows the cursors of `list`
from the first page to the last, without the lock, one file at a time; its listing
puts every record at its rank (`Rank`, `InOrder`), which is what sorting does.

### WatchLedger

The watchers before the daemon, still there as the fallback
(`ROZORO_LEGACY_DIAGNOSTIC=1`), with the Herdr backend. `pane[t]` is the true status
of a crew pane with its revision, `driver` whether the driver is in a turn and the
prompts it has not read, `runtime[t]` the reducer's file, `pending` and `ack` the
ledger's two files, `marker` the event bus's authority over the driver.
`watch[w]` is a watcher process: where it is, its own queue of edges, what it saw
last, and the locals between two reads; `reader` is a run of `rzr-reconcile.sh`.
`Start`, `ReadSnapshot` and `ApplySnapshot` are its start; `CrewEdge` and `DriverEdge`
the two halves of the loop; `Bump`, `Record` and `AckPending`/`AckFile` the locked
writes of the ledger; `Gate`, `ReadAck` and `ReadDelivered` the three unlocked reads
of should_deliver, in their order; `Attempt`, `AskStatus` and `Prompt` deliver_wake.
`Activate` and `Disable` take the authority lock, as the bridge does.
The reader's steps keep the script's order: `ReadGeneration`, `GatherTasks` into shell
variables, `AckPending` and `AckFile`, and only then `PrintReport`; `ReconcileDies`
falls between any two. A report that leaves a task out, because it has no handoff yet or
its status call fails (`rzr-reconcile.sh:61-65`), is not whole. Two variables remember
what the files forget: `told` is the newest generation whose whole report was printed,
`unseen` the newest acknowledged one whose report was lost by a kill or was not whole.
Watchers may overlap in the module; the instance has one at a time.

## What the runs check

Every run below finishes within the time limit with two workers.

| Run | Instance | Checks |
|---|---|---|
| `ledger_one` | 1 driver, 4 generations, 3 epochs | `DeliveredHasConfirmedOffer`, `OneOutstandingOffer`, `OfferNeverCollides`, `CursorOrder`, `DeliveredByCurrentEpochOnly`, `CliAcksOnlyReported`, liveness `EveryGenerationAcked`, refinement `ImplementsWakeCursor` |
| `sends` | 2 follow-ups, 2 tasks, any number of crashes | `OneOpenPerTask`, `SubmittedAtMostOnce`, `OutcomeHonest`, liveness `EveryFollowUpResolves` |
| `spool` | 3 hook runs, any number of daemon crashes | `NothingLost`, `NoGap`, `AckedIsDurableOnce`, `ReuseOnlyAfterTear`, liveness `SpoolDrains` |
| `replay` | 2 jobs, 4 events, 1 connection change | `QuiescentIsTrue`, `CountNeverShort`, `ArrivalOrderIrrelevant` |
| `store` | 1 session, 5 accepted events, 4 generations | `ReportTuplesLegal`, `ActionableIsTold`, `ProjectionIsCurrent`, `SettledBumpsNothing` |
| `adapter` | 4 connections, 1 failure, 2 generations (one urgent), 2 events | `DeliveredByItsOwnWake`, liveness `DischargesLedger`, `EventsArrive` |
| `membership` | 2 tasks, 2 panes with 2 statuses, 1 write to the metadata, 1 fault | `ConnectedIsCovered`, `LevelNeverOverridesEdge`, `EdgesFollowTheRoute`, liveness `EveryPaneSettles` |
| `home` | 3 daemon runs, 2 hooks, 1 reset, on Darwin and elsewhere | `DaemonKeepsItsHome`, `StrandedOnlyByCrash`, `FreshLogStartsAtOne` |
| `attention` | 3 runs of add or update, 2 reasons, 2 seconds, 2 nonces, pages of one | `SuccessorCarriesOn`, `OneActivePerReason`, `WalkShowsUntouched`, `HistoryKept` |
| `watch` | 1 watcher at a time, 3 status changes, 1 turn unasked, 2 faults (kills, failed prompts, cutovers) | `LedgerSound` (the ledger stays usable, nothing is acknowledged that came after the report was gathered, the cutover leaves nothing unacknowledged), liveness `EveryGenerationRead` (acknowledged, that is) |

`DischargesLedger` is the specification of `DeliveryLedger` with its fairness, as a
property of `PiAdapter`: what `ledger_one` assumes of an adapter, this one provides.

Two more runs each show a disagreement between the code and what it says
of itself:

| Run | Shows |
|---|---|
| `sends_latest` | a follow-up cancelled while its prompt call is under way lands after the newer one was enqueued |
| `store_restart` | with an old and a new session on one task every pane observation announces again |

`store_restart` checks the same property as `store`: it holds with one session
and fails with two. (With two sessions `ProjectionIsCurrent` fails as well: a late
event of the old one overwrites the projection of the new.)

### Divergences met while modelling

These are visible in the modules and have no run of their own.

- *Resumed session.* After `session.end` every later event of the session id only
  moves its number (`reducer.py:146`). `claude --resume` keeps the id
  (`bin/rzr-resume.sh:175`, `tests/lifecycle.bats:446`) and goes on reporting under
  it, but is shown as gone.
- *Torn reservation.* A hook that dies after its envelope is published
  (`client.py:348`) and before the counter is saved (`client.py:349`) leaves a number
  that only the envelope knows. Once the daemon has imported and unlinked the file
  (`server.py:346`), the next event gets the same number, and the reducer drops it as
  stale (`reducer.py:121`). The docstring at `client.py:284` says "Recover
  reservations published before a crashed counter update."; `ReuseOnlyAfterTear`
  proves that it happens only there.
- *Second Codex report.* A further `done` block changes neither the report's state
  nor its verdict, and wakes nobody (`store.py:785`; the test at
  `tests/python/test_codex_native_hook.py:23` is about a first report).
- *Death before the first report.* The missing report of a starting Pi or Codex
  crew is not announced (`store.py:774`), and its pane going away does not change
  the reason. `docs/architecture/bounded-contexts/wake-delivery.md:39` rules out a
  lost actionable edge.
- *Lone closed pane.* If the only pane of all is closed, Herdr refuses the
  subscription and the scan rolls back before it reads the level
  (`herdr.py:245`): the task is never told to be gone. `EveryPaneSettles` leaves
  out exactly that.
- *Dead stream in the drain.* A new stream that dies while the old one is drained
  asks for a rebuild, and the end of the same scan clears the request
  (`herdr.py:137`, `210`). The monitor says it is disconnected and goes on with
  levels only, until the membership changes.
- *Blind scan.* A state directory that cannot be opened is an inventory without
  members (`herdr.py:53`), where a torn file keeps its task: everybody is dropped
  until the next scan.
- *Queued edge.* A turn that ends between a watcher's subscription and its level read
  wakes nobody: the level moves the revision without an action, and the edge that
  waits on the stream is then not newer, or repeats what the watcher saw last
  (`rzr-watch.sh:178-179`, `193`, `243`; `rzr-runtime.py:17`, `21`).
- *Overlapping watchers.* The ledger remembers one edge per task, so two watchers can
  count an edge twice (`rzr-lib.sh:1154`, `1176`); and the gate is read without the
  lock and the prompt recorded after it, so both may send a nudge (`rzr-lib.sh:1050`,
  `1241`; `rzr-watch.sh:102`). Neither hides an edge.
- *Acknowledged before it is printed.* The header of `rzr-reconcile.sh` says it "reports
  the delta of tasks changed since the last generation ACK", flags what vanished, "and
  then advances `ack`" (lines 7-10). The code gathers the report into variables,
  acknowledges at line 78 and prints at 80-89: killed in between, it has acknowledged
  what the driver never saw, and nothing nudges again. A task without a handoff
  (64-65) or whose status call fails (61) is acknowledged without being in the report.
  A later reconcile lists every task of the ledger again. The variable `unseen` holds
  these cases apart; `LedgerSound` excludes any other. The same order in the client
  of the event bus is print, then ACK (`CliAcksOnlyReported`).
- *Darwin's socket.* After a `kill -9` of a daemon the next start is refused until
  somebody removes `monitor.sock`, since no socket is ever removed there
  (`server.py:172-178`, by intention). `StrandedOnlyByCrash` has a branch for each
  platform.
- *Home lock.* Two runs that found the same holder dead both remove its directory, the
  second one that of the first (`rzr-lib.sh:1327`). A run that dies between `mkdir` and
  its pid leaves a lock that nobody takes for stale (`rzr-lib.sh:1319`), and a spawn that
  fails inside exits without releasing it (`rzr-lib.sh:1349`). Read off the source; the
  lock is not modelled.
- *Supersession's log line.* It reads "superseded -> superseded", since the status is
  set before the line is made (`ledger.py:577`, `580`).
- *Reset and hooks.* A hook knows nothing of `monitor.lock`. One that reserves its
  event while the reset runs can make the reset stop half way with an error (a new
  file in a directory it wants to remove), or lose its event to it.
  `FreshLogStartsAtOne` is about resets that no hook overlapped.

### Bounds

- *Generations and epochs* (ledger). Three epochs give an old connection, its
  successor and a third one while the first's offer is still there; four
  generations give an acknowledged, a delivered, an offered and a newer one.
- *Follow-ups*. Two rows are the smallest number at which latest-wins, the unique
  index on open rows and the crossing of a delivery with a newer request occur.
- *Hook runs*. Three let one be torn, one take its number and a third meet both,
  while the import is under way; each has one event, since a run's second event
  takes the same steps. Imports, crashes and restarts of the daemon are unbounded.
- *Events* (replay). The first is the registration; three more fit each kind of
  certification followed by each kind of evidence against it, and up to three
  events may be early at the same time. Two jobs let a stop meet another job's
  anonymous count. No job runs when the session registers. A connection change may fall between any two steps. Jobs are
  symmetric; no property of these runs is a liveness property.
- *Store*. Three sequence numbers with five acceptances let each number be late
  or early; two contents of the file beside the missing one; the verdicts `done`,
  `waiting` and `blocked` stand for the three ways `_actionable_reason` treats
  one (`needs-action` and `failed` are treated as `blocked`).

- *Adapter*. A break can cost a second connection, when a registration that was
  on its way takes the epoch: one failure and four connections leave one to spare. Two
  generations, one of them urgent, are an offer and a newer one; two lifecycle events
  one under way and one behind it.
- *Membership*. Two tasks and two panes allow a task to move, two to share a pane,
  and one pane to be left alone. One metadata write and one fault fall between any two
  awaits; with statuses 0 and 1 an edge and a level can be in either order. The
  instance starts from one of the states that differ by names only.
- *Home*. A third start is needed to meet the record that the second left; a hook's
  number needs another hook's to leave a gap. Both platforms are initial states of the
  one run. One reset: a second one meets a home the
  first has made.
- *Attention*. An add, a second add and an update of what it supersedes; two seconds
  and two nonces give items of equal and of different age, with ids that collide.
  Symmetric in runs and reasons.
- *Watchers*. Three status changes are a turn that starts, ends and one more edge
  while the first is being read; one pane, since a task's edges meet only in the
  ledger's counter. Two faults let the event bus take the driver over while a kill or
  a failed prompt has left something half done. A second watcher at the same time
  makes the state space too large for liveness with these bounds.

Every bound is a named constant. They only limit the environment's counters; no
bound removes a step of the code while it still has something to work on, which is
also why these runs do not check deadlock where all counters can be used up.

### Fairness

Safety runs assume none. `EveryGenerationAcked` assumes that a live adapter keeps
polling for an offer (weak fairness: both adapters poll on a timer) and, of what
is offered again and again, confirms some (strong fairness: a delivery may be
deferred, not for ever); that the client is run while something is delivered and
is not killed before its acknowledgement every time (strong fairness of `CliAck`).
The store itself does nothing unasked. The property fails as soon as the offers
of dead epochs are left in place, which is what its mutant does.

`EveryFollowUpResolves` assumes that deadlines and ages pass, that the daemon is
started again and from some point on does not crash, that its loop goes on
(`_pending_send_loop` sleeps a bounded time and reads each pane with a timeout),
and that a prompt call returns (it has a timeout). It assumes nothing of the panes.

`SpoolDrains` assumes that a run which holds the spool's lock goes on or dies (the
lock goes with it), that the daemon is started again and from some point on does
not die, and that `_spool_loop` and the import's own steps go on. It assumes
nothing of the hooks' sockets: an event whose frame is never answered is
committed by the import.

`EveryPaneSettles` assumes that `_run` scans again and again (at least every
`scan_interval`), that Herdr's answers and the drain have timeouts, and that consumer
tasks are scheduled; nothing of Herdr, the scripts or the order of the members.

`DischargesLedger` and `EventsArrive` assume that timers fire, frames that arrive are
read, handlers run, the session takes its wakes (a wake that fails is a fault and
bounded), and of the command line client what `EveryGenerationAcked` assumes.

`EveryGenerationRead` assumes that watchers are scheduled, and started again when
they end (the driver or its operator does that), that the driver reads its
prompts with a reconcile, that its turns end, and that a reconcile it sees fail is
run again. The watcher's subscription to the driver's own pane is what makes it
hold; its mutant passes those edges over.

## What is proved

Every safety invariant and every action property of a passing run is also a theorem,
for every value of the constants that the modules' assumptions allow: any number of
drivers, connections, sessions, tasks, panes, watchers, hooks and runs, and any bound.
Two of them, `ProjectionIsCurrent` and `SettledBumpsNothing`, are proved of a task
served by one session; `store_restart` shows that the second fails with two. Every system
module also has its type correctness proved (`TypeCorrect`,
`AdapterTypeCorrect`, `StoreTypeCorrect`).

Each proof has the same plan: an inductive invariant, one lemma per operation that
keeps it, and a step lemma that splits `Next` into the operations; the theorems follow
by temporal logic. What is told below is why the property is not inductive by itself.

### DeliveryLedgerProofs

| Theorem | Statement |
|---|---|
| `CursorsOrdered` | acked <= delivered <= latest |
| `DeliveredAlwaysConfirmed` | a delivered, unread generation has its confirmed offer |
| `SingleOutstandingOffer` | one unconfirmed offer per epoch, none of N+1 while N is unread |
| `OffersNeverCollide` | a chosen offer never meets an existing primary key |
| `DisabledHasNone` | a disabled driver keeps no registration, cursor or offer |
| `StaleEpochNeverDelivers` | the delivered cursor moves only by an offer of the current epoch |
| `CliAckIsHonest` | a client acknowledges only what it has printed for its driver |
| `LedgerImplementsWakeCursor` | the ledger refines `WakeCursor` |
| `AdapterObeysLedger` | the Pi adapter over its connections implements `DeliveryLedger` |
| `AdapterImplementsWakeCursor` | and so it refines `WakeCursor` |
| `WakeConsumedByItsOwn` | a generation is delivered only after its wake, by the connection with the registration |

The invariant is `IInv == TypeOK /\ \A d : DriverInv(d)`, per driver, since no step
but `Bump` touches two. It adds to the cursor and offer properties `RowsConsistent`:
every offer carries an epoch the driver has had and a generation that exists, what the
current epoch confirmed is covered by the delivered cursor, and a driver without
registration has no rows. Without these a new offer could meet an old row of the same
key, or a replaced epoch's confirmation stand for the current one. The refinement is
proved from the same invariant: the initial states map to initial states, and every
step to a step of `WakeCursor` or a stutter.

`CliAckIsHonest` needs that a client's printed generation stays in `reported`, and
that its acknowledgement covers no more than it printed, with bumps, reconnects,
confirmations and the driver's release between its two requests.

For the adapter, `AdapterIInv` adds to `IInv` the bounds and what the two ends of a
connection owe each other (`Local`): a confirmation that is queued, under way or on a
frame is for a wake that was put into the session on that connection. Every adapter
step is then a ledger operation within its
bounds or leaves the ledger alone, which is `AdapterObeysLedger`, the safety half of
`DischargesLedger`. Its liveness half stays with TLC.

### PendingSendsProofs

| Theorem | Statement |
|---|---|
| `SingleOpen` | one open follow-up per task |
| `AtMostOneSubmission` | a text is submitted to its pane at most once |
| `OutcomesHonest` | "delivered" is in the pane; "timeout" and "gone" never were and never will be |

The invariant adds to `OneOpenPerTask` what each row says of its own history
(`SendInv`): a row that waits, timed out or lost its pane was never submitted, and
what was not submitted has no coroutine and is not in the pane. The three callers of
`ClaimDeliverable` share one lemma.

### ProducerSpoolProofs

| Theorem | Statement |
|---|---|
| `NeverLost` | what was published is in the spool or committed |
| `NeverAGap` | the numbers in use are 1..n |
| `AckedOnce` | what was acknowledged is committed; nothing is committed twice |
| `ReuseNeedsATear` | a number comes twice only after a death between publication and counter |

Three strengthenings. `LockHeld`: a run that reserves, and an
import, hold the lock, so that no two reservations overlap. `CommittedFirst`: what
is acknowledged, or about to be unlinked, is committed. `Numbering`: the counter is
itself a number in use, and a number above it belongs to the run that is
reserving or to a torn one, which is why a new number can meet an old one only
there. `NextSeqIsNext` establishes from these what the code's `max` returns.

### LifecycleProofs

| Theorem | Statement |
|---|---|
| `QuiescenceIsHonest` | a session called quiescent had stopped with no job running at the last event that arrived |
| `CountIsHonest` | a certified background count is never short between turns |
| `OrderDoesNotMatter` | any order and repetition of arrival gives the in-order application; early events wait, none is lost |
| `StoreTypeCorrect` | the store's types, for sessions whose producers number their events in any way |
| `TuplesStayLegal` | every frozen row and the projection is a report tuple the wire encoder accepts |
| `NoNewsIsLost` | what the projection calls for is what the newest generation shows |
| `ProjectionFollows` | one session: the projection is the one of its current state |
| `SettledStaysQuiet` | one session: an observation that changes nothing publishes nothing |

`LogTells` says how the truth may have moved between two events of the log, `Good`
what a state claims of the truth at the event it accounts for (the foreground is true,
a fresh clear background is a certified empty one, the jobs unknown by name are no more
than counted) and that it is the in-order replay since the last connection change;
`Accounted` that what has arrived is applied or waits behind a gap. `Good` has to be
kept by each event that one call drains, and `LedgerKept` by each row that one
transaction observes, so an induction over what a step goes through lies inside the
induction over the steps. It is done with the least counterexample of a set of
naturals (`Least`, `Induct`), since the library's induction theorems take an operator;
the functions `ApplyAll` and `Observed` are shown to exist in the same way. The types of
the store need in addition that the run of early events ends, for whatever numbers wait
(`RunEnds`), and that the task's rows are of different sessions.

With several sessions the last observed row overwrites the projection, so
`ProjectionFollows` and `SettledStaysQuiet` have the hypothesis `Sessions = {s}`: they
are about a task that was never resumed.

### MembershipProofs

| Theorem | Statement |
|---|---|
| `RestingIsCovered` | a connected monitor at rest reads the active stream, which holds every member's pane or the pane has closed |
| `LevelsNeverOverride` | a level never takes a task behind what it was told of the same pane |
| `EdgesKeepTheRoute` | a task is told only of the pane it is a member with |

The monitor's fields mean different things at different points of `_replace`: at rest
the subscription is the active stream and carries the members and routes as they are,
from the first await on it carries the ones to go back to. `Coverage` and `Routing` say
which holds when, so that a rollback finds what it restores. `LevelInFlight` says that a
level read is not behind its task while the pane's epoch is the one noted before the
read, and `NothingAhead` that no queue is ahead of its pane.

### MonitorHomeProofs

| Theorem | Statement |
|---|---|
| `ListenerKeepsItsHome` | a listening daemon keeps its socket, its database and the lock |
| `OnlyCrashesStrand` | a start refuses a leftover socket only after a torn start or a reused pid; on Darwin only after the kill of a run that had made its socket |
| `ResetStartsFresh` | after a reset that no hook overlapped the numbers start at one without a gap |

`Ownership` says which run the socket, the record and the lock can name at each point of
a start and a close: a socket that no record names belongs to a start that was torn,
and a socket that is left over to a run that was killed.
`Contents` follows the reset: what it has listed does not change until it is removed,
what it has passed is gone, and in the fresh home a hook that reserved a number finds
every number below it in use.

### AttentionLedgerProofs

| Theorem | Statement |
|---|---|
| `SupersededLeadsOn` | a superseded item leads to one of the same reason, or to the add that was to make it |
| `AtMostOneActive` | one active item per reason, unless more were asked for |
| `HistoryIsKept` | no step removes an item, rewrites its log or touches a superseded item |
| `WalkIsComplete` | a walk through the pages shows every untouched active item once |

For the files: a run between its first write and its last holds the lock, and the
temporary file it has written is still what it would write now (`TempCurrent`), so no
rename overwrites another run's change. For the walk: an item that no run has touched is
shown once if the cursor has passed it, and not at all otherwise, and until the page is
cut it is still to be read or was read as it is (`Untouched`). `Sorted` shows of any
finite set of records that the listing has each once, at its rank, by the pigeonhole
principle; the cursor is then the last record of the page before.

### WatchLedgerProofs

| Theorem | Statement |
|---|---|
| `LedgerIsSound` | the ledger stays usable; an acknowledged generation was printed in a whole report, is about to be printed, or lost its report to a kill or a task left out; and the ledger is drained at the cutover |
| `CursorsNeverGoBack` | no late writer takes a cursor back |

For any number of overlapping watchers and tasks, where the run has one watcher at a
time. `HeldExists`: no watcher holds a generation that the ledger has not reached.
`ReaderInOrder`: a whole report covers the generation read before it was gathered, which
is the one acknowledged, and between the reader's two files there is no cutover.

### Assumptions, and what is not proved

The assumptions are those of the modules: bounds are natural numbers; the sets of hooks,
hook runs, attention runs and nonces, sessions and jobs are finite, as sets of
processes, rows and fixed-length ids are; there are two streams; markers differ from
what they mark; a page has at least one item; and in `PiAdapter` the Pi session is one
of the drivers.

Left to TLC are the liveness properties and their fairness, which the provers cannot
treat (`EveryGenerationAcked`, `EveryFollowUpResolves`, `SpoolDrains`,
`EveryPaneSettles`, `DischargesLedger`, `EventsArrive`, `EveryGenerationRead`), and of
course the two violated ones. The proofs are about the modules: that these are faithful
to the code is for the reader of the mapped lines to judge.

## What is not modelled

- The text of handoff files, frames and messages; time as a number. Deadlines are
  flags that pass.
- SQLite: a transaction either commits or did not happen; the schema migrations
  at start-up run before anything else and are not interleaved with anything.
- Authorisation and path handling of the scripts, rendering, reports.
- In `EventStore`: several tasks (a generation freezes all of them; the models
  follow one), `rebuild_projections` (refused once a generation exists), an
  `event_id` seen before (a transaction that writes nothing).
- In `LifecycleReplay`: a sequence number used twice by a producer; when that can
  happen is the subject of `ProducerSpool`.
- In `ProducerSpool`: several sessions (their counters are separate files; they
  share the spool and its lock), the loss of the host with unsynced files, and
  files that are malformed or not the daemon's, which it counts and keeps.
- `ConnectionObserved` is an operation of the reducer and the store that the
  daemon itself does not call with a connection fact.
- In `PiAdapter`: other connections (so the cap on them and the read deadline),
  events the daemon refuses, the crew role (without registration and polls), the
  coalescer's `poll`, which tests use.
- In `Membership`: close(), and the debounce, which only delays a scan.
- In `MonitorHome`: `start`'s waiting for health and `proven_owner`, which read, and
  `stop`, which asks the daemon to close; checks of owners and modes.
- In `AttentionLedger`: the readers `show`, `doctor`, `export`, `prime`; tags,
  priorities, texts and the filters of `list` but its default.
- In `WatchLedger`: the reason of an action and the handoff file it is taken from,
  `gone` edges (Herdr's stream carries none), panes without a revision, tasks flagged
  for the event bus (their edges never bump), retry counts and error texts. A
  `--once` watcher is one that ends. The Codex backend has no edge of the driver
  to wait for and prompts at once. One reconcile at a time: the ack file is
  single-writer by its own comment (`rzr-lib.sh:1135`).
- The home lock, the Claude poller, the Codex adapter, registration, the schema migrations, the
  other scripts and reports: see the components in `PROJECT.json`.

## Plan

Done: the daemon's parts (ledger, follow-ups, reducer, event store, membership, home),
the producer's outbox, the Pi client over the ledger, the attention ledger, the
legacy watchers with their ledger. Left, in this order:

1. The reply of an enqueue, as a field of the follow-up model; the Codex adapter's
   sequence numbers, as another producer of `LifecycleReplay`.
2. The Claude poller, a second adapter beside `PiAdapter`, with the connection cap.
3. The home lock of spawn and resume; two watchers of one driver at the same time.
4. Proofs: the spool as an implementation of a lossless log; the Claude poller as an
   implementation of the delivery ledger, as `AdapterObeysLedger` has it for Pi; of a task
   with several sessions, what its projection does promise.
