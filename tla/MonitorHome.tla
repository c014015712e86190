------------------------------ MODULE MonitorHome ------------------------------
(***************************************************************************)
(* Who may touch what in ROZORO_HOME: runs of the daemon (rozorod: start and  *)
(* close of lib/rozoro_monitor/server.py), a run of `rozoro monitor reset     *)
(* --force` (bin/rzr-monitor.py) and hooks that reserve an event              *)
(* (lib/rozoro_monitor/client.py).  The daemon and the reset exclude each     *)
(* other by a flock on monitor.lock; hooks know only the spool's own .lock.    *)
(* All are processes of their own and may be killed between two steps.        *)
(*                                                                          *)
(* A directory or a file that is removed and made again is another one: who    *)
(* still has the old one open works on something without a name.  So a process *)
(* records which of the things it has open still have their name.  One session *)
(* is modelled: one counter file.                                            *)
(***************************************************************************)
EXTENDS Naturals, FiniteSets, FiniteSetsExt

CONSTANTS
    Runs,     \* runs of the daemon, each a process with one socket
    Hooks,    \* hook runs, each with its own event
    Reset,    \* the reset, as the holder of monitor.lock
    NoOne     \* nobody

ASSUME HomeAssumption ==
    /\ IsFiniteSet(Hooks)
    /\ Reset \notin Runs /\ NoOne \notin Runs /\ Reset # NoOne

VARIABLES
    lock,      \* holder of monitor.lock
    owner,     \* the run its record names, with the identity of its socket
    socket,    \* the run whose socket the entry monitor.sock is
    run,       \* [Runs -> RunState]
    prev,      \* [Runs -> the recorded owner it has proven dead, or NoOne], until used
    torn,      \* runs killed between the making of their socket and the record
    store,     \* runs that have open the database named monitor.db
    log,       \* what that database has accepted, one envelope after the other
    there,     \* the Things that exist
    counter,   \* what the counter file says
    spool,     \* the envelopes in the spool
    hook,      \* [Hooks -> Hook] how far each hook is
    reset,     \* the reset's progress and its listings
    overlap,   \* some hook and the reset were under way at the same time
    darwin     \* sys.platform is darwin

daemonVars == <<lock, owner, socket, run, prev, torn>>
homeVars == <<store, log, there, counter, spool>>
vars == <<daemonVars, homeVars, hook, reset, overlap, darwin>>

-----------------------------------------------------------------------------
Things == {"monitor.db", "spool", "spool/.lock", "producer-seq", "counter"}

RunState == {"idle", "locked", "prepared", "opened", "imported", "bound", "up",
             "closing", "exited", "refused", "stranded", "killed"}

Envelope == [hook: Hooks, seq: Nat]

HookState == {"idle", "open", "locked", "reserved", "published", "prepared",
              "acked", "done", "failed", "dead"}

(* `open` is what the hook has open under its name.                           *)
Hook == [pc: HookState, open: SUBSET Things, seq: Nat]

ResetState == {"idle", "locked", "listing", "listed", "no db", "no counter",
               "no producer-seq", "no envelopes", "ok", "refused", "dead"}

(* What the preflight found: the Things, and the envelopes by their hook.        *)
Listing == [pc: ResetState, things: SUBSET Things, envelopes: SUBSET Hooks]

TypeOK ==
    /\ lock \in Runs \union {Reset, NoOne}
    /\ owner \in Runs \union {NoOne} /\ socket \in Runs \union {NoOne}
    /\ run \in [Runs -> RunState]
    /\ prev \in [Runs -> Runs \union {NoOne}]
    /\ torn \subseteq Runs /\ store \subseteq Runs
    /\ log \subseteq Envelope
    /\ there \subseteq Things
    /\ counter \in Nat
    /\ spool \subseteq Envelope
    /\ hook \in [Hooks -> Hook]
    /\ reset \in Listing
    /\ overlap \in BOOLEAN /\ darwin \in BOOLEAN

Init ==
    /\ lock = NoOne /\ owner = NoOne /\ socket = NoOne
    /\ run = [r \in Runs |-> "idle"]
    /\ prev = [r \in Runs |-> NoOne]
    /\ torn = {} /\ store = {} /\ log = {}
    /\ there = {}
    /\ counter = 0
    /\ spool = {}
    /\ hook = [p \in Hooks |-> [pc |-> "idle", open |-> {}, seq |-> 0]]
    /\ reset = [pc |-> "idle", things |-> {}, envelopes |-> {}]
    /\ overlap = FALSE
    /\ darwin \in BOOLEAN

Goes(r, where) == run' = [run EXCEPT ![r] = where]

(* The process of a run: its pid answers, its listener accepts.               *)
Alive(r) == run[r] \notin {"idle", "exited", "refused", "stranded", "killed"}
Listening(r) == run[r] \in {"bound", "up"}

(* A run that uses its database.                                             *)
HasStore(r) == run[r] \in {"opened", "imported", "bound", "up", "closing"}

-----------------------------------------------------------------------------
(* _acquire_lock, and the record of the previous owner: it is dead if its pid  *)
(* answers to nobody, which another process with the same pid may prevent.     *)
AcquireLock(r) ==
    /\ run[r] = "idle"
    /\ IF lock # NoOne
       THEN Goes(r, "refused") /\ UNCHANGED <<lock, prev>>
       ELSE /\ lock' = r
            /\ Goes(r, "locked")
            /\ \E reused \in BOOLEAN :
                 prev' = [prev EXCEPT ![r] =
                            IF reused \/ owner = NoOne \/ Alive(owner) THEN NoOne
                            ELSE owner]
    /\ UNCHANGED <<owner, socket, torn, homeVars, hook, reset>>

(* A leftover socket that a start may remove: the recorded owner is dead, the   *)
(* socket is the recorded one and connecting to it is refused.  On Darwin a     *)
(* live socket may refuse too, and none is ever removed.                      *)
Stale(r) == ~darwin /\ socket = prev[r] /\ ~Listening(socket)

PrepareEntries(r) ==
    /\ run[r] = "locked"
    /\ IF socket = NoOne \/ Stale(r)
       THEN /\ socket' = NoOne
            /\ prev' = [prev EXCEPT ![r] = NoOne]
            /\ Goes(r, "prepared")
            /\ UNCHANGED lock
       ELSE lock' = NoOne /\ Goes(r, "stranded") /\ UNCHANGED <<socket, prev>>
    /\ UNCHANGED <<owner, torn, homeVars, hook, reset>>

(* EventStore(db_path) makes the database if there is none.                   *)
OpenStore(r) ==
    /\ run[r] = "prepared"
    /\ there' = there \union {"monitor.db"}
    /\ store' = store \union {r}
    /\ Goes(r, "opened")
    /\ UNCHANGED <<lock, owner, socket, prev, torn, log, counter, spool, hook, reset>>

(* Somebody has the flock on the .lock that is in the spool now.              *)
SpoolLocked ==
    \E p \in Hooks : /\ hook[p].pc \in {"locked", "reserved", "published"}
                     /\ "spool/.lock" \in hook[p].open

(* _import_spool, at the start and then every second; the module ProducerSpool *)
(* has its steps.                                                            *)
ImportSpool(r) ==
    /\ run[r] \in {"opened", "up"}
    /\ ~SpoolLocked
    /\ there' = there \union {"spool", "spool/.lock"}
    /\ log' = log \union spool
    /\ spool' = {}
    /\ IF run[r] = "opened" THEN Goes(r, "imported") ELSE UNCHANGED run
    /\ UNCHANGED <<lock, owner, socket, prev, torn, store, counter, hook, reset>>

(* bind and listen: the entry is new.                                        *)
Bind(r) ==
    /\ run[r] = "imported"
    /\ socket = NoOne
    /\ socket' = r
    /\ Goes(r, "bound")
    /\ UNCHANGED <<lock, owner, prev, torn, homeVars, hook, reset>>

(* Mutant: the record is written for the first owner only.                    *)
RecordFirstOwner(r) ==
    /\ run[r] = "bound"
    /\ owner' = IF owner = NoOne THEN r ELSE owner
    /\ Goes(r, "up")
    /\ UNCHANGED <<lock, socket, prev, torn, homeVars, hook, reset>>

(* _record_owner.                                                           *)
RecordOwner(r) ==
    /\ run[r] = "bound"
    /\ owner' = r
    /\ Goes(r, "up")
    /\ UNCHANGED <<lock, socket, prev, torn, homeVars, hook, reset>>

(* A signal or monitor.stop: close() closes the listener first ...            *)
CloseListener(r) ==
    /\ run[r] = "up"
    /\ Goes(r, "closing")
    /\ UNCHANGED <<lock, owner, socket, prev, torn, homeVars, hook, reset>>

(* ... then the store, removes the socket if it is its own, frees the lock.    *)
CloseHome(r) ==
    /\ run[r] = "closing"
    /\ store' = store \ {r}
    /\ socket' = IF socket = r THEN NoOne ELSE socket
    /\ lock' = NoOne
    /\ Goes(r, "exited")
    /\ UNCHANGED <<owner, prev, torn, log, there, counter, spool, hook, reset>>

(* SIGKILL: the kernel closes the listener and frees the lock.                *)
Kill(r) ==
    /\ Alive(r)
    /\ lock' = NoOne
    /\ store' = store \ {r}
    /\ torn' = IF run[r] = "bound" THEN torn \union {r} ELSE torn
    /\ Goes(r, "killed")
    /\ UNCHANGED <<owner, socket, prev, log, there, counter, spool, hook, reset>>

-----------------------------------------------------------------------------
At(p, where) == hook[p].pc = where

(* The end of a hook: the kernel closes what it has open.                     *)
HookEnds(p, how) == hook' = [hook EXCEPT ![p] = [pc |-> how, open |-> {}, seq |-> 0]]

HookFails(p) ==
    /\ HookEnds(p, "failed")
    /\ UNCHANGED <<daemonVars, homeVars, reset>>

(* prepare_event opens both directories, making what is missing, ...          *)
OpenDirs(p) ==
    /\ At(p, "idle")
    /\ there' = there \union {"spool", "producer-seq"}
    /\ hook' = [hook EXCEPT ![p].pc = "open", ![p].open = {"spool", "producer-seq"}]
    /\ UNCHANGED <<daemonVars, store, log, counter, spool, reset>>

(* ... waits for the spool's .lock, ...                                      *)
LockSpool(p) ==
    /\ At(p, "open")
    /\ IF "spool" \notin hook[p].open
       THEN HookFails(p)
       ELSE /\ ~SpoolLocked
            /\ there' = there \union {"spool/.lock"}
            /\ hook' = [hook EXCEPT ![p].pc = "locked",
                                    ![p].open = @ \union {"spool/.lock"}]
            /\ UNCHANGED <<daemonVars, store, log, counter, spool, reset>>

(* What a listing of its spool directory shows a hook.                       *)
Reserved(p) == IF "spool" \in hook[p].open THEN {e.seq : e \in spool} ELSE {}

NextSeq(p) == 1 + Max({counter} \union Reserved(p))

(* ... opens the counter, making it if it is missing, takes the number after   *)
(* the counter and the spool, ...                                            *)
Reserve(p) ==
    /\ At(p, "locked")
    /\ IF "producer-seq" \notin hook[p].open
       THEN HookFails(p)
       ELSE /\ there' = there \union {"counter"}
            /\ hook' = [hook EXCEPT ![p].pc = "reserved",
                                    ![p].open = @ \union {"counter"},
                                    ![p].seq = NextSeq(p)]
            /\ UNCHANGED <<daemonVars, store, log, counter, spool, reset>>

(* ... publishes the envelope by a rename, ...                               *)
Publish(p) ==
    /\ At(p, "reserved")
    /\ IF "spool" \notin hook[p].open
       THEN HookFails(p)
       ELSE /\ spool' = spool \union {[hook |-> p, seq |-> hook[p].seq]}
            /\ hook' = [hook EXCEPT ![p].pc = "published"]
            /\ UNCHANGED <<daemonVars, store, log, there, counter, reset>>

(* ... and saves the counter, in the file it has open.                        *)
SaveCounter(p) ==
    /\ At(p, "published")
    /\ counter' = IF "counter" \in hook[p].open THEN hook[p].seq ELSE counter
    /\ hook' = [hook EXCEPT ![p].pc = "prepared"]
    /\ UNCHANGED <<daemonVars, store, log, there, spool, reset>>

(* The exchange with whichever daemon listens: an ACK after the commit.       *)
Send(p) ==
    /\ At(p, "prepared")
    /\ IF \E r \in Runs : run[r] = "up" /\ socket = r
       THEN /\ log' = log \union {[hook |-> p, seq |-> hook[p].seq]}
            /\ hook' = [hook EXCEPT ![p].pc = "acked"]
            /\ UNCHANGED <<daemonVars, store, there, counter, spool, reset>>
       ELSE HookFails(p)

(* _remove_reserved: by name, under the lock, in whatever spool there is.      *)
RemoveReserved(p) ==
    /\ At(p, "acked")
    /\ ~SpoolLocked
    /\ there' = there \union {"spool", "spool/.lock"}
    /\ spool' = spool \ {[hook |-> p, seq |-> hook[p].seq]}
    /\ HookEnds(p, "done")
    /\ UNCHANGED <<daemonVars, store, log, counter, reset>>

HookDies(p) ==
    /\ hook[p].pc \notin {"idle", "done", "failed", "dead"}
    /\ HookEnds(p, "dead")
    /\ UNCHANGED <<daemonVars, homeVars, reset>>

-----------------------------------------------------------------------------
(* Mutant: the reset does not ask for the daemon's lock.                      *)
ResetUnlocked ==
    /\ reset.pc = "idle"
    /\ reset' = [reset EXCEPT !.pc = "locked"]
    /\ UNCHANGED <<daemonVars, homeVars, hook>>

(* `monitor reset --force` takes monitor.lock or is refused.                  *)
ResetLock ==
    /\ reset.pc = "idle"
    /\ IF lock = NoOne
       THEN lock' = Reset /\ reset' = [reset EXCEPT !.pc = "locked"]
       ELSE reset' = [reset EXCEPT !.pc = "refused"] /\ UNCHANGED lock
    /\ UNCHANGED <<owner, socket, run, prev, torn, homeVars, hook>>

(* Mutant: the preflight and so the removal are about the database alone.       *)
ListDatabase ==
    /\ reset.pc = "locked"
    /\ reset' = [reset EXCEPT !.pc = "listing",
                              !.things = there \intersect {"monitor.db"}]
    /\ UNCHANGED <<daemonVars, homeVars, hook>>

(* Its preflight lists the database and producer-seq, then the spool.          *)
ListCounters ==
    /\ reset.pc = "locked"
    /\ reset' = [reset EXCEPT !.pc = "listing",
                    !.things = there \intersect {"monitor.db", "producer-seq", "counter"}]
    /\ UNCHANGED <<daemonVars, homeVars, hook>>

ListSpool ==
    /\ reset.pc = "listing"
    /\ reset' = [reset EXCEPT !.pc = "listed",
                              !.things = @ \union (there \intersect {"spool", "spool/.lock"}),
                              !.envelopes = {e.hook : e \in spool}]
    /\ UNCHANGED <<daemonVars, homeVars, hook>>

ResetProceeds(where) ==
    /\ reset' = [reset EXCEPT !.pc = where]
    /\ UNCHANGED daemonVars

ResetEnds(how) ==
    /\ lock' = NoOne
    /\ reset' = [reset EXCEPT !.pc = how]
    /\ UNCHANGED <<owner, socket, run, prev, torn>>

(* These lose their name; hooks go on with what they have open.               *)
Unlink(things) ==
    /\ there' = there \ things
    /\ hook' = [p \in Hooks |-> [hook[p] EXCEPT !.open = @ \ things]]

RemoveDatabase ==
    /\ reset.pc = "listed"
    /\ Unlink(reset.things \intersect {"monitor.db"}) /\ ResetProceeds("no db")
    /\ store' = IF "monitor.db" \in reset.things THEN {} ELSE store
    /\ log' = IF "monitor.db" \in reset.things THEN {} ELSE log
    /\ UNCHANGED <<counter, spool>>

(* What was listed is unlinked by name ...                                   *)
RemoveCounter ==
    /\ reset.pc = "no db"
    /\ Unlink(reset.things \intersect {"counter"}) /\ ResetProceeds("no counter")
    /\ counter' = IF "counter" \in reset.things THEN 0 ELSE counter
    /\ UNCHANGED <<store, log, spool>>

(* ... and the directory with it, unless something new is in it.              *)
RemoveProducerSeq ==
    /\ reset.pc = "no counter"
    /\ IF "producer-seq" \in reset.things /\ "counter" \in there
       THEN ResetEnds("refused") /\ UNCHANGED <<there, hook>>
       ELSE /\ Unlink(reset.things \intersect {"producer-seq"})
            /\ ResetProceeds("no producer-seq")
    /\ UNCHANGED <<store, log, counter, spool>>

(* An envelope that its hook removed meanwhile is missed by unlink.            *)
RemoveEnvelopes ==
    /\ reset.pc = "no producer-seq"
    /\ IF reset.envelopes \subseteq {e.hook : e \in spool}
       THEN /\ spool' = {e \in spool : e.hook \notin reset.envelopes}
            /\ Unlink(reset.things \intersect {"spool/.lock"})
            /\ ResetProceeds("no envelopes")
       ELSE \E some \in SUBSET (reset.envelopes \intersect {e.hook : e \in spool}) :
              /\ spool' = {e \in spool : e.hook \notin some}
              /\ ResetEnds("refused")
              /\ UNCHANGED <<there, hook>>
    /\ UNCHANGED <<store, log, counter>>

RemoveSpool ==
    /\ reset.pc = "no envelopes"
    /\ IF "spool" \in reset.things /\ (spool # {} \/ "spool/.lock" \in there)
       THEN ResetEnds("refused") /\ UNCHANGED <<there, hook>>
       ELSE Unlink(reset.things \intersect {"spool"}) /\ ResetEnds("ok")
    /\ UNCHANGED <<store, log, counter, spool>>

ResetDies ==
    /\ reset.pc \notin {"idle", "ok", "refused", "dead"}
    /\ ResetEnds("dead")
    /\ UNCHANGED <<homeVars, hook>>

-----------------------------------------------------------------------------
Daemon(r) ==
    \/ AcquireLock(r) \/ PrepareEntries(r) \/ OpenStore(r) \/ ImportSpool(r)
    \/ Bind(r) \/ RecordOwner(r) \/ CloseListener(r) \/ CloseHome(r) \/ Kill(r)

Producer(p) ==
    \/ OpenDirs(p) \/ LockSpool(p) \/ Reserve(p) \/ Publish(p) \/ SaveCounter(p)
    \/ Send(p) \/ RemoveReserved(p) \/ HookDies(p)

Resetting ==
    \/ ResetLock \/ ListCounters \/ ListSpool
    \/ RemoveDatabase \/ RemoveCounter \/ RemoveProducerSeq
    \/ RemoveEnvelopes \/ RemoveSpool \/ ResetDies

HookUnderWay == \E p \in Hooks : hook[p].pc \notin {"idle", "done", "failed", "dead"}
ResetUnderWay == reset.pc \notin {"idle", "ok", "refused", "dead"}

(* Bookkeeping of every step, for the properties.                            *)
Overlap == overlap' = (overlap \/ (HookUnderWay /\ ResetUnderWay)')

Next ==
    /\ \/ \E r \in Runs : Daemon(r)
       \/ \E p \in Hooks : Producer(p)
       \/ Resetting
    /\ Overlap
    /\ UNCHANGED darwin

Spec == Init /\ [][Next]_vars

-----------------------------------------------------------------------------
(* A listening daemon keeps its endpoint and its database: no start, refused    *)
(* start, close, kill or reset of another process takes the socket's name or    *)
(* the database's from it.                                                   *)
DaemonKeepsItsHome ==
    \A r \in Runs :
        /\ Listening(r) => socket = r
        /\ HasStore(r) => r \in store /\ lock = r

(* A start finds a socket it will not remove only after a crash.  On Darwin any  *)
(* kill of a run that has made its socket is enough, an orderly close is not.     *)
(* Elsewhere the run that made it was killed before it could record it, or the   *)
(* recorded pid belongs to somebody else by now: there a kill -9 of a daemon      *)
(* that is up needs no operator (_prepare_entries, close).                      *)
StrandedOnlyByCrash ==
    \A r \in Runs : run[r] = "stranded" =>
        IF darwin THEN socket \in Runs /\ run[socket] = "killed"
        ELSE socket \in torn \/ prev[r] = NoOne

(* The numbers in a log and in the spool that feeds it.                       *)
Numbers == {e.seq : e \in log \union spool}

Gapless(numbers) == \A n \in numbers : \A m \in 1..n : m \in numbers

(* After a reset that reported success the fresh log and the spool that feeds   *)
(* it are numbered from one without a gap, whatever ran before and after, if     *)
(* no hook was under way during it.                                           *)
FreshLogStartsAtOne ==
    reset.pc = "ok" /\ ~overlap => Gapless(Numbers)

=============================================================================
