---------------------------- MODULE AttentionLedger ----------------------------
(***************************************************************************)
(* The watchtower's attention ledger (.agents/skills/watchtower-attention-   *)
(* ledger/scripts/ledger.py): one file per attention item, written by        *)
(* commands that are processes of their own and take a flock, read by        *)
(* commands that take none.                                                  *)
(*                                                                          *)
(* One task is modelled, so a (task, reason) pair is a reason and an item id, *)
(* <stamp>-<task>-<nonce>, is the pair of its second and its nonce.  A writer *)
(* is one run of `add` or `update` and may die between any two file           *)
(* operations, which frees its lock.  The reader is one page walk of `list`;  *)
(* `prime`, `doctor` and `export` are walks of one unlimited page.            *)
(***************************************************************************)
EXTENDS Naturals, FiniteSets, SequencesExt

CONSTANTS
    Writers,    \* runs of add and update
    Reasons,    \* attention reasons of the task
    Nonces,     \* the random part of an id, natural numbers
    MaxClock,   \* bound of the clock, in seconds
    Limit,      \* list --limit
    NoOne,      \* the holder of a free lock
    NoId        \* superseded_by: none

ASSUME LedgerAssumption ==
    /\ IsFiniteSet(Writers)
    /\ NoOne \notin Writers
    /\ MaxClock \in Nat \ {0} /\ Nonces \subseteq Nat /\ IsFiniteSet(Nonces)
    /\ Limit \in Nat \ {0}
    /\ NoId \notin (1..MaxClock) \X Nonces

VARIABLES
    clock,     \* the wall clock, to the second
    lock,      \* holder of attention.lock
    items,     \* [Ids -> {Missing, Torn} \union Item] the items directory
    pc,        \* [Writers -> PC] how far each run is
    cmd,       \* [Writers -> Command] what it was asked to do
    temp,      \* [Writers -> the .tmp- file it has written, or NoTemp]
    walk       \* the reader

vars == <<clock, lock, items, pc, cmd, temp, walk>>

-----------------------------------------------------------------------------
Ids == (1..MaxClock) \X Nonces

Statuses == {"open", "handled", "deferred", "superseded"}

LogLine == [old: Statuses \union {"new"}, new: Statuses]

(* `kept` is not in the file: it remembers an add with --no-supersede.        *)
Item == [reason: Reasons, status: Statuses, updated: 1..MaxClock,
         superseded_by: Ids \union {NoId}, resume_when: BOOLEAN, kept: BOOLEAN,
         handling_log: Seq(LogLine)]

Missing == [file |-> "missing"]

(* A file whose writer died within write_exclusive, or is still there: its    *)
(* name exists and its content does not parse.                               *)
Torn == [file |-> "torn"]

NoTemp == [file |-> "none"]

NoCommand == [op |-> "none"]

Present(id) == items[id] # Missing

Parses(id) == items[id] \notin {Missing, Torn}

(* Attention still in the active view.                                      *)
Active(id) == Parses(id) /\ items[id].status \in {"open", "deferred"}

(* By (stamp, nonce), the order of the ids as strings.                      *)
Before(x, y) == x[1] < y[1] \/ (x[1] = y[1] /\ x[2] < y[2])

-----------------------------------------------------------------------------
(* `--status`, absent or one of three, and whether `--resume-when` is given.  *)
Updates == [op: {"update"}, id: Ids, at: 1..MaxClock,
            status: {"same", "open", "handled", "deferred"}, resume: BOOLEAN]

(* `keep` is --no-supersede.                                                *)
Adds == [op: {"add"}, id: Ids, at: 1..MaxClock, reason: Reasons, keep: BOOLEAN]

PC == {"idle", "waiting", "locked", "replacing", "creating", "done", "failed", "dead"}

(* One page of the walk: the names still to read of the listing, and the      *)
(* (updated_utc, id) of the selected ones.  `shown` is what the earlier pages *)
(* printed, in order.  `written` remembers the items a writer has changed     *)
(* since the walk began.                                                     *)
Walk == [phase: {"idle", "page", "between", "done"}, names: SUBSET Ids,
         got: SUBSET ((1..MaxClock) \X Ids),
         cursor: Seq((1..MaxClock) \X Ids), shown: Seq(Ids), written: SUBSET Ids]

TypeOK ==
    /\ clock \in 1..MaxClock
    /\ lock \in Writers \union {NoOne}
    /\ items \in [Ids -> Item \union {Missing, Torn}]
    /\ pc \in [Writers -> PC]
    /\ \A w \in Writers :
         /\ cmd[w] \in Updates \union Adds \union {NoCommand}
         /\ temp[w] \in {NoTemp} \union [id: Ids, item: Item]
    /\ walk \in Walk

Init ==
    /\ clock = 1
    /\ lock = NoOne
    /\ items = [id \in Ids |-> Missing]
    /\ pc = [w \in Writers |-> "idle"]
    /\ cmd = [w \in Writers |-> NoCommand]
    /\ temp = [w \in Writers |-> NoTemp]
    /\ walk = [phase |-> "idle", names |-> {}, got |-> {}, cursor |-> <<>>,
               shown |-> <<>>, written |-> {}]

Become(w, where) == pc' = [pc EXCEPT ![w] = where]

(* The end of a run that did what it was asked.                              *)
Exit(w) ==
    /\ lock' = NoOne
    /\ cmd' = [cmd EXCEPT ![w] = NoCommand]
    /\ Become(w, "done")

(* What a step of a writer does to an item, and to the walk's memory of it.   *)
Put(id, content) ==
    /\ items' = [items EXCEPT ![id] = content]
    /\ walk' = [walk EXCEPT !.written = @ \union {id}]

-----------------------------------------------------------------------------
(* The command line is parsed and `now`, and with it the id of an added item, *)
(* is fixed before the lock is asked for.  The id of an update comes from an   *)
(* earlier listing, so the item exists: nothing removes one.                  *)
Start(w) ==
    /\ pc[w] = "idle"
    /\ \E c \in Updates \union Adds :
         /\ c.at = clock
         /\ IF c.op = "add" THEN c.id[1] = clock ELSE Present(c.id)
         /\ cmd' = [cmd EXCEPT ![w] = c]
    /\ Become(w, "waiting")
    /\ UNCHANGED <<clock, lock, items, temp, walk>>

(* Mutant: no lock is taken.                                                *)
NoLocking(w) ==
    /\ pc[w] = "waiting"
    /\ lock' = w
    /\ Become(w, "locked")
    /\ UNCHANGED <<clock, items, cmd, temp, walk>>

(* acquire_lock.                                                            *)
AcquireLock(w) ==
    /\ pc[w] = "waiting"
    /\ lock = NoOne
    /\ lock' = w
    /\ Become(w, "locked")
    /\ UNCHANGED <<clock, items, cmd, temp, walk>>

(* All LOCK_ATTEMPTS found the lock held: "locked by another writer".         *)
GiveUp(w) ==
    /\ pc[w] = "waiting"
    /\ lock # NoOne
    /\ Become(w, "failed")
    /\ UNCHANGED <<clock, lock, items, cmd, temp, walk>>

(* An error exit under the lock.                                            *)
Fail(w) ==
    /\ lock' = NoOne
    /\ Become(w, "failed")
    /\ UNCHANGED <<clock, items, cmd, temp, walk>>

-----------------------------------------------------------------------------
(* supersede_matches: the attention an add replaces, in the order of the      *)
(* names; a file that does not parse is left alone.                          *)
Matches(c) == IF c.keep THEN {}
              ELSE {id \in Ids : Active(id) /\ items[id].reason = c.reason}

FirstOf(ids) == CHOOSE x \in ids : \A y \in ids \ {x} : Before(x, y)

(* Mutant: the item names as its successor whatever it had there.             *)
SupersededItemUnnamed(w, i) ==
    [i EXCEPT !.status = "superseded",
              !.updated = cmd[w].at,
              !.handling_log = Append(@, [old |-> "superseded", new |-> "superseded"])]

(* The log line is written after the status, so its old status is already     *)
(* the new one.                                                             *)
SupersededItem(w, i) ==
    [i EXCEPT !.status = "superseded",
              !.superseded_by = cmd[w].id,
              !.updated = cmd[w].at,
              !.handling_log = Append(@, [old |-> "superseded", new |-> "superseded"])]

(* atomic_write, first half: the replacement is complete in its .tmp- file.   *)
WriteSuperseded(w) ==
    /\ pc[w] = "locked" /\ cmd[w].op = "add"
    /\ Matches(cmd[w]) # {}
    /\ LET id == FirstOf(Matches(cmd[w]))
       IN  temp' = [temp EXCEPT ![w] = [id |-> id, item |-> SupersededItem(w, items[id])]]
    /\ Become(w, "replacing")
    /\ UNCHANGED <<clock, lock, items, cmd, walk>>

(* What an update makes of the item: resume_when goes with the deferral        *)
(* unless it is given again.                                                 *)
UpdatedItem(w, i) ==
    LET c == cmd[w]
        new == IF c.status = "same" THEN i.status ELSE c.status
    IN  [i EXCEPT !.status = new,
                  !.resume_when = c.resume \/ (@ /\ new = "deferred"),
                  !.updated = c.at,
                  !.handling_log = Append(@, [old |-> i.status, new |-> new])]

(* Mutant: a superseded item may be updated like any other.                   *)
UpdatableAny(w) ==
    LET id == cmd[w].id
    IN  /\ Parses(id)
        /\ LET i == UpdatedItem(w, items[id])
           IN  i.status = "deferred" => i.resume_when

(* cmd_update refuses a missing, malformed or superseded item, and a deferral *)
(* without a condition.                                                     *)
Updatable(w) ==
    LET id == cmd[w].id
    IN  /\ Parses(id)
        /\ items[id].status # "superseded"
        /\ LET i == UpdatedItem(w, items[id])
           IN  i.status = "deferred" => i.resume_when

WriteUpdate(w) ==
    /\ pc[w] = "locked" /\ cmd[w].op = "update"
    /\ IF Updatable(w)
       THEN /\ LET id == cmd[w].id
               IN  temp' = [temp EXCEPT ![w] =
                              [id |-> id, item |-> UpdatedItem(w, items[id])]]
            /\ Become(w, "replacing")
            /\ UNCHANGED <<clock, lock, items, cmd, walk>>
       ELSE Fail(w)

(* atomic_write, second half: the rename.  An update is done, an add goes on. *)
Replace(w) ==
    /\ pc[w] = "replacing"
    /\ Put(temp[w].id, temp[w].item)
    /\ temp' = [temp EXCEPT ![w] = NoTemp]
    /\ IF cmd[w].op = "add"
       THEN Become(w, "locked") /\ UNCHANGED <<lock, cmd>>
       ELSE Exit(w)
    /\ UNCHANGED clock

(* write_exclusive creates the new item's file ...                            *)
Create(w) ==
    /\ pc[w] = "locked" /\ cmd[w].op = "add"
    /\ Matches(cmd[w]) = {}
    /\ IF Present(cmd[w].id)
       THEN Fail(w)
       ELSE /\ Put(cmd[w].id, Torn)
            /\ Become(w, "creating")
            /\ UNCHANGED <<clock, lock, cmd, temp>>

(* ... and fills it.                                                        *)
Fill(w) ==
    /\ pc[w] = "creating"
    /\ Put(cmd[w].id,
           [reason |-> cmd[w].reason, status |-> "open", updated |-> cmd[w].at,
            superseded_by |-> NoId, resume_when |-> FALSE, kept |-> cmd[w].keep,
            handling_log |-> <<[old |-> "new", new |-> "open"]>>])
    /\ Exit(w)
    /\ UNCHANGED <<clock, temp>>

(* The process dies; the kernel frees its lock, its temporary file stays.     *)
Die(w) ==
    /\ pc[w] \in {"waiting", "locked", "replacing", "creating"}
    /\ lock' = IF lock = w THEN NoOne ELSE lock
    /\ Become(w, "dead")
    /\ UNCHANGED <<clock, items, cmd, temp, walk>>

Tick ==
    /\ clock < MaxClock
    /\ clock' = clock + 1
    /\ UNCHANGED <<lock, items, pc, cmd, temp, walk>>

-----------------------------------------------------------------------------
(* load_items lists the directory, for the first page and for every next one. *)
List ==
    /\ walk.phase \in {"idle", "between"}
    /\ walk' = [walk EXCEPT !.phase = "page",
                            !.names = {id \in Ids : Present(id)},
                            !.got = {},
                            !.written = IF walk.phase = "idle" THEN {} ELSE @]
    /\ UNCHANGED <<clock, lock, items, pc, cmd, temp>>

(* It reads one file after the other, each at its own time; apply_filters     *)
(* keeps the open and the deferred.                                          *)
Read ==
    /\ walk.phase = "page" /\ walk.names # {}
    /\ LET id == FirstOf(walk.names)
       IN  walk' = [walk EXCEPT !.names = @ \ {id},
                                !.got = IF Active(id)
                                        THEN @ \union {<<items[id].updated, id>>}
                                        ELSE @]
    /\ UNCHANGED <<clock, lock, items, pc, cmd, temp>>

(* sort_records puts the latest first: by updated_utc, then by id.            *)
Later(x, y) == x[1] > y[1] \/ (x[1] = y[1] /\ Before(y[2], x[2]))

(* Of sorted records, the n-th is the one that n - 1 others are later than.       *)
Rank(records, r) == Cardinality({x \in records : Later(x, r)})

InOrder(records) ==
    [n \in 1..Cardinality(records) |-> CHOOSE r \in records : Rank(records, r) = n - 1]

(* Mutant: the cursor holds the time only.                                   *)
BeyondTime(records) ==
    {r \in records : walk.cursor = <<>> \/ walk.cursor[1][1] > r[1]}

(* paginate, first half: what the cursor leaves.                             *)
Beyond(records) ==
    {r \in records : walk.cursor = <<>> \/ Later(walk.cursor[1], r)}

(* paginate, second half: the first Limit records of the rest are the page,    *)
(* and the last of them is the cursor of the next one, if there is one.        *)
Paginate ==
    /\ walk.phase = "page" /\ walk.names = {}
    /\ LET rest == InOrder(Beyond(walk.got))
           more == Len(rest) > Limit
           page == IF more THEN SubSeq(rest, 1, Limit) ELSE rest
       IN  walk' = [walk EXCEPT
                      !.phase = IF more THEN "between" ELSE "done",
                      !.shown = @ \o [n \in DOMAIN page |-> page[n][2]],
                      !.cursor = IF more THEN <<Last(page)>> ELSE <<>>,
                      !.got = {}]
    /\ UNCHANGED <<clock, lock, items, pc, cmd, temp>>

-----------------------------------------------------------------------------
Writing(w) ==
    \/ Start(w) \/ AcquireLock(w) \/ GiveUp(w)
    \/ WriteSuperseded(w) \/ WriteUpdate(w) \/ Replace(w)
    \/ Create(w) \/ Fill(w) \/ Die(w)

Next == (\E w \in Writers : Writing(w)) \/ Tick \/ List \/ Read \/ Paginate

Spec == Init /\ [][Next]_vars

-----------------------------------------------------------------------------
(* A superseded item points at an item about the same reason, except while    *)
(* the add that superseded it is under way, or for ever if that run died or    *)
(* found its id taken: cmd_add supersedes before it creates.                  *)
SuccessorCarriesOn ==
    \A id \in Ids :
        Parses(id) /\ items[id].status = "superseded" =>
            LET s == items[id].superseded_by
            IN  \/ /\ s # NoId /\ s # id
                   /\ Parses(s) /\ items[s].reason = items[id].reason
                \/ \E w \in Writers :
                      /\ cmd[w].op = "add" /\ cmd[w].id = s
                      /\ pc[w] \in {"locked", "replacing", "creating", "dead", "failed"}

Reopened(id) ==
    \E n \in DOMAIN items[id].handling_log :
        /\ items[id].handling_log[n].old = "handled"
        /\ items[id].handling_log[n].new \in {"open", "deferred"}

(* A (task, reason) has one item in the active view, unless somebody asked    *)
(* for a second one: with --no-supersede, or by taking a handled item up       *)
(* again.  Two adds at once never make two.                                  *)
OneActivePerReason ==
    \A x, y \in Ids :
        /\ x # y /\ Active(x) /\ Active(y)
        /\ items[x].reason = items[y].reason
        => \E z \in {x, y} : items[z].kept \/ Reopened(z)

(* No step of any run loses history: an item stays, its handling log is only   *)
(* appended to (so no update overwrites another run's), and what is superseded *)
(* stays exactly as it is.                                                   *)
HistoryKept ==
    [][\A id \in Ids :
         /\ Present(id) => Present(id)'
         /\ Parses(id) =>
              /\ Parses(id)'
              /\ IsPrefix(items[id].handling_log, items'[id].handling_log)
              /\ items[id].status = "superseded" => items'[id] = items[id]]_vars

(* A page walk concurrent with any number of writers shows every active item   *)
(* that none of them touched exactly once, and nothing untouched that is not   *)
(* active: cursor pages neither skip nor repeat it.                           *)
WalkShowsUntouched ==
    walk.phase = "done" =>
        \A id \in Ids \ walk.written :
            Cardinality({n \in DOMAIN walk.shown : walk.shown[n] = id}) =
                IF Active(id) THEN 1 ELSE 0

=============================================================================
