------------------------------- MODULE PiAdapter -------------------------------
(***************************************************************************)
(* How a generation of the ledger becomes a wake of the resident Pi session:     *)
(* the event-bus client in Pi (.pi/lib/rozoro-event-bus-client.ts), the          *)
(* connection handler of the daemon (_handle_client of                          *)
(* lib/rozoro_monitor/server.py) and the coalescer it keeps per connection        *)
(* (offer_pending of lib/rozoro_monitor/notify.py), over the operations of        *)
(* DeliveryLedger.  The ledger assumes that adapters poll, confirm and reconnect;  *)
(* here that is what has to be shown.                                          *)
(*                                                                          *)
(* The client has one request under way.  A connection that breaks takes the      *)
(* replies with it, but the daemon may still handle a request that had arrived,    *)
(* after the client is back on another connection.                              *)
(***************************************************************************)
EXTENDS DeliveryLedger, Sequences, SequencesExt

CONSTANTS
    Pi,          \* the driver
    Urgent,      \* the generations with an urgent task
    MaxConns,    \* bound: connections of the client
    MaxDrops,    \* bound: those that break, or whose activation or wake fails
    MaxEvents    \* bound: lifecycle events, the session.register among them

ASSUME AdapterAssumption ==
    /\ Pi \in Drivers
    /\ Urgent \subseteq 1..MaxGeneration
    /\ MaxConns \in Nat /\ MaxDrops \in Nat /\ MaxEvents \in Nat \ {0}

VARIABLES
    pi,        \* the client
    conn,      \* [1..MaxConns -> Connection]
    drops,     \* connections broken so far
    waking,    \* [conn, gen] whose onNotification has not settled
    woken,     \* the [conn, gen] it was called with
    accepted   \* history: the lifecycle events the daemon has accepted

ledgerVars == <<latest, epoch, disabled, ledger, offered, confirmed, cli, reported>>
adapterVars == <<pi, conn, drops, waking, woken, accepted>>
allVars == <<ledgerVars, adapterVars>>

-----------------------------------------------------------------------------
Conns == 1..MaxConns
Gens == 1..MaxGeneration

Item == [kind: {"poll", "delivered", "event"}, n: Nat]
Register_ == [kind |-> "register", n |-> 0]
Request == Item \union {Register_}
Reply == [kind: {"ok", "error", "notification"}, n: Nat]

(* `pending` holds the request under way, if any; `told` is deliveredThisEpoch,     *)
(* `waiting` is notifications, `polling` that the poll timer runs.                 *)
Client == [cur: 0..MaxConns, used: 0..MaxConns, registered: BOOLEAN, polling: BOOLEAN,
           queue: Seq(Item), pending: SUBSET Item, told: SUBSET Nat,
           delivering: Nat, waiting: Seq(Nat), published: 0..MaxEvents]

(* `bound` is the registered epoch; the rest is the connection's coalescer.             *)
Connection == [in: Seq(Request), out: Seq(Reply), bound: Nat,
               window: {"none", "open", "over"}, shown: Nat]

Wake == [conn: Conns, gen: Nat]

AdapterTypeOK ==
    /\ pi \in Client
    /\ conn \in [Conns -> Connection]
    /\ drops \in 0..MaxDrops
    /\ waking \subseteq Wake /\ woken \subseteq Wake
    /\ accepted \subseteq 1..MaxEvents

NewConnection ==
    [in |-> <<>>, out |-> <<>>, bound |-> 0, window |-> "none", shown |-> 0]

(* The client is made with its session.register, event 1, reserved.                 *)
AdapterInit ==
    /\ Init
    /\ pi = [cur |-> 0, used |-> 0, registered |-> FALSE, polling |-> FALSE,
             queue |-> <<>>, pending |-> {}, told |-> {}, delivering |-> 0,
             waiting |-> <<>>, published |-> 1]
    /\ conn = [c \in Conns |-> NewConnection]
    /\ drops = 0
    /\ waking = {} /\ woken = {}
    /\ accepted = {}

-----------------------------------------------------------------------------
(* The client.                                                              *)
Event(n) == [kind |-> "event", n |-> n]
PollItem == [kind |-> "poll", n |-> 0]

IsEvent(item) == item.kind = "event"

(* The events of a queue, in their order.                                         *)
Events(queue) ==
    LET kept[i \in 0..Len(queue)] ==
            IF i = 0 THEN <<>>
            ELSE IF IsEvent(queue[i]) THEN Append(kept[i - 1], queue[i]) ELSE kept[i - 1]
    IN  kept[Len(queue)]

(* flush: with nothing under way the head of the queue becomes the request.           *)
CanFlush(p) == p.registered /\ p.pending = {} /\ p.queue # <<>>

Flushed(p) ==
    IF CanFlush(p) THEN [p EXCEPT !.pending = {Head(p.queue)}, !.queue = Tail(@)] ELSE p

(* The client becomes p, having flushed, and connections are as in `conns`.           *)
ClientIs(p, conns) ==
    /\ pi' = Flushed(p)
    /\ conn' = IF CanFlush(p)
               THEN [conns EXCEPT ![p.cur].in = Append(@, Head(p.queue))] ELSE conns

(* Mutant: the request under way is forgotten, also if it is an event.                  *)
DisconnectedLosesEvent(p) ==
    [p EXCEPT !.cur = 0, !.registered = FALSE, !.polling = FALSE, !.told = {},
              !.delivering = 0, !.waiting = <<>>, !.pending = {},
              !.queue = Events(@)]

(* Mutant: the request under way is still waited for on the next connection.             *)
DisconnectedWaitsOn(p) ==
    [p EXCEPT !.cur = 0, !.registered = FALSE, !.polling = FALSE, !.told = {},
              !.delivering = 0, !.waiting = <<>>, !.queue = Events(@)]

(* disconnected: events stay, the one under way first; the rest is forgotten.         *)
Disconnected(p) ==
    [p EXCEPT !.cur = 0, !.registered = FALSE, !.polling = FALSE, !.told = {},
              !.delivering = 0, !.waiting = <<>>, !.pending = {},
              !.queue = SetToSeq({i \in p.pending : IsEvent(i)}) \o Events(@)]

(* The socket is destroyed: what the handler has not read may be lost.                *)
Closes ==
    /\ pi' = Disconnected(pi)
    /\ \E in \in {conn[pi.cur].in, <<>>} :
         conn' = [conn EXCEPT ![pi.cur].out = <<>>, ![pi.cur].in = in]

Drop ==
    /\ pi.cur # 0
    /\ drops < MaxDrops
    /\ drops' = drops + 1
    /\ Closes
    /\ UNCHANGED <<ledgerVars, waking, woken, accepted>>

(* connect and connected: the registration is the first request.                     *)
Connect ==
    /\ pi.cur = 0 /\ pi.used < MaxConns
    /\ pi' = [pi EXCEPT !.cur = pi.used + 1, !.used = @ + 1]
    /\ conn' = [conn EXCEPT ![pi.used + 1].in = <<Register_>>]
    /\ UNCHANGED <<ledgerVars, drops, waking, woken, accepted>>

(* finishRegistration once onRegistered has activated the authority: the session's     *)
(* own event goes in front, and the poll timer starts.                             *)
Activate ==
    /\ pi.registered /\ ~pi.polling
    /\ ClientIs([pi EXCEPT !.polling = TRUE,
                           !.queue = IF Event(1) \in Range(@) THEN @ ELSE <<Event(1)>> \o @],
                conn)
    /\ UNCHANGED <<ledgerVars, drops, waking, woken, accepted>>

Publish ==
    /\ pi.published < MaxEvents
    /\ ClientIs([pi EXCEPT !.published = @ + 1,
                           !.queue = Append(@, Event(pi.published + 1))], conn)
    /\ UNCHANGED <<ledgerVars, drops, waking, woken, accepted>>

Poll ==
    /\ pi.polling
    /\ PollItem \notin pi.pending \union Range(pi.queue)
    /\ ClientIs([pi EXCEPT !.queue = Append(@, PollItem)], conn)
    /\ UNCHANGED <<ledgerVars, drops, waking, woken, accepted>>

(* An ok answers the registration, after which the queue waits for finishRegistration,    *)
(* or the request under way; anything else, an error above all, makes the client leave.    *)
Receives(c, kind) == c = pi.cur /\ conn[c].out # <<>> /\ Head(conn[c].out).kind = kind

Read(c) == [conn EXCEPT ![c].out = Tail(@)]

ReceiveOk(c) ==
    /\ c # 0 /\ Receives(c, "ok")
    /\ \/ /\ ~pi.registered
          /\ pi' = [pi EXCEPT !.registered = TRUE]
          /\ conn' = Read(c)
       \/ /\ pi.registered
          /\ ClientIs([pi EXCEPT !.pending = {}], Read(c))
    /\ UNCHANGED <<ledgerVars, drops, waking, woken, accepted>>

ReceiveError(c) ==
    /\ c # 0 /\ Receives(c, "error")
    /\ Closes
    /\ UNCHANGED <<ledgerVars, drops, waking, woken, accepted>>

(* deliver: one wake at a time, each generation once per connection.                 *)
Known(g) == g \in pi.told \/ g = pi.delivering \/ g \in Range(pi.waiting)

ReceiveNotification(c) ==
    /\ c # 0 /\ Receives(c, "notification")
    /\ LET g == Head(conn[c].out).n
           begins == ~Known(g) /\ pi.delivering = 0
       IN  /\ pi' = [pi EXCEPT !.delivering = IF begins THEN g ELSE @,
                              !.waiting = IF Known(g) \/ begins THEN @ ELSE Append(@, g)]
           /\ waking' = waking \union {w \in {[conn |-> c, gen |-> g]} : begins}
    /\ conn' = Read(c)
    /\ UNCHANGED <<ledgerVars, drops, woken, accepted>>

(* Mutant: the confirmation is sent on whichever connection there is.                  *)
HereOrElsewhere(wake) == pi.registered

(* deliver goes on only on the connection its notification came by.                    *)
Here(wake) == pi.registered /\ pi.cur = wake.conn

(* The end of deliver, whichever connection it began on: `delivering` is cleared, and the *)
(* next that waits is taken, though only delivered if the connection is the same.        *)
NextWake(p, wake) ==
    IF p.waiting = <<>> THEN [p EXCEPT !.delivering = 0]
    ELSE [p EXCEPT !.delivering = IF Here(wake) THEN Head(p.waiting) ELSE 0,
                   !.waiting = Tail(@)]

(* onNotification has put the wake into the session; it is confirmed on the connection     *)
(* it came by, or not at all.                                                    *)
WakeSettles(wake) ==
    /\ wake \in waking
    /\ woken' = woken \union {wake}
    /\ LET told == IF Here(wake)
                   THEN [pi EXCEPT !.told = @ \union {wake.gen},
                                   !.queue = Append(@, [kind |-> "delivered", n |-> wake.gen])]
                   ELSE pi
           next == NextWake(told, wake)
       IN  /\ ClientIs(next, conn)
           /\ waking' = (waking \ {wake}) \union
                          {[conn |-> wake.conn, gen |-> g] : g \in {next.delivering} \ {0}}
    /\ UNCHANGED <<ledgerVars, drops, accepted>>

(* onNotification throws: the socket there is now is destroyed, even another one; what    *)
(* waits on the wake's own connection is still begun before the socket is closed.        *)
WakeFails(wake) ==
    /\ wake \in waking
    /\ waking' = (waking \ {wake}) \union
                   {[conn |-> wake.conn, gen |-> g] :
                       g \in {n \in {NextWake(pi, wake).delivering} : Here(wake) /\ n # 0}}
    /\ \/ pi.cur # 0 /\ drops < MaxDrops /\ drops' = drops + 1 /\ Closes
       \/ pi.cur = 0 /\ UNCHANGED <<pi, conn, drops>>
    /\ UNCHANGED <<ledgerVars, woken, accepted>>

-----------------------------------------------------------------------------
(* The connection handler: one request, one reply, which nobody reads once the client    *)
(* is gone.                                                                     *)
Asked(c, kind) == conn[c].in # <<>> /\ Head(conn[c].in).kind = kind

Answers(c, replies, window, shown, bound) ==
    /\ conn' = [conn EXCEPT ![c].in = Tail(@),
                            ![c].out = IF c = pi.cur THEN @ \o replies ELSE <<>>,
                            ![c].window = window, ![c].shown = shown, ![c].bound = bound]
    /\ UNCHANGED <<pi, drops, waking, woken>>

Same(c, replies) == Answers(c, replies, conn[c].window, conn[c].shown, conn[c].bound)

Ok == [kind |-> "ok", n |-> 0]
Error == [kind |-> "error", n |-> 0]

(* watchtower.register: a new epoch, and a new coalescer.                             *)
HandleRegister(c) ==
    /\ Asked(c, "register")
    /\ Register(Pi)
    /\ Answers(c, <<Ok>>, "none", 0, epoch[Pi] + 1)
    /\ UNCHANGED accepted

(* notification_frontier's immediate, and its priority.                               *)
Immediate == Outstanding(Pi) # {} \/ ledger[Pi].delivered > ledger[Pi].acked

IsUrgent(g) == \E u \in Urgent : ledger[Pi].acked < u /\ u <= g

Due(c, g) == Immediate \/ IsUrgent(g) \/ conn[c].window = "over"

(* offer_notification within that poll: an offer that is outstanding is repeated.          *)
Offers(c) ==
    IF Outstanding(Pi) = {} THEN OfferNotification(Pi, conn[c].bound)
    ELSE UNCHANGED ledgerVars

(* notification.pending: offer_pending reads the frontier; with nothing pending it forgets  *)
(* the collection and what it has shown, and a generation is offered once, when it is due.   *)
(* Nothing runs between the frontier and the offer: there is no await in it.             *)
HandlePoll(c) ==
    /\ Asked(c, "poll")
    /\ \/ /\ ~Bound(Pi, conn[c].bound)
          /\ Same(c, <<Error>>)
          /\ UNCHANGED ledgerVars
       \/ /\ Bound(Pi, conn[c].bound) /\ Frontier(Pi) = {}
          /\ Answers(c, <<Ok>>, "none", 0, conn[c].bound)
          /\ UNCHANGED ledgerVars
       \/ /\ Bound(Pi, conn[c].bound)
          /\ \E g \in Frontier(Pi) :
               LET window == IF conn[c].window = "none" THEN "open" ELSE conn[c].window
               IN  \/ /\ conn[c].shown = g
                      /\ Same(c, <<Ok>>)
                      /\ UNCHANGED ledgerVars
                   \/ /\ conn[c].shown # g /\ ~Due(c, g)
                      /\ Answers(c, <<Ok>>, window, conn[c].shown, conn[c].bound)
                      /\ UNCHANGED ledgerVars
                   \/ /\ conn[c].shown # g /\ Due(c, g)
                      /\ Offers(c)
                      /\ Answers(c, <<Ok, [kind |-> "notification", n |-> g]>>,
                                 window, g, conn[c].bound)
    /\ UNCHANGED accepted

Confirms(c, g) ==
    /\ Bound(Pi, conn[c].bound)
    /\ Key(conn[c].bound, g) \in offered[Pi]
    /\ \A o \in offered[Pi] : o.epoch = conn[c].bound => o.gen <= g

HandleDelivered(c) ==
    /\ Asked(c, "delivered")
    /\ LET g == Head(conn[c].in).n
       IN  \/ ConfirmDelivery(Pi, conn[c].bound, g) /\ Same(c, <<Ok>>)
           \/ /\ Confirms(c, g) /\ Key(conn[c].bound, g) \in confirmed[Pi]
              /\ Same(c, <<Ok>>)
              /\ UNCHANGED ledgerVars
           \/ ~Confirms(c, g) /\ Same(c, <<Error>>) /\ UNCHANGED ledgerVars
    /\ UNCHANGED accepted

(* A lifecycle event needs no registration; a repeated one is acknowledged again.          *)
HandleEvent(c) ==
    /\ Asked(c, "event")
    /\ accepted' = accepted \union {Head(conn[c].in).n}
    /\ Same(c, <<Ok>>)
    /\ UNCHANGED ledgerVars

(* The collection window of a connection is over.                                     *)
WindowPasses(c) ==
    /\ conn[c].window = "open"
    /\ conn' = [conn EXCEPT ![c].window = "over"]
    /\ UNCHANGED <<ledgerVars, pi, drops, waking, woken, accepted>>

-----------------------------------------------------------------------------
(* The event intake, and the command line client that the woken session runs.            *)
Others ==
    /\ Bump \/ CliReconcile(Pi) \/ CliAck(Pi) \/ CliCrash(Pi)
    /\ UNCHANGED adapterVars

ClientReads(c) == ReceiveOk(c) \/ ReceiveError(c) \/ ReceiveNotification(c)

Handle(c) ==
    HandleRegister(c) \/ HandlePoll(c) \/ HandleDelivered(c) \/ HandleEvent(c)

AdapterNext ==
    \/ Others
    \/ Drop \/ Connect \/ Activate \/ Publish \/ Poll
    \/ \E c \in Conns : ClientReads(c) \/ Handle(c) \/ WindowPasses(c)
    \/ \E wake \in waking : WakeSettles(wake) \/ WakeFails(wake)

(* Timers fire, replies are read, handlers run, the session takes its wakes and runs the    *)
(* client after them, which is not killed before its ACK every time.                   *)
AdapterFairness ==
    /\ WF_allVars(Connect) /\ WF_allVars(Activate) /\ WF_allVars(Poll)
    /\ \A c \in Conns : /\ WF_allVars(ClientReads(c))
                        /\ WF_allVars(Handle(c))
                        /\ WF_allVars(WindowPasses(c))
    /\ WF_allVars(\E wake \in waking : WakeSettles(wake))
    /\ WF_allVars(CliReconcile(Pi) /\ UNCHANGED adapterVars)
    /\ SF_allVars(CliAck(Pi) /\ UNCHANGED adapterVars)

AdapterSpec == AdapterInit /\ [][AdapterNext]_allVars /\ AdapterFairness

-----------------------------------------------------------------------------
(* The delivered cursor moves only for a wake that was put into the session on the       *)
(* connection that holds the current registration: a confirmation sent too early, or for    *)
(* a wake of a connection that is gone, never consumes a generation.                    *)
DeliveredByItsOwnWake ==
    [][ledger'[Pi].delivered > ledger[Pi].delivered =>
          \E wake \in woken : /\ wake.gen = ledger'[Pi].delivered
                              /\ conn[wake.conn].bound = epoch[Pi]]_allVars

(* The fairness under which the ledger promises that every generation is acknowledged is    *)
(* what this client, handler and coalescer provide.                                 *)
DischargesLedger == LiveSpec

(* Every lifecycle event reaches the daemon in the end, through broken connections.        *)
EventsArrive == \A n \in 1..MaxEvents : pi.published >= n ~> n \in accepted

=============================================================================
