------------------------------ MODULE Sessions ------------------------------
(***************************************************************************)
(* Connections, the handshake, the session table and the life of a world   *)
(* with nobody in it: SimHost.accept and pumpHandshakes (server.ts),       *)
(* host/sessions.ts, host/lifecycle.ts, and Host::attach, reattach and     *)
(* disconnect (host/mod.rs).                                               *)
(*                                                                         *)
(* The host's callbacks name a connection by its ConnId, an index that is  *)
(* used again as soon as it is free.  A socket the host closed can still   *)
(* deliver a message and its close event, and both reach the callbacks it  *)
(* was accepted with: with Lingers they do, as on a WebSocket; without, a  *)
(* closed connection is silent, as a memory pair is.                       *)
(*                                                                         *)
(* Secrets stand for the hashes they are kept under.  Presence samples,    *)
(* camera and resume hint are left out (Replication has the hint), and so  *)
(* is what a settled connection says in play (ActionSession).              *)
(***************************************************************************)
EXTENDS Naturals, Sequences, FiniteSets, SequencesExt, FiniteSetsExt

CONSTANTS
  Socks,         \* connections the transport hands to accept, in turn: 1..n
  Secrets,       \* the players' secrets
  Conns,         \* ConnId: 0..MAX_CONNS - 1
  MaxPlayers,    \* WorldConfig.maxPlayers
  Lingers,       \* a connection the host closed can still be heard from
  MaxHellos,     \* bound: valid Hellos
  Troubles,      \* which troubles may come, of "saveFails", "hashFails", "late"
                 \* (a callback for a ConnId no longer its own), "recovers", "restarts"
  MaxTroubles    \* bound: troubles, all kinds together

ASSUME SessionsAssumption ==
  /\ Socks \subseteq Nat \ {0}
  /\ Conns \subseteq Nat /\ Conns # {}
  /\ Secrets # {}
  /\ MaxPlayers \in Nat \ {0}
  /\ Lingers \in BOOLEAN
  /\ MaxHellos \in Nat

VARIABLES
  sock,   \* each connection: its life, secret, and the callbacks it holds
  host,   \* conns and handshakeState, the sim's ConnSlots and pending records, lifecycle
  queue,  \* attachQueue: Hellos in arrival order
  table,  \* the session table in memory, 0 for no entry
  disk,   \* the session table as stored
  world,  \* the log: who joined, who connected since the server started
  hellos, \* Hellos queued so far: the links of sessionMutationChain
  spent   \* troubles so far, of each kind

vars == <<sock, host, queue, table, disk, world, hellos, spent>>

-----------------------------------------------------------------------------
(* Connections and what the host keeps for each ConnId.                    *)

NoConn == [sock |-> 0, status |-> "none", player |-> 0]
NoTable == [s \in Secrets |-> 0]
FreshSocks ==
  [k \in Socks |-> [life |-> "idle", secret |-> CHOOSE s \in Secrets : TRUE, conn |-> Min(Conns),
                    settled |-> FALSE, player |-> 0]]
FreshHost ==
  [conns |-> [c \in Conns |-> NoConn], slot |-> [c \in Conns |-> 0], pending |-> << >>,
   online |-> {}, grace |-> {}, idle |-> FALSE, stopNext |-> FALSE,
   running |-> TRUE, paused |-> FALSE]

FreeConns == {c \in Conns : host.conns[c] = NoConn}
Heard(k) == sock[k].life \in {"open", "closing"}
Holder(k) == host.conns[sock[k].conn]
Stale(k) == Holder(k).sock # k

\* closeHandshake, and the connection's own side of it.
Shut(k, ks) == [ks EXCEPT ![k].life = IF Lingers /\ @ = "open" THEN "closing" ELSE
                                      IF Lingers THEN @ ELSE "gone"]
Freed(h, c) == [h EXCEPT !.conns[c] = NoConn]

\* sim_detach.
Detached(h, c) == [h EXCEPT !.slot[c] = 0]

\* createLifecycleTracker: a drop starts the grace, logNow records the departure.
Dropped(h, p) == [h EXCEPT !.grace = @ \cup {p}]
LoggedOff(h, p) ==
  [h EXCEPT !.grace = @ \ {p},
            !.online = @ \ {p},
            !.pending = Append(@, [ev |-> "Disconnected", player |-> p]),
            !.stopNext = @ \/ h.online \subseteq {p}]
ReturnedInGrace(h, p) == [h EXCEPT !.online = @ \cup {p}, !.idle = FALSE]
Returned(h, p) == [h EXCEPT !.grace = @ \ {p}, !.online = @ \cup {p}, !.idle = FALSE]

Resumed(h) == IF h.running THEN h ELSE [h EXCEPT !.running = TRUE, !.paused = FALSE]

\* The callbacks of accept, for a connection that has said nothing.
Accepted(h, k, c) == [h EXCEPT !.conns[c] = [sock |-> k, status |-> "garbage", player |-> 0]]
FreshOnOldConn(k, c, ks) == [ks EXCEPT ![k].settled = FALSE]
Fresh(k, c, ks) == [ks EXCEPT ![k].conn = c, ![k].settled = FALSE]

\* The unawaited save of a detach: it lands, or fails, or there was no sample.
MaybeSaved == disk' \in {disk, table}

\* One more of a trouble, if the bound allows it.
Kinds == {"saveFails", "hashFails", "late", "recovers", "restarts"}
Trouble(kind) ==
  /\ kind \in Troubles
  /\ MapThenSumSet(LAMBDA x : spent[x], Kinds) < MaxTroubles
  /\ spent' = [spent EXCEPT ![kind] = @ + 1]
Never(kind) == spent[kind] = 0
LateIf(stale) == IF stale THEN Trouble("late") ELSE UNCHANGED spent
-----------------------------------------------------------------------------
(* What the transport delivers.                                            *)

Dial(k, s) ==
  /\ sock[k].life = "idle"
  /\ \A j \in Socks : j < k => sock[j].life # "idle"
  /\ FreeConns # {}
  /\ LET c == Min(FreeConns) IN
     /\ sock' = Fresh(k, c, [sock EXCEPT ![k].life = "open", ![k].secret = s])
     /\ host' = Accepted(host, k, c)
  /\ UNCHANGED <<hellos, queue, table, disk, world, spent>>

\* onClose: the holder of the ConnId is torn down, whoever it is.
Closed(k) ==
  /\ Heard(k)
  /\ sock' = [sock EXCEPT ![k].life = "gone"]
  /\ host' = LET c == sock[k].conn IN
             IF Holder(k).status = "settled"
             THEN Freed(Dropped(Detached(host, c), Holder(k).player), c)
             ELSE Freed(host, c)
  /\ IF Holder(k).status = "settled" THEN MaybeSaved ELSE disk' = disk
  /\ LateIf(Holder(k) # NoConn /\ Stale(k))
  /\ UNCHANGED <<hellos, queue, table, world>>

\* A Bye{Leave} on a settled connection.
Leave(k) ==
  /\ Heard(k) /\ sock[k].settled
  /\ host' = LET c == sock[k].conn IN
             Freed(Detached(LoggedOff(host, sock[k].player), c), c)
  /\ MaybeSaved
  /\ LateIf(Stale(k))
  /\ UNCHANGED <<hellos, sock, queue, table, world>>

\* A valid Hello where ConnId c has not said one yet: the world resumes, the
\* Hello queues, and its digest starts.
Queued(h, k, c) ==
  /\ h.conns[c].status = "garbage"
  /\ hellos < MaxHellos
  /\ hellos' = hellos + 1
  /\ host' = [Resumed(h) EXCEPT !.conns[c].status = "awaiting"]
  /\ queue' = Append(queue, [n |-> hellos', sock |-> k, conn |-> c,
                             secret |-> sock[k].secret, stage |-> "digest",
                             player |-> 0, joined |-> FALSE, bytes |-> NoTable])

Hello(k) ==
  /\ Heard(k) /\ ~sock[k].settled
  /\ Queued(host, k, sock[k].conn)
  /\ LateIf(Stale(k))
  /\ UNCHANGED <<sock, table, disk, world>>

\* reopenOnHello: a Hello on a settled connection starts its handshake over.
Rehello(k) ==
  /\ Heard(k) /\ sock[k].settled
  /\ Holder(k).status = "settled"
  /\ LET old == sock[k].conn
         h == Freed(Dropped(Detached(host, old), Holder(k).player), old)
         c == Min({d \in Conns : h.conns[d] = NoConn}) IN
     /\ sock' = Fresh(k, c, sock)
     /\ Queued(Accepted(h, k, c), k, c)
  /\ MaybeSaved
  /\ LateIf(Stale(k))
  /\ UNCHANGED <<table, world>>

\* Anything else before a Hello: it too wakes the world, and is dropped, or
\* closes the connection (too many of them, a wrong build or join key).
Garbage(k, closes) ==
  /\ Heard(k) /\ ~sock[k].settled
  /\ Holder(k).status = "garbage"
  /\ closes \/ ~host.running
  /\ host' = IF closes THEN Freed(Resumed(host), sock[k].conn) ELSE Resumed(host)
  /\ sock' = IF closes THEN Shut(k, sock) ELSE sock
  /\ LateIf(Stale(k))
  /\ UNCHANGED <<hellos, queue, table, disk, world>>
-----------------------------------------------------------------------------
(* settle: the digest, the turn in arrival order, the session table.       *)

At(n) == CHOOSE i \in DOMAIN queue : queue[i].n = n
Queuers == {queue[i].n : i \in DOMAIN queue}
Entry(n) == queue[At(n)]
IsAt(n, stage) == n \in Queuers /\ Entry(n).stage = stage
Spliced(n) == RemoveAt(queue, At(n))
Current(e) == host.conns[e.conn].sock = e.sock

\* myTurn: the Hello before this one has released its own.
MyTurn(n) == n - 1 \in Queuers => Entry(n - 1).stage = "ready"

RefusedKeepsSlot(n) ==
  LET e == Entry(n) IN
  /\ queue' = [queue EXCEPT ![At(n)].stage = "failed"]
  /\ host' = IF Current(e) THEN Freed(host, e.conn) ELSE host
  /\ sock' = IF Current(e) THEN Shut(e.sock, sock) ELSE sock

\* Refused: the slot is taken out of the queue and the connection closed.
Refused(n) ==
  LET e == Entry(n) IN
  /\ queue' = Spliced(n)
  /\ host' = IF Current(e) THEN Freed(host, e.conn) ELSE host
  /\ sock' = IF Current(e) THEN Shut(e.sock, sock) ELSE sock

Hashed(n) ==
  /\ IsAt(n, "digest")
  /\ queue' = [queue EXCEPT ![At(n)].stage = "turn"]
  /\ UNCHANGED <<hellos, sock, host, table, disk, world, spent>>

HashFailed(n) ==
  /\ IsAt(n, "digest")
  /\ Refused(n)
  /\ Trouble("hashFails")
  /\ UNCHANGED <<hellos, table, disk, world>>

Settled == {host.conns[c].player : c \in {d \in Conns : host.conns[d].status = "settled"}}
QueuedAhead ==
  {queue[i].player : i \in {j \in DOMAIN queue :
     queue[j].stage = "ready" /\ host.conns[queue[j].conn].status = "awaiting"}}
Full(p) ==
  LET attached == Settled \cup QueuedAhead IN
  p \notin attached /\ Cardinality(attached) >= MaxPlayers

HasPlayer(p) == \E i \in DOMAIN world.joins : world.joins[i].player = p
Highest == Max({table[s] : s \in Secrets})
NextPlayerOfTable == Highest + 1
NextPlayer ==
  Min({p \in (Highest + 1)..(Highest + 1 + Len(world.joins)) : ~HasPlayer(p)})
Resolved(e, p) == [e EXCEPT !.stage = "ready", !.player = p, !.joined = ~HasPlayer(p)]

\* The turn has come: refuse, resolve a known secret, or create an entry and
\* start its save.
Settle(n) ==
  /\ IsAt(n, "turn") /\ MyTurn(n)
  /\ LET e == Entry(n)
         p == table[e.secret] IN
     CASE Full(p) -> Refused(n) /\ UNCHANGED table
       [] ~Full(p) /\ p # 0 ->
            queue' = [queue EXCEPT ![At(n)] = Resolved(e, p)] /\ UNCHANGED <<sock, host, table>>
       [] OTHER ->
            /\ table' = [table EXCEPT ![e.secret] = NextPlayer]
            /\ queue' = [queue EXCEPT ![At(n)].stage = "save", ![At(n)].bytes = table']
            /\ UNCHANGED <<sock, host>>
  /\ UNCHANGED <<hellos, disk, world, spent>>

Saved(n) ==
  /\ IsAt(n, "save")
  /\ disk' = Entry(n).bytes
  /\ queue' = [queue EXCEPT ![At(n)] = [Resolved(@, table[@.secret]) EXCEPT !.bytes = NoTable]]
  /\ UNCHANGED <<hellos, sock, host, table, world, spent>>

SaveFailed(n) ==
  /\ IsAt(n, "save")
  /\ Refused(n)
  /\ Trouble("saveFails")
  /\ UNCHANGED <<hellos, table, disk, world>>
-----------------------------------------------------------------------------
(* The tick, and the timers.                                               *)

\* Host::attach, Welcome, and playerAttached, for one queued Hello whose
\* connection still waits for it.  r is the pair of host and connections.
Others(h, e) == {c \in Conns \ {e.conn} : h.slot[c] = e.player}
SuppressedUnlessJoined(h, e) == ~e.joined
Suppressed(h, e) == e.player \in h.grace
Records(h, e) ==
  (IF e.joined THEN <<[ev |-> "Joined", player |-> e.player, secret |-> e.secret]>> ELSE << >>)
  \o (IF Suppressed(h, e) THEN << >> ELSE <<[ev |-> "Connected", player |-> e.player]>>)
SupersededInSim(r, e) ==
  [r EXCEPT !.h.slot = [c \in Conns |-> IF c \in Others(r.h, e) THEN 0 ELSE @[c]]]
Superseded(r, e) ==
  IF Others(r.h, e) = {} THEN r
  ELSE LET c == Min(Others(r.h, e))
           k == r.h.conns[c].sock
       IN [h |-> Freed(Detached(r.h, c), c), ks |-> IF k = 0 THEN r.ks ELSE Shut(k, r.ks)]
Attached(r, e) ==
  LET q == Superseded(r, e) IN
  [h |-> Returned([q.h EXCEPT !.slot[e.conn] = e.player,
                              !.pending = @ \o Records(r.h, e),
                              !.conns[e.conn].status = "settled",
                              !.conns[e.conn].player = e.player], e.player),
   ks |-> [q.ks EXCEPT ![e.sock].settled = TRUE, ![e.sock].player = e.player]]
Pumped(r, e) ==
  IF r.h.conns[e.conn].sock = e.sock /\ r.h.conns[e.conn].status = "awaiting"
  THEN Attached(r, e) ELSE r

\* The connections that said no Hello within five seconds.
TimedOut(r, T) ==
  [h |-> [r.h EXCEPT !.conns = [c \in Conns |-> IF c \in T THEN NoConn ELSE r.h.conns[c]]],
   ks |-> [k \in Socks |-> IF \E c \in T : r.h.conns[c].sock = k THEN Shut(k, r.ks)[k] ELSE r.ks[k]]]

\* The first i queued Hellos pumped, in turn.
PumpedUpTo(r, n) ==
  LET upTo[i \in 0..n] == IF i = 0 THEN r ELSE Pumped(upTo[i - 1], queue[i])
  IN upTo[n]
ReadyLen == Max({i \in 0..Len(queue) : \A j \in 1..i : queue[j].stage = "ready"})

\* A record in the log: who joined and, to the game's on_player, who is here.
Recorded(w, x) ==
  CASE x.ev = "Joined" -> [w EXCEPT !.joins = Append(@, x)]
    [] x.ev = "Connected" -> [w EXCEPT !.roster = @ \cup {x.player}]
    [] x.ev = "Disconnected" -> [w EXCEPT !.roster = @ \ {x.player}]
Logged(w, recs) ==
  LET upTo[i \in 0..Len(recs)] == IF i = 0 THEN w ELSE Recorded(upTo[i - 1], recs[i])
  IN upTo[Len(recs)]

\* afterTick: the flag a departure left stops the ticking, whoever came since.
AfterTick(h) ==
  IF h.stopNext THEN [h EXCEPT !.stopNext = FALSE, !.running = FALSE, !.idle = TRUE] ELSE h

Tick(T) ==
  /\ host.running
  /\ UNCHANGED <<table, disk, hellos, spent>>
  /\ queue' = SubSeq(queue, ReadyLen + 1, Len(queue))
  /\ \E r \in {PumpedUpTo(TimedOut([h |-> host, ks |-> sock], T), ReadyLen)} :
       /\ host' = AfterTick([r.h EXCEPT !.pending = << >>])
       /\ sock' = r.ks
       /\ world' = Logged(world, r.h.pending)

GraceOver(p) ==
  /\ p \in host.grace
  /\ host' = LoggedOff(host, p)
  /\ UNCHANGED <<hellos, sock, queue, table, disk, world, spent>>

\* The idle timer: pause(), unless the host is paused already.
IdleOver ==
  /\ host.idle
  /\ host' = [host EXCEPT !.idle = FALSE, !.paused = TRUE, !.running = host.running /\ host.paused]
  /\ UNCHANGED <<hellos, sock, queue, table, disk, world, spent>>

\* recover: a fresh sim replays the log; every open connection is reattached,
\* as the player its ConnId would have had without a handshake.
ReattachedAs(c) == c + 1
Recover ==
  /\ host' = [host EXCEPT !.pending = << >>,
       !.slot = [c \in Conns |-> IF host.conns[c] = NoConn THEN 0 ELSE ReattachedAs(c)]]
  /\ Trouble("recovers")
  /\ UNCHANGED <<hellos, sock, queue, table, disk, world>>

\* The server dies and starts again over what storage kept: a prefix of the
\* log, and the table as last saved.  Every connection after it is a new one.
Restart ==
  /\ sock' = FreshSocks
  /\ host' = FreshHost
  /\ queue' = << >>
  /\ table' = disk
  /\ \E i \in 0..Len(world.joins) : world' = [joins |-> SubSeq(world.joins, 1, i), roster |-> {}]
  /\ Trouble("restarts")
  /\ UNCHANGED <<hellos, disk>>
-----------------------------------------------------------------------------
Init ==
  /\ sock = FreshSocks
  /\ host = FreshHost
  /\ queue = << >>
  /\ table = NoTable
  /\ disk = NoTable
  /\ world = [joins |-> << >>, roster |-> {}]
  /\ spent = [x \in Kinds |-> 0]
  /\ hellos = 0

Players == 1..MaxHellos
Silent == {c \in Conns : host.conns[c].status = "garbage"}

Transport ==
  \E k \in Socks :
    \/ \E s \in Secrets : Dial(k, s)
    \/ Hello(k) \/ Rehello(k) \/ Leave(k) \/ Closed(k)
    \/ \E closes \in BOOLEAN : Garbage(k, closes)
Handshakes ==
  \E n \in 1..MaxHellos :
    Hashed(n) \/ HashFailed(n) \/ Settle(n) \/ Saved(n) \/ SaveFailed(n)
Timers ==
  \/ \E T \in SUBSET Silent : Tick(T)
  \/ \E p \in Players : GraceOver(p)
  \/ IdleOver

Next == Transport \/ Handshakes \/ Timers \/ Recover \/ Restart

\* Digests and writes end, promises run on, and an armed timer ticks.  There
\* are boundedly many Hellos, so one condition stands for all of them.
Fairness ==
  /\ WF_vars(\E n \in 1..MaxHellos : Hashed(n))
  /\ WF_vars(\E n \in 1..MaxHellos : Settle(n))
  /\ WF_vars(\E n \in 1..MaxHellos : Saved(n))
  /\ WF_vars(Tick({}))

Spec == Init /\ [][Next]_vars /\ Fairness
-----------------------------------------------------------------------------
(* Properties.                                                             *)

\* Every variable keeps its shape: a ConnId holds a connection the transport
\* gave (an open one, unless a connection it closed says Hello on a ConnId
\* used again: reopenOnHello accepts whoever spoke), with a player exactly when
\* it is settled; queued Hellos are in the order they arrived, and no player is
\* numbered above the Hellos there were.
TypeOK ==
  /\ sock \in [Socks -> [life: {"idle", "open", "closing", "gone"}, secret: Secrets,
                         conn: Conns, settled: BOOLEAN, player: {0} \cup Players]]
  /\ \A c \in Conns :
       LET held == host.conns[c] IN
       /\ held.status = "none" <=> held.sock = 0
       /\ held.sock # 0 => /\ sock[held.sock].conn = c
                          /\ sock[held.sock].life \in {"open", "closing"}
                          /\ (Never("late") => sock[held.sock].life = "open")
       /\ held.status = "settled" <=> held.player # 0
  /\ \A i \in DOMAIN queue : i > 1 => queue[i - 1].n < queue[i].n
  /\ host.online \cup host.grace \subseteq Players
  /\ table \in [Secrets -> {0} \cup Players] /\ disk \in [Secrets -> {0} \cup Players]

\* A player of the world is one person's: no two secrets are ever given the
\* same PlayerId, and no secret is given one the log knows as another's, over
\* failed saves and restarts that lose the end of the log.
OneIdentity ==
  /\ \A s, t \in Secrets : s # t /\ table[s] # 0 => table[s] # table[t]
  /\ \A i \in DOMAIN world.joins, s \in Secrets :
       table[s] = world.joins[i].player => world.joins[i].secret = s
  /\ \A i, j \in DOMAIN world.joins :
       world.joins[i].player = world.joins[j].player
         => world.joins[i].secret = world.joins[j].secret

\* The sim feeds exactly the settled connections, each as the player its
\* secret names, and a player through one connection only.  (Recovery is the
\* exception: see SeatsSurviveRecovery.)
SeatsAgree ==
  \A c, d \in Conns :
    LET held == host.conns[c] IN
    /\ host.slot[c] = held.player
    /\ held.status = "settled" => held.player = table[sock[held.sock].secret]
    /\ c # d /\ held.player # 0 => host.conns[d].player # held.player
SeatsAgreeUntilRecovery == Never("recovers") => SeatsAgree

\* Never more players attached than maxPlayers, counted by secret, though
\* Hellos are judged before they attach.  (A digest that fails lets the next
\* Hello decide out of turn, before an earlier one is counted.)
CapacityKept == Never("hashFails") => Cardinality(Settled) <= MaxPlayers

\* No callback ran for a ConnId no longer its own, and no sim was replaced:
\* what NoStrayDisconnect and SeatsSurviveRecovery are about.
Undisturbed == Never("late") /\ Never("recovers")

\* The roster is who is there: the Connected and Disconnected records of the
\* log add up to the players the lifecycle counts online (a return within the
\* grace logs nothing, every other arrival and departure is logged once), and
\* a player who is attached is online with no grace timer running, so that no
\* Disconnected can be logged for someone who is here.
RosterExact ==
  Undisturbed => /\ Logged(world, host.pending).roster = host.online
                 /\ Settled \subseteq host.online \ host.grace

\* Every Hello is answered or dropped as long as the world ticks: no failed
\* save, closed connection or reused ConnId leaves a slot at the head of
\* attachQueue that no one fills.
HelloAnswered == []<>(queue = << >> \/ ~host.running)

\* lifecycle.ts:57-59: afterTick stops the ticking "if that tick just applied
\* the world's last Disconnected (no players left online)".
StopsOnlyEmpty == host.idle => host.online = {}

\* host/mod.rs:1383-1385: "a stray call logging a spurious Disconnected for an
\* online player is not expected in production".
NoStrayDisconnect ==
  \A i \in DOMAIN host.pending :
    host.pending[i].ev = "Disconnected" => host.pending[i].player \notin Settled

\* sessions.ts:35-37: the entry "must be durable before the log ever records
\* the join".
DurableBeforeJoin ==
  \A i \in DOMAIN world.joins : disk[world.joins[i].secret] = world.joins[i].player

\* server.ts:1290-1293: recovery re-attaches every open connection with "no new
\* log record, no game-state change".
SeatsSurviveRecovery ==
  \A c \in Conns : host.conns[c].status = "settled" => host.slot[c] = host.conns[c].player
=============================================================================
