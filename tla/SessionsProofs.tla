---------------------------- MODULE SessionsProofs ----------------------------
(***************************************************************************)
(* Proofs about connections, the handshake and the session table, for any  *)
(* number of connections, secrets, ConnIds, Hellos and troubles.           *)
(***************************************************************************)
EXTENDS Sessions, ProofLemmas, SequenceTheorems, FiniteSetTheorems

(***************************************************************************)
(* The shape of the state.                                                 *)
(***************************************************************************)
Life == {"idle", "open", "closing", "gone"}
Status == {"none", "garbage", "awaiting", "settled"}
MaybePlayers == {0} \cup Players
SockT == [life: Life, secret: Secrets, conn: Conns, settled: BOOLEAN,
          player: MaybePlayers]
Seat == [sock: {0} \cup Socks, status: Status, player: MaybePlayers]
Joining == [ev: {"Joined"}, player: Players, secret: Secrets]
Passing == [ev: {"Connected", "Disconnected"}, player: Players]
Note == Joining \cup Passing
HostT == [conns: [Conns -> Seat], slot: [Conns -> Nat], pending: Seq(Note),
          online: SUBSET Players, grace: SUBSET Players, idle: BOOLEAN,
          stopNext: BOOLEAN, running: BOOLEAN, paused: BOOLEAN]
Table == [Secrets -> MaybePlayers]
Waiting == [n: 1..MaxHellos, sock: Socks, conn: Conns, secret: Secrets,
            stage: {"digest", "turn", "save", "ready"}, player: MaybePlayers,
            joined: BOOLEAN, bytes: Table]
World == [joins: Seq(Joining), roster: SUBSET Players]

Shapes ==
  /\ sock \in [Socks -> SockT] /\ host \in HostT /\ queue \in Seq(Waiting)
  /\ table \in Table /\ disk \in Table /\ world \in World
  /\ hellos \in 0..MaxHellos /\ spent \in [Kinds -> Nat]

(***************************************************************************)
(* Connections, ConnIds and queued Hellos.                                 *)
(***************************************************************************)
\* Who holds a ConnId holds no other, and the two agree on whether it is
\* settled and as whom.
SeatHeld(held, c, ks, sp) ==
  /\ held.status = "none" <=> held.sock = 0
  /\ held.status = "settled" <=> held.player # 0
  /\ held.sock # 0 =>
       /\ ks[held.sock].conn = c /\ ks[held.sock].life \in {"open", "closing"}
       /\ (sp["late"] = 0 => ks[held.sock].life = "open")
       /\ (ks[held.sock].settled <=> held.status = "settled")
       /\ (held.status = "settled" => ks[held.sock].player = held.player)
SeatsHeld(h, ks, sp) == \A c \in Conns : SeatHeld(h.conns[c], c, ks, sp)

\* A settled connection has a player.
SettledAs(ks) == \A k \in Socks : ks[k].settled => ks[k].player # 0

\* A connection that waits in the queue, behind the first i, is not settled,
\* and if it holds a ConnId, it waits there, with one Hello.
SeatedOnce(h, ks, q, i) ==
  \A j \in DOMAIN q : j > i =>
    /\ ks[q[j].sock].life # "idle" /\ ks[q[j].sock].secret = q[j].secret
    /\ ~ks[q[j].sock].settled
    /\ \A c \in Conns : h.conns[c].sock = q[j].sock =>
         /\ h.conns[c].status = "awaiting"
         /\ \A m \in DOMAIN q : m > i /\ q[m].sock = q[j].sock => m = j

InOrder(q, last) ==
  /\ \A i, j \in DOMAIN q : i < j => q[i].n < q[j].n
  /\ \A i \in DOMAIN q : q[i].n <= last

(***************************************************************************)
(* Who is whom.                                                            *)
(***************************************************************************)
OnePerSecret(tb) == \A s, t \in Secrets : s # t /\ tb[s] # 0 => tb[s] # tb[t]
JoinedAsTable(w, tb) ==
  /\ \A i \in DOMAIN w.joins, s \in Secrets :
       tb[s] = w.joins[i].player => w.joins[i].secret = s
  /\ \A i, j \in DOMAIN w.joins :
       w.joins[i].player = w.joins[j].player => w.joins[i].secret = w.joins[j].secret

\* What was written, or is being written, is the table of now or of before.
Older(t, tb) == \A s \in Secrets : t[s] = 0 \/ t[s] = tb[s]
Resolution(e, tb) ==
  /\ Older(e.bytes, tb)
  /\ e.stage \in {"save", "ready"} => tb[e.secret] # 0
  /\ e.stage = "ready" => e.player = tb[e.secret]
Resolutions(q, tb) == \A i \in DOMAIN q : Resolution(q[i], tb)

\* The Hellos whose turn has come or can come no more: there are no more
\* players than these.
Turned(q, last) ==
  {n \in 1..last : \A i \in DOMAIN q : q[i].n = n => q[i].stage \notin {"digest", "turn"}}
Dense(tb, w, n) ==
  /\ \A s \in Secrets : tb[s] <= n
  /\ \A i \in DOMAIN w.joins : w.joins[i].player <= n

\* What waits to be logged joins nobody: who joins does so within a tick.
NoneJoining(h, w) == Logged(w, h.pending).joins = w.joins

(***************************************************************************)
(* Who is where.                                                           *)
(***************************************************************************)
SeatsNamed(h, ks, tb) ==
  \A c \in Conns :
    /\ h.slot[c] = h.conns[c].player
    /\ h.conns[c].status = "settled" =>
         h.conns[c].player = tb[ks[h.conns[c].sock].secret]
    /\ \A d \in Conns : c # d /\ h.conns[c].player # 0 =>
         h.conns[d].player # h.conns[c].player

RosterOf(h, w) ==
  /\ Logged(w, h.pending).roster = h.online
  /\ h.grace \subseteq h.online
  /\ \A c \in Conns : h.conns[c].status = "settled" =>
       h.conns[c].player \in h.online /\ h.conns[c].player \notin h.grace

\* The inductive invariant.
SeatsInv == /\ SeatsHeld(host, sock, spent) /\ SettledAs(sock)
            /\ SeatedOnce(host, sock, queue, 0)
IdentityInv ==
  /\ OnePerSecret(table) /\ JoinedAsTable(world, table) /\ Older(disk, table)
  /\ Resolutions(queue, table) /\ NoneJoining(host, world)
  /\ Dense(table, world, Cardinality(Turned(queue, hellos)))
NamesInv == Never("recovers") => SeatsNamed(host, sock, table)
PresenceInv == Undisturbed => RosterOf(host, world)
SessInv == Shapes /\ InOrder(queue, hellos) /\ SeatsInv /\ IdentityInv
           /\ NamesInv /\ PresenceInv
-----------------------------------------------------------------------------
(* Least and greatest elements.                                            *)
LEMMA MinIn ==
  ASSUME NEW S \in SUBSET Nat, S # {}
  PROVE  Min(S) \in S /\ \A y \in S : Min(S) <= y
  BY NatMin DEF Min

LEMMA MaxIn ==
  ASSUME NEW n \in Nat, NEW S \in SUBSET (0..n), S # {}
  PROVE  Max(S) \in S /\ \A y \in S : y <= Max(S)
  BY NatMax DEF Max
-----------------------------------------------------------------------------
(* The log, record by record.                                              *)
LoggedInTurn(w, recs) ==
  \E f : /\ f[0] = w
         /\ \A i \in 1..Len(recs) : f[i] = Recorded(f[i - 1], recs[i])
         /\ Logged(w, recs) = f[Len(recs)]

LEMMA LoggedRun ==
  ASSUME NEW w, NEW S, NEW recs \in Seq(S)
  PROVE  LoggedInTurn(w, recs)
<1> DEFINE Step(f, n) == [i \in 0..n |-> IF i = 0 THEN w ELSE Recorded(f[i - 1], recs[i])]
           Bad == {n \in Nat : ~ \E f : f = Step(f, n)}
<1>1. Len(recs) \in Nat
  BY LenProperties
<1>2. Bad = {}
  <2> SUFFICES ASSUME Bad # {} PROVE FALSE
    OBVIOUS
  <2>1. PICK m \in Bad : \A y \in Bad : m <= y
    <3>1. Bad \in SUBSET Nat
      OBVIOUS
    <3> HIDE DEF Bad
    <3> QED
      BY <3>1, NatMin
  <2>2. CASE m = 0
    <3>1. [i \in 0..0 |-> w] = Step([i \in 0..0 |-> w], 0)
      OBVIOUS
    <3> QED
      BY <2>1, <2>2, <3>1
  <2>3. CASE m # 0
    <3>0. m \in Nat
      BY <2>1
    <3>1. m - 1 \in Nat /\ m - 1 \notin Bad
      <4> HIDE DEF Bad
      <4> QED
        BY <2>1, <2>3, <3>0
    <3>2. PICK f : f = Step(f, m - 1)
      <4> HIDE DEF Step
      <4> QED
        BY <3>1
    <3> DEFINE g == [i \in 0..m |-> IF i = m THEN Recorded(f[m - 1], recs[m]) ELSE f[i]]
    <3>3. ASSUME NEW i \in 0..m
          PROVE  g[i] = IF i = 0 THEN w ELSE Recorded(g[i - 1], recs[i])
      <4>1. CASE i = m
        <5>1. g[m - 1] = f[m - 1]
          BY <2>1, <2>3
        <5> QED
          BY <2>3, <4>1, <5>1
      <4>2. CASE i # m
        <5>1. i \in 0..(m - 1) /\ g[i] = f[i]
          BY <4>2, <2>1
        <5>2. f[i] = IF i = 0 THEN w ELSE Recorded(f[i - 1], recs[i])
          BY <3>2, <5>1, Zenon
        <5>3. i # 0 => g[i - 1] = f[i - 1]
          BY <2>1, <5>1
        <5> QED
          BY <5>1, <5>2, <5>3
      <4> QED
        BY <4>1, <4>2
    <3>4. g = Step(g, m)
      BY <3>3
    <3> QED
      BY <2>1, <3>4
  <2> QED
    BY <2>2, <2>3
<1>3. \E f : f = Step(f, Len(recs))
  BY <1>1, <1>2
<1> DEFINE F == CHOOSE f : f = Step(f, Len(recs))
<1>4. F = Step(F, Len(recs))
  BY <1>3, Zenon
<1>5. Logged(w, recs) = F[Len(recs)]
  BY Zenon DEF Logged
<1>6. \A i \in 0..Len(recs) : F[i] = IF i = 0 THEN w ELSE Recorded(F[i - 1], recs[i])
  BY <1>4, Zenon
<1> HIDE DEF F
<1>7. F[0] = w
  BY <1>1, <1>6
<1>8. ASSUME NEW i \in 1..Len(recs) PROVE F[i] = Recorded(F[i - 1], recs[i])
  BY <1>1, <1>6
<1>9. /\ F[0] = w
      /\ \A i \in 1..Len(recs) : F[i] = Recorded(F[i - 1], recs[i])
      /\ Logged(w, recs) = F[Len(recs)]
  BY <1>5, <1>7, <1>8, Zenon
<1> QED
  BY <1>9, Zenon DEF LoggedInTurn

(* Nothing logged is nothing changed; a record logged last comes last.     *)
LEMMA LoggedNone == ASSUME NEW w PROVE Logged(w, << >>) = w
<1>1. << >> \in Seq({}) /\ Len(<< >>) = 0
  BY EmptySeq
<1> PICK e : e = << >>
  OBVIOUS
<1>2. e \in Seq({}) /\ Len(e) = 0
  BY <1>1
<1>3. \E f : f[0] = w /\ Logged(w, e) = f[Len(e)]
  <2>1. LoggedInTurn(w, e)
    BY <1>2, LoggedRun
  <2> QED
    BY <2>1, Zenon DEF LoggedInTurn
<1>4. Logged(w, e) = w
  BY <1>2, <1>3
<1> QED
  BY <1>4

LEMMA LoggedLast ==
  ASSUME NEW w, NEW S, NEW recs \in Seq(S), NEW x \in S
  PROVE  Logged(w, Append(recs, x)) = Recorded(Logged(w, recs), x)
<1> DEFINE n == Len(recs)
           more == Append(recs, x)
<1>1. /\ n \in Nat /\ more \in Seq(S) /\ Len(more) = n + 1
      /\ more[n + 1] = x /\ \A i \in 1..n : more[i] = recs[i]
  BY AppendProperties, LenProperties
<1>2. PICK f : /\ f[0] = w
               /\ \A i \in 1..n : f[i] = Recorded(f[i - 1], recs[i])
               /\ Logged(w, recs) = f[n]
  <2>1. LoggedInTurn(w, recs)
    BY LoggedRun
  <2> QED
    BY <2>1 DEF LoggedInTurn
<1> HIDE DEF more
<1>3. PICK g : /\ g[0] = w
               /\ \A i \in 1..Len(more) : g[i] = Recorded(g[i - 1], more[i])
               /\ Logged(w, more) = g[Len(more)]
  <2>1. LoggedInTurn(w, more)
    BY <1>1, LoggedRun
  <2> QED
    BY <2>1, Zenon DEF LoggedInTurn
<1> HIDE DEF n
<1>6. \A i \in 0..n : g[i] = f[i]
  <2> DEFINE Bad == {i \in 0..n : g[i] # f[i]}
  <2> SUFFICES ASSUME Bad # {} PROVE FALSE
    OBVIOUS
  <2>1. PICK m \in Bad : \A y \in Bad : m <= y
    <3>1. Bad \in SUBSET Nat
      BY <1>1
    <3> HIDE DEF Bad
    <3> QED
      BY <3>1, NatMin
  <2>2. m \in 0..n /\ g[m] # f[m]
    BY <2>1
  <2>3. m # 0
    BY <1>2, <1>3, <2>2
  <2>4. m - 1 \in 0..n /\ m - 1 \notin Bad
    <3> HIDE DEF Bad
    <3> QED
      BY <1>1, <2>1, <2>2, <2>3
  <2>5. g[m - 1] = f[m - 1] /\ more[m] = recs[m]
    BY <1>1, <2>2, <2>3, <2>4
  <2>6. g[m] = Recorded(g[m - 1], more[m]) /\ f[m] = Recorded(f[m - 1], recs[m])
    BY <1>1, <1>2, <1>3, <2>2, <2>3
  <2> QED
    BY <2>2, <2>5, <2>6
<1>7. g[n + 1] = Recorded(g[n], more[n + 1])
  BY <1>1, <1>3
<1>8. Logged(w, more) = Recorded(Logged(w, recs), x)
  BY <1>1, <1>2, <1>3, <1>6, <1>7
<1> QED
  BY <1>8, Zenon DEF more

(* What one record makes of the log.                                       *)
LEMMA RecordedType ==
  ASSUME NEW w \in World, NEW x \in Note
  PROVE  /\ Recorded(w, x) \in World
         /\ x.ev = "Joined" => /\ x \in Joining
                               /\ Recorded(w, x).joins = Append(w.joins, x)
                               /\ Recorded(w, x).roster = w.roster
         /\ x.ev # "Joined" => Recorded(w, x).joins = w.joins
         /\ x.ev = "Connected" => Recorded(w, x).roster = w.roster \cup {x.player}
         /\ x.ev = "Disconnected" => Recorded(w, x).roster = w.roster \ {x.player}
<1>1. x.player \in Players /\ x.ev \in {"Joined", "Connected", "Disconnected"}
  BY DEF Note, Joining, Passing
<1>2. x.ev = "Joined" => x \in Joining
  BY DEF Note, Passing
<1>3. w.roster \cup {x.player} \in SUBSET Players /\ w.roster \ {x.player} \in SUBSET Players
  BY <1>1 DEF World
<1>4. CASE x.ev = "Joined"
  <2>1. Append(w.joins, x) \in Seq(Joining)
    BY <1>2, <1>4, AppendProperties DEF World
  <2> QED
    BY <1>2, <1>4, <2>1 DEF Recorded, World
<1>5. CASE x.ev = "Connected"
  BY <1>3, <1>5 DEF Recorded, World
<1>6. CASE x.ev = "Disconnected"
  BY <1>3, <1>6 DEF Recorded, World
<1> QED
  BY <1>1, <1>4, <1>5, <1>6

-----------------------------------------------------------------------------
(* What the host's operations make of its record.                          *)
LEMMA HostFields ==
  ASSUME NEW h \in HostT
  PROVE  /\ h.conns \in [Conns -> Seat] /\ h.slot \in [Conns -> Nat]
         /\ h.pending \in Seq(Note)
         /\ h.online \in SUBSET Players /\ h.grace \in SUBSET Players
         /\ h.idle \in BOOLEAN /\ h.stopNext \in BOOLEAN
         /\ h.running \in BOOLEAN /\ h.paused \in BOOLEAN
         /\ h = [conns |-> h.conns, slot |-> h.slot, pending |-> h.pending,
                 online |-> h.online, grace |-> h.grace, idle |-> h.idle,
                 stopNext |-> h.stopNext, running |-> h.running, paused |-> h.paused]
  BY DEF HostT

LEMMA SeatTypes ==
  /\ NoConn \in Seat
  /\ \A k \in Socks : [sock |-> k, status |-> "garbage", player |-> 0] \in Seat
  /\ Conns # {} /\ Min(Conns) \in Conns
  /\ 0 \notin Socks /\ 0 \notin Players /\ Players \subseteq Nat /\ MaybePlayers \subseteq Nat
<1>1. Conns \in SUBSET Nat /\ Conns # {}
  BY SessionsAssumption
<1>2. Min(Conns) \in Conns
  BY <1>1, MinIn
<1> QED
  BY <1>1, <1>2, SessionsAssumption DEF NoConn, Seat, Status, MaybePlayers, Players

LEMMA FreedIs ==
  ASSUME NEW h \in HostT, NEW c \in Conns
  PROVE  /\ Freed(h, c) \in HostT
         /\ Freed(h, c).conns = [h.conns EXCEPT ![c] = NoConn]
         /\ Freed(h, c).slot = h.slot /\ Freed(h, c).pending = h.pending
         /\ Freed(h, c).online = h.online /\ Freed(h, c).grace = h.grace
<1>1. [h.conns EXCEPT ![c] = NoConn] \in [Conns -> Seat]
  BY HostFields, SeatTypes
<1> QED
  BY <1>1, HostFields DEF Freed, HostT

LEMMA DetachedIs ==
  ASSUME NEW h \in HostT, NEW c \in Conns
  PROVE  /\ Detached(h, c) \in HostT
         /\ Detached(h, c).slot = [h.slot EXCEPT ![c] = 0]
         /\ Detached(h, c).conns = h.conns /\ Detached(h, c).pending = h.pending
         /\ Detached(h, c).online = h.online /\ Detached(h, c).grace = h.grace
<1>1. [h.slot EXCEPT ![c] = 0] \in [Conns -> Nat]
  BY HostFields
<1> QED
  BY <1>1, HostFields DEF Detached, HostT

LEMMA DroppedIs ==
  ASSUME NEW h \in HostT, NEW p \in Players
  PROVE  /\ Dropped(h, p) \in HostT
         /\ Dropped(h, p).grace = h.grace \cup {p}
         /\ Dropped(h, p).conns = h.conns /\ Dropped(h, p).slot = h.slot
         /\ Dropped(h, p).pending = h.pending /\ Dropped(h, p).online = h.online
<1>1. h.grace \cup {p} \in SUBSET Players
  BY HostFields
<1> QED
  BY <1>1, HostFields DEF Dropped, HostT

LEMMA LoggedOffIs ==
  ASSUME NEW h \in HostT, NEW p \in Players
  PROVE  /\ LoggedOff(h, p) \in HostT
         /\ LoggedOff(h, p).conns = h.conns /\ LoggedOff(h, p).slot = h.slot
         /\ LoggedOff(h, p).pending
              = Append(h.pending, [ev |-> "Disconnected", player |-> p])
         /\ [ev |-> "Disconnected", player |-> p] \in Note
         /\ LoggedOff(h, p).online = h.online \ {p}
         /\ LoggedOff(h, p).grace = h.grace \ {p}
<1> DEFINE x == [ev |-> "Disconnected", player |-> p]
<1>1. x \in Note
  BY DEF Note, Passing
<1>2. Append(h.pending, x) \in Seq(Note)
  BY <1>1, HostFields, AppendProperties
<1>3. h.grace \ {p} \in SUBSET Players /\ h.online \ {p} \in SUBSET Players
  BY HostFields
<1>4. (h.stopNext \/ h.online \subseteq {p}) \in BOOLEAN
  BY HostFields
<1> QED
  BY <1>1, <1>2, <1>3, <1>4, HostFields DEF LoggedOff, HostT

LEMMA ReturnedIs ==
  ASSUME NEW h \in HostT, NEW p \in Players
  PROVE  /\ Returned(h, p) \in HostT
         /\ Returned(h, p).conns = h.conns /\ Returned(h, p).slot = h.slot
         /\ Returned(h, p).pending = h.pending
         /\ Returned(h, p).online = h.online \cup {p}
         /\ Returned(h, p).grace = h.grace \ {p}
<1>1. h.grace \ {p} \in SUBSET Players /\ h.online \cup {p} \in SUBSET Players
  BY HostFields
<1> QED
  BY <1>1, HostFields DEF Returned, HostT

LEMMA ResumedIs ==
  ASSUME NEW h \in HostT
  PROVE  /\ Resumed(h) \in HostT
         /\ Resumed(h).conns = h.conns /\ Resumed(h).slot = h.slot
         /\ Resumed(h).pending = h.pending
         /\ Resumed(h).online = h.online /\ Resumed(h).grace = h.grace
  BY HostFields DEF Resumed, HostT

LEMMA AfterTickIs ==
  ASSUME NEW h \in HostT
  PROVE  /\ AfterTick(h) \in HostT
         /\ AfterTick(h).conns = h.conns /\ AfterTick(h).slot = h.slot
         /\ AfterTick(h).pending = h.pending
         /\ AfterTick(h).online = h.online /\ AfterTick(h).grace = h.grace
  BY HostFields DEF AfterTick, HostT

LEMMA AcceptedIs ==
  ASSUME NEW h \in HostT, NEW c \in Conns, NEW k \in Socks
  PROVE  /\ Accepted(h, k, c) \in HostT
         /\ Accepted(h, k, c).conns =
              [h.conns EXCEPT ![c] = [sock |-> k, status |-> "garbage", player |-> 0]]
         /\ Accepted(h, k, c).slot = h.slot /\ Accepted(h, k, c).pending = h.pending
         /\ Accepted(h, k, c).online = h.online /\ Accepted(h, k, c).grace = h.grace
<1> DEFINE st == [sock |-> k, status |-> "garbage", player |-> 0]
<1>0. st \in Seat
  BY SeatTypes
<1> HIDE DEF st
<1>1. [h.conns EXCEPT ![c] = st] \in [Conns -> Seat]
  BY <1>0, HostFields
<1>2. [h EXCEPT !.conns[c] = st] = [h EXCEPT !.conns = [h.conns EXCEPT ![c] = st]]
  BY HostFields
<1>3. Accepted(h, k, c) = [h EXCEPT !.conns = [h.conns EXCEPT ![c] = st]]
  BY <1>2 DEF Accepted, st
<1>4. Accepted(h, k, c) \in HostT /\ Accepted(h, k, c).conns = [h.conns EXCEPT ![c] = st]
  BY <1>1, <1>3, HostFields DEF HostT
<1> QED
  BY <1>3, <1>4, HostFields DEF st
-----------------------------------------------------------------------------
(* What the queue loses it loses without a change of order.                *)
Thins(q2, q, m) ==
  \E f \in [DOMAIN q2 -> DOMAIN q] :
    /\ \A i \in DOMAIN q2 : q2[i] = q[f[i]] /\ f[i] > m
    /\ \A i, j \in DOMAIN q2 : i < j => f[i] < f[j]

LEMMA RemovedThins ==
  ASSUME NEW q \in Seq(Waiting), NEW i \in DOMAIN q
  PROVE  RemoveAt(q, i) \in Seq(Waiting) /\ Thins(RemoveAt(q, i), q, 0)
<1> DEFINE n == Len(q)
           s1 == SubSeq(q, 1, i - 1)
           s2 == SubSeq(q, i + 1, n)
           q2 == s1 \o s2
           f == [j \in 1..(n - 1) |-> IF j < i THEN j ELSE j + 1]
<1>1. n \in Nat /\ DOMAIN q = 1..n /\ i \in 1..n /\ \A j \in 1..n : q[j] \in Waiting
  BY LenProperties, ElementOfSeq
<1>2. /\ s1 \in Seq(Waiting) /\ Len(s1) = i - 1
      /\ \A j \in 1..(i - 1) : s1[j] = q[j]
  <2>1. \A j \in 1..(i - 1) : q[j] \in Waiting
    BY <1>1
  <2>2. i - 1 \in Int /\ (i - 1) - 1 + 1 = i - 1 /\ \A j \in 1..(i - 1) : 1 + j - 1 = j
    BY <1>1
  <2> HIDE DEF n
  <2>3. /\ SubSeq(q, 1, i - 1) \in Seq(Waiting)
        /\ Len(SubSeq(q, 1, i - 1)) = IF 1 <= i - 1 THEN i - 1 - 1 + 1 ELSE 0
        /\ \A j \in 1..(i - 1 - 1 + 1) : SubSeq(q, 1, i - 1)[j] = q[1 + j - 1]
    BY <2>1, <2>2, SubSeqProperties
  <2> QED
    BY <1>1, <2>2, <2>3
<1>3. /\ s2 \in Seq(Waiting) /\ Len(s2) = n - i
      /\ \A j \in 1..(n - i) : s2[j] = q[i + j]
  <2>1. \A j \in (i + 1)..n : q[j] \in Waiting
    BY <1>1
  <2>2. i + 1 \in Int /\ n \in Int
    BY <1>1
  <2> HIDE DEF n
  <2>3. /\ SubSeq(q, i + 1, n) \in Seq(Waiting)
        /\ Len(SubSeq(q, i + 1, n)) = IF i + 1 <= n THEN n - (i + 1) + 1 ELSE 0
        /\ \A j \in 1..(n - (i + 1) + 1) : SubSeq(q, i + 1, n)[j] = q[i + 1 + j - 1]
    BY <2>1, <2>2, SubSeqProperties
  <2>4. n - (i + 1) + 1 = n - i /\ \A j \in 1..(n - i) : i + 1 + j - 1 = i + j
    BY <1>1
  <2> QED
    BY <1>1, <2>3, <2>4
<1> HIDE DEF n, s1, s2
<1>4. /\ q2 \in Seq(Waiting) /\ Len(q2) = n - 1
      /\ \A j \in 1..(n - 1) : q2[j] = IF j <= i - 1 THEN s1[j] ELSE s2[j - (i - 1)]
  <2>1. Len(s1) + Len(s2) = n - 1
    BY <1>1, <1>2, <1>3
  <2>2. s1 \in Seq(Waiting) /\ s2 \in Seq(Waiting)
    BY <1>2, <1>3
  <2>3. /\ q2 \in Seq(Waiting) /\ Len(q2) = Len(s1) + Len(s2)
        /\ \A j \in 1..(Len(s1) + Len(s2)) :
             q2[j] = IF j <= Len(s1) THEN s1[j] ELSE s2[j - Len(s1)]
    BY <2>2, ConcatProperties, Zenon
  <2>4. Len(s1) = i - 1
    BY <1>2
  <2> QED
    BY <2>1, <2>3, <2>4
<1> HIDE DEF q2
<1>5. DOMAIN q2 = 1..(n - 1)
  BY <1>4, LenProperties
<1>6. f \in [DOMAIN q2 -> DOMAIN q]
  BY <1>1, <1>5
<1>7. ASSUME NEW j \in DOMAIN q2 PROVE q2[j] = q[f[j]] /\ f[j] > 0
  <2>1. CASE j < i
    BY <1>1, <1>2, <1>4, <1>5, <2>1
  <2>2. CASE ~(j < i)
    <3>1. j - (i - 1) \in 1..(n - i) /\ i + (j - (i - 1)) = j + 1
      BY <1>1, <1>5, <2>2
    <3> QED
      BY <1>1, <1>3, <1>4, <1>5, <2>2, <3>1
  <2> QED
    BY <2>1, <2>2
<1>8. \A j, l \in DOMAIN q2 : j < l => f[j] < f[l]
  BY <1>1, <1>5
<1>9. Thins(q2, q, 0)
  BY <1>6, <1>7, <1>8 DEF Thins
<1>10. q2 = RemoveAt(q, i)
  BY DEF RemoveAt, q2, s1, s2, n
<1> QED
  BY <1>4, <1>9, <1>10

LEMMA SuffixThins ==
  ASSUME NEW q \in Seq(Waiting), NEW m \in 0..Len(q)
  PROVE  SubSeq(q, m + 1, Len(q)) \in Seq(Waiting) /\ Thins(SubSeq(q, m + 1, Len(q)), q, m)
<1> DEFINE n == Len(q)
           q2 == SubSeq(q, m + 1, n)
           f == [j \in 1..(n - m) |-> m + j]
<1>1. n \in Nat /\ DOMAIN q = 1..n /\ m \in 0..n /\ \A j \in 1..n : q[j] \in Waiting
  BY LenProperties, ElementOfSeq
<1>2. q2 \in Seq(Waiting) /\ Len(q2) = n - m /\ \A j \in 1..(n - m) : q2[j] = q[m + j]
  <2>1. \A j \in (m + 1)..n : q[j] \in Waiting
    BY <1>1
  <2>2. m + 1 \in Int /\ n \in Int
    BY <1>1
  <2> HIDE DEF n
  <2>3. /\ SubSeq(q, m + 1, n) \in Seq(Waiting)
        /\ Len(SubSeq(q, m + 1, n)) = IF m + 1 <= n THEN n - (m + 1) + 1 ELSE 0
        /\ \A j \in 1..(n - (m + 1) + 1) : SubSeq(q, m + 1, n)[j] = q[m + 1 + j - 1]
    BY <2>1, <2>2, SubSeqProperties
  <2>4. n - (m + 1) + 1 = n - m /\ \A j \in 1..(n - m) : m + 1 + j - 1 = m + j
    BY <1>1
  <2> QED
    BY <1>1, <2>3, <2>4
<1> HIDE DEF q2
<1>3. DOMAIN q2 = 1..(n - m)
  BY <1>2, LenProperties
<1>4. f \in [DOMAIN q2 -> DOMAIN q]
  BY <1>1, <1>3
<1>5. \A j \in DOMAIN q2 : q2[j] = q[f[j]] /\ f[j] > m
  BY <1>1, <1>2, <1>3
<1>6. \A j, l \in DOMAIN q2 : j < l => f[j] < f[l]
  BY <1>1, <1>3
<1>7. Thins(q2, q, m)
  BY <1>4, <1>5, <1>6 DEF Thins
<1> QED
  BY <1>2, <1>7 DEF q2

(* The Hellos whose turn has come are counted: no more than the Hellos, and *)
(* never fewer than before.                                                 *)
LEMMA TurnedCount ==
  ASSUME NEW q, NEW l \in Nat
  PROVE  /\ IsFiniteSet(Turned(q, l)) /\ Turned(q, l) \subseteq 1..l
         /\ Cardinality(Turned(q, l)) \in 0..l
<1>1. Turned(q, l) \subseteq 1..l
  BY DEF Turned
<1>2. IsFiniteSet(1..l) /\ Cardinality(1..l) = l
  BY FS_Interval
<1>3. IsFiniteSet(Turned(q, l)) /\ Cardinality(Turned(q, l)) <= l
  BY <1>1, <1>2, FS_Subset
<1>4. Cardinality(Turned(q, l)) \in Nat
  BY <1>3, FS_CardinalityType
<1> QED
  BY <1>1, <1>3, <1>4

LEMMA TurnedGrows ==
  ASSUME NEW q, NEW l \in Nat, NEW q2, NEW l2 \in Nat, l <= l2,
         \A i \in DOMAIN q2 : q2[i].n <= l /\ q2[i].stage \in {"digest", "turn"} =>
           \E j \in DOMAIN q : q[j].n = q2[i].n /\ q[j].stage \in {"digest", "turn"}
  PROVE  /\ Turned(q, l) \subseteq Turned(q2, l2)
         /\ Cardinality(Turned(q, l)) <= Cardinality(Turned(q2, l2))
<1>1. ASSUME NEW n \in Turned(q, l) PROVE n \in Turned(q2, l2)
  <2>1. n \in 1..l2 /\ n <= l
    BY DEF Turned
  <2>2. ASSUME NEW i \in DOMAIN q2, q2[i].n = n, q2[i].stage \in {"digest", "turn"}
        PROVE FALSE
    <3>1. PICK j \in DOMAIN q : q[j].n = n /\ q[j].stage \in {"digest", "turn"}
      BY <2>1, <2>2
    <3> QED
      BY <3>1 DEF Turned
  <2> QED
    BY <2>1, <2>2 DEF Turned
<1>2. IsFiniteSet(Turned(q2, l2))
  BY TurnedCount
<1> QED
  BY <1>1, <1>2, FS_Subset

LEMMA DenseGrows ==
  ASSUME NEW tb \in Table, NEW w \in World, NEW n \in Nat, NEW m \in Nat, n <= m,
         Dense(tb, w, n)
  PROVE  Dense(tb, w, m)
<1>1. \A s \in Secrets : tb[s] \in Nat
  BY SeatTypes DEF Table
<1>2. \A i \in DOMAIN w.joins : w.joins[i].player \in Nat
  <2>1. w.joins \in Seq(Joining)
    BY DEF World
  <2>2. \A i \in DOMAIN w.joins : w.joins[i] \in Joining
    BY <2>1, ElementOfSeq, LenProperties
  <2> QED
    BY <2>2, SeatTypes DEF Joining
<1> QED
  BY <1>1, <1>2 DEF Dense

LEMMA ThinsKeeps ==
  ASSUME NEW q \in Seq(Waiting), NEW q2 \in Seq(Waiting), NEW m \in Nat, Thins(q2, q, m),
         NEW l \in Nat, InOrder(q, l), NEW tb, Resolutions(q, tb),
         NEW h, NEW ks, SeatedOnce(h, ks, q, m)
  PROVE  /\ InOrder(q2, l) /\ Resolutions(q2, tb) /\ SeatedOnce(h, ks, q2, 0)
         /\ Cardinality(Turned(q, l)) <= Cardinality(Turned(q2, l))
<1>1. PICK f \in [DOMAIN q2 -> DOMAIN q] :
        /\ \A i \in DOMAIN q2 : q2[i] = q[f[i]] /\ f[i] > m
        /\ \A i, j \in DOMAIN q2 : i < j => f[i] < f[j]
  BY DEF Thins
<1>2. /\ DOMAIN q \subseteq Nat /\ DOMAIN q2 \subseteq Nat
      /\ \A i \in DOMAIN q2 : i > 0
  BY LenProperties
<1>3. \A i \in DOMAIN q2 : f[i] \in DOMAIN q /\ f[i] \in Nat
  BY <1>1, <1>2
<1>4. InOrder(q2, l)
  BY <1>1, <1>3 DEF InOrder
<1>5. Resolutions(q2, tb)
  BY <1>1, <1>3 DEF Resolutions
<1>6. SeatedOnce(h, ks, q2, 0)
  <2> SUFFICES ASSUME NEW j \in DOMAIN q2
               PROVE  /\ ks[q2[j].sock].life # "idle" /\ ks[q2[j].sock].secret = q2[j].secret
                      /\ ~ks[q2[j].sock].settled
                      /\ \A c \in Conns : h.conns[c].sock = q2[j].sock =>
                           /\ h.conns[c].status = "awaiting"
                           /\ \A i \in DOMAIN q2 : i > 0 /\ q2[i].sock = q2[j].sock => i = j
    BY DEF SeatedOnce
  <2>1. f[j] \in DOMAIN q /\ f[j] > m /\ q2[j] = q[f[j]]
    BY <1>1
  <2>2. /\ ks[q2[j].sock].life # "idle" /\ ks[q2[j].sock].secret = q2[j].secret
        /\ ~ks[q2[j].sock].settled
    BY <2>1 DEF SeatedOnce
  <2>3. ASSUME NEW c \in Conns, h.conns[c].sock = q2[j].sock
        PROVE  /\ h.conns[c].status = "awaiting"
               /\ \A i \in DOMAIN q2 : i > 0 /\ q2[i].sock = q2[j].sock => i = j
    <3>1. h.conns[c].status = "awaiting"
      BY <2>1, <2>3 DEF SeatedOnce
    <3>2. ASSUME NEW i \in DOMAIN q2, q2[i].sock = q2[j].sock PROVE i = j
      <4>1. f[i] \in DOMAIN q /\ f[i] > m /\ q2[i] = q[f[i]]
        BY <1>1
      <4>2. f[i] = f[j]
        BY <2>1, <2>3, <3>2, <4>1 DEF SeatedOnce
      <4>3. ~(i < j) /\ ~(j < i)
        BY <1>1, <1>3, <4>2
      <4> QED
        BY <1>2, <4>3
    <3> QED
      BY <3>1, <3>2
  <2> QED
    BY <2>2, <2>3
<1>7. Cardinality(Turned(q, l)) <= Cardinality(Turned(q2, l))
  <2>1. \A i \in DOMAIN q2 : q2[i].n <= l /\ q2[i].stage \in {"digest", "turn"} =>
          \E j \in DOMAIN q : q[j].n = q2[i].n /\ q[j].stage \in {"digest", "turn"}
    BY <1>1, <1>3
  <2> QED
    BY <2>1, TurnedGrows
<1> QED
  BY <1>4, <1>5, <1>6, <1>7

(* A Hello that moves on stays where it is, and stays who it is.           *)
LEMMA MovedOnKeeps ==
  ASSUME NEW q \in Seq(Waiting), NEW i \in DOMAIN q, NEW e \in Waiting,
         e.n = q[i].n, e.sock = q[i].sock, e.secret = q[i].secret,
         NEW l \in Nat, InOrder(q, l), NEW h, NEW ks, SeatedOnce(h, ks, q, 0),
         e.stage \in {"digest", "turn"} => q[i].stage \in {"digest", "turn"}
  PROVE  /\ [q EXCEPT ![i] = e] \in Seq(Waiting)
         /\ DOMAIN [q EXCEPT ![i] = e] = DOMAIN q
         /\ \A j \in DOMAIN q : [q EXCEPT ![i] = e][j] = IF j = i THEN e ELSE q[j]
         /\ InOrder([q EXCEPT ![i] = e], l) /\ SeatedOnce(h, ks, [q EXCEPT ![i] = e], 0)
         /\ Cardinality(Turned(q, l)) <= Cardinality(Turned([q EXCEPT ![i] = e], l))
<1> DEFINE q2 == [q EXCEPT ![i] = e]
<1>1. q2 \in Seq(Waiting) /\ DOMAIN q2 = DOMAIN q
  <2>1. i \in 1..Len(q)
    BY LenProperties
  <2> QED
    BY <2>1, ExceptSeq
<1>2. \A j \in DOMAIN q : q2[j] = IF j = i THEN e ELSE q[j]
  OBVIOUS
<1> HIDE DEF q2
<1>3. \A j \in DOMAIN q : q2[j].n = q[j].n /\ q2[j].sock = q[j].sock /\ q2[j].secret = q[j].secret
  BY <1>2
<1>4. InOrder(q2, l)
  BY <1>1, <1>3 DEF InOrder
<1>5. SeatedOnce(h, ks, q2, 0)
  BY <1>1, <1>3 DEF SeatedOnce
<1>6. Cardinality(Turned(q, l)) <= Cardinality(Turned(q2, l))
  <2>1. \A j \in DOMAIN q2 : q2[j].n <= l /\ q2[j].stage \in {"digest", "turn"} =>
          \E m \in DOMAIN q : q[m].n = q2[j].n /\ q[m].stage \in {"digest", "turn"}
    BY <1>1, <1>2
  <2> QED
    BY <2>1, TurnedGrows
<1>7. QED
  BY <1>1, <1>2, <1>4, <1>5, <1>6 DEF q2
-----------------------------------------------------------------------------
(* Seats are given up and connections shut: nobody is seated anew.         *)
Emptier(h2, h, ks2, ks) ==
  /\ \A c \in Conns : h2.conns[c] = NoConn \/ h2.conns[c] = h.conns[c]
  /\ \A k \in Socks :
       /\ ks2[k].conn = ks[k].conn /\ ks2[k].secret = ks[k].secret
       /\ ks2[k].settled = ks[k].settled /\ ks2[k].player = ks[k].player
       /\ ks[k].life # "idle" => ks2[k].life # "idle"
  /\ \A c \in Conns : h2.conns[c].sock # 0 =>
       ks2[h2.conns[c].sock].life = ks[h2.conns[c].sock].life

LEMMA SeatFields ==
  ASSUME NEW h \in HostT, NEW c \in Conns
  PROVE  /\ h.conns[c] \in Seat /\ h.conns[c].sock \in {0} \cup Socks
         /\ h.conns[c].status \in Status /\ h.conns[c].player \in MaybePlayers
         /\ NoConn.sock = 0 /\ NoConn.status = "none" /\ NoConn.player = 0
<1>1. h.conns[c] \in Seat
  BY HostFields
<1> QED
  BY <1>1 DEF Seat, NoConn

LEMMA EmptierKeeps ==
  ASSUME NEW h \in HostT, NEW h2 \in HostT,
         NEW ks \in [Socks -> SockT], NEW ks2 \in [Socks -> SockT],
         Emptier(h2, h, ks2, ks), NEW sp, NEW sp2, sp2["late"] = 0 => sp["late"] = 0,
         SeatsHeld(h, ks, sp), SettledAs(ks), NEW q \in Seq(Waiting), NEW i, SeatedOnce(h, ks, q, i)
  PROVE  SeatsHeld(h2, ks2, sp2) /\ SettledAs(ks2) /\ SeatedOnce(h2, ks2, q, i)
<1>1. ASSUME NEW c \in Conns PROVE SeatHeld(h2.conns[c], c, ks2, sp2)
  <2>1. CASE h2.conns[c] = NoConn
    BY <2>1 DEF SeatHeld, NoConn
  <2>2. CASE h2.conns[c] # NoConn
    <3>1. h2.conns[c] = h.conns[c] /\ SeatHeld(h.conns[c], c, ks, sp)
      BY <2>2 DEF Emptier, SeatsHeld
    <3>2. h.conns[c].sock # 0 => h.conns[c].sock \in Socks
      BY SeatFields
    <3>3. h.conns[c].sock # 0 =>
            LET k == h.conns[c].sock IN
            /\ ks2[k].conn = ks[k].conn /\ ks2[k].settled = ks[k].settled
            /\ ks2[k].player = ks[k].player /\ ks2[k].life = ks[k].life
      BY <2>2, <3>1, <3>2 DEF Emptier
    <3> QED
      BY <3>1, <3>3 DEF SeatHeld
  <2> QED
    BY <2>1, <2>2
<1>2. SettledAs(ks2)
  BY DEF SettledAs, Emptier
<1>3. SeatedOnce(h2, ks2, q, i)
  <2>1. \A j \in DOMAIN q : q[j].sock \in Socks
    <3>1. \A j \in DOMAIN q : q[j] \in Waiting
      BY ElementOfSeq, LenProperties
    <3> QED
      BY <3>1 DEF Waiting
  <2>2. \A c \in Conns : h2.conns[c].sock # 0 => h2.conns[c] = h.conns[c]
    BY DEF Emptier, NoConn
  <2>3. 0 \notin Socks
    BY SeatTypes
  <2> QED
    BY <2>1, <2>2, <2>3 DEF SeatedOnce, Emptier
<1> QED
  BY <1>1, <1>2, <1>3 DEF SeatsHeld

(* The sim's slots and the seats are given up together.                    *)
LEMMA SameNames ==
  ASSUME NEW h, NEW h2, h2.conns = h.conns, h2.slot = h.slot, NEW ks, NEW tb,
         SeatsNamed(h, ks, tb)
  PROVE  SeatsNamed(h2, ks, tb)
BY DEF SeatsNamed

LEMMA NamesKept ==
  ASSUME NEW h \in HostT, NEW h2 \in HostT,
         NEW ks \in [Socks -> SockT], NEW ks2 \in [Socks -> SockT], NEW tb, NEW tb2, NEW sp,
         SeatsHeld(h, ks, sp), SeatsNamed(h, ks, tb), Emptier(h2, h, ks2, ks),
         \A s \in Secrets : tb[s] # 0 => tb2[s] = tb[s],
         \A c \in Conns : h2.conns[c] = NoConn => h2.slot[c] = 0,
         \A c \in Conns : h2.conns[c] # NoConn => h2.slot[c] = h.slot[c]
  PROVE  SeatsNamed(h2, ks2, tb2)
<1> SUFFICES ASSUME NEW c \in Conns
             PROVE  /\ h2.slot[c] = h2.conns[c].player
                    /\ h2.conns[c].status = "settled" =>
                         h2.conns[c].player = tb2[ks2[h2.conns[c].sock].secret]
                    /\ \A d \in Conns : c # d /\ h2.conns[c].player # 0 =>
                         h2.conns[d].player # h2.conns[c].player
  BY DEF SeatsNamed
<1>1. CASE h2.conns[c] = NoConn
  BY <1>1 DEF NoConn
<1>2. CASE h2.conns[c] # NoConn
  <2>1. h2.conns[c] = h.conns[c] /\ h2.slot[c] = h.slot[c]
    BY <1>2 DEF Emptier
  <2>2. h2.conns[c].status = "settled" =>
          h2.conns[c].player = tb2[ks2[h2.conns[c].sock].secret]
    <3> SUFFICES ASSUME h2.conns[c].status = "settled"
                 PROVE  h2.conns[c].player = tb2[ks2[h2.conns[c].sock].secret]
      OBVIOUS
    <3>1. h.conns[c].sock \in Socks /\ h.conns[c].player # 0
      BY <2>1, SeatFields DEF SeatsHeld, SeatHeld
    <3>2. ks2[h.conns[c].sock].secret = ks[h.conns[c].sock].secret
      BY <3>1 DEF Emptier
    <3>3. h.conns[c].player = tb[ks[h.conns[c].sock].secret]
      BY <2>1 DEF SeatsNamed
    <3>4. ks[h.conns[c].sock].secret \in Secrets
      BY <3>1 DEF SockT
    <3> QED
      BY <2>1, <3>1, <3>2, <3>3, <3>4
  <2>3. \A d \in Conns : h2.conns[d].player = 0 \/ h2.conns[d] = h.conns[d]
    BY DEF Emptier, NoConn
  <2> QED
    BY <2>1, <2>2, <2>3 DEF SeatsNamed
<1> QED
  BY <1>1, <1>2

(* A connection without a seat takes a free one.                           *)
SeatGiven(h2, h, k, c) ==
  /\ \A d \in Conns \ {c} : h2.conns[d] = h.conns[d]
  /\ h2.conns[c].sock = k /\ h2.conns[c].status = "garbage" /\ h2.conns[c].player = 0
  /\ h2.slot = h.slot

LEMMA AcceptedSeat ==
  ASSUME NEW h \in HostT, NEW c \in Conns, NEW k \in Socks
  PROVE  SeatGiven(Accepted(h, k, c), h, k, c)
<1> DEFINE st == [sock |-> k, status |-> "garbage", player |-> 0]
           acc == Accepted(h, k, c)
<1>1. h.conns \in [Conns -> Seat]
  BY HostFields
<1>2. acc.conns = [h.conns EXCEPT ![c] = st]
  BY AcceptedIs
<1>3. acc.slot = h.slot
  BY AcceptedIs
<1> HIDE DEF acc
<1>4. acc.conns[c] = st /\ \A d \in Conns \ {c} : acc.conns[d] = h.conns[d]
  BY <1>1, <1>2
<1>5. st.sock = k /\ st.status = "garbage" /\ st.player = 0
  OBVIOUS
<1> HIDE DEF st
<1>6. SeatGiven(acc, h, k, c)
  BY <1>3, <1>4, <1>5 DEF SeatGiven
<1> QED
  BY <1>6, Zenon DEF acc

LEMMA SeatTaken ==
  ASSUME NEW h \in HostT, NEW c \in Conns, h.conns[c] = NoConn, NEW k \in Socks,
         NEW ks \in [Socks -> SockT], NEW ks2 \in [Socks -> SockT], NEW sp,
         \A j \in Socks : j # k => ks2[j] = ks[j],
         ks2[k].conn = c, ~ks2[k].settled, ks2[k].life \in {"open", "closing"},
         sp["late"] = 0 => ks2[k].life = "open",
         \A d \in Conns : h.conns[d].sock # k,
         NEW q \in Seq(Waiting), \A j \in DOMAIN q : q[j].sock # k,
         SeatsHeld(h, ks, sp), SettledAs(ks), SeatedOnce(h, ks, q, 0)
  PROVE  /\ SeatsHeld(Accepted(h, k, c), ks2, sp) /\ SettledAs(ks2)
         /\ SeatedOnce(Accepted(h, k, c), ks2, q, 0)
         /\ \A tb : SeatsNamed(h, ks, tb) => SeatsNamed(Accepted(h, k, c), ks2, tb)
<1> DEFINE h2 == Accepted(h, k, c)
<1>1. /\ \A d \in Conns \ {c} : h2.conns[d] = h.conns[d]
      /\ h2.conns[c].sock = k /\ h2.conns[c].status = "garbage" /\ h2.conns[c].player = 0
      /\ h2.slot = h.slot
  <2>1. SeatGiven(h2, h, k, c)
    BY AcceptedSeat
  <2> HIDE DEF h2
  <2> QED
    BY <2>1, Zenon DEF SeatGiven
<1> HIDE DEF h2
<1>2. ASSUME NEW d \in Conns PROVE SeatHeld(h2.conns[d], d, ks2, sp)
  <2>1. CASE d = c
    BY <1>1, <2>1, SeatTypes DEF SeatHeld
  <2>2. CASE d # c
    <3>1. h2.conns[d] = h.conns[d] /\ SeatHeld(h.conns[d], d, ks, sp)
      BY <1>1, <2>2 DEF SeatsHeld
    <3>2. h.conns[d].sock # 0 => ks2[h.conns[d].sock] = ks[h.conns[d].sock]
      BY SeatFields
    <3> QED
      BY <3>1, <3>2 DEF SeatHeld
  <2> QED
    BY <2>1, <2>2
<1>3. SettledAs(ks2)
  BY DEF SettledAs
<1>4. SeatedOnce(h2, ks2, q, 0)
  <2>1. \A j \in DOMAIN q : q[j].sock \in Socks
    <3>1. \A j \in DOMAIN q : q[j] \in Waiting
      BY ElementOfSeq, LenProperties
    <3> QED
      BY <3>1 DEF Waiting
  <2>2. \A j \in DOMAIN q : ks2[q[j].sock] = ks[q[j].sock]
    BY <2>1
  <2>3. \A j \in DOMAIN q, d \in Conns : h2.conns[d].sock = q[j].sock => h2.conns[d] = h.conns[d]
    BY <1>1
  <2> QED
    BY <2>2, <2>3 DEF SeatedOnce
<1>5. ASSUME NEW tb, SeatsNamed(h, ks, tb) PROVE SeatsNamed(h2, ks2, tb)
  <2>1. h.conns[c].player = 0
    BY DEF NoConn
  <2>2. \A d \in Conns : h2.conns[d].player = h.conns[d].player
    BY <1>1, <2>1
  <2>3. ASSUME NEW d \in Conns, h2.conns[d].status = "settled"
        PROVE  h2.conns[d].player = tb[ks2[h2.conns[d].sock].secret]
    <3>1. h2.conns[d] = h.conns[d]
      BY <1>1, <2>3
    <3>2. h.conns[d].sock \in Socks
      BY <2>3, <3>1, SeatFields DEF SeatsHeld, SeatHeld
    <3>3. ks2[h.conns[d].sock] = ks[h.conns[d].sock]
      BY <3>2
    <3> QED
      BY <1>5, <2>3, <3>1, <3>3 DEF SeatsNamed
  <2> QED
    BY <1>1, <1>5, <2>2, <2>3 DEF SeatsNamed
<1> QED
  BY <1>2, <1>3, <1>4, <1>5 DEF SeatsHeld, h2

(* A Hello is heard and queued.                                            *)
AwaitingAt(h, c) == [Resumed(h) EXCEPT !.conns[c].status = "awaiting"]
LEMMA AwaitingIs ==
  ASSUME NEW h \in HostT, NEW c \in Conns
  PROVE  /\ AwaitingAt(h, c) \in HostT
         /\ \A d \in Conns \ {c} : AwaitingAt(h, c).conns[d] = h.conns[d]
         /\ AwaitingAt(h, c).conns[c].status = "awaiting"
         /\ AwaitingAt(h, c).conns[c].sock = h.conns[c].sock
         /\ AwaitingAt(h, c).conns[c].player = h.conns[c].player
         /\ AwaitingAt(h, c).slot = h.slot /\ AwaitingAt(h, c).pending = h.pending
         /\ AwaitingAt(h, c).online = h.online /\ AwaitingAt(h, c).grace = h.grace
<1> DEFINE g == Resumed(h)
           cs == [g.conns EXCEPT ![c].status = "awaiting"]
<1>1. /\ g \in HostT
      /\ g.conns = h.conns /\ g.slot = h.slot
      /\ g.pending = h.pending /\ g.online = h.online /\ g.grace = h.grace
  BY ResumedIs
<1> HIDE DEF g
<1>2. h.conns[c] \in Seat /\ g.conns \in [Conns -> Seat]
  BY <1>1, HostFields
<1>3. [h.conns[c] EXCEPT !.status = "awaiting"] \in Seat
  BY <1>2 DEF Seat, Status
<1>4. cs \in [Conns -> Seat]
  BY <1>1, <1>2, <1>3
<1>5. /\ \A d \in Conns \ {c} : cs[d] = h.conns[d]
      /\ cs[c].status = "awaiting" /\ cs[c].sock = h.conns[c].sock
      /\ cs[c].player = h.conns[c].player
  BY <1>1, <1>2 DEF Seat
<1>6. AwaitingAt(h, c) = [g EXCEPT !.conns = cs]
  BY <1>1, HostFields DEF AwaitingAt, g
<1> HIDE DEF cs
<1>7. AwaitingAt(h, c) \in HostT /\ AwaitingAt(h, c).conns = cs
  BY <1>1, <1>4, <1>6, HostFields DEF HostT
<1> QED
  BY <1>1, <1>5, <1>6, <1>7, HostFields

LEMMA HelloSeats ==
  ASSUME NEW h \in HostT, NEW k \in Socks, NEW ks \in [Socks -> SockT], NEW sp,
         NEW c \in Conns, ks[k].conn = c, h.conns[c].status = "garbage",
         ks[k].life # "idle", ~ks[k].settled,
         NEW q \in Seq(Waiting), NEW e \in Waiting, e.sock = k, e.secret = ks[k].secret,
         SeatsHeld(h, ks, sp), SeatedOnce(h, ks, q, 0)
  PROVE  /\ SeatsHeld(AwaitingAt(h, c), ks, sp)
         /\ SeatedOnce(AwaitingAt(h, c), ks, Append(q, e), 0)
         /\ \A tb : SeatsNamed(h, ks, tb) => SeatsNamed(AwaitingAt(h, c), ks, tb)
<1> DEFINE h2 == AwaitingAt(h, c)
           q2 == Append(q, e)
           n == Len(q)
<1>1. /\ \A d \in Conns \ {c} : h2.conns[d] = h.conns[d]
      /\ h2.conns[c].status = "awaiting" /\ h2.conns[c].sock = h.conns[c].sock
      /\ h2.conns[c].player = h.conns[c].player /\ h2.slot = h.slot
  BY AwaitingIs
<1>2. /\ n \in Nat /\ DOMAIN q = 1..n /\ DOMAIN q2 = 1..(n + 1)
      /\ \A j \in 1..n : q2[j] = q[j]
      /\ q2[n + 1] = e
  BY LenProperties, AppendProperties
<1> HIDE DEF h2, q2, n
<1>3. ASSUME NEW d \in Conns PROVE SeatHeld(h2.conns[d], d, ks, sp)
  <2>1. SeatHeld(h.conns[d], d, ks, sp)
    BY DEF SeatsHeld
  <2> QED
    BY <1>1, <2>1 DEF SeatHeld
<1>4. \A d \in Conns : h2.conns[d].sock = h.conns[d].sock
  BY <1>1
<1>5. \A d \in Conns : h.conns[d].sock = k => d = c
  BY SeatTypes DEF SeatsHeld, SeatHeld
<1>6. ASSUME NEW j \in DOMAIN q2, j > 0
      PROVE  /\ ks[q2[j].sock].life # "idle" /\ ks[q2[j].sock].secret = q2[j].secret
             /\ ~ks[q2[j].sock].settled
             /\ \A d \in Conns : h2.conns[d].sock = q2[j].sock =>
                  /\ h2.conns[d].status = "awaiting"
                  /\ \A m \in DOMAIN q2 : m > 0 /\ q2[m].sock = q2[j].sock => m = j
  <2>1. CASE j \in 1..n
    <3>1. j \in DOMAIN q /\ q2[j] = q[j]
      BY <1>2, <2>1
    <3>2. /\ ks[q2[j].sock].life # "idle" /\ ks[q2[j].sock].secret = q2[j].secret
          /\ ~ks[q2[j].sock].settled
      BY <1>6, <3>1 DEF SeatedOnce
    <3>3. ASSUME NEW d \in Conns, h2.conns[d].sock = q2[j].sock
          PROVE  /\ h2.conns[d].status = "awaiting"
                 /\ \A m \in DOMAIN q2 : m > 0 /\ q2[m].sock = q2[j].sock => m = j
      <4>1. h.conns[d].status = "awaiting"
        BY <1>4, <1>6, <3>1, <3>3 DEF SeatedOnce
      <4>2. d # c /\ h2.conns[d].status = "awaiting"
        BY <1>1, <4>1
      <4>3. q2[j].sock # k
        BY <1>4, <1>5, <3>3, <4>2
      <4>4. ASSUME NEW m \in DOMAIN q2, m > 0, q2[m].sock = q2[j].sock PROVE m = j
        <5>1. m # n + 1
          BY <1>2, <4>3, <4>4
        <5>2. m \in DOMAIN q /\ q2[m] = q[m]
          BY <1>2, <5>1
        <5> QED
          BY <1>4, <1>6, <3>1, <3>3, <4>4, <5>2 DEF SeatedOnce
      <4> QED
        BY <4>2, <4>4
    <3> QED
      BY <3>2, <3>3
  <2>2. CASE j = n + 1
    <3>1. q2[j] = e
      BY <1>2, <2>2
    <3>2. ASSUME NEW d \in Conns, h2.conns[d].sock = k
          PROVE  /\ h2.conns[d].status = "awaiting"
                 /\ \A m \in DOMAIN q2 : m > 0 /\ q2[m].sock = k => m = j
      <4>1. d = c
        BY <1>4, <1>5, <3>2
      <4>2. h.conns[c].sock = k
        BY <1>4, <3>2, <4>1
      <4>3. \A m \in DOMAIN q : q[m].sock # k
        BY <1>2, <4>2 DEF SeatedOnce
      <4> QED
        BY <1>1, <1>2, <2>2, <4>1, <4>3
    <3> QED
      BY <3>1, <3>2
  <2> QED
    BY <1>2, <2>1, <2>2
<1>7. SeatedOnce(h2, ks, q2, 0)
  BY <1>6 DEF SeatedOnce
<1>8. ASSUME NEW tb, SeatsNamed(h, ks, tb) PROVE SeatsNamed(h2, ks, tb)
  <2>1. \A d \in Conns : h2.conns[d].player = h.conns[d].player
    BY <1>1
  <2>2. \A d \in Conns : h2.conns[d].status = "settled" => h2.conns[d] = h.conns[d]
    BY <1>1
  <2> QED
    BY <1>1, <1>8, <2>1, <2>2 DEF SeatsNamed
<1> QED
  BY <1>3, <1>7, <1>8 DEF SeatsHeld, h2, q2

LEMMA HelloQueued ==
  ASSUME NEW q \in Seq(Waiting), NEW l \in Nat, NEW e \in Waiting, e.n = l + 1,
         e.stage = "digest", e.bytes = NoTable, InOrder(q, l), NEW tb, Resolutions(q, tb)
  PROVE  /\ Append(q, e) \in Seq(Waiting)
         /\ InOrder(Append(q, e), l + 1) /\ Resolutions(Append(q, e), tb)
         /\ Cardinality(Turned(q, l)) <= Cardinality(Turned(Append(q, e), l + 1))
<1> DEFINE q2 == Append(q, e)
           n == Len(q)
<1>1. /\ n \in Nat /\ DOMAIN q = 1..n /\ DOMAIN q2 = 1..(n + 1)
      /\ \A j \in 1..n : q2[j] = q[j]
      /\ q2[n + 1] = e /\ q2 \in Seq(Waiting)
  BY LenProperties, AppendProperties
<1> HIDE DEF q2, n
<1>2. \A j \in 1..n : q[j].n \in Nat
  <2>1. \A j \in 1..n : q[j] \in Waiting
    BY <1>1, ElementOfSeq, LenProperties
  <2> QED
    BY <2>1, SessionsAssumption DEF Waiting
<1>3. InOrder(q2, l + 1)
  <2>1. ASSUME NEW i \in DOMAIN q2, NEW j \in DOMAIN q2, i < j PROVE q2[i].n < q2[j].n
    <3>1. i \in 1..n /\ q2[i].n = q[i].n /\ q[i].n \in Nat /\ q[i].n <= l
      BY <1>1, <1>2, <2>1 DEF InOrder
    <3>2. CASE j = n + 1
      BY <1>1, <3>1, <3>2
    <3>3. CASE j \in 1..n
      BY <1>1, <2>1, <3>1, <3>3 DEF InOrder
    <3> QED
      BY <1>1, <3>2, <3>3
  <2>2. ASSUME NEW i \in DOMAIN q2 PROVE q2[i].n <= l + 1
    <3>1. CASE i = n + 1
      BY <1>1, <3>1
    <3>2. CASE i \in 1..n
      BY <1>1, <1>2, <3>2 DEF InOrder
    <3> QED
      BY <1>1, <3>1, <3>2
  <2> QED
    BY <2>1, <2>2 DEF InOrder
<1>4. Resolution(e, tb)
  BY DEF Resolution, Older, NoTable
<1>5. Resolutions(q2, tb)
  BY <1>1, <1>4 DEF Resolutions
<1>6. \A i \in DOMAIN q2 : q2[i].n <= l /\ q2[i].stage \in {"digest", "turn"} =>
        \E j \in DOMAIN q : q[j].n = q2[i].n /\ q[j].stage \in {"digest", "turn"}
  BY <1>1
<1>7. Cardinality(Turned(q, l)) <= Cardinality(Turned(q2, l + 1))
  BY <1>6, TurnedGrows
<1> QED
  BY <1>1, <1>3, <1>5, <1>7 DEF q2
-----------------------------------------------------------------------------
(* What is logged is a log; a departure takes a player off the roster and  *)
(* joins nobody.                                                           *)
LEMMA LoggedType ==
  ASSUME NEW w \in World, NEW recs \in Seq(Note)
  PROVE  Logged(w, recs) \in World
<1> DEFINE n == Len(recs)
<1>1. n \in Nat /\ \A i \in 1..n : recs[i] \in Note
  BY LenProperties, ElementOfSeq
<1>2. PICK f : /\ f[0] = w
               /\ \A i \in 1..n : f[i] = Recorded(f[i - 1], recs[i])
               /\ Logged(w, recs) = f[n]
  <2>1. LoggedInTurn(w, recs)
    BY LoggedRun
  <2> QED
    BY <2>1 DEF LoggedInTurn
<1> HIDE DEF n
<1> DEFINE Bad == {i \in 0..n : f[i] \notin World}
<1>3. Bad = {}
  <2> SUFFICES ASSUME Bad # {} PROVE FALSE
    OBVIOUS
  <2>1. PICK m \in Bad : \A y \in Bad : m <= y
    <3>1. Bad \in SUBSET Nat
      BY <1>1
    <3> HIDE DEF Bad
    <3> QED
      BY <3>1, NatMin
  <2>2. m \in 0..n /\ f[m] \notin World
    BY <2>1
  <2>3. m # 0
    BY <1>2, <2>2
  <2>4. m - 1 \in 0..n /\ m - 1 \notin Bad /\ m \in 1..n
    <3> HIDE DEF Bad
    <3> QED
      BY <1>1, <2>1, <2>2, <2>3
  <2>5. f[m - 1] \in World /\ recs[m] \in Note
    BY <1>1, <2>4
  <2>6. Recorded(f[m - 1], recs[m]) \in World
    BY <2>5, RecordedType
  <2> QED
    BY <1>2, <2>2, <2>4, <2>6
<1> QED
  BY <1>1, <1>2, <1>3

LEMMA DepartureLogged ==
  ASSUME NEW w \in World, NEW h \in HostT, NEW p \in Players
  PROVE  /\ Logged(w, LoggedOff(h, p).pending).joins = Logged(w, h.pending).joins
         /\ Logged(w, LoggedOff(h, p).pending).roster = Logged(w, h.pending).roster \ {p}
<1> DEFINE x == [ev |-> "Disconnected", player |-> p]
<1>1. x \in Note /\ LoggedOff(h, p).pending = Append(h.pending, x)
  BY LoggedOffIs
<1>2. h.pending \in Seq(Note)
  BY HostFields
<1>3. x.ev = "Disconnected" /\ x.player = p
  OBVIOUS
<1> HIDE DEF x
<1>4. Logged(w, Append(h.pending, x)) = Recorded(Logged(w, h.pending), x)
  BY <1>1, <1>2, LoggedLast
<1>5. Logged(w, h.pending) \in World
  BY <1>2, LoggedType
<1>6. x.ev # "Joined"
  BY <1>3
<1>7. /\ Recorded(Logged(w, h.pending), x).joins = Logged(w, h.pending).joins
      /\ Recorded(Logged(w, h.pending), x).roster = Logged(w, h.pending).roster \ {x.player}
  BY <1>1, <1>3, <1>5, <1>6, RecordedType
<1> QED
  BY <1>1, <1>3, <1>4, <1>7
-----------------------------------------------------------------------------
(* Troubles are counted and never forgotten.                               *)
LEMMA TroubleIs ==
  ASSUME spent \in [Kinds -> Nat], NEW kind \in Kinds, Trouble(kind)
  PROVE  /\ spent' \in [Kinds -> Nat] /\ spent'[kind] # 0
         /\ \A x \in Kinds : spent'[x] = 0 => spent[x] = 0
<1>1. spent' = [spent EXCEPT ![kind] = spent[kind] + 1]
  BY DEF Trouble
<1> QED
  BY <1>1

LEMMA LateIfIs ==
  ASSUME spent \in [Kinds -> Nat], NEW stale, LateIf(stale)
  PROVE  /\ spent' \in [Kinds -> Nat] /\ (stale => spent'["late"] # 0)
         /\ \A x \in Kinds : spent'[x] = 0 => spent[x] = 0
<1>1. CASE stale
  <2>1. Trouble("late") /\ "late" \in Kinds
    BY <1>1 DEF LateIf, Kinds
  <2> QED
    BY <2>1, TroubleIs
<1>2. CASE ~stale
  BY <1>2 DEF LateIf
<1> QED
  BY <1>1, <1>2

(* Steps that give no one a number and log no join.                        *)
LEMMA IdentityKept ==
  ASSUME SessInv, table' = table, world' = world, hellos' \in Nat,
         disk' \in {disk, table} \/ \E i \in DOMAIN queue : disk' = queue[i].bytes,
         Resolutions(queue', table),
         Cardinality(Turned(queue, hellos)) <= Cardinality(Turned(queue', hellos')),
         Logged(world, host'.pending).joins = Logged(world, host.pending).joins
  PROVE  IdentityInv'
<1>1. OnePerSecret(table') /\ JoinedAsTable(world', table') /\ Older(disk', table')
  BY DEF SessInv, IdentityInv, Older, Resolutions, Resolution
<1>2. NoneJoining(host', world')
  BY DEF SessInv, IdentityInv, NoneJoining
<1>3. Dense(table', world', Cardinality(Turned(queue', hellos')))
  <2>1. /\ table \in Table /\ world \in World /\ hellos \in Nat
        /\ Dense(table, world, Cardinality(Turned(queue, hellos)))
    BY SessionsAssumption DEF SessInv, Shapes, IdentityInv
  <2>2. /\ Cardinality(Turned(queue, hellos)) \in Nat
        /\ Cardinality(Turned(queue', hellos')) \in Nat
    BY <2>1, TurnedCount
  <2> QED
    BY <2>1, <2>2, DenseGrows
<1> QED
  BY <1>1, <1>2, <1>3 DEF IdentityInv

(* The roster does not notice a seat given up, or taken and not settled.   *)
LEMMA RosterKept ==
  ASSUME NEW h, NEW h2, NEW w, RosterOf(h, w), h2.pending = h.pending,
         h2.online = h.online, h2.grace = h.grace,
         \A c \in Conns : h2.conns[c].status = "settled" => h2.conns[c] = h.conns[c]
  PROVE  RosterOf(h2, w)
  BY DEF RosterOf

(* A connection has its ConnId's seat or none.                             *)
LEMMA OneSeat ==
  ASSUME NEW h, NEW ks, NEW sp, SeatsHeld(h, ks, sp), NEW k \in Socks,
         NEW c \in Conns, h.conns[c].sock = k
  PROVE  /\ c = ks[k].conn /\ ks[k].life \in {"open", "closing"}
         /\ sp["late"] = 0 => ks[k].life = "open"
         /\ ks[k].settled <=> h.conns[c].status = "settled"
         /\ h.conns[c].status = "settled" => ks[k].player = h.conns[c].player
  BY SeatTypes DEF SeatsHeld, SeatHeld

(* What becomes of one connection's record.                                *)
LEMMA FreshIs ==
  ASSUME NEW ks \in [Socks -> SockT], NEW k \in Socks, NEW c \in Conns
  PROVE  /\ Fresh(k, c, ks) \in [Socks -> SockT]
         /\ \A j \in Socks : j # k => Fresh(k, c, ks)[j] = ks[j]
         /\ Fresh(k, c, ks)[k].conn = c /\ ~Fresh(k, c, ks)[k].settled
         /\ Fresh(k, c, ks)[k].life = ks[k].life
         /\ Fresh(k, c, ks)[k].secret = ks[k].secret
         /\ Fresh(k, c, ks)[k].player = ks[k].player
<1>1. ks[k] \in SockT
  OBVIOUS
<1>2. [ks[k] EXCEPT !.conn = c, !.settled = FALSE] \in SockT
  BY <1>1 DEF SockT
<1>3. Fresh(k, c, ks) = [ks EXCEPT ![k] = [ks[k] EXCEPT !.conn = c, !.settled = FALSE]]
  BY DEF Fresh
<1> QED
  BY <1>1, <1>2, <1>3 DEF SockT

LEMMA LifeIs ==
  ASSUME NEW ks \in [Socks -> SockT], NEW k \in Socks, NEW v \in Life
  PROVE  /\ [ks EXCEPT ![k].life = v] \in [Socks -> SockT]
         /\ \A j \in Socks : j # k => [ks EXCEPT ![k].life = v][j] = ks[j]
         /\ [ks EXCEPT ![k].life = v][k].life = v
         /\ [ks EXCEPT ![k].life = v][k].conn = ks[k].conn
         /\ [ks EXCEPT ![k].life = v][k].secret = ks[k].secret
         /\ [ks EXCEPT ![k].life = v][k].settled = ks[k].settled
         /\ [ks EXCEPT ![k].life = v][k].player = ks[k].player
<1>1. ks[k] \in SockT
  OBVIOUS
<1>2. [ks[k] EXCEPT !.life = v] \in SockT
  BY <1>1 DEF SockT
<1> QED
  BY <1>1, <1>2 DEF SockT

LEMMA ShutIs ==
  ASSUME NEW ks \in [Socks -> SockT], NEW k \in Socks
  PROVE  /\ Shut(k, ks) \in [Socks -> SockT]
         /\ \A j \in Socks : j # k => Shut(k, ks)[j] = ks[j]
         /\ Shut(k, ks)[k].conn = ks[k].conn /\ Shut(k, ks)[k].secret = ks[k].secret
         /\ Shut(k, ks)[k].settled = ks[k].settled /\ Shut(k, ks)[k].player = ks[k].player
         /\ ks[k].life # "idle" => Shut(k, ks)[k].life # "idle"
<1> DEFINE v == IF Lingers /\ ks[k].life = "open" THEN "closing" ELSE
                IF Lingers THEN ks[k].life ELSE "gone"
<1>1. ks[k] \in SockT
  OBVIOUS
<1>2. v \in Life /\ (ks[k].life # "idle" => v # "idle")
  BY <1>1 DEF SockT, Life
<1>3. Shut(k, ks) = [ks EXCEPT ![k].life = v]
  BY DEF Shut
<1> HIDE DEF v
<1> QED
  BY <1>2, <1>3, LifeIs
-----------------------------------------------------------------------------
(* The invariant from one step to the next, action by action.              *)
LEMMA DialStep ==
  ASSUME SessInv, NEW k \in Socks, NEW s \in Secrets, Dial(k, s)
  PROVE  SessInv'
<1> DEFINE c == Min(FreeConns)
           ks1 == [sock EXCEPT ![k].life = "open", ![k].secret = s]
           ks2 == Fresh(k, c, ks1)
<1>1. /\ sock \in [Socks -> SockT] /\ host \in HostT /\ queue \in Seq(Waiting)
      /\ SeatsHeld(host, sock, spent) /\ SettledAs(sock) /\ SeatedOnce(host, sock, queue, 0)
  BY DEF SessInv, Shapes, SeatsInv
<1>2. c \in Conns /\ host.conns[c] = NoConn
  <2>1. FreeConns \in SUBSET Nat /\ FreeConns # {}
    BY SessionsAssumption DEF FreeConns, Dial
  <2>2. Min(FreeConns) \in FreeConns
    BY <2>1, MinIn
  <2> QED
    BY <2>2 DEF FreeConns
<1>3. /\ sock' = ks2 /\ host' = Accepted(host, k, c) /\ sock[k].life = "idle"
      /\ hellos' = hellos /\ queue' = queue /\ table' = table /\ disk' = disk
      /\ world' = world /\ spent' = spent
  BY DEF Dial
<1> HIDE DEF c
<1>4. /\ ks1 \in [Socks -> SockT] /\ ks1[k].life = "open"
      /\ \A j \in Socks : j # k => ks1[j] = sock[j]
  <2>1. sock[k] \in SockT
    BY <1>1
  <2>2. [sock[k] EXCEPT !.life = "open", !.secret = s] \in SockT
    BY <2>1 DEF SockT, Life
  <2>3. ks1 = [sock EXCEPT ![k] = [sock[k] EXCEPT !.life = "open", !.secret = s]]
    OBVIOUS
  <2>4. [sock[k] EXCEPT !.life = "open", !.secret = s].life = "open"
    BY <2>1 DEF SockT
  <2> QED
    BY <1>1, <2>2, <2>3, <2>4
<1> HIDE DEF ks1
<1>5. /\ ks2 \in [Socks -> SockT] /\ \A j \in Socks : j # k => ks2[j] = sock[j]
      /\ ks2[k].conn = c /\ ~ks2[k].settled /\ ks2[k].life = "open"
  BY <1>2, <1>4, FreshIs
<1> HIDE DEF ks2
<1>6. \A d \in Conns : host.conns[d].sock # k
  BY <1>1, <1>3, OneSeat
<1>7. \A j \in DOMAIN queue : queue[j].sock # k
  BY <1>1, <1>3, LenProperties DEF SeatedOnce
<1>8. SeatsInv' /\ \A tb : SeatsNamed(host, sock, tb) => SeatsNamed(host', sock', tb)
  BY <1>1, <1>2, <1>3, <1>5, <1>6, <1>7, SeatTaken DEF SeatsInv
<1>9. /\ host' \in HostT /\ host'.pending = host.pending
      /\ host'.online = host.online /\ host'.grace = host.grace
      /\ \A d \in Conns : host'.conns[d].status = "settled" => host'.conns[d] = host.conns[d]
  <2>1. host.conns \in [Conns -> Seat]
    BY <1>1, HostFields
  <2>2. /\ host' \in HostT
        /\ host'.conns = [host.conns EXCEPT ![c] = [sock |-> k, status |-> "garbage", player |-> 0]]
        /\ host'.pending = host.pending /\ host'.online = host.online /\ host'.grace = host.grace
    BY <1>1, <1>2, <1>3, AcceptedIs
  <2> QED
    BY <2>1, <2>2
<1>10. Shapes' /\ InOrder(queue', hellos')
  BY <1>3, <1>5, <1>9 DEF SessInv, Shapes
<1>11. IdentityInv'
  <2>1. hellos' \in Nat /\ Resolutions(queue', table)
    BY <1>3, SessionsAssumption DEF SessInv, Shapes, IdentityInv
  <2>2. Cardinality(Turned(queue, hellos)) <= Cardinality(Turned(queue', hellos'))
    BY <1>3, <2>1, TurnedCount
  <2> QED
    BY <1>3, <1>9, <2>1, <2>2, IdentityKept
<1>12. NamesInv' /\ PresenceInv'
  BY <1>3, <1>8, <1>9, RosterKept DEF SessInv, NamesInv, PresenceInv, Never, Undisturbed
<1> QED
  BY <1>8, <1>10, <1>11, <1>12 DEF SessInv

(* Steps by which seats are given up and nobody gets a number or a seat.   *)
LEMMA EmptyingKept ==
  ASSUME SessInv, host' \in HostT, sock' \in [Socks -> SockT],
         Emptier(host', host, sock', sock),
         spent' \in [Kinds -> Nat], \A x \in Kinds : spent'[x] = 0 => spent[x] = 0,
         table' = table, world' = world, hellos' = hellos,
         disk' \in {disk, table} \/ \E i \in DOMAIN queue : disk' = queue[i].bytes,
         queue' \in Seq(Waiting), InOrder(queue', hellos), Resolutions(queue', table),
         SeatedOnce(host, sock, queue', 0),
         Cardinality(Turned(queue, hellos)) <= Cardinality(Turned(queue', hellos)),
         Logged(world, host'.pending).joins = Logged(world, host.pending).joins,
         spent'["recovers"] = 0 => \A c \in Conns :
           host'.slot[c] = IF host'.conns[c] = NoConn THEN 0 ELSE host.slot[c],
         spent'["late"] = 0 /\ spent'["recovers"] = 0 => RosterOf(host', world)
  PROVE  SessInv'
<1>1. "late" \in Kinds /\ "recovers" \in Kinds
  BY DEF Kinds
<1>2. Shapes'
  <2>1. \A i \in DOMAIN queue : queue[i].bytes \in Table
    <3>1. queue \in Seq(Waiting)
      BY DEF SessInv, Shapes
    <3>2. \A i \in DOMAIN queue : queue[i] \in Waiting
      BY <3>1, ElementOfSeq, LenProperties
    <3> QED
      BY <3>2 DEF Waiting
  <2> QED
    BY <2>1 DEF SessInv, Shapes
<1>3. SeatsInv'
  <2>1. /\ host \in HostT /\ sock \in [Socks -> SockT]
        /\ SeatsHeld(host, sock, spent) /\ SettledAs(sock)
    BY DEF SessInv, Shapes, SeatsInv
  <2>2. spent'["late"] = 0 => spent["late"] = 0
    BY <1>1
  <2> QED
    BY <2>1, <2>2, EmptierKeeps DEF SeatsInv
<1>4. IdentityInv'
  BY SessionsAssumption, IdentityKept DEF SessInv, Shapes
<1>5. NamesInv'
  <2> SUFFICES ASSUME spent'["recovers"] = 0 PROVE SeatsNamed(host', sock', table)
    BY DEF NamesInv, Never
  <2>1. /\ host \in HostT /\ sock \in [Socks -> SockT]
        /\ SeatsHeld(host, sock, spent) /\ SeatsNamed(host, sock, table)
    BY <1>1 DEF SessInv, Shapes, SeatsInv, NamesInv, Never
  <2> QED
    BY <2>1, NamesKept
<1>6. PresenceInv'
  BY DEF PresenceInv, Undisturbed, Never
<1> QED
  BY <1>2, <1>3, <1>4, <1>5, <1>6 DEF SessInv

(* What a step leaves alone.                                               *)
LEMMA Unmoved ==
  ASSUME SessInv
  PROVE  /\ host \in HostT /\ sock \in [Socks -> SockT] /\ queue \in Seq(Waiting)
         /\ table \in Table /\ disk \in Table /\ world \in World
         /\ hellos \in 0..MaxHellos /\ hellos \in Nat /\ spent \in [Kinds -> Nat]
         /\ SeatsHeld(host, sock, spent) /\ SettledAs(sock)
         /\ SeatedOnce(host, sock, queue, 0) /\ InOrder(queue, hellos)
         /\ Resolutions(queue, table) /\ NoneJoining(host, world)
         /\ (spent["recovers"] = 0 => SeatsNamed(host, sock, table))
         /\ (spent["late"] = 0 /\ spent["recovers"] = 0 => RosterOf(host, world))
         /\ Cardinality(Turned(queue, hellos)) \in 0..hellos
  BY SessionsAssumption, TurnedCount
     DEF SessInv, Shapes, SeatsInv, IdentityInv, NamesInv, PresenceInv, Undisturbed, Never

(* Who is settled in a seat, by its connection's record.                   *)
LEMMA SettledSeat ==
  ASSUME NEW h \in HostT, NEW ks, NEW sp, SeatsHeld(h, ks, sp), NEW c \in Conns,
         h.conns[c].status = "settled"
  PROVE  h.conns[c].player \in Players /\ h.conns[c].sock \in Socks
<1>1. h.conns[c].player # 0 /\ h.conns[c].sock # 0
  BY DEF SeatsHeld, SeatHeld
<1> QED
  BY <1>1, SeatFields DEF MaybePlayers

LEMMA ClosedStep ==
  ASSUME SessInv, NEW k \in Socks, Closed(k)
  PROVE  SessInv'
<1> DEFINE c == sock[k].conn
           held == host.conns[c]
           p == held.player
<1>1. /\ host \in HostT /\ sock \in [Socks -> SockT] /\ spent \in [Kinds -> Nat]
      /\ SeatsHeld(host, sock, spent) /\ SettledAs(sock)
  BY Unmoved
<1>2. c \in Conns
  BY <1>1 DEF SockT
<1>3. /\ sock' = [sock EXCEPT ![k].life = "gone"] /\ disk' \in {disk, table}
      /\ hellos' = hellos /\ queue' = queue /\ table' = table /\ world' = world
  BY DEF Closed, MaybeSaved
<1>4. /\ LateIf(held # NoConn /\ held.sock # k)
      /\ held.status = "settled" => host' = Freed(Dropped(Detached(host, c), p), c)
      /\ held.status # "settled" => host' = Freed(host, c)
  BY DEF Closed, Holder, Stale
<1>5. /\ spent' \in [Kinds -> Nat] /\ \A x \in Kinds : spent'[x] = 0 => spent[x] = 0
      /\ held # NoConn /\ held.sock # k => spent'["late"] # 0
  BY <1>1, <1>4, LateIfIs
<1> HIDE DEF c
<1>6. /\ host' \in HostT /\ host'.conns = [host.conns EXCEPT ![c] = NoConn]
      /\ host'.slot = IF held.status = "settled" THEN [host.slot EXCEPT ![c] = 0] ELSE host.slot
      /\ host'.pending = host.pending /\ host'.online = host.online
      /\ host'.grace = IF held.status = "settled" THEN host.grace \cup {p} ELSE host.grace
  <2>1. CASE held.status = "settled"
    <3>1. p \in Players
      BY <1>1, <1>2, <2>1, SettledSeat
    <3>2. /\ Detached(host, c) \in HostT /\ Detached(host, c).conns = host.conns
          /\ Detached(host, c).slot = [host.slot EXCEPT ![c] = 0]
          /\ Detached(host, c).pending = host.pending
          /\ Detached(host, c).online = host.online /\ Detached(host, c).grace = host.grace
      BY <1>1, <1>2, DetachedIs
    <3> DEFINE g == Dropped(Detached(host, c), p)
    <3>3. /\ g \in HostT /\ g.conns = host.conns /\ g.slot = [host.slot EXCEPT ![c] = 0]
          /\ g.pending = host.pending
          /\ g.online = host.online /\ g.grace = host.grace \cup {p}
      BY <3>1, <3>2, DroppedIs
    <3> HIDE DEF g
    <3>4. host' = Freed(g, c)
      BY <1>4, <2>1 DEF g
    <3> QED
      BY <1>2, <2>1, <3>3, <3>4, FreedIs
  <2>2. CASE held.status # "settled"
    BY <1>1, <1>2, <1>4, <2>2, FreedIs
  <2> QED
    BY <2>1, <2>2
<1>7. /\ sock' \in [Socks -> SockT] /\ \A j \in Socks : j # k => sock'[j] = sock[j]
      /\ sock'[k].life = "gone" /\ sock'[k].conn = sock[k].conn
      /\ sock'[k].secret = sock[k].secret /\ sock'[k].settled = sock[k].settled
      /\ sock'[k].player = sock[k].player
  <2>1. "gone" \in Life
    BY DEF Life
  <2> QED
    BY <1>1, <1>3, <2>1, LifeIs
<1>8. host.conns \in [Conns -> Seat] /\ host.slot \in [Conns -> Nat]
  BY <1>1, HostFields
<1>9. \A d \in Conns : /\ d # c => host'.conns[d] = host.conns[d]
                       /\ d = c => host'.conns[d] = NoConn
  BY <1>6, <1>8
<1>10. Emptier(host', host, sock', sock)
  <2>1. \A d \in Conns : host.conns[d].sock = k => d = c
    BY <1>1, OneSeat DEF c
  <2>2. ASSUME NEW d \in Conns, host'.conns[d].sock # 0
        PROVE  sock'[host'.conns[d].sock].life = sock[host'.conns[d].sock].life
    <3>1. d # c
      BY <1>9, <2>2 DEF NoConn
    <3>2. host.conns[d].sock \in Socks /\ host.conns[d].sock # k
      BY <1>1, <1>9, <2>1, <2>2, <3>1, SeatFields
    <3> QED
      BY <1>7, <1>9, <3>1, <3>2
  <2> QED
    BY <1>7, <1>9, <2>2 DEF Emptier
<1>11. spent'["recovers"] = 0 => \A d \in Conns :
         host'.slot[d] = IF host'.conns[d] = NoConn THEN 0 ELSE host.slot[d]
  <2> SUFFICES ASSUME spent'["recovers"] = 0, NEW d \in Conns
               PROVE  host'.slot[d] = IF host'.conns[d] = NoConn THEN 0 ELSE host.slot[d]
    OBVIOUS
  <2>1. SeatsNamed(host, sock, table)
    BY <1>5, Unmoved DEF Kinds
  <2>2. host.slot[d] = host.conns[d].player
    BY <2>1 DEF SeatsNamed
  <2>3. d = c /\ held.status # "settled" => held.player = 0
    BY <1>1, <1>2 DEF SeatsHeld, SeatHeld
  <2> QED
    BY <1>6, <1>8, <1>9, <2>2, <2>3 DEF NoConn
<1>12. ASSUME spent'["late"] = 0, spent'["recovers"] = 0 PROVE RosterOf(host', world)
  <2>1. SeatsNamed(host, sock, table) /\ RosterOf(host, world)
    BY <1>5, <1>12, Unmoved DEF Kinds
  <2>2. CASE held.status # "settled"
    <3>1. \A d \in Conns : host'.conns[d].status = "settled" => host'.conns[d] = host.conns[d]
      BY <1>9 DEF NoConn
    <3>2. host'.grace = host.grace
      BY <1>6, <2>2
    <3> QED
      BY <1>6, <2>1, <3>1, <3>2 DEF RosterOf
  <2>3. CASE held.status = "settled"
    <3>1. p \in Players /\ 0 \notin Players
      BY <1>1, <1>2, <2>3, SettledSeat, SeatTypes
    <3>2. p \in host.online
      BY <1>2, <2>1, <2>3 DEF RosterOf
    <3>3. ASSUME NEW d \in Conns, host'.conns[d].status = "settled"
          PROVE  /\ host'.conns[d].player \in host.online
                 /\ host'.conns[d].player \notin host.grace \cup {p}
      <4>1. d # c /\ host'.conns[d] = host.conns[d]
        BY <1>9, <3>3 DEF NoConn
      <4>2. host.conns[d].player # p
        BY <1>2, <2>1, <3>1, <4>1 DEF SeatsNamed
      <4> QED
        BY <2>1, <3>3, <4>1, <4>2 DEF RosterOf
    <3> QED
      BY <1>6, <2>1, <2>3, <3>2, <3>3 DEF RosterOf
  <2> QED
    BY <2>2, <2>3
<1>13. /\ queue' \in Seq(Waiting) /\ InOrder(queue', hellos) /\ Resolutions(queue', table)
       /\ SeatedOnce(host, sock, queue', 0)
       /\ Cardinality(Turned(queue, hellos)) <= Cardinality(Turned(queue', hellos))
  BY <1>3, Unmoved
<1>14. Logged(world, host'.pending).joins = Logged(world, host.pending).joins
  BY <1>6
<1> QED
  BY <1>3, <1>5, <1>6, <1>7, <1>10, <1>11, <1>12, <1>13, <1>14, EmptyingKept

LEMMA LeaveStep ==
  ASSUME SessInv, NEW k \in Socks, Leave(k)
  PROVE  SessInv'
<1> DEFINE c == sock[k].conn
           held == host.conns[c]
           p == sock[k].player
           g == LoggedOff(host, p)
           g2 == Detached(g, c)
<1>1. /\ host \in HostT /\ sock \in [Socks -> SockT] /\ spent \in [Kinds -> Nat]
      /\ SeatsHeld(host, sock, spent) /\ SettledAs(sock) /\ world \in World
  BY Unmoved
<1>2. c \in Conns /\ p \in Players
  BY <1>1 DEF SockT, Leave, SettledAs, MaybePlayers
<1>3. /\ sock' = sock /\ disk' \in {disk, table} /\ host' = Freed(g2, c)
      /\ hellos' = hellos /\ queue' = queue /\ table' = table /\ world' = world
      /\ LateIf(held.sock # k) /\ sock[k].settled
  BY DEF Leave, MaybeSaved, Stale, Holder
<1>5. /\ spent' \in [Kinds -> Nat] /\ \A x \in Kinds : spent'[x] = 0 => spent[x] = 0
      /\ held.sock # k => spent'["late"] # 0
  BY <1>1, <1>3, LateIfIs
<1>6. /\ host' \in HostT /\ host'.conns = [host.conns EXCEPT ![c] = NoConn]
      /\ host'.slot = [host.slot EXCEPT ![c] = 0] /\ host'.pending = g.pending
      /\ host'.online = host.online \ {p} /\ host'.grace = host.grace \ {p}
  <2> HIDE DEF c, p
  <2>1. /\ g \in HostT /\ g.conns = host.conns /\ g.slot = host.slot
        /\ g.online = host.online \ {p} /\ g.grace = host.grace \ {p}
    BY <1>1, <1>2, LoggedOffIs
  <2> HIDE DEF g
  <2>2. /\ g2 \in HostT /\ g2.conns = host.conns /\ g2.slot = [host.slot EXCEPT ![c] = 0]
        /\ g2.pending = g.pending /\ g2.online = host.online \ {p} /\ g2.grace = host.grace \ {p}
    BY <1>2, <2>1, DetachedIs
  <2> HIDE DEF g2
  <2> QED
    BY <1>2, <1>3, <2>2, FreedIs
<1>8. host.conns \in [Conns -> Seat] /\ host.slot \in [Conns -> Nat]
  BY <1>1, HostFields
<1>9. \A d \in Conns : /\ d # c => host'.conns[d] = host.conns[d] /\ host'.slot[d] = host.slot[d]
                       /\ d = c => host'.conns[d] = NoConn /\ host'.slot[d] = 0
  <2> HIDE DEF c
  <2> QED
    BY <1>6, <1>8
<1>10. Emptier(host', host, sock', sock)
  BY <1>3, <1>9 DEF Emptier
<1>11. spent'["recovers"] = 0 => \A d \in Conns :
         host'.slot[d] = IF host'.conns[d] = NoConn THEN 0 ELSE host.slot[d]
  <2> SUFFICES ASSUME spent'["recovers"] = 0, NEW d \in Conns
               PROVE  host'.slot[d] = IF host'.conns[d] = NoConn THEN 0 ELSE host.slot[d]
    OBVIOUS
  <2>1. SeatsNamed(host, sock, table)
    BY <1>5, Unmoved DEF Kinds
  <2>2. host.slot[d] = host.conns[d].player
    BY <2>1 DEF SeatsNamed
  <2> QED
    BY <1>9, <2>2 DEF NoConn
<1>14. /\ Logged(world, host'.pending).joins = Logged(world, host.pending).joins
       /\ Logged(world, host'.pending).roster = Logged(world, host.pending).roster \ {p}
  BY <1>1, <1>2, <1>6, DepartureLogged
<1>12. ASSUME spent'["late"] = 0, spent'["recovers"] = 0 PROVE RosterOf(host', world)
  <2>1. SeatsNamed(host, sock, table) /\ RosterOf(host, world)
    BY <1>5, <1>12, Unmoved DEF Kinds
  <2>2. held.status = "settled" /\ held.player = p
    BY <1>1, <1>2, <1>3, <1>5, <1>12, OneSeat
  <2>3. ASSUME NEW d \in Conns, host'.conns[d].status = "settled"
        PROVE  /\ host'.conns[d].player \in host'.online
               /\ host'.conns[d].player \notin host'.grace
    <3>1. d # c /\ host'.conns[d] = host.conns[d]
      BY <1>9, <2>3 DEF NoConn
    <3>2. host.conns[d].player # p
      BY <1>2, <2>1, <2>2, <3>1, SeatTypes DEF SeatsNamed
    <3> QED
      BY <1>6, <2>1, <2>3, <3>1, <3>2 DEF RosterOf
  <2>4. host'.grace \subseteq host'.online /\ Logged(world, host'.pending).roster = host'.online
    BY <1>6, <1>14, <2>1 DEF RosterOf
  <2> QED
    BY <2>3, <2>4 DEF RosterOf
<1>13. /\ queue' \in Seq(Waiting) /\ InOrder(queue', hellos) /\ Resolutions(queue', table)
       /\ SeatedOnce(host, sock, queue', 0) /\ sock' \in [Socks -> SockT]
       /\ Cardinality(Turned(queue, hellos)) <= Cardinality(Turned(queue', hellos))
  BY <1>1, <1>3, Unmoved
<1> QED
  BY <1>3, <1>5, <1>6, <1>10, <1>11, <1>12, <1>13, <1>14, EmptyingKept

LEMMA GarbageStep ==
  ASSUME SessInv, NEW k \in Socks, NEW closes \in BOOLEAN, Garbage(k, closes)
  PROVE  SessInv'
<1> DEFINE c == sock[k].conn
           g == Resumed(host)
<1>1. /\ host \in HostT /\ sock \in [Socks -> SockT] /\ spent \in [Kinds -> Nat]
      /\ SeatsHeld(host, sock, spent) /\ SettledAs(sock)
  BY Unmoved
<1>2. c \in Conns
  BY <1>1 DEF SockT
<1>3. /\ hellos' = hellos /\ queue' = queue /\ table' = table /\ world' = world /\ disk' = disk
      /\ host' = IF closes THEN Freed(g, c) ELSE g
      /\ sock' = IF closes THEN Shut(k, sock) ELSE sock
      /\ host.conns[c].status = "garbage" /\ LateIf(Stale(k))
  BY DEF Garbage, Holder
<1>5. spent' \in [Kinds -> Nat] /\ \A x \in Kinds : spent'[x] = 0 => spent[x] = 0
  BY <1>1, <1>3, LateIfIs
<1> HIDE DEF c
<1>6. /\ host' \in HostT /\ host'.slot = host.slot /\ host'.pending = host.pending
      /\ host'.conns = IF closes THEN [host.conns EXCEPT ![c] = NoConn] ELSE host.conns
      /\ host'.online = host.online /\ host'.grace = host.grace
  <2>1. /\ g \in HostT /\ g.conns = host.conns /\ g.slot = host.slot
        /\ g.pending = host.pending /\ g.online = host.online /\ g.grace = host.grace
    BY <1>1, ResumedIs
  <2> HIDE DEF g
  <2>2. CASE closes
    <3>1. host' = Freed(g, c)
      BY <1>3, <2>2
    <3> QED
      BY <1>2, <2>1, <2>2, <3>1, FreedIs
  <2>3. CASE ~closes
    BY <1>3, <2>1, <2>3
  <2> QED
    BY <2>2, <2>3
<1>7. /\ sock' \in [Socks -> SockT]
      /\ \A j \in Socks : sock'[j] # sock[j] => closes /\ j = k
      /\ \A j \in Socks : /\ sock'[j].conn = sock[j].conn /\ sock'[j].secret = sock[j].secret
                          /\ sock'[j].settled = sock[j].settled /\ sock'[j].player = sock[j].player
                          /\ sock[j].life # "idle" => sock'[j].life # "idle"
  <2>1. CASE closes
    <3>1. sock' = Shut(k, sock)
      BY <1>3, <2>1
    <3>2. \A j \in Socks : j # k => sock'[j] = sock[j]
      BY <1>1, <3>1, ShutIs
    <3> QED
      BY <1>1, <2>1, <3>1, <3>2, ShutIs
  <2>2. CASE ~closes
    BY <1>1, <1>3, <2>2
  <2> QED
    BY <2>1, <2>2
<1>8. host.conns \in [Conns -> Seat]
  BY <1>1, HostFields
<1>9. \A d \in Conns : /\ ~closes \/ d # c => host'.conns[d] = host.conns[d]
                       /\ closes /\ d = c => host'.conns[d] = NoConn
  BY <1>6, <1>8
<1>10. Emptier(host', host, sock', sock)
  <2>1. \A d \in Conns : host.conns[d].sock = k => d = c
    BY <1>1, OneSeat DEF c
  <2>2. ASSUME NEW d \in Conns, host'.conns[d].sock # 0
        PROVE  sock'[host'.conns[d].sock].life = sock[host'.conns[d].sock].life
    <3>1. host'.conns[d] = host.conns[d] /\ (closes => d # c)
      BY <1>9, <2>2 DEF NoConn
    <3>2. host.conns[d].sock \in Socks /\ (closes => host.conns[d].sock # k)
      BY <1>1, <2>1, <2>2, <3>1, SeatFields
    <3> QED
      BY <1>7, <3>1, <3>2
  <2> QED
    BY <1>7, <1>9, <2>2 DEF Emptier
<1>11. spent'["recovers"] = 0 => \A d \in Conns :
         host'.slot[d] = IF host'.conns[d] = NoConn THEN 0 ELSE host.slot[d]
  <2> SUFFICES ASSUME spent'["recovers"] = 0, NEW d \in Conns
               PROVE  host'.slot[d] = IF host'.conns[d] = NoConn THEN 0 ELSE host.slot[d]
    OBVIOUS
  <2>1. SeatsNamed(host, sock, table)
    BY <1>5, Unmoved DEF Kinds
  <2>2. host.slot[d] = host.conns[d].player
    BY <2>1 DEF SeatsNamed
  <2>3. d = c => host.conns[d].player = 0
    BY <1>1, <1>2, <1>3 DEF SeatsHeld, SeatHeld
  <2> QED
    BY <1>6, <1>9, <2>2, <2>3 DEF NoConn
<1>12. ASSUME spent'["late"] = 0, spent'["recovers"] = 0 PROVE RosterOf(host', world)
  <2>1. RosterOf(host, world)
    BY <1>5, <1>12, Unmoved DEF Kinds
  <2>2. \A d \in Conns : host'.conns[d].status = "settled" => host'.conns[d] = host.conns[d]
    BY <1>9 DEF NoConn
  <2> QED
    BY <1>6, <2>1, <2>2 DEF RosterOf
<1>13. /\ queue' \in Seq(Waiting) /\ InOrder(queue', hellos) /\ Resolutions(queue', table)
       /\ SeatedOnce(host, sock, queue', 0)
       /\ Cardinality(Turned(queue, hellos)) <= Cardinality(Turned(queue', hellos))
       /\ Logged(world, host'.pending).joins = Logged(world, host.pending).joins
  BY <1>3, <1>6, Unmoved
<1> QED
  BY <1>3, <1>5, <1>6, <1>7, <1>10, <1>11, <1>12, <1>13, EmptyingKept

LEMMA GraceOverStep ==
  ASSUME SessInv, NEW p \in Players, GraceOver(p)
  PROVE  SessInv'
<1>1. /\ host \in HostT /\ sock \in [Socks -> SockT] /\ spent \in [Kinds -> Nat]
      /\ world \in World
  BY Unmoved
<1>2. /\ host' = LoggedOff(host, p) /\ p \in host.grace /\ sock' = sock /\ queue' = queue
      /\ hellos' = hellos /\ table' = table /\ disk' = disk /\ world' = world /\ spent' = spent
  BY DEF GraceOver
<1>3. /\ host' \in HostT /\ host'.conns = host.conns /\ host'.slot = host.slot
      /\ host'.online = host.online \ {p} /\ host'.grace = host.grace \ {p}
  BY <1>1, <1>2, LoggedOffIs
<1>4. /\ Logged(world, host'.pending).joins = Logged(world, host.pending).joins
      /\ Logged(world, host'.pending).roster = Logged(world, host.pending).roster \ {p}
  BY <1>1, <1>2, DepartureLogged
<1>5. Emptier(host', host, sock', sock)
  BY <1>2, <1>3 DEF Emptier
<1>6. spent'["recovers"] = 0 => \A c \in Conns :
        host'.slot[c] = IF host'.conns[c] = NoConn THEN 0 ELSE host.slot[c]
  BY <1>2, <1>3, Unmoved DEF SeatsNamed, NoConn
<1>7. ASSUME spent'["late"] = 0, spent'["recovers"] = 0 PROVE RosterOf(host', world)
  <2>1. RosterOf(host, world)
    BY <1>2, <1>7, Unmoved
  <2>2. \A c \in Conns : host'.conns[c].status = "settled" =>
          host'.conns[c].player \in host'.online /\ host'.conns[c].player \notin host'.grace
    BY <1>2, <1>3, <2>1 DEF RosterOf
  <2>3. Logged(world, host'.pending).roster = host'.online /\ host'.grace \subseteq host'.online
    BY <1>3, <1>4, <2>1 DEF RosterOf
  <2> QED
    BY <2>2, <2>3 DEF RosterOf
<1>8. /\ queue' \in Seq(Waiting) /\ InOrder(queue', hellos) /\ Resolutions(queue', table)
      /\ SeatedOnce(host, sock, queue', 0) /\ sock' \in [Socks -> SockT]
      /\ Cardinality(Turned(queue, hellos)) <= Cardinality(Turned(queue', hellos))
      /\ spent' \in [Kinds -> Nat] /\ disk' \in {disk, table}
      /\ \A x \in Kinds : spent'[x] = 0 => spent[x] = 0
  BY <1>2, Unmoved
<1> QED
  BY <1>2, <1>3, <1>4, <1>5, <1>6, <1>7, <1>8, EmptyingKept

LEMMA IdleOverStep ==
  ASSUME SessInv, IdleOver
  PROVE  SessInv'
<1>1. /\ host \in HostT /\ sock \in [Socks -> SockT] /\ spent \in [Kinds -> Nat]
  BY Unmoved
<1>2. /\ host' = [host EXCEPT !.idle = FALSE, !.paused = TRUE,
                              !.running = host.running /\ host.paused]
      /\ sock' = sock /\ queue' = queue
      /\ hellos' = hellos /\ table' = table /\ disk' = disk /\ world' = world /\ spent' = spent
  BY DEF IdleOver
<1>3. /\ host' \in HostT /\ host'.conns = host.conns /\ host'.slot = host.slot
      /\ host'.pending = host.pending
      /\ host'.online = host.online /\ host'.grace = host.grace
  <2>1. (host.running /\ host.paused) \in BOOLEAN
    BY <1>1, HostFields
  <2> QED
    BY <1>1, <1>2, <2>1, HostFields DEF HostT
<1>5. Emptier(host', host, sock', sock)
  BY <1>2, <1>3 DEF Emptier
<1>6. spent'["recovers"] = 0 => \A c \in Conns :
        host'.slot[c] = IF host'.conns[c] = NoConn THEN 0 ELSE host.slot[c]
  BY <1>2, <1>3, Unmoved DEF SeatsNamed, NoConn
<1>7. spent'["late"] = 0 /\ spent'["recovers"] = 0 => RosterOf(host', world)
  BY <1>2, <1>3, Unmoved DEF RosterOf
<1>8. /\ queue' \in Seq(Waiting) /\ InOrder(queue', hellos) /\ Resolutions(queue', table)
      /\ SeatedOnce(host, sock, queue', 0) /\ sock' \in [Socks -> SockT]
      /\ Cardinality(Turned(queue, hellos)) <= Cardinality(Turned(queue', hellos))
      /\ Logged(world, host'.pending).joins = Logged(world, host.pending).joins
      /\ spent' \in [Kinds -> Nat] /\ disk' \in {disk, table}
      /\ \A x \in Kinds : spent'[x] = 0 => spent[x] = 0
  BY <1>2, <1>3, Unmoved
<1> QED
  BY <1>2, <1>3, <1>5, <1>6, <1>7, <1>8, EmptyingKept

LEMMA RecoverStep ==
  ASSUME SessInv, Recover
  PROVE  SessInv'
<1> DEFINE sl == [c \in Conns |-> IF host.conns[c] = NoConn THEN 0 ELSE ReattachedAs(c)]
<1>1. /\ host \in HostT /\ sock \in [Socks -> SockT] /\ spent \in [Kinds -> Nat]
      /\ NoneJoining(host, world)
  BY Unmoved
<1>2. /\ host' = [host EXCEPT !.pending = << >>, !.slot = sl]
      /\ sock' = sock /\ queue' = queue /\ Trouble("recovers")
      /\ hellos' = hellos /\ table' = table /\ disk' = disk /\ world' = world
  BY DEF Recover
<1>3. /\ spent' \in [Kinds -> Nat] /\ spent'["recovers"] # 0
      /\ \A x \in Kinds : spent'[x] = 0 => spent[x] = 0
  BY <1>1, <1>2, TroubleIs DEF Kinds
<1>4. sl \in [Conns -> Nat]
  BY SessionsAssumption DEF ReattachedAs
<1>5. << >> \in Seq(Note)
  BY EmptySeq
<1> HIDE DEF sl
<1>6. /\ host' \in HostT /\ host'.conns = host.conns /\ host'.pending = << >>
  BY <1>1, <1>2, <1>4, <1>5, HostFields DEF HostT
<1>7. Emptier(host', host, sock', sock)
  BY <1>2, <1>6 DEF Emptier
<1>8. Logged(world, host'.pending).joins = Logged(world, host.pending).joins
  BY <1>1, <1>6, LoggedNone DEF NoneJoining
<1>9. /\ queue' \in Seq(Waiting) /\ InOrder(queue', hellos) /\ Resolutions(queue', table)
      /\ SeatedOnce(host, sock, queue', 0) /\ sock' \in [Socks -> SockT]
      /\ Cardinality(Turned(queue, hellos)) <= Cardinality(Turned(queue', hellos))
      /\ disk' \in {disk, table}
  BY <1>2, Unmoved
<1> QED
  BY <1>2, <1>3, <1>6, <1>7, <1>8, <1>9, EmptyingKept

(* A Hello that queues: what it says of the queue and the host.            *)
NewHello(k, c, ks) ==
  [n |-> hellos + 1, sock |-> k, conn |-> c, secret |-> ks[k].secret, stage |-> "digest",
   player |-> 0, joined |-> FALSE, bytes |-> NoTable]

LEMMA QueuedIs ==
  ASSUME SessInv, NEW h, NEW k \in Socks, NEW c \in Conns, Queued(h, k, c)
  PROVE  /\ h.conns[c].status = "garbage" /\ hellos' = hellos + 1 /\ hellos' \in 0..MaxHellos
         /\ host' = AwaitingAt(h, c) /\ queue' = Append(queue, NewHello(k, c, sock))
         /\ NewHello(k, c, sock) \in Waiting
         /\ queue' \in Seq(Waiting) /\ InOrder(queue', hellos') /\ Resolutions(queue', table)
         /\ Cardinality(Turned(queue, hellos)) <= Cardinality(Turned(queue', hellos'))
<1> DEFINE e == NewHello(k, c, sock)
<1>1. /\ sock \in [Socks -> SockT] /\ queue \in Seq(Waiting) /\ hellos \in Nat
      /\ hellos \in 0..MaxHellos /\ InOrder(queue, hellos) /\ Resolutions(queue, table)
  BY Unmoved
<1>2. /\ h.conns[c].status = "garbage" /\ hellos < MaxHellos /\ hellos' = hellos + 1
      /\ host' = AwaitingAt(h, c) /\ queue' = Append(queue, e)
  BY DEF Queued, AwaitingAt, NewHello
<1>3. hellos + 1 \in 1..MaxHellos /\ MaxHellos \in Nat
  BY <1>1, <1>2, SessionsAssumption
<1>4. e \in Waiting /\ e.n = hellos + 1 /\ e.stage = "digest" /\ e.bytes = NoTable
  <2>1. sock[k].secret \in Secrets
    BY <1>1 DEF SockT
  <2>2. NoTable \in Table
    BY DEF NoTable, Table, MaybePlayers
  <2> QED
    BY <1>3, <2>1, <2>2 DEF NewHello, Waiting, MaybePlayers
<1> HIDE DEF e
<1>5. /\ Append(queue, e) \in Seq(Waiting)
      /\ InOrder(Append(queue, e), hellos + 1) /\ Resolutions(Append(queue, e), table)
      /\ Cardinality(Turned(queue, hellos)) <= Cardinality(Turned(Append(queue, e), hellos + 1))
  BY <1>1, <1>4, HelloQueued
<1> QED
  BY <1>2, <1>3, <1>4, <1>5 DEF e

LEMMA HelloStep ==
  ASSUME SessInv, NEW k \in Socks, Hello(k)
  PROVE  SessInv'
<1> DEFINE c == sock[k].conn
           e == NewHello(k, c, sock)
<1>1. /\ host \in HostT /\ sock \in [Socks -> SockT] /\ spent \in [Kinds -> Nat]
      /\ SeatsHeld(host, sock, spent) /\ SettledAs(sock) /\ SeatedOnce(host, sock, queue, 0)
      /\ queue \in Seq(Waiting)
  BY Unmoved
<1>2. c \in Conns
  BY <1>1 DEF SockT
<1>3. /\ sock' = sock /\ table' = table /\ world' = world /\ disk' = disk
      /\ Queued(host, k, c) /\ LateIf(Stale(k)) /\ Heard(k) /\ ~sock[k].settled
  BY DEF Hello
<1>4. /\ spent' \in [Kinds -> Nat] /\ \A x \in Kinds : spent'[x] = 0 => spent[x] = 0
  BY <1>1, <1>3, LateIfIs
<1>5. /\ host.conns[c].status = "garbage" /\ hellos' = hellos + 1 /\ hellos' \in 0..MaxHellos
      /\ host' = AwaitingAt(host, c) /\ queue' = Append(queue, e) /\ e \in Waiting
      /\ queue' \in Seq(Waiting) /\ InOrder(queue', hellos') /\ Resolutions(queue', table)
      /\ Cardinality(Turned(queue, hellos)) <= Cardinality(Turned(queue', hellos'))
  BY <1>2, <1>3, QueuedIs
<1>6. e.sock = k /\ e.secret = sock[k].secret
  BY DEF NewHello
<1>7. sock[k].life # "idle"
  BY <1>3 DEF Heard
<1> HIDE DEF e
<1>8. /\ SeatsHeld(host', sock', spent') /\ SeatedOnce(host', sock', queue', 0)
      /\ \A tb : SeatsNamed(host, sock, tb) => SeatsNamed(host', sock', tb)
  <2>1. c = sock[k].conn
    OBVIOUS
  <2> HIDE DEF c
  <2>2. SeatsHeld(host, sock, spent')
    BY <1>1, <1>4 DEF SeatsHeld, SeatHeld, Kinds
  <2> QED
    BY <1>1, <1>2, <1>3, <1>5, <1>6, <1>7, <2>1, <2>2, HelloSeats
<1>9. /\ host' \in HostT /\ host'.pending = host.pending
      /\ host'.online = host.online /\ host'.grace = host.grace
      /\ \A d \in Conns : host'.conns[d].status = "settled" => host'.conns[d] = host.conns[d]
  <2> HIDE DEF c
  <2> QED
    BY <1>1, <1>2, <1>5, AwaitingIs
<1>10. Shapes' /\ InOrder(queue', hellos')
  BY <1>1, <1>3, <1>4, <1>5, <1>9 DEF SessInv, Shapes
<1>11. IdentityInv'
  BY <1>3, <1>5, <1>9, IdentityKept
<1>12. NamesInv' /\ PresenceInv'
  BY <1>3, <1>4, <1>8, <1>9, RosterKept
     DEF SessInv, NamesInv, PresenceInv, Never, Undisturbed, Kinds
<1>13. SeatsInv'
  BY <1>1, <1>3, <1>8 DEF SeatsInv
<1> QED
  BY <1>10, <1>11, <1>12, <1>13 DEF SessInv

LEMMA RehelloStep ==
  ASSUME SessInv, NEW k \in Socks, Rehello(k)
  PROVE  SessInv'
<1> DEFINE old == sock[k].conn
           held == host.conns[old]
           p == held.player
           h1 == Detached(host, old)
           h2 == Dropped(h1, p)
           h == Freed(h2, old)
           c == Min({d \in Conns : h.conns[d] = NoConn})
           e == NewHello(k, c, sock)
           g == Accepted(h, k, c)
<1>1. /\ host \in HostT /\ sock \in [Socks -> SockT] /\ spent \in [Kinds -> Nat]
      /\ SeatsHeld(host, sock, spent) /\ SettledAs(sock) /\ SeatedOnce(host, sock, queue, 0)
      /\ queue \in Seq(Waiting) /\ Socks \subseteq Nat
  BY Unmoved, SessionsAssumption
<1>2. old \in Conns
  BY <1>1 DEF SockT
<1>3. /\ Heard(k) /\ sock[k].settled /\ held.status = "settled"
      /\ sock' = Fresh(k, c, sock) /\ Queued(g, k, c) /\ LateIf(Stale(k))
      /\ disk' \in {disk, table} /\ table' = table /\ world' = world
  BY DEF Rehello, Holder, MaybeSaved
<1>4. /\ spent' \in [Kinds -> Nat] /\ \A x \in Kinds : spent'[x] = 0 => spent[x] = 0
      /\ held.sock # k => spent'["late"] # 0
  BY <1>1, <1>3, LateIfIs DEF Stale, Holder
<1>5. p \in Players /\ 0 \notin Players
  BY <1>1, <1>2, <1>3, SettledSeat, SeatTypes
<1>6. /\ h \in HostT /\ h.conns = [host.conns EXCEPT ![old] = NoConn]
      /\ h.slot = [host.slot EXCEPT ![old] = 0] /\ h.pending = host.pending
      /\ h.online = host.online /\ h.grace = host.grace \cup {p}
  <2> HIDE DEF old, p
  <2>1. /\ h1 \in HostT /\ h1.conns = host.conns /\ h1.slot = [host.slot EXCEPT ![old] = 0]
        /\ h1.pending = host.pending /\ h1.online = host.online /\ h1.grace = host.grace
    BY <1>1, <1>2, DetachedIs
  <2> HIDE DEF h1
  <2>2. /\ h2 \in HostT /\ h2.conns = host.conns /\ h2.slot = [host.slot EXCEPT ![old] = 0]
        /\ h2.pending = host.pending /\ h2.online = host.online
        /\ h2.grace = host.grace \cup {p}
    BY <1>5, <2>1, DroppedIs
  <2> HIDE DEF h2
  <2> QED
    BY <1>2, <2>2, FreedIs
<1> HIDE DEF h, e, g
<1>7. c \in Conns /\ h.conns[c] = NoConn
  <2> DEFINE F == {d \in Conns : h.conns[d] = NoConn}
  <2>1. old \in F
    BY <1>1, <1>2, <1>6, HostFields
  <2>2. F \in SUBSET Nat /\ F # {}
    BY <2>1, SessionsAssumption
  <2>3. c = Min(F)
    OBVIOUS
  <2>4. Min(F) \in F
    <3> HIDE DEF F
    <3> QED
      BY <2>2, MinIn
  <2> QED
    BY <2>3, <2>4
<1> HIDE DEF c
<1>8. \A d \in Conns : /\ d # old => h.conns[d] = host.conns[d] /\ h.slot[d] = host.slot[d]
                       /\ d = old => h.conns[d] = NoConn /\ h.slot[d] = 0
  <2>1. host.conns \in [Conns -> Seat] /\ host.slot \in [Conns -> Nat]
    BY <1>1, HostFields
  <2> HIDE DEF old
  <2> QED
    BY <1>6, <2>1
<1>9. Emptier(h, host, sock, sock)
  BY <1>8 DEF Emptier
<1>10. /\ SeatsHeld(h, sock, spent') /\ SeatedOnce(h, sock, queue, 0)
       /\ (SeatsNamed(host, sock, table) => SeatsNamed(h, sock, table))
  <2>1. spent'["late"] = 0 => spent["late"] = 0
    BY <1>4 DEF Kinds
  <2>2. SeatsHeld(h, sock, spent') /\ SeatedOnce(h, sock, queue, 0)
    BY <1>1, <1>6, <1>9, <2>1, EmptierKeeps
  <2>3. ASSUME SeatsNamed(host, sock, table) PROVE SeatsNamed(h, sock, table)
    <3>1. \A d \in Conns : /\ h.conns[d] = NoConn => h.slot[d] = 0
                           /\ h.conns[d] # NoConn => h.slot[d] = host.slot[d]
      BY <1>8, <2>3 DEF SeatsNamed, NoConn
    <3> QED
      BY <1>1, <1>6, <1>9, <2>3, <3>1, NamesKept
  <2> QED
    BY <2>2, <2>3
<1>11. ASSUME spent'["late"] = 0, spent'["recovers"] = 0 PROVE RosterOf(h, world)
  <2>1. SeatsNamed(host, sock, table) /\ RosterOf(host, world)
    BY <1>4, <1>11, Unmoved DEF Kinds
  <2>2. p \in host.online
    BY <1>2, <1>3, <2>1 DEF RosterOf
  <2>3. ASSUME NEW d \in Conns, h.conns[d].status = "settled"
        PROVE  h.conns[d].player \in host.online /\ h.conns[d].player \notin host.grace \cup {p}
    <3>1. d # old /\ h.conns[d] = host.conns[d]
      BY <1>8, <2>3 DEF NoConn
    <3>2. host.conns[d].player # p
      BY <1>2, <1>5, <2>1, <3>1 DEF SeatsNamed
    <3> QED
      BY <2>1, <2>3, <3>1, <3>2 DEF RosterOf
  <2> QED
    BY <1>6, <2>1, <2>2, <2>3 DEF RosterOf
<1>12. /\ sock' \in [Socks -> SockT] /\ \A j \in Socks : j # k => sock'[j] = sock[j]
       /\ sock'[k].conn = c /\ ~sock'[k].settled /\ sock'[k].life \in {"open", "closing"}
       /\ sock'[k].life # "idle" /\ sock'[k].secret = sock[k].secret
       /\ (spent'["late"] = 0 => sock'[k].life = "open")
  <2>1. /\ sock' \in [Socks -> SockT] /\ \A j \in Socks : j # k => sock'[j] = sock[j]
        /\ sock'[k].conn = c /\ ~sock'[k].settled /\ sock'[k].life = sock[k].life
        /\ sock'[k].secret = sock[k].secret
    BY <1>1, <1>3, <1>7, FreshIs
  <2>2. sock[k].life \in {"open", "closing"}
    BY <1>3 DEF Heard
  <2>3. spent'["late"] = 0 => sock[k].life = "open"
    BY <1>1, <1>2, <1>4, OneSeat DEF Kinds
  <2> QED
    BY <2>1, <2>2, <2>3
<1>13. \A d \in Conns : h.conns[d].sock # k
  <2>1. \A d \in Conns : host.conns[d].sock = k => d = old
    BY <1>1, OneSeat
  <2>2. k # 0
    BY SeatTypes
  <2> QED
    BY <1>8, <2>1, <2>2 DEF NoConn
<1>14. \A j \in DOMAIN queue : queue[j].sock # k
  BY <1>1, <1>3, LenProperties DEF SeatedOnce
<1> HIDE DEF old
<1>15. /\ SeatsHeld(g, sock', spent') /\ SettledAs(sock') /\ SeatedOnce(g, sock', queue, 0)
       /\ \A tb : SeatsNamed(h, sock, tb) => SeatsNamed(g, sock', tb)
  <2>1. /\ h \in HostT /\ c \in Conns /\ h.conns[c] = NoConn
        /\ sock \in [Socks -> SockT] /\ sock' \in [Socks -> SockT] /\ queue \in Seq(Waiting)
        /\ SettledAs(sock) /\ SeatsHeld(h, sock, spent') /\ SeatedOnce(h, sock, queue, 0)
    BY <1>1, <1>6, <1>7, <1>10, <1>12
  <2> QED
    BY <1>12, <1>13, <1>14, <2>1, SeatTaken DEF g
<1>16. /\ g \in HostT /\ g.pending = h.pending /\ g.online = h.online /\ g.grace = h.grace
       /\ g.conns = [h.conns EXCEPT ![c] = [sock |-> k, status |-> "garbage", player |-> 0]]
  BY <1>6, <1>7, AcceptedIs DEF g
<1>17. /\ g.conns[c].status = "garbage" /\ hellos' = hellos + 1 /\ hellos' \in 0..MaxHellos
       /\ host' = AwaitingAt(g, c) /\ queue' = Append(queue, e) /\ e \in Waiting
       /\ queue' \in Seq(Waiting) /\ InOrder(queue', hellos') /\ Resolutions(queue', table)
       /\ Cardinality(Turned(queue, hellos)) <= Cardinality(Turned(queue', hellos'))
  BY <1>3, <1>7, QueuedIs DEF e
<1>18. e.sock = k /\ e.secret = sock'[k].secret
  BY <1>12 DEF NewHello, e
<1>19. /\ SeatsHeld(host', sock', spent') /\ SeatedOnce(host', sock', queue', 0)
       /\ \A tb : SeatsNamed(g, sock', tb) => SeatsNamed(host', sock', tb)
  BY <1>1, <1>7, <1>12, <1>15, <1>16, <1>17, <1>18, HelloSeats
<1>20. /\ host' \in HostT /\ host'.pending = h.pending
       /\ host'.online = h.online /\ host'.grace = h.grace
       /\ \A d \in Conns : host'.conns[d].status = "settled" => host'.conns[d] = h.conns[d]
  <2>1. /\ host' \in HostT /\ host'.pending = g.pending
        /\ host'.online = g.online /\ host'.grace = g.grace
        /\ host'.conns[c].status = "awaiting"
        /\ \A d \in Conns \ {c} : host'.conns[d] = g.conns[d]
    BY <1>7, <1>16, <1>17, AwaitingIs
  <2>2. h.conns \in [Conns -> Seat]
    BY <1>6, HostFields
  <2>3. \A d \in Conns \ {c} : g.conns[d] = h.conns[d]
    BY <1>16, <2>2
  <2> QED
    BY <1>16, <2>1, <2>3
<1>21. Shapes' /\ InOrder(queue', hellos')
  BY <1>3, <1>4, <1>12, <1>17, <1>20, Unmoved DEF Shapes
<1>22. IdentityInv'
  BY <1>3, <1>6, <1>17, <1>20, IdentityKept
<1>23. NamesInv'
  BY <1>3, <1>4, <1>10, <1>15, <1>19, Unmoved DEF NamesInv, Never, Kinds
<1>24. PresenceInv'
  <2> SUFFICES ASSUME spent'["late"] = 0, spent'["recovers"] = 0 PROVE RosterOf(host', world')
    BY DEF PresenceInv, Undisturbed, Never
  <2> QED
    BY <1>3, <1>11, <1>20, RosterKept
<1>25. SeatsInv'
  BY <1>15, <1>19 DEF SeatsInv
<1> QED
  BY <1>21, <1>22, <1>23, <1>24, <1>25 DEF SessInv
-----------------------------------------------------------------------------
(* The Hello with number n, if it still waits.                             *)
LEMMA AtIs ==
  ASSUME SessInv, NEW n \in Queuers
  PROVE  /\ At(n) \in DOMAIN queue /\ queue[At(n)].n = n /\ Entry(n) = queue[At(n)]
         /\ Entry(n) \in Waiting /\ Resolution(Entry(n), table)
<1>1. \E i \in DOMAIN queue : queue[i].n = n
  BY DEF Queuers
<1>2. At(n) \in DOMAIN queue /\ queue[At(n)].n = n
  BY <1>1, Zenon DEF At
<1>3. Entry(n) = queue[At(n)]
  BY DEF Entry
<1>4. queue \in Seq(Waiting) /\ Resolutions(queue, table)
  BY Unmoved
<1>5. queue[At(n)] \in Waiting
  BY <1>2, <1>4, ElementOfSeq, LenProperties
<1> QED
  BY <1>2, <1>3, <1>4, <1>5 DEF Resolutions

LEMMA RefusedKept ==
  ASSUME SessInv, NEW n \in Queuers, Refused(n),
         spent' \in [Kinds -> Nat], \A x \in Kinds : spent'[x] = 0 => spent[x] = 0,
         table' = table, disk' = disk, world' = world, hellos' = hellos
  PROVE  SessInv'
<1> DEFINE e == Entry(n)
           c == e.conn
           k == e.sock
           gone == host.conns[c].sock = k
<1>1. /\ host \in HostT /\ sock \in [Socks -> SockT] /\ queue \in Seq(Waiting)
      /\ SeatsHeld(host, sock, spent) /\ SeatedOnce(host, sock, queue, 0)
      /\ InOrder(queue, hellos) /\ Resolutions(queue, table) /\ hellos \in Nat
  BY Unmoved
<1>2. At(n) \in DOMAIN queue /\ e = queue[At(n)] /\ e \in Waiting /\ c \in Conns /\ k \in Socks
  BY AtIs DEF Waiting
<1>3. /\ queue' = RemoveAt(queue, At(n))
      /\ host' = IF gone THEN Freed(host, c) ELSE host
      /\ sock' = IF gone THEN Shut(k, sock) ELSE sock
  BY DEF Refused, Spliced, Current
<1>4. /\ queue' \in Seq(Waiting) /\ InOrder(queue', hellos) /\ Resolutions(queue', table)
      /\ SeatedOnce(host, sock, queue', 0)
      /\ Cardinality(Turned(queue, hellos)) <= Cardinality(Turned(queue', hellos))
  <2>1. queue' \in Seq(Waiting) /\ Thins(queue', queue, 0)
    BY <1>1, <1>2, <1>3, RemovedThins
  <2> QED
    BY <1>1, <2>1, ThinsKeeps
<1>5. gone => c = sock[k].conn /\ host.conns[c].status = "awaiting" /\ host.conns[c].player = 0
  <2> SUFFICES ASSUME gone
               PROVE  c = sock[k].conn /\ host.conns[c].status = "awaiting"
                      /\ host.conns[c].player = 0
    OBVIOUS
  <2>1. c = sock[k].conn
    BY <1>1, <1>2, OneSeat
  <2>2. At(n) > 0
    BY <1>1, <1>2, LenProperties
  <2>3. host.conns[c].status = "awaiting"
    BY <1>1, <1>2, <2>2 DEF SeatedOnce
  <2>4. host.conns[c].player = 0
    BY <1>1, <1>2, <2>3 DEF SeatsHeld, SeatHeld
  <2> QED
    BY <2>1, <2>3, <2>4
<1> HIDE DEF e, c, k
<1>6. /\ host' \in HostT /\ host'.slot = host.slot /\ host'.pending = host.pending
      /\ host'.conns = IF gone THEN [host.conns EXCEPT ![c] = NoConn] ELSE host.conns
      /\ host'.online = host.online /\ host'.grace = host.grace
  <2>1. CASE gone
    <3>1. host' = Freed(host, c)
      BY <1>3, <2>1
    <3> QED
      BY <1>1, <1>2, <2>1, <3>1, FreedIs
  <2>2. CASE ~gone
    BY <1>1, <1>3, <2>2
  <2> QED
    BY <2>1, <2>2
<1>7. /\ sock' \in [Socks -> SockT]
      /\ \A j \in Socks : sock'[j] # sock[j] => gone /\ j = k
      /\ \A j \in Socks : /\ sock'[j].conn = sock[j].conn /\ sock'[j].secret = sock[j].secret
                          /\ sock'[j].settled = sock[j].settled /\ sock'[j].player = sock[j].player
                          /\ sock[j].life # "idle" => sock'[j].life # "idle"
  <2>1. CASE gone
    <3>1. sock' = Shut(k, sock)
      BY <1>3, <2>1
    <3>2. \A j \in Socks : j # k => sock'[j] = sock[j]
      BY <1>1, <1>2, <3>1, ShutIs
    <3> QED
      BY <1>1, <1>2, <2>1, <3>1, <3>2, ShutIs
  <2>2. CASE ~gone
    BY <1>1, <1>3, <2>2
  <2> QED
    BY <2>1, <2>2
<1>8. host.conns \in [Conns -> Seat]
  BY <1>1, HostFields
<1>9. \A d \in Conns : /\ ~gone \/ d # c => host'.conns[d] = host.conns[d]
                       /\ gone /\ d = c => host'.conns[d] = NoConn
  BY <1>6, <1>8
<1>10. Emptier(host', host, sock', sock)
  <2>1. ASSUME NEW d \in Conns, host'.conns[d].sock # 0
        PROVE  sock'[host'.conns[d].sock].life = sock[host'.conns[d].sock].life
    <3>1. host'.conns[d] = host.conns[d] /\ (gone => d # c)
      BY <1>9, <2>1 DEF NoConn
    <3>2. host.conns[d].sock \in Socks
      BY <1>1, <2>1, <3>1, SeatFields
    <3>3. gone => host.conns[d].sock # k
      BY <1>1, <1>2, <1>5, <3>1, OneSeat
    <3> QED
      BY <1>7, <3>1, <3>2, <3>3
  <2> QED
    BY <1>7, <1>9, <2>1 DEF Emptier
<1>11. spent'["recovers"] = 0 => \A d \in Conns :
         host'.slot[d] = IF host'.conns[d] = NoConn THEN 0 ELSE host.slot[d]
  <2> SUFFICES ASSUME spent'["recovers"] = 0, NEW d \in Conns
               PROVE  host'.slot[d] = IF host'.conns[d] = NoConn THEN 0 ELSE host.slot[d]
    OBVIOUS
  <2>1. SeatsNamed(host, sock, table)
    BY Unmoved DEF Kinds
  <2>2. host.slot[d] = host.conns[d].player
    BY <2>1 DEF SeatsNamed
  <2> QED
    BY <1>5, <1>6, <1>9, <2>2 DEF NoConn
<1>12. ASSUME spent'["late"] = 0, spent'["recovers"] = 0 PROVE RosterOf(host', world)
  <2>1. RosterOf(host, world)
    BY <1>12, Unmoved DEF Kinds
  <2>2. \A d \in Conns : host'.conns[d].status = "settled" => host'.conns[d] = host.conns[d]
    BY <1>9 DEF NoConn
  <2> QED
    BY <1>6, <2>1, <2>2 DEF RosterOf
<1> QED
  BY <1>4, <1>6, <1>7, <1>10, <1>11, <1>12, EmptyingKept

LEMMA HashFailedStep ==
  ASSUME SessInv, NEW n \in Nat, HashFailed(n)
  PROVE  SessInv'
<1>1. spent \in [Kinds -> Nat] /\ Trouble("hashFails") /\ "hashFails" \in Kinds
  BY Unmoved DEF HashFailed, Kinds
<1>2. spent' \in [Kinds -> Nat] /\ \A x \in Kinds : spent'[x] = 0 => spent[x] = 0
  BY <1>1, TroubleIs
<1> QED
  BY <1>2, RefusedKept DEF HashFailed, IsAt

LEMMA SaveFailedStep ==
  ASSUME SessInv, NEW n \in Nat, SaveFailed(n)
  PROVE  SessInv'
<1>1. spent \in [Kinds -> Nat] /\ Trouble("saveFails") /\ "saveFails" \in Kinds
  BY Unmoved DEF SaveFailed, Kinds
<1>2. spent' \in [Kinds -> Nat] /\ \A x \in Kinds : spent'[x] = 0 => spent[x] = 0
  BY <1>1, TroubleIs
<1> QED
  BY <1>2, RefusedKept DEF SaveFailed, IsAt

LEMMA MovedOnKept ==
  ASSUME SessInv, NEW n \in Queuers, NEW e \in Waiting,
         e.n = n, e.sock = Entry(n).sock, e.secret = Entry(n).secret, Resolution(e, table),
         e.stage \in {"digest", "turn"} => Entry(n).stage \in {"digest", "turn"},
         queue' = [queue EXCEPT ![At(n)] = e], host' = host, sock' = sock, spent' = spent,
         table' = table, world' = world, hellos' = hellos,
         disk' \in {disk, table} \/ \E i \in DOMAIN queue : disk' = queue[i].bytes
  PROVE  SessInv'
<1>1. /\ host \in HostT /\ sock \in [Socks -> SockT] /\ queue \in Seq(Waiting)
      /\ SeatedOnce(host, sock, queue, 0) /\ spent \in [Kinds -> Nat]
      /\ InOrder(queue, hellos) /\ Resolutions(queue, table) /\ hellos \in Nat
  BY Unmoved
<1>2. At(n) \in DOMAIN queue /\ queue[At(n)].n = n /\ Entry(n) = queue[At(n)]
  BY AtIs
<1>3. /\ queue' \in Seq(Waiting) /\ DOMAIN queue' = DOMAIN queue
      /\ \A j \in DOMAIN queue : queue'[j] = IF j = At(n) THEN e ELSE queue[j]
      /\ InOrder(queue', hellos) /\ SeatedOnce(host, sock, queue', 0)
      /\ Cardinality(Turned(queue, hellos)) <= Cardinality(Turned(queue', hellos))
  BY <1>1, <1>2, MovedOnKeeps
<1>4. Resolutions(queue', table)
  BY <1>1, <1>3 DEF Resolutions
<1>5. Emptier(host', host, sock', sock)
  BY DEF Emptier
<1>6. spent'["recovers"] = 0 => \A c \in Conns :
        host'.slot[c] = IF host'.conns[c] = NoConn THEN 0 ELSE host.slot[c]
  BY Unmoved DEF SeatsNamed, NoConn
<1>7. spent'["late"] = 0 /\ spent'["recovers"] = 0 => RosterOf(host', world)
  BY Unmoved
<1> QED
  BY <1>1, <1>3, <1>4, <1>5, <1>6, <1>7, EmptyingKept

LEMMA WaitingFields ==
  ASSUME NEW e \in Waiting
  PROVE  /\ e.n \in 1..MaxHellos /\ e.sock \in Socks /\ e.conn \in Conns /\ e.secret \in Secrets
         /\ e.stage \in {"digest", "turn", "save", "ready"} /\ e.player \in MaybePlayers
         /\ e.joined \in BOOLEAN /\ e.bytes \in Table
         /\ e = [n |-> e.n, sock |-> e.sock, conn |-> e.conn, secret |-> e.secret,
                 stage |-> e.stage, player |-> e.player, joined |-> e.joined, bytes |-> e.bytes]
  BY DEF Waiting

LEMMA HashedStep ==
  ASSUME SessInv, NEW n \in Nat, Hashed(n)
  PROVE  SessInv'
<1> DEFINE e == Entry(n)
           e2 == [e EXCEPT !.stage = "turn"]
<1>1. /\ n \in Queuers /\ e.stage = "digest"
      /\ queue' = [queue EXCEPT ![At(n)].stage = "turn"]
      /\ host' = host /\ sock' = sock /\ spent' = spent
      /\ table' = table /\ world' = world /\ hellos' = hellos /\ disk' = disk
  BY DEF Hashed, IsAt
<1>2. e \in Waiting /\ e = queue[At(n)] /\ e.n = n /\ Resolution(e, table)
  BY <1>1, AtIs
<1>3. queue' = [queue EXCEPT ![At(n)] = e2]
  BY <1>1, <1>2
<1> HIDE DEF e
<1>4. /\ e2 \in Waiting /\ e2.n = n /\ e2.sock = e.sock /\ e2.secret = e.secret
      /\ e2.stage = "turn" /\ e2.bytes = e.bytes
  BY <1>2, WaitingFields DEF Waiting
<1> HIDE DEF e2
<1>5. Resolution(e2, table)
  BY <1>2, <1>4 DEF Resolution
<1> QED
  BY <1>1, <1>3, <1>4, <1>5, MovedOnKept DEF e

LEMMA ResolvedIs ==
  ASSUME SessInv, NEW e \in Waiting, NEW p \in Players
  PROVE  /\ Resolved(e, p) \in Waiting
         /\ Resolved(e, p).n = e.n /\ Resolved(e, p).sock = e.sock
         /\ Resolved(e, p).secret = e.secret /\ Resolved(e, p).bytes = e.bytes
         /\ Resolved(e, p).stage = "ready" /\ Resolved(e, p).player = p
<1> DEFINE b == ~HasPlayer(p)
<1>1. b \in BOOLEAN /\ p \in MaybePlayers
  BY DEF HasPlayer, MaybePlayers
<1>2. Resolved(e, p) = [e EXCEPT !.stage = "ready", !.player = p, !.joined = b]
  BY DEF Resolved
<1> HIDE DEF b
<1> PICK r : r = Resolved(e, p)
  OBVIOUS
<1>3. r \in Waiting
  BY <1>1, <1>2 DEF Waiting
<1>4. /\ r.n = e.n /\ r.sock = e.sock /\ r.secret = e.secret /\ r.bytes = e.bytes
      /\ r.stage = "ready" /\ r.player = p
  BY <1>2 DEF Waiting
<1> QED
  BY <1>3, <1>4

LEMMA SavedStep ==
  ASSUME SessInv, NEW n \in Nat, Saved(n)
  PROVE  SessInv'
<1> DEFINE e == Entry(n)
           p == table[e.secret]
           e1 == Resolved(e, p)
           e2 == [e1 EXCEPT !.bytes = NoTable]
<1>1. /\ n \in Queuers /\ e.stage = "save" /\ disk' = e.bytes
      /\ queue' = [queue EXCEPT ![At(n)] =
                     [Resolved(queue[At(n)], table[queue[At(n)].secret]) EXCEPT !.bytes = NoTable]]
      /\ host' = host /\ sock' = sock /\ spent' = spent
      /\ table' = table /\ world' = world /\ hellos' = hellos
  BY DEF Saved, IsAt
<1>2. /\ e \in Waiting /\ e = queue[At(n)] /\ e.n = n /\ Resolution(e, table)
      /\ At(n) \in DOMAIN queue
  BY <1>1, AtIs
<1>3. queue' = [queue EXCEPT ![At(n)] = e2]
  BY <1>1, <1>2
<1>4. p \in Players
  <2>1. p # 0 /\ table \in Table /\ e.secret \in Secrets
    BY <1>1, <1>2, Unmoved, WaitingFields DEF Resolution
  <2> QED
    BY <2>1 DEF Table, MaybePlayers
<1>5. /\ e1 \in Waiting /\ e1.n = n /\ e1.sock = e.sock /\ e1.secret = e.secret
      /\ e1.stage = "ready" /\ e1.player = p
  BY <1>2, <1>4, ResolvedIs
<1> HIDE DEF e1
<1>6. NoTable \in Table
  BY DEF NoTable, Table, MaybePlayers
<1>7. /\ e2 \in Waiting /\ e2.n = n /\ e2.sock = e.sock /\ e2.secret = e.secret
      /\ e2.stage = "ready" /\ e2.player = p /\ e2.bytes = NoTable
  BY <1>5, <1>6, WaitingFields DEF Waiting
<1> HIDE DEF e2
<1>8. Resolution(e2, table)
  BY <1>4, <1>7, SeatTypes DEF Resolution, Older, NoTable
<1>9. \E i \in DOMAIN queue : disk' = queue[i].bytes
  BY <1>1, <1>2
<1> HIDE DEF e
<1> QED
  BY <1>1, <1>3, <1>7, <1>8, <1>9, MovedOnKept DEF e

(* The number a new secret gets is nobody's: above every number of the     *)
(* table, and none that the log knows.                                     *)
LEMMA NextPlayerIs ==
  ASSUME SessInv, NEW n \in Nat, Dense(table, world, n)
  PROVE  /\ NextPlayer \in 1..(n + 1) /\ ~HasPlayer(NextPlayer)
         /\ \A s \in Secrets : table[s] < NextPlayer
<1> DEFINE T == {table[s] : s \in Secrets}
           l == Len(world.joins)
           lo == Highest + 1
           Free == {p \in lo..(lo + l) : ~HasPlayer(p)}
           J == {world.joins[i].player : i \in 1..l}
<1>1. \A s \in Secrets : table[s] \in Nat /\ table[s] <= n
  <2>1. table \in Table
    BY Unmoved
  <2>2. \A s \in Secrets : table[s] \in MaybePlayers
    BY <2>1 DEF Table
  <2> QED
    BY <2>2, SeatTypes DEF Dense
<1>2. l \in Nat /\ DOMAIN world.joins = 1..l
  <2>1. world.joins \in Seq(Joining)
    BY Unmoved DEF World
  <2> QED
    BY <2>1, LenProperties
<1>3. Highest \in T /\ \A y \in T : y <= Highest
  <2>1. T \in SUBSET (0..n) /\ T # {}
    BY <1>1, SessionsAssumption
  <2>2. Highest = Max(T)
    BY Zenon DEF Highest
  <2> HIDE DEF T
  <2> QED
    BY <2>1, <2>2, MaxIn
<1>4. Highest \in Nat /\ Highest <= n
  BY <1>1, <1>3
<1>5. \A s \in Secrets : table[s] <= Highest
  BY <1>3
<1> HIDE DEF T
<1>6. \A p : HasPlayer(p) <=> p \in J
  BY <1>2 DEF HasPlayer
<1>7. IsFiniteSet(J) /\ Cardinality(J) \in Nat /\ Cardinality(J) <= l
  <2> DEFINE f == [i \in 1..l |-> world.joins[i].player]
  <2>1. IsFiniteSet(1..l) /\ Cardinality(1..l) = l
    <3> HIDE DEF l
    <3> QED
      BY <1>2, FS_Interval
  <2>2. f \in Surjection(1..l, J)
    BY DEF Surjection
  <2> HIDE DEF f, l, J
  <2>3. IsFiniteSet(J) /\ Cardinality(J) <= l
    BY <2>1, <2>2, FS_Surjection
  <2> QED
    BY <2>3, FS_CardinalityType
<1> HIDE DEF J, l
<1>8. lo \in Nat /\ lo <= n + 1
  BY <1>4
<1>9. NextPlayer = Min(Free)
  BY Zenon DEF NextPlayer, l
<1> HIDE DEF lo
<1>10. Free # {}
  <2> SUFFICES ASSUME Free = {} PROVE FALSE
    OBVIOUS
  <2>1. lo..(lo + l) \subseteq J
    BY <1>6
  <2>2. Cardinality(lo..(lo + l)) = l + 1
    <3>1. lo \in Int /\ lo + l \in Int /\ ~(lo > lo + l) /\ (lo + l) - lo + 1 = l + 1
      BY <1>2, <1>8
    <3> QED
      BY <3>1, FS_Interval
  <2>3. Cardinality(lo..(lo + l)) <= Cardinality(J)
    BY <1>7, <2>1, FS_Subset
  <2> QED
    BY <1>2, <1>7, <2>2, <2>3
<1>11. NextPlayer \in Free /\ \A p \in Free : NextPlayer <= p
  <2>1. Free \in SUBSET Nat
    BY <1>2, <1>8
  <2> HIDE DEF Free
  <2> QED
    BY <1>9, <1>10, <2>1, MinIn
<1>12. NextPlayer \in lo..(lo + l) /\ ~HasPlayer(NextPlayer)
  BY <1>11
<1>13. NextPlayer \in Nat /\ NextPlayer >= lo /\ NextPlayer <= lo + l
  BY <1>2, <1>8, <1>12
<1>14. NextPlayer <= n + 1
  <2>1. CASE n + 1 <= lo + l
    <3>1. ~HasPlayer(n + 1)
      <4>1. \A i \in DOMAIN world.joins : world.joins[i].player <= n
        BY DEF Dense
      <4>2. ~(n + 1 <= n)
        OBVIOUS
      <4> QED
        BY <4>1, <4>2 DEF HasPlayer
    <3>2. n + 1 \in lo..(lo + l)
      BY <1>2, <1>8, <2>1
    <3>3. n + 1 \in Free
      BY <3>1, <3>2
    <3> QED
      BY <1>11, <3>3
  <2>2. CASE ~(n + 1 <= lo + l)
    BY <1>2, <1>8, <1>13, <2>2
  <2> QED
    BY <2>1, <2>2
<1>15. NextPlayer >= 1 /\ \A s \in Secrets : table[s] < NextPlayer
  <2>1. NextPlayer >= Highest + 1
    BY <1>13 DEF lo
  <2> QED
    BY <1>1, <1>4, <1>5, <1>13, <2>1
<1> QED
  BY <1>12, <1>13, <1>14, <1>15

(* A secret without a number gets one, and its save starts.                *)
Entered(n) ==
  /\ table[Entry(n).secret] = 0
  /\ table' = [table EXCEPT ![Entry(n).secret] = NextPlayer]
  /\ queue' = [queue EXCEPT ![At(n)].stage = "save", ![At(n)].bytes = table']
  /\ UNCHANGED <<hellos, sock, host, disk, world, spent>>

LEMMA EnteredStep ==
  ASSUME SessInv, NEW n \in Queuers, Entry(n).stage = "turn", Entered(n)
  PROVE  SessInv'
<1> DEFINE e == Entry(n)
           s == e.secret
           p == NextPlayer
           m == Cardinality(Turned(queue, hellos))
           e2 == [e EXCEPT !.stage = "save", !.bytes = table']
<1>1. /\ host \in HostT /\ sock \in [Socks -> SockT] /\ queue \in Seq(Waiting)
      /\ SeatsHeld(host, sock, spent) /\ SettledAs(sock)
      /\ SeatedOnce(host, sock, queue, 0) /\ spent \in [Kinds -> Nat] /\ world \in World
      /\ InOrder(queue, hellos) /\ Resolutions(queue, table) /\ hellos \in Nat
      /\ table \in Table /\ disk \in Table /\ NoneJoining(host, world)
      /\ hellos \in 0..MaxHellos /\ m \in 0..hellos
      /\ OnePerSecret(table) /\ JoinedAsTable(world, table) /\ Older(disk, table)
      /\ Dense(table, world, m)
  BY Unmoved DEF SessInv, IdentityInv
<1>0. /\ host' = host /\ sock' = sock /\ spent' = spent /\ world' = world
      /\ hellos' = hellos /\ disk' = disk
  BY DEF Entered
<1>2. /\ At(n) \in DOMAIN queue /\ e = queue[At(n)] /\ e.n = n /\ e \in Waiting
      /\ s \in Secrets /\ Resolution(e, table) /\ e.stage = "turn" /\ table[s] = 0
  BY AtIs, WaitingFields DEF Entered
<1>3. p \in 1..(m + 1) /\ ~HasPlayer(p) /\ \A t \in Secrets : table[t] < p
  <2>1. m \in Nat
    BY <1>1
  <2> QED
    BY <1>1, <2>1, NextPlayerIs
<1>4. queue' = [queue EXCEPT ![At(n)] = e2]
  BY <1>2 DEF Entered
<1>5. /\ \A t \in Secrets : table'[t] = IF t = s THEN p ELSE table[t]
      /\ table' = [table EXCEPT ![s] = p]
  <2>1. table \in [Secrets -> MaybePlayers]
    BY <1>1 DEF Table
  <2>2. table' = [table EXCEPT ![s] = p]
    BY DEF Entered
  <2> QED
    BY <2>1, <2>2
<1> HIDE DEF p, m
\* The one whose turn this is adds to the turned: the number is within bounds.
<1>6. /\ \A i \in DOMAIN queue : queue[i].n = n => i = At(n)
      /\ n \in 1..hellos /\ n \notin Turned(queue, hellos)
  <2>1. \A i, j \in DOMAIN queue : queue[i].n = queue[j].n => i = j
    <3>1. \A i \in DOMAIN queue : queue[i] \in Waiting /\ i \in Nat
      BY <1>1, ElementOfSeq, LenProperties
    <3>2. \A i \in DOMAIN queue : queue[i].n \in Nat
      BY <3>1, WaitingFields, SessionsAssumption
    <3> QED
      BY <1>1, <3>1, <3>2 DEF InOrder
  <2>2. n \in 1..hellos
    <3>1. n \in 1..MaxHellos
      BY <1>2, WaitingFields
    <3>2. n <= hellos
      BY <1>1, <1>2 DEF InOrder
    <3> QED
      BY <1>1, <3>1, <3>2, SessionsAssumption
  <2> QED
    BY <1>2, <2>1, <2>2 DEF Turned
<1> HIDE DEF e
<1>7. table'[s] = p /\ p <= m + 1 /\ p # 0 /\ p \in Nat /\ m \in Nat
  BY <1>1, <1>2, <1>3, <1>5
<1>8. m + 1 <= MaxHellos /\ IsFiniteSet(Turned(queue, hellos) \cup {n})
      /\ Cardinality(Turned(queue, hellos) \cup {n}) = m + 1
      /\ Turned(queue, hellos) \cup {n} \subseteq 1..hellos
  <2>1. IsFiniteSet(Turned(queue, hellos)) /\ Turned(queue, hellos) \subseteq 1..hellos
    BY <1>1, TurnedCount
  <2>2. /\ IsFiniteSet(Turned(queue, hellos) \cup {n})
        /\ Cardinality(Turned(queue, hellos) \cup {n}) = m + 1
    BY <1>6, <2>1, FS_AddElement DEF m
  <2>3. IsFiniteSet(1..hellos) /\ Cardinality(1..hellos) = hellos
    BY <1>1, FS_Interval
  <2>4. Turned(queue, hellos) \cup {n} \subseteq 1..hellos
    BY <1>6, <2>1
  <2>5. m + 1 <= hellos
    BY <2>2, <2>3, <2>4, FS_Subset
  <2> QED
    BY <1>1, <1>7, <2>2, <2>4, <2>5, SessionsAssumption
<1>9. p \in Players /\ table' \in Table
  <2>1. p \in Players
    BY <1>3, <1>7, <1>8, SessionsAssumption DEF Players
  <2>2. table \in [Secrets -> MaybePlayers]
    BY <1>1 DEF Table
  <2>3. p \in MaybePlayers
    BY <2>1 DEF MaybePlayers
  <2> QED
    BY <1>5, <2>1, <2>2, <2>3 DEF Table
<1>10. /\ e2 \in Waiting /\ e2.n = n /\ e2.sock = e.sock /\ e2.secret = s
       /\ e2.stage = "save" /\ e2.bytes = table'
  BY <1>2, <1>9, WaitingFields DEF Waiting
<1> HIDE DEF e2
<1>11. /\ queue' \in Seq(Waiting) /\ DOMAIN queue' = DOMAIN queue
       /\ \A j \in DOMAIN queue : queue'[j] = IF j = At(n) THEN e2 ELSE queue[j]
       /\ InOrder(queue', hellos) /\ SeatedOnce(host, sock, queue', 0)
       /\ Cardinality(Turned(queue, hellos)) <= Cardinality(Turned(queue', hellos))
  <2>1. e2.sock = queue[At(n)].sock /\ e2.secret = queue[At(n)].secret /\ e2.n = queue[At(n)].n
    BY <1>2, <1>10
  <2> QED
    BY <1>1, <1>2, <1>4, <1>10, <2>1, MovedOnKeeps
<1>12. Cardinality(Turned(queue', hellos)) \in Nat /\ m + 1 <= Cardinality(Turned(queue', hellos))
  <2>1. n \in Turned(queue', hellos)
    BY <1>6, <1>10, <1>11 DEF Turned
  <2>2. Turned(queue, hellos) \subseteq Turned(queue', hellos)
    <3>1. \A i \in DOMAIN queue' :
            queue'[i].n <= hellos /\ queue'[i].stage \in {"digest", "turn"} =>
              \E j \in DOMAIN queue : queue[j].n = queue'[i].n /\ queue[j].stage \in {"digest", "turn"}
      BY <1>10, <1>11
    <3> QED
      BY <1>1, <3>1, TurnedGrows
  <2>3. /\ IsFiniteSet(Turned(queue', hellos))
        /\ Cardinality(Turned(queue', hellos)) \in 0..hellos
    BY <1>1, TurnedCount
  <2>4. Cardinality(Turned(queue, hellos) \cup {n}) <= Cardinality(Turned(queue', hellos))
    BY <2>1, <2>2, <2>3, FS_Subset
  <2> QED
    BY <1>1, <1>8, <2>3, <2>4
\* Nobody's number, so nobody's identity changes.
<1>13. OnePerSecret(table')
  <2>1. \A t \in Secrets : table[t] \in Nat
    BY <1>1, SeatTypes DEF Table
  <2> QED
    BY <1>1, <1>3, <1>5, <1>7, <2>1 DEF OnePerSecret
<1>14. JoinedAsTable(world', table')
  <2>1. \A i \in DOMAIN world.joins : world.joins[i].player # p
    BY <1>3 DEF HasPlayer
  <2> QED
    BY <1>0, <1>1, <1>5, <2>1 DEF JoinedAsTable
<1>15. \A t : Older(t, table) => Older(t, table')
  BY <1>2, <1>5 DEF Older
<1>16. Resolutions(queue', table')
  <2>1. Older(table', table')
    BY DEF Older
  <2>2. Resolution(e2, table')
    BY <1>7, <1>10, <2>1 DEF Resolution
  <2>3. ASSUME NEW j \in DOMAIN queue PROVE Resolution(queue[j], table')
    <3>1. queue[j] \in Waiting /\ Resolution(queue[j], table)
      BY <1>1, ElementOfSeq, LenProperties DEF Resolutions
    <3>2. queue[j].secret \in Secrets
      BY <3>1, WaitingFields
    <3>3. queue[j].stage \in {"save", "ready"} => queue[j].secret # s
      BY <1>2, <3>1 DEF Resolution
    <3>4. queue[j].stage \in {"save", "ready"} => table'[queue[j].secret] = table[queue[j].secret]
      BY <1>5, <3>2, <3>3
    <3> QED
      BY <1>15, <3>1, <3>4 DEF Resolution
  <2> QED
    BY <1>11, <2>2, <2>3 DEF Resolutions
<1>17. Dense(table', world', Cardinality(Turned(queue', hellos')))
  <2>1. Dense(table', world, m + 1)
    <3>1. Dense(table, world, m + 1)
      BY <1>1, <1>7, DenseGrows
    <3> QED
      BY <1>5, <1>7, <3>1 DEF Dense
  <2> QED
    BY <1>0, <1>1, <1>7, <1>9, <1>12, <2>1, DenseGrows
<1>18. IdentityInv'
  BY <1>0, <1>1, <1>13, <1>14, <1>15, <1>16, <1>17 DEF IdentityInv, NoneJoining
<1>19. NamesInv'
  <2> SUFFICES ASSUME spent["recovers"] = 0 PROVE SeatsNamed(host, sock, table')
    BY <1>0 DEF NamesInv, Never
  <2>1. SeatsNamed(host, sock, table)
    BY Unmoved
  <2>2. Emptier(host, host, sock, sock)
    BY DEF Emptier
  <2>3. \A t \in Secrets : table[t] # 0 => table'[t] = table[t]
    BY <1>2, <1>5
  <2>4. \A c \in Conns : host.conns[c] = NoConn => host.slot[c] = 0
    BY <2>1 DEF SeatsNamed, NoConn
  <2> QED
    BY <1>1, <2>1, <2>2, <2>3, <2>4, NamesKept, ZenonT(40)
<1>20. PresenceInv' /\ SeatsInv' /\ InOrder(queue', hellos') /\ Shapes'
  BY <1>0, <1>1, <1>9, <1>11
     DEF SessInv, PresenceInv, Undisturbed, Never, SeatsInv, SeatedOnce, SeatsHeld, Shapes
<1> QED
  BY <1>18, <1>19, <1>20 DEF SessInv

LEMMA SettleStep ==
  ASSUME SessInv, NEW n \in Nat, Settle(n)
  PROVE  SessInv'
<1> DEFINE e == Entry(n)
           p == table[e.secret]
           e2 == Resolved(e, p)
<1>1. /\ n \in Queuers /\ e.stage = "turn" /\ hellos' = hellos /\ disk' = disk
      /\ world' = world /\ spent' = spent
  BY DEF Settle, IsAt
<1>2. e \in Waiting /\ e = queue[At(n)] /\ e.n = n /\ Resolution(e, table)
  BY <1>1, AtIs
<1>3. CASE Full(p)
  <2>1. Refused(n) /\ table' = table
    BY <1>3 DEF Settle
  <2>2. spent' \in [Kinds -> Nat] /\ \A x \in Kinds : spent'[x] = 0 => spent[x] = 0
    BY <1>1, Unmoved
  <2> QED
    BY <1>1, <2>1, <2>2, RefusedKept
<1>4. CASE ~Full(p) /\ p # 0
  <2>1. queue' = [queue EXCEPT ![At(n)] = e2] /\ sock' = sock /\ host' = host /\ table' = table
    BY <1>4 DEF Settle
  <2>2. p \in Players
    <3>1. table \in Table /\ e.secret \in Secrets
      BY <1>2, Unmoved, WaitingFields
    <3> QED
      BY <1>4, <3>1 DEF Table, MaybePlayers
  <2>3. /\ e2 \in Waiting /\ e2.n = n /\ e2.sock = e.sock /\ e2.secret = e.secret
        /\ e2.bytes = e.bytes /\ e2.stage = "ready" /\ e2.player = p
    BY <1>2, <2>2, ResolvedIs
  <2> HIDE DEF e2
  <2>4. Resolution(e2, table)
    BY <1>2, <1>4, <2>3 DEF Resolution
  <2> QED
    BY <1>1, <2>1, <2>3, <2>4, MovedOnKept
<1>5. CASE ~Full(p) /\ p = 0
  <2>1. Entered(n)
    BY <1>1, <1>5 DEF Settle, Entered
  <2> QED
    BY <1>1, <2>1, EnteredStep
<1> QED
  BY <1>3, <1>4, <1>5

(* The server starts again with what storage kept.                         *)
LEMMA RestartStep ==
  ASSUME SessInv, Restart
  PROVE  SessInv'
<1>1. /\ table \in Table /\ disk \in Table /\ world \in World /\ spent \in [Kinds -> Nat]
      /\ hellos \in 0..MaxHellos /\ hellos \in Nat
      /\ OnePerSecret(table) /\ JoinedAsTable(world, table) /\ Older(disk, table)
      /\ Dense(table, world, Cardinality(Turned(queue, hellos)))
  BY Unmoved DEF SessInv, IdentityInv
<1>2. /\ sock' = FreshSocks /\ host' = FreshHost /\ queue' = << >> /\ table' = disk
      /\ hellos' = hellos /\ disk' = disk /\ Trouble("restarts")
  BY DEF Restart
<1>3. PICK i \in 0..Len(world.joins) :
        world' = [joins |-> SubSeq(world.joins, 1, i), roster |-> {}]
  BY DEF Restart
<1>4. spent' \in [Kinds -> Nat]
  BY <1>1, <1>2, TroubleIs DEF Kinds
<1>5. /\ world' \in World /\ world'.roster = {} /\ Len(world'.joins) = i
      /\ DOMAIN world'.joins = 1..i /\ \A j \in 1..i : world'.joins[j] = world.joins[j]
      /\ DOMAIN world.joins = 1..Len(world.joins) /\ i \in Nat
      /\ 1..i \subseteq DOMAIN world.joins
  <2> DEFINE js == SubSeq(world.joins, 1, i)
  <2>1. /\ world.joins \in Seq(Joining) /\ Len(world.joins) \in Nat
        /\ DOMAIN world.joins = 1..Len(world.joins)
        /\ \A j \in 1..Len(world.joins) : world.joins[j] \in Joining
    <3>1. world.joins \in Seq(Joining)
      BY <1>1 DEF World
    <3> QED
      BY <3>1, LenProperties, ElementOfSeq
  <2>2. i \in Nat /\ i <= Len(world.joins)
    BY <1>3, <2>1
  <2>3. js \in Seq(Joining) /\ Len(js) = i /\ \A j \in 1..i : js[j] = world.joins[j]
    <3>1. \A j \in 1..i : world.joins[j] \in Joining
      BY <2>1, <2>2
    <3>2. /\ js \in Seq(Joining) /\ Len(js) = IF 1 <= i THEN i - 1 + 1 ELSE 0
          /\ \A j \in 1..(i - 1 + 1) : js[j] = world.joins[1 + j - 1]
      BY <2>2, <3>1, SubSeqProperties
    <3>3. i - 1 + 1 = i /\ \A j \in 1..i : 1 + j - 1 = j
      BY <2>2
    <3> QED
      BY <2>2, <3>2, <3>3
  <2> HIDE DEF js
  <2>4. world' = [joins |-> js, roster |-> {}]
    BY <1>3 DEF js
  <2>5. DOMAIN js = 1..i
    BY <2>3, LenProperties
  <2>6. world'.joins = js /\ world'.roster = {} /\ world' \in World
    BY <2>3, <2>4 DEF World
  <2>7. 1..i \subseteq DOMAIN world.joins
    BY <2>1, <2>2
  <2> QED
    BY <2>1, <2>2, <2>3, <2>5, <2>6, <2>7
<1> HIDE DEF Restart
<1>6. FreshSocks \in [Socks -> SockT] /\ \A k \in Socks : ~FreshSocks[k].settled
  <2>1. (CHOOSE s \in Secrets : TRUE) \in Secrets
    BY SessionsAssumption
  <2> QED
    BY <2>1, SeatTypes DEF FreshSocks, SockT, Life, MaybePlayers
<1>7. /\ FreshHost \in HostT /\ FreshHost.pending = << >> /\ FreshHost.online = {}
      /\ FreshHost.grace = {} /\ \A c \in Conns : FreshHost.conns[c] = NoConn /\ FreshHost.slot[c] = 0
  <2>1. << >> \in Seq(Note)
    BY EmptySeq
  <2>2. [c \in Conns |-> NoConn] \in [Conns -> Seat] /\ [c \in Conns |-> 0] \in [Conns -> Nat]
    BY SeatTypes
  <2> QED
    BY <2>1, <2>2 DEF FreshHost, HostT
<1>8. << >> \in Seq(Waiting) /\ DOMAIN << >> = {}
  BY EmptySeq, LenProperties
<1>9. Shapes' /\ InOrder(queue', hellos') /\ SeatsInv'
  <2>1. Shapes'
    BY <1>1, <1>2, <1>4, <1>5, <1>6, <1>7, <1>8 DEF Shapes
  <2>2. InOrder(queue', hellos')
    BY <1>2, <1>8 DEF InOrder
  <2>3. SeatsHeld(host', sock', spent')
    BY <1>2, <1>7 DEF SeatsHeld, SeatHeld, NoConn
  <2>4. SettledAs(sock') /\ SeatedOnce(host', sock', queue', 0)
    BY <1>2, <1>6, <1>8 DEF SettledAs, SeatedOnce
  <2> QED
    BY <2>1, <2>2, <2>3, <2>4 DEF SeatsInv
<1>10. OnePerSecret(disk) /\ JoinedAsTable(world', disk)
  <2>1. OnePerSecret(disk)
    BY <1>1 DEF OnePerSecret, Older
  <2>2. \A j \in DOMAIN world'.joins : world'.joins[j] = world.joins[j] /\ j \in DOMAIN world.joins
    BY <1>5
  <2>3. \A j \in DOMAIN world.joins : world.joins[j].player # 0
    <3>1. world.joins \in Seq(Joining)
      BY <1>1 DEF World
    <3>2. \A j \in DOMAIN world.joins : world.joins[j] \in Joining
      BY <3>1, ElementOfSeq, LenProperties
    <3> QED
      BY <3>2, SeatTypes DEF Joining
  <2> QED
    BY <1>1, <2>1, <2>2, <2>3 DEF JoinedAsTable, Older
<1>11. Dense(disk, world', Cardinality(Turned(<< >>, hellos)))
  <2> DEFINE m == Cardinality(Turned(queue, hellos))
             m2 == Cardinality(Turned(<< >>, hellos))
  <2>1. m \in Nat /\ m2 \in Nat /\ m <= m2
    <3>1. \A j \in DOMAIN << >> : << >>[j].n <= hellos /\ << >>[j].stage \in {"digest", "turn"} =>
            \E l \in DOMAIN queue : queue[l].n = << >>[j].n /\ queue[l].stage \in {"digest", "turn"}
      BY <1>8
    <3>2. m <= m2
      BY <1>1, <3>1, TurnedGrows
    <3>3. m \in Nat /\ m2 \in Nat
      BY <1>1, TurnedCount
    <3> QED
      BY <3>2, <3>3
  <2>2. Dense(disk, world', m)
    <3>1. \A s \in Secrets : disk[s] <= m
      <4>1. \A s \in Secrets : table[s] <= m
        BY <1>1 DEF Dense
      <4>2. 0 <= m
        BY <2>1
      <4> HIDE DEF m, m2
      <4> QED
        BY <1>1, <4>1, <4>2 DEF Older
    <3> QED
      BY <1>1, <1>5, <3>1 DEF Dense
  <2> HIDE DEF m, m2
  <2>3. Dense(disk, world', m2)
    BY <1>1, <1>5, <2>1, <2>2, DenseGrows
  <2> QED
    BY <2>3 DEF m2
<1>12. IdentityInv'
  <2>1. Older(disk, disk) /\ Resolutions(<< >>, disk)
    BY <1>8 DEF Older, Resolutions
  <2>2. Logged(world', << >>) = world'
    BY LoggedNone
  <2> QED
    BY <1>2, <1>7, <1>10, <1>11, <2>1, <2>2 DEF IdentityInv, NoneJoining
<1>13. NamesInv' /\ PresenceInv'
  <2>1. SeatsNamed(FreshHost, FreshSocks, disk)
    BY <1>7 DEF SeatsNamed, NoConn
  <2>2. Logged(world', << >>) = world'
    BY LoggedNone
  <2>3. RosterOf(FreshHost, world')
    BY <1>5, <1>7, <2>2 DEF RosterOf, NoConn
  <2> QED
    BY <1>2, <2>1, <2>3 DEF NamesInv, PresenceInv
<1> QED
  BY <1>9, <1>12, <1>13 DEF SessInv
-----------------------------------------------------------------------------
(* The tick: the queued Hellos are pumped one by one.                      *)
LEMMA PumpedRun ==
  ASSUME NEW r, NEW n \in Nat
  PROVE  \E f : /\ f[0] = r
                /\ \A i \in 1..n : f[i] = Pumped(f[i - 1], queue[i])
                /\ PumpedUpTo(r, n) = f[n]
<1> DEFINE Step(f, m) == [i \in 0..m |-> IF i = 0 THEN r ELSE Pumped(f[i - 1], queue[i])]
           Bad == {m \in Nat : ~ \E f : f = Step(f, m)}
<1>2. Bad = {}
  <2> SUFFICES ASSUME Bad # {} PROVE FALSE
    OBVIOUS
  <2>1. PICK m \in Bad : \A y \in Bad : m <= y
    <3>1. Bad \in SUBSET Nat
      OBVIOUS
    <3> HIDE DEF Bad
    <3> QED
      BY <3>1, NatMin
  <2>2. CASE m = 0
    <3>1. [i \in 0..0 |-> r] = Step([i \in 0..0 |-> r], 0)
      OBVIOUS
    <3> QED
      BY <2>1, <2>2, <3>1
  <2>3. CASE m # 0
    <3>0. m \in Nat
      BY <2>1
    <3>1. m - 1 \in Nat /\ m - 1 \notin Bad
      <4> HIDE DEF Bad
      <4> QED
        BY <2>1, <2>3, <3>0
    <3>2. PICK f : f = Step(f, m - 1)
      <4> HIDE DEF Step
      <4> QED
        BY <3>1
    <3> DEFINE g == [i \in 0..m |-> IF i = m THEN Pumped(f[m - 1], queue[m]) ELSE f[i]]
    <3>3. ASSUME NEW i \in 0..m
          PROVE  g[i] = IF i = 0 THEN r ELSE Pumped(g[i - 1], queue[i])
      <4>1. CASE i = m
        <5>1. g[m - 1] = f[m - 1]
          BY <2>1, <2>3
        <5> QED
          BY <2>3, <4>1, <5>1
      <4>2. CASE i # m
        <5>1. i \in 0..(m - 1) /\ g[i] = f[i]
          BY <4>2, <2>1
        <5>2. f[i] = IF i = 0 THEN r ELSE Pumped(f[i - 1], queue[i])
          BY <3>2, <5>1, Zenon
        <5>3. i # 0 => g[i - 1] = f[i - 1]
          BY <2>1, <5>1
        <5> QED
          BY <5>1, <5>2, <5>3
      <4> QED
        BY <4>1, <4>2
    <3>4. g = Step(g, m)
      BY <3>3
    <3> QED
      BY <2>1, <3>4
  <2> QED
    BY <2>2, <2>3
<1>3. \E f : f = Step(f, n)
  BY <1>2
<1> DEFINE F == CHOOSE f : f = Step(f, n)
<1>4. F = Step(F, n)
  BY <1>3, Zenon
<1>5. PumpedUpTo(r, n) = F[n]
  BY Zenon DEF PumpedUpTo
<1>6. \A i \in 0..n : F[i] = IF i = 0 THEN r ELSE Pumped(F[i - 1], queue[i])
  BY <1>4, Zenon
<1> HIDE DEF F
<1>7. F[0] = r
  BY <1>6
<1>8. ASSUME NEW i \in 1..n PROVE F[i] = Pumped(F[i - 1], queue[i])
  BY <1>6
<1> QED
  BY <1>5, <1>7, <1>8

(* What holds between two of them: what is to be logged counts as logged.  *)
TickInv(r, i) ==
  /\ r.h \in HostT /\ r.ks \in [Socks -> SockT]
  /\ SeatsHeld(r.h, r.ks, spent) /\ SettledAs(r.ks) /\ SeatedOnce(r.h, r.ks, queue, i)
  /\ JoinedAsTable(Logged(world, r.h.pending), table)
  /\ Dense(table, Logged(world, r.h.pending), Cardinality(Turned(queue, hellos)))
  /\ spent["recovers"] = 0 => SeatsNamed(r.h, r.ks, table)
  /\ spent["late"] = 0 /\ spent["recovers"] = 0 => RosterOf(r.h, world)

LEMMA TimedOutTick ==
  ASSUME SessInv, NEW T \in SUBSET Silent
  PROVE  TickInv(TimedOut([h |-> host, ks |-> sock], T), 0)
<1> DEFINE r == TimedOut([h |-> host, ks |-> sock], T)
           cs == [c \in Conns |-> IF c \in T THEN NoConn ELSE host.conns[c]]
           Lost(k) == \E c \in T : host.conns[c].sock = k
<1>1. /\ host \in HostT /\ sock \in [Socks -> SockT] /\ queue \in Seq(Waiting)
      /\ SeatsHeld(host, sock, spent) /\ SettledAs(sock) /\ SeatedOnce(host, sock, queue, 0)
      /\ NoneJoining(host, world) /\ JoinedAsTable(world, table)
      /\ Dense(table, world, Cardinality(Turned(queue, hellos)))
  BY Unmoved DEF SessInv, IdentityInv
<1>2. r.h = [host EXCEPT !.conns = cs]
      /\ r.ks = [k \in Socks |-> IF Lost(k) THEN Shut(k, sock)[k] ELSE sock[k]]
  BY DEF TimedOut
<1>3. \A c \in T : c \in Conns /\ host.conns[c].status = "garbage"
  BY DEF Silent
<1>4. cs \in [Conns -> Seat]
  BY <1>1, HostFields, SeatTypes
<1> HIDE DEF r, cs
<1>5. /\ r.h \in HostT /\ r.h.conns = cs /\ r.h.slot = host.slot
      /\ r.h.pending = host.pending /\ r.h.online = host.online /\ r.h.grace = host.grace
  BY <1>1, <1>2, <1>4, HostFields DEF HostT
<1>6. \A c \in Conns : /\ c \in T => r.h.conns[c] = NoConn
                       /\ c \notin T => r.h.conns[c] = host.conns[c]
  BY <1>5 DEF cs
<1>7. /\ r.ks \in [Socks -> SockT]
      /\ \A k \in Socks : /\ r.ks[k].conn = sock[k].conn /\ r.ks[k].secret = sock[k].secret
                          /\ r.ks[k].settled = sock[k].settled /\ r.ks[k].player = sock[k].player
                          /\ sock[k].life # "idle" => r.ks[k].life # "idle"
                          /\ r.ks[k] # sock[k] => Lost(k)
  <2> HIDE DEF Lost
  <2>1. ASSUME NEW k \in Socks
        PROVE  /\ r.ks[k] \in SockT
               /\ r.ks[k].conn = sock[k].conn /\ r.ks[k].secret = sock[k].secret
               /\ r.ks[k].settled = sock[k].settled /\ r.ks[k].player = sock[k].player
               /\ sock[k].life # "idle" => r.ks[k].life # "idle"
               /\ r.ks[k] # sock[k] => Lost(k)
    <3>1. CASE Lost(k)
      <4>1. r.ks[k] = Shut(k, sock)[k]
        BY <1>2, <3>1
      <4> QED
        BY <1>1, <3>1, <4>1, ShutIs
    <3>2. CASE ~Lost(k)
      <4>1. r.ks[k] = sock[k]
        BY <1>2, <3>2
      <4> QED
        BY <1>1, <4>1
    <3> QED
      BY <3>1, <3>2
  <2>2. r.ks \in [Socks -> SockT]
    BY <1>2, <2>1
  <2> QED
    BY <2>1, <2>2
<1>8. Emptier(r.h, host, r.ks, sock)
  <2>1. ASSUME NEW c \in Conns, r.h.conns[c].sock # 0
        PROVE  r.ks[r.h.conns[c].sock].life = sock[r.h.conns[c].sock].life
    <3>1. c \notin T /\ r.h.conns[c] = host.conns[c]
      BY <1>6, <2>1 DEF NoConn
    <3>2. host.conns[c].sock \in Socks
      BY <1>1, <2>1, <3>1, SeatFields
    <3>3. ~Lost(host.conns[c].sock)
      BY <1>1, <1>3, <3>1, <3>2, OneSeat
    <3> QED
      BY <1>7, <3>1, <3>2, <3>3
  <2> QED
    BY <1>6, <1>7, <2>1 DEF Emptier
<1>9. SeatsHeld(r.h, r.ks, spent) /\ SettledAs(r.ks) /\ SeatedOnce(r.h, r.ks, queue, 0)
  BY <1>1, <1>5, <1>7, <1>8, EmptierKeeps
<1>10. ASSUME spent["recovers"] = 0 PROVE SeatsNamed(r.h, r.ks, table)
  <2>1. SeatsNamed(host, sock, table)
    BY <1>10, Unmoved
  <2>2. \A c \in Conns : host.conns[c] = NoConn \/ c \in T => host.slot[c] = 0
    <3>1. \A c \in Conns : c \in T => host.conns[c].player = 0
      BY <1>1, <1>3 DEF SeatsHeld, SeatHeld
    <3> QED
      BY <2>1, <3>1 DEF SeatsNamed, NoConn
  <2>3. \A c \in Conns : r.h.conns[c] = NoConn => r.h.slot[c] = 0
    BY <1>5, <1>6, <2>2
  <2> QED
    BY <1>1, <1>5, <1>7, <1>8, <2>1, <2>3, NamesKept
<1>11. ASSUME spent["late"] = 0, spent["recovers"] = 0 PROVE RosterOf(r.h, world)
  <2>1. RosterOf(host, world)
    BY <1>11, Unmoved
  <2>2. \A c \in Conns : r.h.conns[c].status = "settled" => r.h.conns[c] = host.conns[c]
    BY <1>6 DEF NoConn
  <2> QED
    BY <1>5, <2>1, <2>2 DEF RosterOf
<1>12. /\ JoinedAsTable(Logged(world, r.h.pending), table)
       /\ Dense(table, Logged(world, r.h.pending), Cardinality(Turned(queue, hellos)))
  BY <1>1, <1>5 DEF NoneJoining, JoinedAsTable, Dense
<1> QED
  BY <1>5, <1>7, <1>9, <1>10, <1>11, <1>12 DEF TickInv, r

(* The connection that had the player is torn down before the new one is   *)
(* fed: after it, no other has it.                                         *)
LEMMA SupersededTick ==
  ASSUME SessInv, NEW i \in Nat, NEW r, TickInv(r, i), NEW e \in Waiting, e.player # 0
  PROVE  LET q == Superseded(r, e) IN
         /\ TickInv(q, i) /\ q.h.pending = r.h.pending
         /\ q.h.online = r.h.online /\ q.h.grace = r.h.grace
         /\ q.h.conns[e.conn] = r.h.conns[e.conn]
         /\ spent["recovers"] = 0 =>
              \A d \in Conns \ {e.conn} : q.h.conns[d].player # e.player
<1> DEFINE q == Superseded(r, e)
           O == Others(r.h, e)
           c == Min(O)
           k == r.h.conns[c].sock
           g == Detached(r.h, c)
<1>1. /\ r.h \in HostT /\ r.ks \in [Socks -> SockT] /\ queue \in Seq(Waiting)
      /\ SeatsHeld(r.h, r.ks, spent) /\ SettledAs(r.ks) /\ SeatedOnce(r.h, r.ks, queue, i)
      /\ spent["recovers"] = 0 => SeatsNamed(r.h, r.ks, table)
  BY Unmoved DEF TickInv
<1>2. /\ O \in SUBSET Nat
      /\ \A d \in O : d \in Conns \ {e.conn} /\ r.h.slot[d] = e.player
      /\ \A d \in Conns \ {e.conn} : r.h.slot[d] = e.player => d \in O
  BY SessionsAssumption DEF Others
<1>3. CASE O = {}
  <2>1. q = r
    BY <1>3 DEF Superseded
  <2>2. ASSUME spent["recovers"] = 0, NEW d \in Conns \ {e.conn}
        PROVE  q.h.conns[d].player # e.player
    BY <1>1, <1>2, <1>3, <2>1, <2>2 DEF SeatsNamed
  <2> QED
    BY <2>1, <2>2
<1>4. CASE O # {}
  <2>1. c \in O
    <3> HIDE DEF O
    <3> QED
      BY <1>2, <1>4, MinIn
  <2>2. c \in Conns /\ c # e.conn
    BY <1>2, <2>1
  <2>3. q = [h |-> Freed(g, c), ks |-> IF k = 0 THEN r.ks ELSE Shut(k, r.ks)]
    BY <1>4 DEF Superseded
  <2> HIDE DEF O, c, q
  <2>4. /\ q.h \in HostT /\ q.h.conns = [r.h.conns EXCEPT ![c] = NoConn]
        /\ q.h.slot = [r.h.slot EXCEPT ![c] = 0] /\ q.h.pending = r.h.pending
        /\ q.h.online = r.h.online /\ q.h.grace = r.h.grace
    <3>1. /\ g \in HostT /\ g.conns = r.h.conns /\ g.slot = [r.h.slot EXCEPT ![c] = 0]
          /\ g.pending = r.h.pending /\ g.online = r.h.online /\ g.grace = r.h.grace
      BY <1>1, <2>2, DetachedIs
    <3> HIDE DEF g
    <3>2. q.h = Freed(g, c)
      BY <2>3
    <3> QED
      BY <2>2, <3>1, <3>2, FreedIs
  <2>5. \A d \in Conns : /\ d # c => q.h.conns[d] = r.h.conns[d] /\ q.h.slot[d] = r.h.slot[d]
                         /\ d = c => q.h.conns[d] = NoConn /\ q.h.slot[d] = 0
    <3>1. r.h.conns \in [Conns -> Seat] /\ r.h.slot \in [Conns -> Nat]
      BY <1>1, HostFields
    <3> QED
      BY <2>4, <3>1
  <2>6. /\ q.ks \in [Socks -> SockT]
        /\ \A j \in Socks : /\ q.ks[j].conn = r.ks[j].conn /\ q.ks[j].secret = r.ks[j].secret
                            /\ q.ks[j].settled = r.ks[j].settled /\ q.ks[j].player = r.ks[j].player
                            /\ r.ks[j].life # "idle" => q.ks[j].life # "idle"
                            /\ q.ks[j] # r.ks[j] => j = k
    <3>1. CASE k = 0
      BY <1>1, <2>3, <3>1
    <3>2. CASE k # 0
      <4>1. k \in Socks
        BY <1>1, <2>2, <3>2, SeatFields
      <4>2. q.ks = Shut(k, r.ks)
        BY <2>3, <3>2
      <4> HIDE DEF k
      <4>3. \A j \in Socks : j # k => q.ks[j] = r.ks[j]
        BY <1>1, <4>1, <4>2, ShutIs
      <4> QED
        BY <1>1, <4>1, <4>2, <4>3, ShutIs
    <3> QED
      BY <3>1, <3>2
  <2>7. Emptier(q.h, r.h, q.ks, r.ks)
    <3>1. ASSUME NEW d \in Conns, q.h.conns[d].sock # 0
          PROVE  q.ks[q.h.conns[d].sock].life = r.ks[q.h.conns[d].sock].life
      <4>1. d # c /\ q.h.conns[d] = r.h.conns[d]
        BY <2>5, <3>1 DEF NoConn
      <4>2. r.h.conns[d].sock \in Socks
        BY <1>1, <3>1, <4>1, SeatFields
      <4>3. r.h.conns[d].sock # k
        BY <1>1, <2>2, <4>1, <4>2, OneSeat
      <4> PICK j \in Socks : j = r.h.conns[d].sock
        BY <4>2
      <4>4. q.h.conns[d].sock = j /\ j # k
        BY <4>1, <4>3
      <4>5. q.ks[j].life = r.ks[j].life
        BY <2>6, <4>4
      <4> QED
        BY <4>4, <4>5
    <3> QED
      BY <2>5, <2>6, <3>1 DEF Emptier
  <2>8. SeatsHeld(q.h, q.ks, spent) /\ SettledAs(q.ks) /\ SeatedOnce(q.h, q.ks, queue, i)
    BY <1>1, <2>4, <2>6, <2>7, EmptierKeeps, SMTT(20)
  <2>9. ASSUME spent["recovers"] = 0
        PROVE  /\ SeatsNamed(q.h, q.ks, table)
               /\ \A d \in Conns \ {e.conn} : q.h.conns[d].player # e.player
    <3>1. SeatsNamed(r.h, r.ks, table)
      BY <1>1, <2>9
    <3>2. \A d \in Conns : q.h.conns[d] = NoConn => q.h.slot[d] = 0
      BY <2>5, <3>1 DEF SeatsNamed, NoConn
    <3>3. \A d \in Conns : q.h.conns[d] # NoConn => q.h.slot[d] = r.h.slot[d]
      BY <2>5
    <3>4. SeatsNamed(q.h, q.ks, table)
      BY <1>1, <2>4, <2>6, <2>7, <3>1, <3>2, <3>3, NamesKept
    <3>5. r.h.conns[c].player = e.player
      BY <1>2, <2>1, <2>2, <3>1 DEF SeatsNamed
    <3>6. ASSUME NEW d \in Conns \ {e.conn} PROVE q.h.conns[d].player # e.player
      <4>1. CASE d = c
        BY <2>5, <4>1 DEF NoConn
      <4>2. CASE d # c
        BY <2>2, <2>5, <3>1, <3>5, <4>2 DEF SeatsNamed
      <4> QED
        BY <4>1, <4>2
    <3> QED
      BY <3>4, <3>6
  <2>10. spent["late"] = 0 /\ spent["recovers"] = 0 => RosterOf(q.h, world)
    <3>1. \A d \in Conns : q.h.conns[d].status = "settled" => q.h.conns[d] = r.h.conns[d]
      BY <2>5 DEF NoConn
    <3> QED
      BY <2>4, <3>1 DEF TickInv, RosterOf
  <2>11. TickInv(q, i)
    BY <2>4, <2>6, <2>8, <2>9, <2>10 DEF TickInv
  <2>12. q.h.conns[e.conn] = r.h.conns[e.conn]
    BY <2>2, <2>5, WaitingFields
  <2> QED
    BY <2>4, <2>9, <2>11, <2>12 DEF q
<1> QED
  BY <1>3, <1>4

(* A record appended by concatenation.                                     *)
LEMMA LoggedOne ==
  ASSUME NEW w, NEW S, NEW recs \in Seq(S), NEW x \in S
  PROVE  recs \o <<x>> \in Seq(S) /\ Logged(w, recs \o <<x>>) = Recorded(Logged(w, recs), x)
<1>1. Append(recs, x) = recs \o <<x>> /\ Append(recs, x) \in Seq(S)
  BY AppendIsConcat, AppendProperties
<1>2. Logged(w, Append(recs, x)) = Recorded(Logged(w, recs), x)
  BY LoggedLast, Zenon
<1> QED
  BY <1>1, <1>2, Zenon

(* What an arrival adds to the log.                                        *)
LEMMA RecordsLogged ==
  ASSUME NEW w \in World, NEW h \in HostT, NEW e \in Waiting, e.player \in Players
  PROVE  LET recs == h.pending \o Records(h, e)
             v == Logged(w, h.pending)
             v2 == Logged(w, recs)
         IN  /\ recs \in Seq(Note) /\ v \in World /\ v2 \in World
             /\ \/ v2.joins = v.joins
                \/ v2.joins = Append(v.joins, [ev |-> "Joined", player |-> e.player,
                                               secret |-> e.secret])
             /\ v2.roster = IF Suppressed(h, e) THEN v.roster ELSE v.roster \cup {e.player}
<1> DEFINE p == e.player
           x == [ev |-> "Joined", player |-> p, secret |-> e.secret]
           y == [ev |-> "Connected", player |-> p]
           r1 == IF e.joined THEN <<x>> ELSE << >>
           r2 == IF Suppressed(h, e) THEN << >> ELSE <<y>>
           s1 == h.pending \o r1
           recs == h.pending \o Records(h, e)
           v == Logged(w, h.pending)
           v1 == Logged(w, s1)
           v2 == Logged(w, recs)
<1>1. /\ x \in Note /\ y \in Note /\ x.ev = "Joined" /\ y.ev = "Connected" /\ y.player = p
      /\ y.ev # "Joined"
  BY WaitingFields DEF Note, Joining, Passing
<1>2. h.pending \in Seq(Note) /\ v \in World
  BY HostFields, LoggedType
<1> HIDE DEF v
<1>3. r1 \in Seq(Note) /\ r2 \in Seq(Note)
  <2> HIDE DEF x, y
  <2>1. <<x>> \in Seq(Note) /\ <<y>> \in Seq(Note) /\ << >> \in Seq(Note)
    BY <1>1, EmptySeq
  <2>2. (r1 = <<x>> \/ r1 = << >>) /\ (r2 = <<y>> \/ r2 = << >>)
    BY Zenon
  <2> HIDE DEF r1, r2
  <2> QED
    BY <2>1, <2>2
<1>4. recs = s1 \o r2
  <2>1. recs = h.pending \o (r1 \o r2)
    BY Zenon DEF Records
  <2> DEFINE b == h.pending
  <2>2. b \in Seq(Note)
    BY <1>2
  <2> HIDE DEF r1, r2, recs, b
  <2>3. (b \o r1) \o r2 = b \o (r1 \o r2)
    BY <1>3, <2>2, ConcatAssociative
  <2> QED
    BY <2>1, <2>3 DEF b
<1>5. /\ s1 \in Seq(Note) /\ v1 \in World /\ v1.roster = v.roster
      /\ \/ v1.joins = v.joins
         \/ v1.joins = Append(v.joins, x)
  <2>1. CASE e.joined
    <3> HIDE DEF x, y
    <3>1. s1 = h.pending \o <<x>>
      BY <2>1
    <3> DEFINE b == h.pending
    <3>2. b \in Seq(Note) /\ x \in Note
      BY <1>1, <1>2
    <3> HIDE DEF b
    <3>3. b \o <<x>> \in Seq(Note) /\ Logged(w, b \o <<x>>) = Recorded(Logged(w, b), x)
      BY <3>2, LoggedOne
    <3>4. s1 \in Seq(Note)
      BY <3>1, <3>3 DEF b
    <3>5. v1 = Recorded(v, x)
      BY <3>1, <3>3, Zenon DEF b, v
    <3> HIDE DEF s1, v1
    <3> QED
      BY <1>1, <1>2, <3>4, <3>5, RecordedType
  <2>2. CASE ~e.joined
    <3>1. s1 = h.pending
      <4>1. s1 = h.pending \o << >>
        BY <2>2
      <4> QED
        BY <1>2, <4>1, ConcatEmptySeq
    <3>2. v1 = v
      BY <3>1 DEF v
    <3> QED
      BY <1>2, <3>1, <3>2
  <2> QED
    BY <2>1, <2>2
<1> HIDE DEF s1, v1, r1
<1>6. /\ recs \in Seq(Note) /\ v2 \in World /\ v2.joins = v1.joins
      /\ v2.roster = IF Suppressed(h, e) THEN v1.roster ELSE v1.roster \cup {p}
  <2>1. CASE Suppressed(h, e)
    <3>1. recs = s1 \o << >>
      BY <1>4, <2>1
    <3>2. recs = s1
      BY <1>5, <3>1, ConcatEmptySeq
    <3>3. v2 = v1
      BY <3>2 DEF v1
    <3> QED
      BY <1>5, <2>1, <3>2, <3>3
  <2>2. CASE ~Suppressed(h, e)
    <3> HIDE DEF x, y
    <3>1. recs = s1 \o <<y>>
      BY <1>4, <2>2
    <3>2. recs = Append(s1, y) /\ recs \in Seq(Note)
      BY <1>1, <1>5, <3>1, AppendIsConcat, AppendProperties
    <3>3. v2 = Recorded(v1, y)
      BY <1>1, <1>5, <3>2, LoggedLast DEF v1
    <3> HIDE DEF recs, v2, v
    <3>4. v1 \in World /\ y \in Note /\ y.ev # "Joined" /\ y.ev = "Connected"
      BY <1>1, <1>5
    <3>5. v2 \in World /\ v2.joins = v1.joins /\ v2.roster = v1.roster \cup {y.player}
      <4> HIDE DEF v1
      <4> QED
        BY <3>3, <3>4, RecordedType
    <3> QED
      BY <1>1, <2>2, <3>2, <3>5
  <2> QED
    BY <2>1, <2>2
<1> HIDE DEF v1, v2, recs
<1>7. /\ recs \in Seq(Note) /\ v \in World /\ v2 \in World
      /\ (v2.joins = v.joins \/ v2.joins = Append(v.joins, x))
      /\ v2.roster = IF Suppressed(h, e) THEN v.roster ELSE v.roster \cup {p}
  BY <1>2, <1>5, <1>6
<1> QED
  BY <1>7, Zenon DEF v, v2, recs

(* The connection that waited is fed as its player, and told.              *)
Arrived(h, c, p, recs) ==
  Returned([h EXCEPT !.slot[c] = p, !.pending = @ \o recs,
                     !.conns[c].status = "settled", !.conns[c].player = p], p)
ToldAs(ks, k, p) == [ks EXCEPT ![k].settled = TRUE, ![k].player = p]

LEMMA ArrivedIs ==
  ASSUME NEW h \in HostT, NEW c \in Conns, NEW p \in Players, NEW recs,
         h.pending \o recs \in Seq(Note), h.conns[c].sock \in Socks
  PROVE  LET h2 == Arrived(h, c, p, recs) IN
         /\ h2 \in HostT
         /\ h2.conns[c].sock = h.conns[c].sock
         /\ h2.conns[c].status = "settled" /\ h2.conns[c].player = p
         /\ \A d \in Conns \ {c} : h2.conns[d] = h.conns[d] /\ h2.slot[d] = h.slot[d]
         /\ h2.slot[c] = p /\ h2.pending = h.pending \o recs
         /\ h2.online = h.online \cup {p} /\ h2.grace = h.grace \ {p}
<1> DEFINE st == [[h.conns[c] EXCEPT !.status = "settled"] EXCEPT !.player = p]
           cs == [h.conns EXCEPT ![c] = st]
           sl == [h.slot EXCEPT ![c] = p]
           pd == h.pending \o recs
           g == [h EXCEPT !.slot = sl, !.pending = pd, !.conns = cs]
           h2 == Arrived(h, c, p, recs)
<1>1. h.conns \in [Conns -> Seat] /\ h.slot \in [Conns -> Nat] /\ h.conns[c] \in Seat
  BY HostFields
<1>2. /\ st \in Seat /\ p \in Nat
      /\ st.sock = h.conns[c].sock /\ st.status = "settled" /\ st.player = p
  BY <1>1, SeatTypes DEF Seat, Status, MaybePlayers
<1>3. [h EXCEPT !.slot[c] = p, !.pending = @ \o recs,
                !.conns[c].status = "settled", !.conns[c].player = p] = g
  <2>2. [[h.conns EXCEPT ![c].status = "settled"] EXCEPT ![c].player = p] = cs
    BY <1>1
  <2> QED
    BY <1>1, <2>2, HostFields
<1>4. h2 = Returned(g, p)
  BY <1>3, Zenon DEF Arrived
<1>5. cs \in [Conns -> Seat] /\ sl \in [Conns -> Nat] /\ pd \in Seq(Note)
  BY <1>1, <1>2
<1> HIDE DEF cs, sl, pd
<1>6. /\ g \in HostT /\ g.conns = cs /\ g.slot = sl /\ g.pending = pd
      /\ g.online = h.online /\ g.grace = h.grace
  BY <1>5, HostFields DEF HostT
<1> HIDE DEF g, h2
<1>7. /\ h2 \in HostT /\ h2.conns = cs /\ h2.slot = sl /\ h2.pending = pd
      /\ h2.online = h.online \cup {p} /\ h2.grace = h.grace \ {p}
  BY <1>4, <1>6, ReturnedIs
<1>8. /\ cs[c] = st /\ sl[c] = p
      /\ \A d \in Conns \ {c} : cs[d] = h.conns[d] /\ sl[d] = h.slot[d]
  BY <1>1 DEF cs, sl
<1> HIDE DEF st
<1> QED
  BY <1>2, <1>7, <1>8 DEF h2, pd

LEMMA ToldIs ==
  ASSUME NEW ks \in [Socks -> SockT], NEW k \in Socks, NEW p \in Players
  PROVE  /\ ToldAs(ks, k, p) \in [Socks -> SockT]
         /\ \A j \in Socks : /\ ToldAs(ks, k, p)[j].conn = ks[j].conn
                             /\ ToldAs(ks, k, p)[j].life = ks[j].life
                             /\ ToldAs(ks, k, p)[j].secret = ks[j].secret
                             /\ j # k => ToldAs(ks, k, p)[j] = ks[j]
         /\ ToldAs(ks, k, p)[k].settled /\ ToldAs(ks, k, p)[k].player = p
<1> DEFINE rec == [[ks[k] EXCEPT !.settled = TRUE] EXCEPT !.player = p]
<1>1. ks[k] \in SockT
  OBVIOUS
<1>2. /\ rec \in SockT /\ rec.conn = ks[k].conn /\ rec.life = ks[k].life
      /\ rec.secret = ks[k].secret /\ rec.settled /\ rec.player = p
  BY <1>1 DEF SockT, MaybePlayers
<1>3. ToldAs(ks, k, p) = [ks EXCEPT ![k] = rec]
  BY DEF ToldAs
<1> HIDE DEF rec
<1> QED
  BY <1>2, <1>3

LEMMA AttachedTick ==
  ASSUME SessInv, NEW i \in Nat, NEW r, TickInv(r, i), i + 1 \in DOMAIN queue,
         NEW e \in Waiting, e = queue[i + 1], e.stage = "ready",
         r.h.conns[e.conn].sock = e.sock, r.h.conns[e.conn].status = "awaiting"
  PROVE  TickInv(Attached(r, e), i + 1)
<1> DEFINE c == e.conn
           k == e.sock
           p == e.player
           q == Superseded(r, e)
           recs == Records(q.h, e)
           h2 == Arrived(q.h, c, p, recs)
           ks2 == ToldAs(q.ks, k, p)
           v == Logged(world, q.h.pending)
           v2 == Logged(world, q.h.pending \o recs)
           x == [ev |-> "Joined", player |-> p, secret |-> e.secret]
           m == Cardinality(Turned(queue, hellos))
<1>1. /\ queue \in Seq(Waiting) /\ table \in Table /\ world \in World /\ Resolutions(queue, table)
      /\ OnePerSecret(table)
  BY Unmoved DEF SessInv, IdentityInv
<1>2. /\ c \in Conns /\ k \in Socks /\ e.secret \in Secrets
      /\ p = table[e.secret] /\ p \in Players /\ p # 0
  <2>1. Resolution(e, table)
    BY <1>1 DEF Resolutions
  <2>2. p = table[e.secret] /\ p # 0 /\ e.secret \in Secrets
    BY <2>1, WaitingFields DEF Resolution
  <2>3. p \in Players
    BY <1>1, <2>2 DEF Table, MaybePlayers
  <2> QED
    BY <2>2, <2>3, WaitingFields
<1>3. /\ TickInv(q, i) /\ q.h.pending = r.h.pending /\ q.h.grace = r.h.grace
      /\ q.h.conns[c] = r.h.conns[c]
      /\ spent["recovers"] = 0 => \A d \in Conns \ {c} : q.h.conns[d].player # p
  <2>1. e.player # 0
    BY <1>2
  <2> HIDE DEF h2, ks2, v, v2, x, recs, m
  <2>2. LET Q == Superseded(r, e) IN
        /\ TickInv(Q, i) /\ Q.h.pending = r.h.pending
        /\ Q.h.online = r.h.online /\ Q.h.grace = r.h.grace
        /\ Q.h.conns[e.conn] = r.h.conns[e.conn]
        /\ spent["recovers"] = 0 =>
             \A d \in Conns \ {e.conn} : Q.h.conns[d].player # e.player
    BY <2>1, SupersededTick
  <2> QED
    BY <2>2
<1>4. Attached(r, e) = [h |-> h2, ks |-> ks2]
  <2>1. Records(r.h, e) = Records(q.h, e)
    BY <1>3, Zenon DEF Records, Suppressed
  <2>2. Attached(r, e) = [h |-> Arrived(q.h, c, p, Records(r.h, e)), ks |-> ks2]
    BY Zenon DEF Attached, Arrived, ToldAs
  <2> QED
    BY <2>1, <2>2, Zenon
<1> HIDE DEF q
<1>5. /\ q.h \in HostT /\ q.ks \in [Socks -> SockT]
      /\ SeatsHeld(q.h, q.ks, spent) /\ SettledAs(q.ks) /\ SeatedOnce(q.h, q.ks, queue, i)
      /\ JoinedAsTable(v, table) /\ Dense(table, v, m)
      /\ (spent["recovers"] = 0 => SeatsNamed(q.h, q.ks, table))
      /\ (spent["late"] = 0 /\ spent["recovers"] = 0 => RosterOf(q.h, world))
      /\ q.h.conns[c].sock = k /\ q.h.conns[c].status = "awaiting"
  BY <1>3 DEF TickInv
<1>6. /\ q.h.pending \o recs \in Seq(Note) /\ v \in World /\ v2 \in World
      /\ v2.joins = v.joins \/ v2.joins = Append(v.joins, x)
      /\ v2.roster = IF Suppressed(q.h, e) THEN v.roster ELSE v.roster \cup {p}
  BY <1>1, <1>2, <1>5, RecordsLogged
<1> HIDE DEF recs, v, v2
<1>7. /\ h2 \in HostT
      /\ h2.conns[c].sock = k /\ h2.conns[c].status = "settled" /\ h2.conns[c].player = p
      /\ \A d \in Conns \ {c} : h2.conns[d] = q.h.conns[d] /\ h2.slot[d] = q.h.slot[d]
      /\ h2.slot[c] = p /\ h2.pending = q.h.pending \o recs
      /\ h2.online = q.h.online \cup {p} /\ h2.grace = q.h.grace \ {p}
  <2> DEFINE g == q.h
  <2>1. /\ g \in HostT /\ g.pending \o recs \in Seq(Note) /\ g.conns[c].sock \in Socks
        /\ g.conns[c].sock = k /\ c \in Conns /\ p \in Players
    BY <1>2, <1>5, <1>6
  <2> HIDE DEF g, c, p, k, x
  <2> DEFINE G == Arrived(g, c, p, recs)
  <2>2. /\ G \in HostT
        /\ G.conns[c].sock = g.conns[c].sock
        /\ G.conns[c].status = "settled" /\ G.conns[c].player = p
        /\ \A d \in Conns \ {c} : G.conns[d] = g.conns[d] /\ G.slot[d] = g.slot[d]
        /\ G.slot[c] = p /\ G.pending = g.pending \o recs
        /\ G.online = g.online \cup {p} /\ G.grace = g.grace \ {p}
    BY <2>1, ArrivedIs
  <2>3. G = h2
    BY DEF g
  <2> HIDE DEF G, h2
  <2>4. /\ h2 \in HostT
        /\ h2.conns[c].sock = k /\ h2.conns[c].status = "settled" /\ h2.conns[c].player = p
        /\ \A d \in Conns \ {c} : h2.conns[d] = g.conns[d] /\ h2.slot[d] = g.slot[d]
        /\ h2.slot[c] = p /\ h2.pending = g.pending \o recs
        /\ h2.online = g.online \cup {p} /\ h2.grace = g.grace \ {p}
    BY <2>1, <2>2, <2>3
  <2> QED
    BY <2>4, Zenon DEF g
<1>8. /\ ks2 \in [Socks -> SockT]
      /\ \A j \in Socks : /\ ks2[j].conn = q.ks[j].conn /\ ks2[j].life = q.ks[j].life
                          /\ ks2[j].secret = q.ks[j].secret
                          /\ j # k => ks2[j] = q.ks[j]
      /\ ks2[k].settled /\ ks2[k].player = p
  BY <1>2, <1>5, ToldIs
<1> HIDE DEF h2, ks2
<1>9. /\ q.ks[k].conn = c /\ q.ks[k].life \in {"open", "closing"}
      /\ (spent["late"] = 0 => q.ks[k].life = "open")
  BY <1>2, <1>5, OneSeat
<1>10. \A d \in Conns \ {c} : h2.conns[d].sock # k
  <2> SUFFICES ASSUME NEW d \in Conns, d # c PROVE q.h.conns[d].sock # k
    BY <1>7
  <2> DEFINE g == q.h
  <2>1. SeatsHeld(g, q.ks, spent) /\ k \in Socks /\ q.ks[k].conn = c
    BY <1>2, <1>5, <1>9
  <2> HIDE DEF g, c, k
  <2>2. g.conns[d].sock # k
    BY <2>1, OneSeat
  <2> QED
    BY <2>2 DEF g
<1>11. SeatsHeld(h2, ks2, spent) /\ SettledAs(ks2)
  <2>1. SeatHeld(h2.conns[c], c, ks2, spent)
    BY <1>2, <1>7, <1>8, <1>9, SeatTypes DEF SeatHeld
  <2>2. ASSUME NEW d \in Conns \ {c} PROVE SeatHeld(h2.conns[d], d, ks2, spent)
    <3>1. SeatHeld(q.h.conns[d], d, q.ks, spent) /\ h2.conns[d] = q.h.conns[d]
      BY <1>5, <1>7 DEF SeatsHeld
    <3>2. q.h.conns[d].sock # 0 => ks2[q.h.conns[d].sock] = q.ks[q.h.conns[d].sock]
      BY <1>5, <1>8, <1>10, <3>1, SeatFields
    <3> PICK held : held = h2.conns[d]
      OBVIOUS
    <3>3. /\ SeatHeld(held, d, q.ks, spent)
          /\ held.sock # 0 => ks2[held.sock] = q.ks[held.sock]
      BY <3>1, <3>2
    <3>4. SeatHeld(held, d, ks2, spent)
      BY <3>3 DEF SeatHeld
    <3> QED
      BY <3>4
  <2>3. SettledAs(ks2)
    BY <1>2, <1>5, <1>8 DEF SettledAs
  <2> QED
    BY <2>1, <2>2, <2>3 DEF SeatsHeld
<1>12. /\ q.ks[k].secret = e.secret
       /\ \A j \in DOMAIN queue : j > i /\ queue[j].sock = k => j = i + 1
  <2>1. i + 1 > i
    OBVIOUS
  <2> QED
    BY <1>2, <1>5, <2>1 DEF SeatedOnce
<1>13. SeatedOnce(h2, ks2, queue, i + 1)
  <2> SUFFICES ASSUME NEW j \in DOMAIN queue, j > i + 1
               PROVE  /\ ks2[queue[j].sock].life # "idle"
                      /\ ks2[queue[j].sock].secret = queue[j].secret
                      /\ ~ks2[queue[j].sock].settled
                      /\ \A d \in Conns : h2.conns[d].sock = queue[j].sock =>
                           /\ h2.conns[d].status = "awaiting"
                           /\ \A l \in DOMAIN queue :
                                l > i + 1 /\ queue[l].sock = queue[j].sock => l = j
    BY DEF SeatedOnce
  <2>1. DOMAIN queue \subseteq Nat /\ queue[j].sock \in Socks
    <3>1. queue[j] \in Waiting /\ DOMAIN queue = 1..Len(queue)
      BY <1>1, ElementOfSeq, LenProperties
    <3> QED
      BY <3>1, WaitingFields
  <2>2. j > i /\ j # i + 1 /\ \A l \in DOMAIN queue : l > i + 1 => l > i
    BY <2>1
  <2>3. queue[j].sock # k
    BY <1>12, <2>2
  <2>4. ks2[queue[j].sock] = q.ks[queue[j].sock]
    BY <1>8, <2>1, <2>3
  <2>5. \A d \in Conns : h2.conns[d].sock = queue[j].sock => h2.conns[d] = q.h.conns[d]
    BY <1>7, <2>3
  <2> QED
    BY <1>5, <2>2, <2>4, <2>5 DEF SeatedOnce
<1>14. JoinedAsTable(v2, table) /\ Dense(table, v2, m)
  <2>1. CASE v2.joins = v.joins
    BY <1>5, <2>1 DEF JoinedAsTable, Dense
  <2>2. CASE v2.joins = Append(v.joins, x)
    <3> DEFINE js == v.joins
               n == Len(js)
    <3>1. js \in Seq(Joining) /\ x \in Joining
      BY <1>2, <1>6 DEF World, Joining
    <3>2. /\ n \in Nat /\ DOMAIN js = 1..n /\ DOMAIN v2.joins = 1..(n + 1)
          /\ \A l \in 1..n : v2.joins[l] = js[l]
          /\ v2.joins[n + 1] = x
      <4> HIDE DEF js, x
      <4> QED
        BY <2>2, <3>1, AppendProperties, LenProperties DEF js
    <3>3. x.player = p /\ x.secret = e.secret
      OBVIOUS
    <3> HIDE DEF n, x
    <3>4. \A s \in Secrets : table[s] = p => s = e.secret
      BY <1>1, <1>2 DEF OnePerSecret
    <3>0. /\ \A l \in 1..n, s \in Secrets : table[s] = js[l].player => js[l].secret = s
          /\ \A l, o \in 1..n : js[l].player = js[o].player => js[l].secret = js[o].secret
      <4>1. JoinedAsTable(v, table)
        BY <1>5
      <4>2. DOMAIN v.joins = 1..n
        BY <3>2
      <4> QED
        BY <4>1, <4>2 DEF JoinedAsTable
    <3> HIDE DEF js
    <3>5. \A l \in 1..n : js[l].player = p => js[l].secret = e.secret
      BY <1>2, <3>0
    <3>6. p <= m
      <4>1. \A s \in Secrets : table[s] <= m
        BY <1>5 DEF Dense
      <4> HIDE DEF m
      <4> QED
        BY <1>2, <4>1
    <3>7. JoinedAsTable(v2, table)
      <4>1. ASSUME NEW l \in 1..(n + 1), NEW s \in Secrets, table[s] = v2.joins[l].player
            PROVE  v2.joins[l].secret = s
        <5>1. CASE l = n + 1
          BY <3>2, <3>3, <3>4, <4>1, <5>1
        <5>2. CASE l # n + 1
          <6>1. l \in 1..n
            BY <3>2, <5>2
          <6> QED
            BY <3>0, <3>2, <4>1, <6>1
        <5> QED
          BY <5>1, <5>2
      <4>2. ASSUME NEW l \in 1..(n + 1), NEW o \in 1..(n + 1),
                   v2.joins[l].player = v2.joins[o].player
            PROVE  v2.joins[l].secret = v2.joins[o].secret
        <5>1. \A y \in 1..(n + 1) : y = n + 1 \/ y \in 1..n
          BY <3>2
        <5>2. CASE l = n + 1
          BY <3>2, <3>3, <3>5, <4>2, <5>1, <5>2
        <5>3. CASE o = n + 1
          BY <3>2, <3>3, <3>5, <4>2, <5>1, <5>3
        <5>4. CASE l \in 1..n /\ o \in 1..n
          BY <3>0, <3>2, <4>2, <5>4
        <5> QED
          BY <5>1, <5>2, <5>3, <5>4
      <4> QED
        BY <3>2, <4>1, <4>2 DEF JoinedAsTable
    <3>8. Dense(table, v2, m)
      <4>1. \A y \in 1..(n + 1) : y = n + 1 \/ y \in 1..n
        BY <3>2
      <4> QED
        BY <1>5, <3>2, <3>3, <3>6, <4>1 DEF Dense, js
    <3> QED
      BY <3>7, <3>8
  <2> QED
    BY <1>6, <2>1, <2>2
<1>15. ASSUME spent["recovers"] = 0 PROVE SeatsNamed(h2, ks2, table)
  <2>0. \A d \in Conns \ {c} : q.h.conns[d].player # p
    BY <1>3, <1>15
  <2>1. SeatsNamed(q.h, q.ks, table) /\ \A d \in Conns \ {c} : h2.conns[d].player # p
    BY <1>5, <1>7, <1>15, <2>0
  <2>2. ASSUME NEW d \in Conns
        PROVE  /\ h2.slot[d] = h2.conns[d].player
               /\ h2.conns[d].status = "settled" =>
                    h2.conns[d].player = table[ks2[h2.conns[d].sock].secret]
               /\ \A o \in Conns : d # o /\ h2.conns[d].player # 0 =>
                    h2.conns[o].player # h2.conns[d].player
    <3>1. CASE d = c
      <4>1. /\ h2.conns[d].player = p /\ h2.slot[d] = p /\ h2.conns[d].sock = k
            /\ \A o \in Conns : d # o => h2.conns[o].player # p
        BY <1>7, <2>1, <3>1
      <4>2. ks2[k].secret = e.secret
        BY <1>2, <1>8, <1>12
      <4> QED
        BY <1>2, <4>1, <4>2
    <3>2. CASE d # c
      <4>1. h2.conns[d] = q.h.conns[d] /\ h2.slot[d] = q.h.slot[d]
        BY <1>7, <3>2
      <4>2. h2.conns[d].status = "settled" => h2.conns[d].sock \in Socks
        BY <1>5, <4>1, SettledSeat
      <4>3. h2.conns[d].status = "settled" =>
              h2.conns[d].player = table[ks2[h2.conns[d].sock].secret]
        <5> SUFFICES ASSUME h2.conns[d].status = "settled"
                     PROVE  h2.conns[d].player = table[ks2[h2.conns[d].sock].secret]
          OBVIOUS
        <5> PICK j \in Socks : j = h2.conns[d].sock
          BY <4>2
        <5> PICK held : held = q.h.conns[d]
          OBVIOUS
        <5>0. held.status = "settled" => held.player = table[q.ks[held.sock].secret]
          BY <2>1 DEF SeatsNamed
        <5>1. h2.conns[d].player = table[q.ks[j].secret]
          BY <4>1, <5>0
        <5>2. ks2[j].secret = q.ks[j].secret
          BY <1>8
        <5> QED
          BY <5>1, <5>2
      <4>4. ASSUME NEW o \in Conns, d # o, h2.conns[d].player # 0
            PROVE  h2.conns[o].player # h2.conns[d].player
        <5>1. CASE o = c
          BY <1>7, <2>1, <3>2, <5>1
        <5>2. CASE o # c
          <6>1. h2.conns[o] = q.h.conns[o]
            BY <1>7, <5>2
          <6>2. SeatsNamed(q.h, q.ks, table) /\ q.h.conns[d].player # 0
            BY <2>1, <4>1, <4>4
          <6>3. q.h.conns[o].player # q.h.conns[d].player
            BY <4>4, <6>2 DEF SeatsNamed
          <6> QED
            BY <4>1, <6>1, <6>3
        <5> QED
          BY <5>1, <5>2
      <4> QED
        BY <2>1, <4>1, <4>3, <4>4 DEF SeatsNamed
    <3> QED
      BY <3>1, <3>2
  <2> QED
    BY <2>2 DEF SeatsNamed
<1>16. ASSUME spent["late"] = 0, spent["recovers"] = 0 PROVE RosterOf(h2, world)
  <2>1. RosterOf(q.h, world) /\ \A d \in Conns \ {c} : q.h.conns[d].player # p
    BY <1>3, <1>5, <1>16
  <2>2. v.roster = q.h.online /\ q.h.grace \subseteq q.h.online
    BY <2>1 DEF RosterOf, v
  <2>3. v2.roster = q.h.online \cup {p}
    <3>1. CASE Suppressed(q.h, e)
      <4>1. p \in q.h.online
        BY <2>2, <3>1 DEF Suppressed
      <4> QED
        BY <1>6, <2>2, <3>1, <4>1
    <3>2. CASE ~Suppressed(q.h, e)
      BY <1>6, <2>2, <3>2
    <3> QED
      BY <3>1, <3>2
  <2>4. Logged(world, h2.pending).roster = h2.online
    BY <1>7, <2>3 DEF v2
  <2>5. ASSUME NEW d \in Conns, h2.conns[d].status = "settled"
        PROVE  h2.conns[d].player \in h2.online /\ h2.conns[d].player \notin h2.grace
    <3>1. CASE d = c
      BY <1>7, <3>1
    <3>2. CASE d # c
      BY <1>7, <2>1, <2>5, <3>2 DEF RosterOf
    <3> QED
      BY <3>1, <3>2
  <2> QED
    BY <1>7, <2>2, <2>4, <2>5 DEF RosterOf
<1>17. Logged(world, h2.pending) = v2
  BY <1>7 DEF v2
<1>18. TickInv([h |-> h2, ks |-> ks2], i + 1)
  BY <1>7, <1>8, <1>11, <1>13, <1>14, <1>15, <1>16, <1>17 DEF TickInv
<1> QED
  BY <1>4, <1>18, Zenon

LEMMA PumpedTick ==
  ASSUME SessInv, NEW i \in Nat, NEW r, TickInv(r, i), i + 1 \in DOMAIN queue,
         queue[i + 1].stage = "ready"
  PROVE  TickInv(Pumped(r, queue[i + 1]), i + 1)
<1> DEFINE e == queue[i + 1]
<1>1. e \in Waiting /\ DOMAIN queue \subseteq Nat
  BY Unmoved, ElementOfSeq, LenProperties
<1>2. CASE r.h.conns[e.conn].sock = e.sock /\ r.h.conns[e.conn].status = "awaiting"
  <2>1. Pumped(r, e) = Attached(r, e)
    BY <1>2, Zenon DEF Pumped
  <2>2. TickInv(Attached(r, e), i + 1)
    BY <1>1, <1>2, AttachedTick
  <2> QED
    BY <2>1, <2>2, Zenon
<1>3. CASE ~(r.h.conns[e.conn].sock = e.sock /\ r.h.conns[e.conn].status = "awaiting")
  <2>1. Pumped(r, e) = r
    BY <1>3, Zenon DEF Pumped
  <2>2. SeatedOnce(r.h, r.ks, queue, i)
    BY DEF TickInv
  <2>3. \A j \in DOMAIN queue : j > i + 1 => j > i
    BY <1>1
  <2>4. SeatedOnce(r.h, r.ks, queue, i + 1)
    BY <2>2, <2>3 DEF SeatedOnce
  <2>5. TickInv(r, i + 1)
    BY <2>4 DEF TickInv
  <2> QED
    BY <2>1, <2>5, Zenon
<1> QED
  BY <1>2, <1>3

LEMMA PumpedTicks ==
  ASSUME SessInv, NEW r0, TickInv(r0, 0), NEW n \in 0..Len(queue),
         \A j \in 1..n : queue[j].stage = "ready"
  PROVE  TickInv(PumpedUpTo(r0, n), n)
<1>1. Len(queue) \in Nat /\ DOMAIN queue = 1..Len(queue) /\ n \in Nat
  BY Unmoved, LenProperties
<1>2. PICK f : /\ f[0] = r0
               /\ \A i \in 1..n : f[i] = Pumped(f[i - 1], queue[i])
               /\ PumpedUpTo(r0, n) = f[n]
  BY <1>1, PumpedRun
<1> DEFINE Bad == {i \in 0..n : ~TickInv(f[i], i)}
<1>3. Bad = {}
  <2> SUFFICES ASSUME Bad # {} PROVE FALSE
    OBVIOUS
  <2>1. PICK m \in Bad : \A y \in Bad : m <= y
    <3>1. Bad \in SUBSET Nat
      BY <1>1
    <3> HIDE DEF Bad
    <3> QED
      BY <3>1, NatMin
  <2>2. m \in 0..n /\ ~TickInv(f[m], m)
    BY <2>1
  <2>3. m # 0
    BY <1>2, <2>2
  <2>4. m - 1 \in 0..n /\ m - 1 \notin Bad
    <3> HIDE DEF Bad
    <3> QED
      BY <1>1, <2>1, <2>2, <2>3
  <2>5. TickInv(f[m - 1], m - 1) /\ f[m] = Pumped(f[m - 1], queue[m])
    BY <1>1, <1>2, <2>2, <2>3, <2>4
  <2> DEFINE l == m - 1
  <2>6. l \in Nat /\ l + 1 = m /\ m \in DOMAIN queue /\ queue[m].stage = "ready"
    BY <1>1, <2>2, <2>3, <2>4
  <2> HIDE DEF l, Bad
  <2>7. TickInv(f[l], l)
    BY <2>5 DEF l
  <2>8. TickInv(Pumped(f[l], queue[l + 1]), l + 1)
    BY <2>6, <2>7, PumpedTick
  <2> QED
    BY <2>2, <2>5, <2>6, <2>8 DEF l
<1>4. n \in 0..n
  BY <1>1
<1> QED
  BY <1>2, <1>3, <1>4

LEMMA ReadyLenIs ==
  ASSUME queue \in Seq(Waiting)
  PROVE  ReadyLen \in 0..Len(queue) /\ \A j \in 1..ReadyLen : queue[j].stage = "ready"
<1> DEFINE n == Len(queue)
           S == {i \in 0..n : \A j \in 1..i : queue[j].stage = "ready"}
<1>1. n \in Nat
  BY LenProperties
<1>2. S \in SUBSET (0..n) /\ 0 \in S
  BY <1>1
<1>3. ReadyLen = Max(S)
  BY DEF ReadyLen
<1>4. Max(S) \in S
  <2> HIDE DEF S, n
  <2> QED
    BY <1>1, <1>2, MaxIn
<1> HIDE DEF n
<1>5. ReadyLen \in 0..n /\ \A j \in 1..ReadyLen : queue[j].stage = "ready"
  <2> DEFINE m == ReadyLen
  <2>1. m \in S
    BY <1>3, <1>4
  <2> HIDE DEF m
  <2>2. m \in 0..n /\ \A j \in 1..m : queue[j].stage = "ready"
    BY <2>1
  <2> QED
    BY <2>2 DEF m
<1> QED
  BY <1>5 DEF n

LEMMA TickStep ==
  ASSUME SessInv, NEW T \in SUBSET Silent, Tick(T)
  PROVE  SessInv'
<1> DEFINE r0 == TimedOut([h |-> host, ks |-> sock], T)
           r == PumpedUpTo(r0, ReadyLen)
           g == [r.h EXCEPT !.pending = << >>]
           m == Cardinality(Turned(queue, hellos))
           m2 == Cardinality(Turned(queue', hellos))
           n == ReadyLen
<1>1. /\ table' = table /\ disk' = disk /\ hellos' = hellos /\ spent' = spent
      /\ queue' = SubSeq(queue, ReadyLen + 1, Len(queue))
      /\ host' = AfterTick(g) /\ sock' = r.ks /\ world' = Logged(world, r.h.pending)
  BY Zenon DEF Tick
<1>2. /\ queue \in Seq(Waiting) /\ table \in Table /\ disk \in Table /\ world \in World
      /\ hellos \in 0..MaxHellos /\ hellos \in Nat /\ spent \in [Kinds -> Nat]
      /\ InOrder(queue, hellos) /\ Resolutions(queue, table)
      /\ OnePerSecret(table) /\ Older(disk, table)
  BY Unmoved DEF SessInv, IdentityInv
<1>3. n \in 0..Len(queue) /\ n \in Nat /\ \A j \in 1..n : queue[j].stage = "ready"
  BY <1>2, ReadyLenIs, LenProperties
<1>4. TickInv(r, n)
  <2>1. TickInv(r0, 0)
    BY TimedOutTick
  <2> HIDE DEF r0, n
  <2>2. TickInv(PumpedUpTo(r0, n), n)
    BY <1>3, <2>1, PumpedTicks
  <2> QED
    BY <2>2 DEF n
<1> HIDE DEF r, n
<1>5. /\ r.h \in HostT /\ r.ks \in [Socks -> SockT]
      /\ SeatsHeld(r.h, r.ks, spent) /\ SettledAs(r.ks) /\ SeatedOnce(r.h, r.ks, queue, n)
      /\ JoinedAsTable(world', table) /\ Dense(table, world', m)
      /\ (spent["recovers"] = 0 => SeatsNamed(r.h, r.ks, table))
      /\ (spent["late"] = 0 /\ spent["recovers"] = 0 => RosterOf(r.h, world))
  BY <1>1, <1>4 DEF TickInv
<1>6. world' \in World
  BY <1>1, <1>2, <1>5, LoggedType, HostFields
<1>7. /\ g \in HostT /\ g.conns = r.h.conns /\ g.slot = r.h.slot /\ g.pending = << >>
      /\ g.online = r.h.online /\ g.grace = r.h.grace
  <2>1. << >> \in Seq(Note)
    BY EmptySeq
  <2> QED
    BY <1>5, <2>1, HostFields DEF HostT
<1> HIDE DEF g
<1>8. /\ host' \in HostT /\ host'.conns = r.h.conns /\ host'.slot = r.h.slot
      /\ host'.pending = << >> /\ host'.online = r.h.online /\ host'.grace = r.h.grace
  BY <1>1, <1>7, AfterTickIs
<1>9. /\ queue' \in Seq(Waiting) /\ InOrder(queue', hellos) /\ Resolutions(queue', table)
      /\ SeatedOnce(r.h, r.ks, queue', 0) /\ m <= m2
  <2>1. queue' = SubSeq(queue, n + 1, Len(queue))
    BY <1>1 DEF n
  <2>2. queue' \in Seq(Waiting) /\ Thins(queue', queue, n)
    BY <1>2, <1>3, <2>1, SuffixThins
  <2> QED
    BY <1>2, <1>3, <1>5, <2>2, ThinsKeeps
<1>10. Logged(world', << >>) = world'
  BY LoggedNone
<1>11. Shapes' /\ InOrder(queue', hellos')
  BY <1>1, <1>2, <1>5, <1>6, <1>8, <1>9 DEF Shapes
<1>12. SeatsInv'
  <2>1. SeatsHeld(host', r.ks, spent) /\ SeatedOnce(host', r.ks, queue', 0)
    BY <1>5, <1>8, <1>9 DEF SeatsHeld, SeatedOnce
  <2> QED
    BY <1>1, <1>5, <2>1 DEF SeatsInv
<1>13. IdentityInv'
  <2>1. Dense(table, world', m2)
    <3>1. m \in Nat /\ m2 \in Nat
      BY <1>2, TurnedCount
    <3> HIDE DEF m, m2
    <3> QED
      BY <1>2, <1>5, <1>6, <1>9, <3>1, DenseGrows
  <2>2. NoneJoining(host', world')
    BY <1>8, <1>10 DEF NoneJoining
  <2> QED
    BY <1>1, <1>2, <1>5, <1>9, <2>1, <2>2 DEF IdentityInv
<1>14. NamesInv'
  <2> SUFFICES ASSUME spent["recovers"] = 0 PROVE SeatsNamed(host', r.ks, table)
    BY <1>1 DEF NamesInv, Never
  <2>1. SeatsNamed(r.h, r.ks, table) /\ host'.conns = r.h.conns /\ host'.slot = r.h.slot
    BY <1>5, <1>8
  <2> QED
    BY <2>1, SameNames
<1>15. PresenceInv'
  <2> SUFFICES ASSUME spent["late"] = 0, spent["recovers"] = 0 PROVE RosterOf(host', world')
    BY <1>1 DEF PresenceInv, Undisturbed, Never
  <2>1. RosterOf(r.h, world)
    BY <1>5
  <2>2. world'.roster = r.h.online
    BY <1>1, <2>1 DEF RosterOf
  <2> QED
    BY <1>8, <1>10, <2>1, <2>2 DEF RosterOf
<1> QED
  BY <1>11, <1>12, <1>13, <1>14, <1>15 DEF SessInv
-----------------------------------------------------------------------------
LEMMA InitLemma == Init => SessInv
<1> SUFFICES ASSUME Init PROVE SessInv
  OBVIOUS
<1>1. /\ sock = FreshSocks /\ host = FreshHost /\ queue = << >>
      /\ table = NoTable /\ disk = NoTable /\ world = [joins |-> << >>, roster |-> {}]
      /\ spent = [x \in Kinds |-> 0] /\ hellos = 0
  BY DEF Init
<1>2. /\ << >> \in Seq(Waiting) /\ << >> \in Seq(Note) /\ << >> \in Seq(Joining)
      /\ DOMAIN << >> = {}
  BY EmptySeq, LenProperties
<1>3. FreshSocks \in [Socks -> SockT] /\ \A k \in Socks : ~FreshSocks[k].settled
  <2>1. (CHOOSE s \in Secrets : TRUE) \in Secrets
    BY SessionsAssumption
  <2> QED
    BY <2>1, SeatTypes DEF FreshSocks, SockT, Life, MaybePlayers
<1>4. /\ FreshHost \in HostT /\ FreshHost.pending = << >> /\ FreshHost.online = {}
      /\ FreshHost.grace = {}
      /\ \A c \in Conns : FreshHost.conns[c] = NoConn /\ FreshHost.slot[c] = 0
  <2>1. [c \in Conns |-> NoConn] \in [Conns -> Seat] /\ [c \in Conns |-> 0] \in [Conns -> Nat]
    BY SeatTypes
  <2> QED
    BY <1>2, <2>1 DEF FreshHost, HostT
<1>5. NoTable \in Table /\ \A s \in Secrets : NoTable[s] = 0
  BY DEF NoTable, Table, MaybePlayers
<1>6. world \in World /\ world.joins = << >> /\ world.roster = {}
  BY <1>1, <1>2 DEF World
<1>7. Shapes /\ InOrder(queue, hellos)
  BY <1>1, <1>2, <1>3, <1>4, <1>5, <1>6, SessionsAssumption DEF Shapes, InOrder
<1>8. SeatsInv
  BY <1>1, <1>2, <1>3, <1>4 DEF SeatsInv, SeatsHeld, SeatHeld, SettledAs, SeatedOnce, NoConn
<1>9. Logged(world, host.pending) = world
  BY <1>1, <1>4, LoggedNone
<1>10. IdentityInv
  <2>1. Dense(table, world, Cardinality(Turned(queue, hellos)))
    <3> DEFINE m == Cardinality(Turned(queue, hellos))
    <3>1. m \in 0..0
      BY <1>1, TurnedCount
    <3>2. m = 0
      BY <3>1
    <3> HIDE DEF m
    <3>3. \A s \in Secrets : table[s] <= m
      BY <1>1, <1>5, <3>2
    <3>4. \A i \in DOMAIN world.joins : world.joins[i].player <= m
      BY <1>2, <1>6
    <3>5. Dense(table, world, m)
      BY <3>3, <3>4 DEF Dense
    <3> QED
      BY <3>5 DEF m
  <2>2. OnePerSecret(table) /\ JoinedAsTable(world, table) /\ Older(disk, table)
    BY <1>1, <1>2, <1>5, <1>6 DEF OnePerSecret, JoinedAsTable, Older
  <2>3. Resolutions(queue, table) /\ NoneJoining(host, world)
    BY <1>1, <1>2, <1>9 DEF Resolutions, NoneJoining
  <2> QED
    BY <2>1, <2>2, <2>3 DEF IdentityInv
<1>11. NamesInv /\ PresenceInv
  <2>1. SeatsNamed(host, sock, table)
    BY <1>1, <1>4 DEF SeatsNamed, NoConn
  <2>2. RosterOf(host, world)
    BY <1>1, <1>4, <1>6, <1>9 DEF RosterOf, NoConn
  <2> QED
    BY <2>1, <2>2 DEF NamesInv, PresenceInv
<1> QED
  BY <1>7, <1>8, <1>10, <1>11 DEF SessInv

LEMMA NextLemma == SessInv /\ [Next]_vars => SessInv'
<1> SUFFICES ASSUME SessInv, [Next]_vars PROVE SessInv'
  OBVIOUS
<1>1. CASE Transport
  <2>1. PICK k \in Socks :
          \/ \E s \in Secrets : Dial(k, s)
          \/ Hello(k) \/ Rehello(k) \/ Leave(k) \/ Closed(k)
          \/ \E closes \in BOOLEAN : Garbage(k, closes)
    BY <1>1 DEF Transport
  <2>2. CASE \E s \in Secrets : Dial(k, s)
    BY <2>2, DialStep
  <2>3. CASE Hello(k)
    BY <2>3, HelloStep
  <2>4. CASE Rehello(k)
    BY <2>4, RehelloStep
  <2>5. CASE Leave(k)
    BY <2>5, LeaveStep
  <2>6. CASE Closed(k)
    BY <2>6, ClosedStep
  <2>7. CASE \E closes \in BOOLEAN : Garbage(k, closes)
    BY <2>7, GarbageStep
  <2> QED
    BY <2>1, <2>2, <2>3, <2>4, <2>5, <2>6, <2>7
<1>2. CASE Handshakes
  <2>1. PICK n \in 1..MaxHellos :
          Hashed(n) \/ HashFailed(n) \/ Settle(n) \/ Saved(n) \/ SaveFailed(n)
    BY <1>2 DEF Handshakes
  <2>2. n \in Nat
    BY SessionsAssumption
  <2>3. CASE Hashed(n)
    BY <2>2, <2>3, HashedStep
  <2>4. CASE HashFailed(n)
    BY <2>2, <2>4, HashFailedStep
  <2>5. CASE Settle(n)
    BY <2>2, <2>5, SettleStep
  <2>6. CASE Saved(n)
    BY <2>2, <2>6, SavedStep
  <2>7. CASE SaveFailed(n)
    BY <2>2, <2>7, SaveFailedStep
  <2> QED
    BY <2>1, <2>3, <2>4, <2>5, <2>6, <2>7
<1>3. CASE Timers
  <2>1. CASE \E T \in SUBSET Silent : Tick(T)
    BY <2>1, TickStep
  <2>2. CASE \E p \in Players : GraceOver(p)
    BY <2>2, GraceOverStep
  <2>3. CASE IdleOver
    BY <2>3, IdleOverStep
  <2> QED
    BY <1>3, <2>1, <2>2, <2>3 DEF Timers
<1>4. CASE Recover
  BY <1>4, RecoverStep
<1>5. CASE Restart
  BY <1>5, RestartStep
<1>6. CASE UNCHANGED vars
  BY <1>6 DEF vars, SessInv, Shapes, SeatsInv, IdentityInv, NamesInv, PresenceInv,
              Undisturbed, Never
<1> QED
  BY <1>1, <1>2, <1>3, <1>4, <1>5, <1>6 DEF Next

(* The seats, the queue, the tables and the log agree in every state.      *)
THEOREM SessionsInvariant == Spec => []SessInv
<1>1. Init => SessInv
  BY InitLemma
<1>2. SessInv /\ [Next]_vars => SessInv'
  BY NextLemma
<1> QED
  BY <1>1, <1>2, PTL DEF Spec

(* A ConnId is held by one open connection, with a player exactly when it  *)
(* is settled; Hellos queue in the order they arrived; and no player is    *)
(* numbered above the Hellos there were: server.ts accept, closeHandshake  *)
(* and pumpHandshakes, and allocate of host/sessions.ts.                   *)
THEOREM SessionsTypeOK == Spec => []TypeOK
<1>1. SessInv => TypeOK
  <2> SUFFICES ASSUME SessInv PROVE TypeOK
    OBVIOUS
  <2>1. /\ sock \in [Socks -> SockT] /\ host \in HostT /\ table \in Table /\ disk \in Table
        /\ queue \in Seq(Waiting) /\ SeatsHeld(host, sock, spent) /\ InOrder(queue, hellos)
    BY Unmoved
  <2>2. sock \in [Socks -> [life: {"idle", "open", "closing", "gone"}, secret: Secrets,
                            conn: Conns, settled: BOOLEAN, player: {0} \cup Players]]
    BY <2>1 DEF SockT, Life, MaybePlayers
  <2>3. \A i \in DOMAIN queue : i > 1 => queue[i - 1].n < queue[i].n
    <3>1. DOMAIN queue = 1..Len(queue) /\ Len(queue) \in Nat
      BY <2>1, LenProperties
    <3>2. \A i \in DOMAIN queue : i > 1 => i - 1 \in DOMAIN queue /\ i - 1 < i
      BY <3>1
    <3> QED
      BY <2>1, <3>2 DEF InOrder
  <2>4. host.online \cup host.grace \subseteq Players
    BY <2>1, HostFields
  <2>5. table \in [Secrets -> {0} \cup Players] /\ disk \in [Secrets -> {0} \cup Players]
    BY <2>1 DEF Table, MaybePlayers
  <2> QED
    BY <2>1, <2>2, <2>3, <2>4, <2>5 DEF TypeOK, SeatsHeld, SeatHeld, Never
<1> QED
  BY <1>1, SessionsInvariant, PTL

(* No two secrets ever share a player of the world, nor does a secret get  *)
(* one that the log knows as another's, over failed saves, Hellos decided  *)
(* out of turn and restarts: allocate of host/sessions.ts passes by the    *)
(* players of the log.                                                     *)
THEOREM SessionsOneIdentity == Spec => []OneIdentity
<1>1. SessInv => OneIdentity
  BY DEF SessInv, IdentityInv, OnePerSecret, JoinedAsTable, OneIdentity
<1> QED
  BY <1>1, SessionsInvariant, PTL

(* Until a recovery, the sim feeds exactly the settled connections, each   *)
(* as the player its secret names and each player through one: server.ts   *)
(* pumpHandshakes tears the old connection down before it attaches the new.*)
THEOREM SessionsSeatsAgree == Spec => []SeatsAgreeUntilRecovery
<1>1. SessInv => SeatsAgreeUntilRecovery
  BY DEF SessInv, NamesInv, SeatsNamed, SeatsAgreeUntilRecovery, SeatsAgree
<1> QED
  BY <1>1, SessionsInvariant, PTL

(* The Connected and Disconnected records add up to who is online, and no  *)
(* one who is attached has a grace timer that could log a departure: the   *)
(* suppressed records of Host::attach and of host/lifecycle.ts match.      *)
THEOREM SessionsRosterExact == Spec => []RosterExact
<1>1. SessInv => RosterExact
  <2> SUFFICES ASSUME SessInv, Undisturbed
               PROVE  /\ Logged(world, host.pending).roster = host.online
                      /\ Settled \subseteq host.online \ host.grace
    BY DEF RosterExact
  <2>1. RosterOf(host, world)
    BY DEF SessInv, PresenceInv
  <2> QED
    BY <2>1 DEF RosterOf, Settled
<1> QED
  BY <1>1, SessionsInvariant, PTL
=============================================================================
