---------------------------- MODULE NetLinkProofs ----------------------------
(***************************************************************************)
(* Proofs about a page's link to its host, for every number of dials,      *)
(* probes, batches and troubles.                                           *)
(***************************************************************************)
EXTENDS NetLink, SequenceTheorems, TLAPS

Link == [state: {"down", "up"}, gen: 0..Dials, dead: BOOLEAN,
         backoff: BOOLEAN, probe: 0..Dials, stopped: BOOLEAN, why: Reasons]
Messages == Seq({"hello", "batch"})

\* The link's own numbering and the published one never run ahead of the
\* dials made, and the current dial publishes at most once.
Numbering ==
    /\ socks # <<>>
    /\ link.gen \in 1..Current
    /\ ctl.gen <= Current /\ client.hello <= ctl.gen
    /\ socks[Current].phase = "connecting" => ctl.gen < Current

\* A probe's own dial is counted before its deadline can run out.
ProbeStarted == link.probe # None => link.probe <= link.gen

\* The deadline a probe arms never brings the link down: the generation it
\* remembers is the one before its own dial (net/link.ts, probe).
ProbeNeverMissed == link.probe # None => ~ProbeMissed(link)

SocksOK == socks \in Seq(Sock) /\ Len(socks) <= Dials

Spent == [batches: 0..MaxBatches, probes: 0..MaxProbes, troubles: 0..MaxTroubles]

\* The inductive invariant.
NetInv == TypeOK /\ AlwaysArmed /\ PumpFollowsLink /\ Numbering
          /\ ProbeStarted
-----------------------------------------------------------------------------
(* A link that is lost or that hears is one that keeps its type, and has   *)
(* the timer its state calls for.                                          *)
LEMMA LinkTypes ==
    ASSUME NEW l \in Link, NEW why \in Reasons
    PROVE  /\ Lost(l, why) \in Link /\ Lost(l, why).state = "down"
           /\ Lost(l, why).gen = l.gen /\ Lost(l, why).probe = None
           /\ Lost(l, why).stopped => ~Lost(l, why).dead /\ ~Lost(l, why).backoff
           /\ ~Lost(l, why).stopped => Lost(l, why).backoff
           /\ Heard(l) \in Link /\ Heard(l).state = l.state
           /\ Heard(l).gen = l.gen /\ Heard(l).probe = None
           /\ Heard(l).stopped = l.stopped /\ Heard(l).backoff = l.backoff
           /\ Heard(l).dead
<1>1. 0 \in 0..Dials /\ "down" \in {"down", "up"} /\ FALSE \in BOOLEAN /\ TRUE \in BOOLEAN
      /\ (why \in Terminal) \in BOOLEAN /\ (why \notin Terminal) \in BOOLEAN
  BY BoundsAssumption
<1>2. /\ Lost(l, why) \in Link /\ Lost(l, why).state = "down"
      /\ Lost(l, why).gen = l.gen /\ Lost(l, why).probe = None /\ Lost(l, why).dead = FALSE
      /\ Lost(l, why).stopped = (why \in Terminal)
      /\ Lost(l, why).backoff = (why \notin Terminal)
  BY <1>1, Zenon DEF Link, Lost, None
<1>3. /\ Heard(l) \in Link /\ Heard(l).state = l.state
      /\ Heard(l).gen = l.gen /\ Heard(l).probe = None
      /\ Heard(l).stopped = l.stopped /\ Heard(l).backoff = l.backoff
      /\ Heard(l).dead
  BY <1>1, Zenon DEF Link, Heard, None
<1> QED
  BY <1>2, <1>3

(* So is one that dials, while there is a dial left.                       *)
LEMMA DialledType ==
    ASSUME NEW l \in Link, l.gen + 1 \in 0..Dials
    PROVE  /\ Dialled(l) \in Link /\ Dialled(l).state = "up" /\ Dialled(l).dead
           /\ Dialled(l).gen = l.gen + 1 /\ Dialled(l).probe = l.probe
           /\ Dialled(l).stopped = l.stopped /\ Dialled(l).backoff = l.backoff
  BY Zenon DEF Dialled, Link

(* A link is built with every timer off.                                   *)
LEMMA NewLinkType ==
    /\ NewLink \in Link /\ NewLink.gen = 0 /\ NewLink.probe = None
    /\ ~NewLink.stopped /\ ~NewLink.backoff
<1>1. 0 \in 0..Dials /\ "none" \in Reasons
  BY BoundsAssumption DEF Reasons
<1> QED
  BY <1>1, Zenon DEF NewLink, Link, None

(* The socket a dial starts with is one.                                   *)
LEMMA NewSockType == NewSock \in Sock
<1>1. <<>> \in Seq({"hello", "batch"}) /\ 0 \in 0..MaxGarbage /\ "none" \in Reasons
  BY BoundsAssumption DEF Reasons
<1> QED
  BY <1>1, Zenon DEF NewSock, Sock

(* What a socket is sent, a fresh one and a closed one keep their type.    *)
LEMMA SockTypes ==
    ASSUME NEW s \in Sock, NEW msgs \in Messages, NEW why \in Reasons
    PROVE  /\ NewSock \in Sock /\ Gone \in Sock
           /\ Sent(s, msgs) \in Sock /\ Sent(s, msgs).phase = s.phase
           /\ Shut(s, why) \in Sock
           /\ Shut(s, why).phase = "connecting" => s.phase = "connecting"
<1>0. /\ <<>> \in Seq({"hello", "batch"}) /\ 0 \in 0..MaxGarbage /\ "none" \in Reasons
      /\ FALSE \in BOOLEAN /\ "closed" \in {"none", "garbage", "settled", "closed"}
      /\ \A p \in {"connecting", "closing", "closed"} :
           p \in {"connecting", "open", "closing", "closed"}
  BY BoundsAssumption DEF Reasons
<1>1. NewSock \in Sock
  BY NewSockType
<1>2. Gone \in Sock
  BY <1>0, <1>1, Zenon DEF Gone, Sock
<1>3. s.wire \in Messages /\ s.wire \o msgs \in Messages
  <2>1. s.wire \in Messages
    BY Zenon DEF Sock, Messages
  <2> QED
    BY <2>1, ConcatProperties DEF Messages
<1>4. Sent(s, msgs) \in Sock /\ Sent(s, msgs).phase = s.phase
  <2>1. [s EXCEPT !.wire = s.wire \o msgs] \in Sock
    BY <1>3, Zenon DEF Sock, Messages
  <2>2. [s EXCEPT !.wire = s.wire \o msgs].phase = s.phase
    BY DEF Sock
  <2> QED
    BY <2>1, <2>2 DEF Sent
<1>5. /\ Shut(s, why) \in Sock
      /\ Shut(s, why).phase = "connecting" => s.phase = "connecting"
  <2>1. /\ [s EXCEPT !.host = "closed", !.welcome = FALSE] \in Sock
        /\ [s EXCEPT !.host = "closed", !.welcome = FALSE].phase = s.phase
    BY <1>0, Zenon DEF Sock
  <2>2. /\ [Gone EXCEPT !.phase = "closing", !.why = why] \in Sock
        /\ [Gone EXCEPT !.phase = "closing", !.why = why].phase = "closing"
    BY <1>0, <1>2, Zenon DEF Sock
  <2> QED
    BY <2>1, <2>2 DEF Shut
<1> QED
  BY <1>1, <1>2, <1>4, <1>5

(* One socket changes, and does not start to connect.                      *)
LEMMA Replaced ==
    ASSUME SocksOK, NEW d \in DOMAIN socks, NEW s \in Sock,
           s.phase = "connecting" => socks[d].phase = "connecting",
           socks' = [socks EXCEPT ![d] = s]
    PROVE  /\ SocksOK' /\ Current' = Current
           /\ \A e \in DOMAIN socks :
                socks'[e].phase = "connecting" => socks[e].phase = "connecting"
<1>1. Len(socks) \in Nat /\ DOMAIN socks = 1..Len(socks)
  BY LenProperties DEF SocksOK
<1>2. /\ socks' \in Seq(Sock) /\ Len(socks') = Len(socks)
      /\ \A e \in 1..Len(socks) : socks'[e] = IF e = d THEN s ELSE socks[e]
  BY <1>1, ExceptSeq DEF SocksOK
<1>3. DOMAIN socks' = 1..Len(socks)
  BY <1>2, LenProperties
<1> QED
  BY <1>1, <1>2, <1>3 DEF SocksOK, Current

(* A socket is dialled, with what the ring holds.                          *)
LEMMA DialStep ==
    ASSUME NetInv, NEW l \in Link, ~l.stopped, ~l.backoff, l.gen <= Current,
           l.probe # None => l.probe <= l.gen + 1,
           DialWith(l, socks), UNCHANGED <<ctl, client>>, spent' \in Spent
    PROVE  NetInv'
<1> USE DEF NetInv
<1>1. socks \in Seq(Sock) /\ uplink \in Messages /\ Len(socks) \in Nat
      /\ DOMAIN socks = 1..Len(socks)
  BY LenProperties DEF TypeOK, Messages
<1>2. Sent(NewSock, uplink) \in Sock /\ NewSock \in Sock
      /\ Sent(NewSock, uplink).phase = "connecting"
  BY <1>1, NewSockType, SockTypes DEF NewSock, Reasons
<1>3. /\ socks' \in Seq(Sock) /\ socks' # <<>> /\ Len(socks') = Len(socks) + 1
      /\ \A i \in 1..Len(socks) : socks'[i] = socks[i]
      /\ socks'[Len(socks) + 1] = Sent(NewSock, uplink)
  BY <1>1, <1>2, AppendProperties DEF DialWith
<1>4. DOMAIN socks' = 1..Len(socks) + 1
  BY <1>3, LenProperties
<1>5. Len(socks) < Dials /\ Dials \in Nat
  BY BoundsAssumption DEF DialWith
<1>6. SocksOK'
  BY <1>1, <1>2, <1>3, <1>4, <1>5 DEF SocksOK
<1>7. /\ link' \in Link /\ link'.state = "up" /\ link'.dead /\ ~link'.stopped
      /\ link'.gen = l.gen + 1 /\ link'.probe = l.probe /\ l.gen \in Nat
  <2>1. l.gen \in Nat /\ l.gen + 1 \in 0..Dials
    BY <1>1, <1>5 DEF Link, Current
  <2> QED
    BY <2>1, DialledType DEF DialWith
<1>8. pump' = Current' /\ uplink' \in Messages
  BY <1>3 DEF DialWith, Current, Messages
<1>9. ctl' = ctl /\ client' = client /\ ctl.gen \in Nat /\ client.hello \in Nat
  BY DEF TypeOK
<1>10. Numbering'
  BY <1>1, <1>3, <1>7, <1>9 DEF Numbering, Current, Link
<1>11. TypeOK'
  BY <1>6, <1>7, <1>8, <1>9 DEF TypeOK, SocksOK, Link, Messages, Spent
<1> QED
  BY <1>6, <1>7, <1>8, <1>10, <1>11
     DEF AlwaysArmed, PumpFollowsLink, ProbeStarted, SocksOK
-----------------------------------------------------------------------------
(* The initial state.                                                      *)
LEMMA InitNet == Init => NetInv
<1> SUFFICES ASSUME Init PROVE NetInv
  OBVIOUS
<1> USE DEF Init
<1>1. NewSock \in Sock
  BY NewSockType
<1>2. /\ socks \in Seq(Sock) /\ Len(socks) = 1 /\ socks # <<>> /\ DOMAIN socks = {1}
      /\ socks[1] = NewSock
  BY <1>1
<1>3. link \in Link /\ link.gen = 1 /\ link.probe = None /\ ~link.stopped
      /\ link.state = "up" /\ link.dead
  <2>1. 0 + 1 \in 0..Dials
    BY BoundsAssumption
  <2> QED
    BY <2>1, NewLinkType, DialledType
<1>4. TypeOK
  BY <1>2, <1>3, BoundsAssumption DEF TypeOK, Link, Current, None
<1>5. Numbering /\ ProbeStarted
  BY <1>2, <1>3 DEF Numbering, ProbeStarted, Current
<1>6. AlwaysArmed /\ PumpFollowsLink
  BY <1>2, <1>3 DEF AlwaysArmed, PumpFollowsLink, Current
<1> QED
  BY <1>4, <1>5, <1>6 DEF NetInv

(* The link is lost: every timer but the backoff is off, and nothing else  *)
(* changes but the pump and the word that says up.                         *)
LEMMA LostStep ==
    ASSUME NetInv, NEW why \in Reasons, link' = Lost(link, why), Released,
           SocksOK', Current' = Current,
           socks'[Current].phase = "connecting" => socks[Current].phase = "connecting",
           UNCHANGED <<client, uplink>>,
           spent' \in Spent
    PROVE  NetInv'
<1> USE DEF NetInv
<1>1. link \in Link
  BY DEF TypeOK, Link
<1>2. /\ link' \in Link /\ link'.state = "down" /\ link'.gen = link.gen /\ link'.probe = None
      /\ link'.stopped => ~link'.dead /\ ~link'.backoff
      /\ ~link'.stopped => link'.backoff
  BY <1>1, LinkTypes
<1>3. pump' = None /\ ctl' \in [up: BOOLEAN, gen: 0..Dials] /\ ctl'.gen = ctl.gen
  BY DEF Released, TypeOK
<1>4. TypeOK'
  BY <1>2, <1>3 DEF TypeOK, SocksOK, Link, Spent
<1>5. Numbering'
  <2>1. Current \in Nat \ {0}
    BY EmptySeq DEF Numbering, TypeOK, Current
  <2> QED
    BY <1>2, <1>3, <2>1, EmptySeq DEF Numbering, Current
<1> QED
  BY <1>2, <1>3, <1>4, <1>5 DEF AlwaysArmed, PumpFollowsLink, ProbeStarted, SocksOK

(* The link stays as it is, or hears something while it is not stopped.    *)
LEMMA KeptStep ==
    ASSUME NetInv, UNCHANGED pump,
           link' = link \/ (~link.stopped /\ link' = Heard(link)),
           SocksOK', Current' = Current,
           socks'[Current].phase = "connecting" => ctl'.gen < Current,
           ctl' \in [up: BOOLEAN, gen: 0..Dials], ctl'.gen <= Current,
           client' \in [hello: 0..Dials, attached: BOOLEAN], client'.hello <= ctl'.gen,
           uplink' \in Messages, spent' \in Spent
    PROVE  NetInv'
<1> USE DEF NetInv
<1>1. link \in Link /\ Heard(link) \in Link
  <2>1. link \in Link
    BY Zenon DEF TypeOK, Link
  <2> QED
    BY <2>1, LinkTypes DEF Reasons
<1>2. /\ link' \in Link /\ link'.state = link.state /\ link'.gen = link.gen
      /\ link'.stopped = link.stopped /\ link'.backoff = link.backoff
      /\ link'.probe = link.probe \/ link'.probe = None
      /\ link'.dead = link.dead \/ (link'.dead /\ ~link.stopped)
      /\ link.stopped => link' = link
  BY <1>1, LinkTypes DEF Reasons
<1>3. TypeOK'
  BY <1>2 DEF TypeOK, SocksOK, Link, Messages, Spent
<1>4. Numbering'
  <2>1. Current \in Nat \ {0} /\ socks' # <<>>
    BY EmptySeq DEF Numbering, TypeOK, Current, SocksOK
  <2> QED
    BY <1>2, <2>1 DEF Numbering, Current
<1> QED
  BY <1>2, <1>3, <1>4 DEF AlwaysArmed, PumpFollowsLink, ProbeStarted, SocksOK

(* The bounds are respected by what counts towards them.                   *)
LEMMA SpentTypes ==
    ASSUME spent \in Spent
    PROVE  /\ Trouble /\ Troubled => spent' \in Spent
           /\ spent.probes < MaxProbes => [spent EXCEPT !.probes = @ + 1] \in Spent
           /\ spent.batches < MaxBatches => [spent EXCEPT !.batches = @ + 1] \in Spent
  BY BoundsAssumption DEF Spent, Trouble, Troubled

(* What an invariant state says of the parts a step leaves alone.          *)
LEMMA Kept ==
    ASSUME NetInv
    PROVE  /\ link \in Link /\ SocksOK /\ spent \in Spent /\ uplink \in Messages
           /\ ctl \in [up: BOOLEAN, gen: 0..Dials] /\ ctl.gen <= Current
           /\ client \in [hello: 0..Dials, attached: BOOLEAN] /\ client.hello <= ctl.gen
           /\ Current \in DOMAIN socks /\ DOMAIN socks = 1..Current /\ Current \in Nat
           /\ \A d \in DOMAIN socks : socks[d] \in Sock
<1>1. /\ link \in Link /\ SocksOK /\ spent \in Spent /\ uplink \in Messages
      /\ ctl \in [up: BOOLEAN, gen: 0..Dials] /\ ctl.gen <= Current
      /\ client \in [hello: 0..Dials, attached: BOOLEAN] /\ client.hello <= ctl.gen
      /\ socks \in Seq(Sock) /\ socks # <<>>
  BY Zenon DEF NetInv, TypeOK, Link, SocksOK, Spent, Messages, Numbering
<1>2. Len(socks) \in Nat \ {0} /\ DOMAIN socks = 1..Len(socks)
  BY <1>1, EmptySeq, LenProperties
<1> QED
  BY <1>1, <1>2, ElementOfSeq DEF Current
-----------------------------------------------------------------------------
(* The steps of the link itself.                                           *)
LEMMA TimersStep ==
    ASSUME NetInv, BackoffFires \/ DeadFires \/ Probe \/ ProbeDeadline \/ Retry
    PROVE  NetInv'
<1> USE Kept
<1>0. link.stopped => ~link.dead /\ ~link.backoff /\ link.probe = None
  BY DEF NetInv, TypeOK
<1>1. CASE BackoffFires
  <2>1. /\ [link EXCEPT !.backoff = FALSE] \in Link
        /\ [link EXCEPT !.backoff = FALSE].stopped = link.stopped
        /\ [link EXCEPT !.backoff = FALSE].backoff = FALSE
        /\ [link EXCEPT !.backoff = FALSE].gen = link.gen
        /\ [link EXCEPT !.backoff = FALSE].probe = link.probe
    BY Zenon DEF Link
  <2>2. ~link.stopped /\ link.gen <= Current /\ (link.probe # None => link.probe <= link.gen + 1)
    BY <1>0, <1>1 DEF BackoffFires, NetInv, Numbering, ProbeStarted, Link
  <2> QED
    BY <1>1, <2>1, <2>2, DialStep DEF BackoffFires
<1>2. CASE Probe
  <2> DEFINE l == [link EXCEPT !.backoff = FALSE, !.dead = FALSE, !.probe = link.gen + 1]
  <2>1. link.gen + 1 \in 0..Dials /\ link.gen \in Nat /\ link.gen <= Current
    BY <1>2, BoundsAssumption DEF Probe, DialWith, NetInv, Numbering, Current
  <2>2. /\ l \in Link /\ l.stopped = link.stopped /\ l.backoff = FALSE
        /\ l.gen = link.gen /\ l.probe = link.gen + 1
    BY <2>1, Zenon DEF Link
  <2>3. /\ DialWith(l, socks) /\ UNCHANGED <<ctl, client>> /\ ~link.stopped
        /\ spent' \in Spent
    BY <1>2, SpentTypes DEF Probe
  <2> HIDE DEF l
  <2> QED
    BY <2>1, <2>2, <2>3, DialStep
<1>3. CASE Retry
  <2>1. DialWith(NewLink, socks) /\ UNCHANGED <<ctl, client>> /\ spent' \in Spent
    BY <1>3 DEF Retry
  <2>2. NewLink.gen <= Current
    BY NewLinkType
  <2> QED
    BY <2>1, <2>2, NewLinkType, DialStep
<1>4. CASE DeadFires
  <2>1. spent' \in Spent
    BY <1>4, SpentTypes DEF DeadFires
  <2>2. SocksOK' /\ Current' = Current /\ socks' = socks
    BY <1>4 DEF DeadFires, SocksOK, Current
  <2> QED
    BY <1>4, <2>1, <2>2, LostStep DEF DeadFires, Reasons
<1>5. CASE ProbeDeadline
  <2>1. ~ProbeMissed(link)
    BY <1>5 DEF ProbeDeadline, ProbeMissed, NetInv, ProbeStarted, Link
  <2>2. /\ link' = [link EXCEPT !.probe = None]
        /\ UNCHANGED <<pump, ctl, socks, client, uplink, spent>>
    BY <1>5, <2>1 DEF ProbeDeadline
  <2>3. /\ link' \in Link /\ link'.state = link.state /\ link'.gen = link.gen
        /\ link'.stopped = link.stopped /\ link'.backoff = link.backoff
        /\ link'.dead = link.dead /\ link'.probe = None
    <3>1. 0 \in 0..Dials
      BY BoundsAssumption
    <3> QED
      BY <2>2, <3>1, Zenon DEF Link, None
  <2>4. TypeOK'
    BY <2>2, <2>3 DEF NetInv, TypeOK, Link, Current
  <2> QED
    BY <2>2, <2>3, <2>4 DEF NetInv, AlwaysArmed, PumpFollowsLink, Numbering,
       ProbeStarted, Current
<1> QED
  BY <1>1, <1>2, <1>3, <1>4, <1>5

(* The steps of one socket, at either end.                                 *)
LEMMA SocketStep ==
    ASSUME NetInv, NEW d \in DOMAIN socks,
           \/ Opens(d) \/ Hears(d) \/ Closes(d) \/ Cut(d) \/ Fails(d)
           \/ \E why \in Rejections : HostRejects(d, why)
    PROVE  NetInv'
<1> USE Kept
<1>0. socks[Current].phase = "connecting" => ctl.gen < Current
  BY DEF NetInv, Numbering
<1>1. CASE Opens(d)
  <2> DEFINE s == [socks[d] EXCEPT !.phase = "open", !.host = "garbage"]
  <2>1. s \in Sock /\ s.phase = "open"
    BY Zenon DEF Sock
  <2>2. socks' = [socks EXCEPT ![d] = s] /\ UNCHANGED <<link, pump, client, uplink, spent>>
    BY <1>1 DEF Opens
  <2> HIDE DEF s
  <2>3. /\ SocksOK' /\ Current' = Current
        /\ \A e \in DOMAIN socks :
             socks'[e].phase = "connecting" => socks[e].phase = "connecting"
    BY <2>1, <2>2, Replaced
  <2>4. socks'[Current].phase = "connecting" => Current # d
    BY <2>1, <2>2
  <2>5. /\ ctl' \in [up: BOOLEAN, gen: 0..Dials] /\ ctl'.gen <= Current /\ ctl.gen <= ctl'.gen
        /\ d # Current => ctl' = ctl
    <3>1. CASE d = Current
      <4>1. ctl' = [up |-> TRUE, gen |-> ctl.gen + 1] /\ ctl.gen < Current
        BY <1>0, <1>1, <3>1 DEF Opens, PublishedGen
      <4>2. ctl.gen + 1 \in 0..Dials /\ ctl.gen + 1 <= Current /\ ctl.gen <= ctl.gen + 1
        BY <4>1, BoundsAssumption DEF SocksOK, Current
      <4> QED
        BY <3>1, <4>1, <4>2
    <3>2. CASE d # Current
      BY <1>1, <3>2 DEF Opens
    <3> QED
      BY <3>1, <3>2
  <2>6. client'.hello <= ctl'.gen
    BY <2>2, <2>5
  <2> QED
    BY <1>0, <2>2, <2>3, <2>4, <2>5, <2>6, KeptStep
<1>2. CASE Hears(d)
  <2> DEFINE s == [socks[d] EXCEPT !.welcome = FALSE]
  <2>1. s \in Sock /\ s.phase = socks[d].phase
    BY Zenon DEF Sock
  <2>2. /\ socks' = [socks EXCEPT ![d] = s] /\ UNCHANGED <<pump, ctl, uplink, spent>>
        /\ link' = link \/ (~link.stopped /\ link' = Heard(link))
        /\ client' = client \/ client' = [client EXCEPT !.attached = TRUE]
    BY <1>2 DEF Hears, Listens
  <2> HIDE DEF s
  <2>3. /\ SocksOK' /\ Current' = Current
        /\ \A e \in DOMAIN socks :
             socks'[e].phase = "connecting" => socks[e].phase = "connecting"
    BY <2>1, <2>2, Replaced
  <2>4. /\ client' \in [hello: 0..Dials, attached: BOOLEAN]
        /\ client'.hello = client.hello
    BY <2>2
  <2> QED
    BY <1>0, <2>2, <2>3, <2>4, KeptStep
<1>3. CASE Closes(d)
  <2>1. Gone \in Sock /\ Gone.phase = "closed" /\ socks[d].why \in Reasons
    <3>1. <<>> \in Messages /\ "none" \in Reasons
      BY DEF Messages, Reasons
    <3> QED
      BY <3>1, SockTypes DEF Gone, NewSock, Sock
  <2>2. /\ socks' = [socks EXCEPT ![d] = Gone] /\ UNCHANGED <<client, uplink, spent>>
        /\ IF Listens(d) THEN link' = Lost(link, socks[d].why) /\ Released
                         ELSE UNCHANGED <<link, pump, ctl>>
    BY <1>3 DEF Closes
  <2>3. /\ SocksOK' /\ Current' = Current
        /\ \A e \in DOMAIN socks :
             socks'[e].phase = "connecting" => socks[e].phase = "connecting"
    BY <2>1, <2>2, Replaced
  <2>4. CASE Listens(d)
    BY <2>1, <2>2, <2>3, <2>4, LostStep
  <2>5. CASE ~Listens(d)
    BY <1>0, <2>2, <2>3, <2>5, KeptStep
  <2> QED
    BY <2>4, <2>5
<1>4. ASSUME NEW s \in Sock, socks' = [socks EXCEPT ![d] = s],
             s.phase = "connecting" => socks[d].phase = "connecting",
               spent' \in Spent, UNCHANGED <<link, pump, ctl, client, uplink>>
      PROVE  NetInv'
  <2>1. /\ SocksOK' /\ Current' = Current
        /\ \A e \in DOMAIN socks :
             socks'[e].phase = "connecting" => socks[e].phase = "connecting"
    BY <1>4, Replaced
  <2> QED
    BY <1>0, <1>4, <2>1, KeptStep
<1>5. CASE Cut(d)
  <2>1. /\ [socks[d] EXCEPT !.cut = TRUE] \in Sock
        /\ [socks[d] EXCEPT !.cut = TRUE].phase = socks[d].phase
    BY Zenon DEF Sock
  <2>2. /\ socks' = [socks EXCEPT ![d] = [socks[d] EXCEPT !.cut = TRUE]]
        /\ UNCHANGED <<link, pump, ctl, client, uplink>> /\ spent' \in Spent
    BY <1>5, SpentTypes DEF Cut
  <2> QED
    BY <1>4, <2>1, <2>2
<1>6. CASE Fails(d)
  <2> DEFINE s == [socks[d] EXCEPT !.cut = FALSE]
  <2>1. s \in Sock /\ s.phase = socks[d].phase /\ "close" \in Reasons /\ <<>> \in Messages
    <3>1. s \in Sock /\ s.phase = socks[d].phase
      BY Zenon DEF Sock
    <3> QED
      BY <3>1 DEF Reasons, Messages
  <2>2. /\ socks' = [socks EXCEPT ![d] = Shut(s, "close")]
        /\ UNCHANGED <<link, pump, ctl, client, uplink>> /\ spent' \in Spent
    BY <1>6, SpentTypes DEF Fails
  <2> HIDE DEF s
  <2>3. /\ Shut(s, "close") \in Sock
        /\ Shut(s, "close").phase = "connecting" => s.phase = "connecting"
    BY <2>1, SockTypes
  <2> QED
    BY <1>4, <2>1, <2>2, <2>3
<1>7. ASSUME NEW why \in Rejections, HostRejects(d, why) PROVE NetInv'
  <2>1. why \in Reasons /\ <<>> \in Messages
    BY DEF Rejections, Reasons, Terminal, Messages
  <2>2. /\ Shut(socks[d], why) \in Sock
        /\ Shut(socks[d], why).phase = "connecting" => socks[d].phase = "connecting"
    BY <2>1, SockTypes
  <2>3. /\ socks' = [socks EXCEPT ![d] = Shut(socks[d], why)]
        /\ UNCHANGED <<link, pump, ctl, client, uplink>> /\ spent' \in Spent
    BY <1>7, SpentTypes DEF HostRejects
  <2> QED
    BY <1>4, <2>2, <2>3
<1> QED
  BY <1>1, <1>2, <1>3, <1>5, <1>6, <1>7

(* What the client says, what the ring carries, and what the host reads.   *)
LEMMA TalkStep ==
    ASSUME NetInv,
           \/ \E due \in BOOLEAN : Polls(due)
           \/ Drains
           \/ \E d \in DOMAIN socks : HostReads(d)
    PROVE  NetInv'
<1> USE Kept
<1>0. /\ socks[Current].phase = "connecting" => ctl.gen < Current
      /\ pump \in {None, Current} /\ socks \in Seq(Sock)
  BY DEF NetInv, Numbering, TypeOK
<1>1. ASSUME NEW due \in BOOLEAN, Polls(due) PROVE NetInv'
  <2> DEFINE hi == IF HelloDue THEN <<"hello">> ELSE <<>>
             bye == IF due THEN <<"batch">> ELSE <<>>
  <2>1. hi \in Messages /\ bye \in Messages
    <3>1. <<"hello">> \in Messages /\ <<"batch">> \in Messages /\ <<>> \in Messages
      BY DEF Messages
    <3> QED
      BY <3>1
  <2>2. uplink \o hi \in Messages /\ (uplink \o hi) \o bye \in Messages
    BY <2>1, ConcatProperties DEF Messages
  <2>3. /\ UNCHANGED <<link, socks, pump, ctl>> /\ uplink' = (uplink \o hi) \o bye
        /\ client' = IF HelloDue THEN [client EXCEPT !.hello = ctl.gen] ELSE client
        /\ spent' \in Spent
    BY <1>1, SpentTypes DEF Polls
  <2>4. client' \in [hello: 0..Dials, attached: BOOLEAN] /\ client'.hello <= ctl.gen
    BY <2>3, BoundsAssumption
  <2>5. SocksOK' /\ Current' = Current
    BY <2>3 DEF SocksOK, Current
  <2> HIDE DEF hi, bye
  <2> QED
    BY <1>0, <2>2, <2>3, <2>4, <2>5, KeptStep
<1>2. CASE Drains
  <2>1. pump \in DOMAIN socks /\ socks[pump] \in Sock
    BY <1>0, <1>2 DEF Drains
  <2>2. /\ socks' = [socks EXCEPT ![pump] = Sent(socks[pump], uplink)] /\ uplink' = <<>>
        /\ UNCHANGED <<link, pump, ctl, client, spent>>
    BY <1>2 DEF Drains
  <2>3. /\ Sent(socks[pump], uplink) \in Sock
        /\ Sent(socks[pump], uplink).phase = socks[pump].phase
    BY <2>1, SockTypes DEF Reasons
  <2>4. /\ SocksOK' /\ Current' = Current
        /\ \A e \in DOMAIN socks :
             socks'[e].phase = "connecting" => socks[e].phase = "connecting"
    BY <2>1, <2>2, <2>3, Replaced
  <2>5. uplink' \in Messages
    BY <2>2 DEF Messages
  <2> QED
    BY <1>0, <2>2, <2>4, <2>5, KeptStep
<1>3. ASSUME NEW d \in DOMAIN socks, HostReads(d) PROVE NetInv'
  <2> DEFINE s == [socks[d] EXCEPT !.wire = Tail(@)]
  <2>1. socks[d].wire \in Messages /\ socks[d].wire # <<>>
    BY <1>3, Zenon DEF HostReads, Sock, Messages
  <2>2. Tail(socks[d].wire) \in Messages
    BY <2>1, HeadTailProperties DEF Messages
  <2>3. /\ s \in Sock /\ s.phase = socks[d].phase
        /\ s.garbage = socks[d].garbage
    BY <2>2, Zenon DEF Sock, Messages
  <2>4. UNCHANGED <<link, pump, ctl, client, uplink, spent>>
    BY <1>3 DEF HostReads
  <2>5. ASSUME SocksOK', Current' = Current,
               \A e \in DOMAIN socks :
                 socks'[e].phase = "connecting" => socks[e].phase = "connecting"
        PROVE  NetInv'
    BY <1>0, <2>4, <2>5, KeptStep
  <2>6. CASE Head(socks[d].wire) = "hello"
    <3>1. socks' = Settled(socks, d)
      BY <1>3, <2>6 DEF HostReads
    <3> DEFINE t == [socks[d] EXCEPT !.host = "settled", !.welcome = TRUE,
                                     !.wire = <<>>, !.garbage = 0]
    <3>2. t \in Sock /\ t.phase = socks[d].phase
      <4>1. 0 \in 0..MaxGarbage /\ <<>> \in Seq({"hello", "batch"})
        BY BoundsAssumption
      <4> QED
        BY <4>1, Zenon DEF Sock
    <3>3. ASSUME NEW e \in DOMAIN socks
          PROVE  /\ Shut(socks[e], "superseded") \in Sock
                 /\ Shut(socks[e], "superseded").phase = "connecting"
                      => socks[e].phase = "connecting"
      BY SockTypes DEF Reasons, Terminal, Messages
    <3>4. \A e \in DOMAIN socks :
            socks'[e] = IF e = d THEN t
                        ELSE IF socks[e].host = "settled" THEN Shut(socks[e], "superseded")
                        ELSE socks[e]
      BY <3>1 DEF Settled
    <3> HIDE DEF t
    <3>5. \A e \in DOMAIN socks :
            /\ socks'[e] \in Sock
            /\ socks'[e].phase = "connecting" => socks[e].phase = "connecting"
      <4> TAKE e \in DOMAIN socks
      <4>1. CASE e = d
        BY <3>2, <3>4, <4>1
      <4>2. CASE e # d
        BY <3>3, <3>4, <4>2
      <4> QED
        BY <4>1, <4>2
    <3>6. DOMAIN socks' = 1..Len(socks)
      BY <3>1 DEF Settled, Current
    <3>7. socks' \in [1..Len(socks) -> Sock]
      BY <3>1, <3>5, <3>6 DEF Settled
    <3>8. socks' \in Seq(Sock) /\ Len(socks') = Len(socks)
      BY <3>7 DEF Current
    <3>9. SocksOK' /\ Current' = Current
      BY <3>5, <3>6, <3>8 DEF SocksOK, Current
    <3> QED
      BY <2>5, <3>5, <3>9
  <2>7. CASE Head(socks[d].wire) # "hello"
    <3> DEFINE t == [s EXCEPT !.garbage = @ + 1]
               u == IF TooMuch(s) THEN Shut(s, "close") ELSE t
    <3>1. socks' = [socks EXCEPT ![d] = u]
      BY <1>3, <2>7 DEF HostReads
    <3>2. ~TooMuch(s) => t \in Sock /\ t.phase = s.phase
      <4>1. s.garbage \in 0..MaxGarbage
        BY <2>3, Zenon DEF Sock
      <4>2. ~TooMuch(s) => s.garbage + 1 \in 0..MaxGarbage
        BY <4>1, BoundsAssumption DEF TooMuch
      <4> HIDE DEF s
      <4> QED
        BY <2>3, <4>2, Zenon DEF Sock
    <3>3. /\ Shut(s, "close") \in Sock
          /\ Shut(s, "close").phase = "connecting" => s.phase = "connecting"
      BY <2>3, SockTypes DEF Reasons, Messages
    <3> HIDE DEF s, t
    <3>4. /\ u \in Sock
          /\ u.phase = "connecting" => socks[d].phase = "connecting"
      BY <2>3, <3>2, <3>3
    <3> HIDE DEF u
    <3> QED
      BY <2>5, <3>1, <3>4, Replaced
  <2> QED
    BY <2>6, <2>7
<1> QED
  BY <1>1, <1>2, <1>3
-----------------------------------------------------------------------------
(* Every step keeps the invariant.                                         *)
LEMMA NextNet == ASSUME NetInv, [Next]_vars PROVE NetInv'
<1>1. CASE UNCHANGED vars
  BY <1>1 DEF vars, NetInv, TypeOK, AlwaysArmed, PumpFollowsLink, Numbering,
     ProbeStarted, Current
<1>2. CASE Next
  BY <1>2, TimersStep, SocketStep, TalkStep DEF Next
<1> QED
  BY <1>1, <1>2

\* The inductive invariant of the link and the sockets it dials: types, one
\* armed timer, where the pump is, and how far the numbers of a link may be
\* from the dials made (net/link.ts, worker/net.ts).
THEOREM NetInvariant == Spec => []NetInv
<1>1. Init => NetInv
  BY InitNet
<1>2. NetInv /\ [Next]_vars => NetInv'
  BY NextNet
<1> QED
  BY <1>1, <1>2, PTL DEF Spec

\* Every variable of the link, its sockets and the ring keeps its type.
THEOREM NetTypeOK == Spec => []TypeOK
<1>1. NetInv => TypeOK
  BY DEF NetInv
<1> QED
  BY <1>1, NetInvariant, PTL

\* A link that has not given up has the dead timer or the backoff timer
\* armed: no order of closes, probes, late messages and failed dials leaves
\* the page offline with nothing to bring it back (net/link.ts).
THEOREM NetAlwaysArmed == Spec => []AlwaysArmed
<1>1. NetInv => AlwaysArmed
  BY DEF NetInv
<1> QED
  BY <1>1, NetInvariant, PTL

\* The uplink ring is drained to the newest dial while the link is up, and to
\* none while it is down (worker/net.ts, onUp and onDown).
THEOREM NetPumpFollowsLink == Spec => []PumpFollowsLink
<1>1. NetInv => PumpFollowsLink
  BY DEF NetInv
<1> QED
  BY <1>1, NetInvariant, PTL

\* The probe's deadline never finds its own dial unproven: the code compares
\* with the generation before that dial, so the fallback its comment promises
\* is not taken in any run (net/link.ts, probe).
THEOREM NetProbeNeverMissed == Spec => []ProbeNeverMissed
<1>1. NetInv => ProbeNeverMissed
  BY DEF NetInv, ProbeNeverMissed, ProbeStarted, ProbeMissed, TypeOK
<1> QED
  BY <1>1, NetInvariant, PTL
=============================================================================
