------------------------------ MODULE NetLink ------------------------------
(***************************************************************************)
(* A remote page's way to its host: the reconnecting link of the net       *)
(* worker (net/link.ts, worker/net.ts), the socket wrapper that queues     *)
(* what is sent before it opens (net/ws-connection.ts), the byte pump      *)
(* between the uplink ring and the current socket (net/pump.ts), the       *)
(* client worker that says Hello once per link generation                  *)
(* (worker/client-net.ts), the page's retry after a version mismatch       *)
(* (client.ts), and the host's side of a socket up to its Welcome.         *)
(* A Hello on a settled socket starts its handshake over; it ends as the   *)
(* first did and is left out.                                              *)
(*                                                                         *)
(* Time is abstracted: a timer is a Boolean that is armed or not, and may  *)
(* fire whenever it is armed.  A dead timer that fires although its socket *)
(* is healthy is one of the troubles, of which there are at most           *)
(* MaxTroubles, as are cuts, closes, failed dials and rejections.          *)
(***************************************************************************)
EXTENDS Naturals, Sequences, FiniteSets

CONSTANTS Dials,        \* how many sockets are ever dialled (bound)
          MaxGarbage,   \* MAX_GARBAGE_MESSAGES of the host
          MaxBatches,   \* how many uplink batches the client polls (bound)
          MaxProbes,    \* how often the page probes (bound)
          MaxTroubles   \* how many faults the network and host have (bound)

\* The net worker dials as soon as it is set up, so one dial there is.
ASSUME BoundsAssumption ==
    /\ {Dials, MaxGarbage, MaxBatches, MaxProbes, MaxTroubles} \subseteq Nat
    /\ Dials # 0

VARIABLES link,     \* the current Link of the net worker
          socks,    \* the sockets dialled so far, by dial number
          pump,     \* the dial the byte pump is attached to, 0: detached
          ctl,      \* CB_LINK_STATE and CB_LINK_GEN of the control block
          client,   \* the client worker's handshake state
          uplink,   \* the uplink ring
          spent     \* what is used up of the bounds

vars == <<link, socks, pump, ctl, client, uplink, spent>>

Terminal == {"superseded", "version-mismatch", "full"}
Reasons  == {"none", "dead", "close"} \cup Terminal
None     == 0
Current  == Len(socks)      \* currentDial of the net worker

(***************************************************************************)
(* Sockets and the link's own steps.                                       *)
(***************************************************************************)
\* A fresh socket: connecting, with nothing queued, unknown to the host.
NewSock == [phase |-> "connecting", cut |-> FALSE, host |-> "none",
            wire |-> <<>>, welcome |-> FALSE, garbage |-> 0, why |-> "none"]

\* A closed one.  Nothing is asked of it again.
Gone == [NewSock EXCEPT !.phase = "closed", !.host = "closed"]

\* Everything the ring holds goes to the socket the pump is attached to;
\* a closed one takes it and drops it, and what a settled session makes of
\* it is not this module's matter.
Sent(s, msgs) == IF s.phase \in {"connecting", "open"} /\ ~s.cut
                       /\ s.host # "settled"
                 THEN [s EXCEPT !.wire = @ \o msgs] ELSE s

\* A link that dials: its next generation, the dead timer running.
Dialled(l) == [l EXCEPT !.gen = @ + 1, !.state = "up", !.dead = TRUE]

\* dial(), with the onUp the net worker gives it: the pump moves to the new
\* socket and drains the ring onto it.
DialWith(l, ss) ==
    /\ Len(ss) < Dials
    /\ link' = Dialled(l)
    /\ socks' = Append(ss, Sent(NewSock, uplink))
    /\ pump' = Len(ss) + 1
    /\ uplink' = <<>>

NewLink == [state |-> "down", gen |-> 0, dead |-> FALSE, backoff |-> FALSE,
            probe |-> None, stopped |-> FALSE, why |-> "none"]

\* A mutant: a terminal close schedules its redial like any other.
LostAlwaysRetries(l, why) ==
    [l EXCEPT !.state = "down", !.dead = FALSE, !.probe = None, !.why = why,
              !.stopped = why \in Terminal, !.backoff = TRUE]

\* goDown(): every timer cleared, onDown, and the next dial scheduled
\* unless the reason is final.
Lost(l, why) ==
    [l EXCEPT !.state = "down", !.dead = FALSE, !.probe = None, !.why = why,
              !.stopped = why \in Terminal, !.backoff = why \notin Terminal]

\* A mutant: onDown leaves the pump on the socket that was lost.
ReleasedPumpKept == pump' = pump /\ ctl' = [ctl EXCEPT !.up = FALSE]

\* What onDown does in the net worker.
Released == pump' = None /\ ctl' = [ctl EXCEPT !.up = FALSE]

\* The callbacks of a socket act only for the link's newest dial.
Listens(d) == d = Current /\ ~link.stopped

Trouble == spent.troubles < MaxTroubles
Troubled == spent' = [spent EXCEPT !.troubles = @ + 1]

(***************************************************************************)
(* Timers of the link, and what main asks of it.                           *)
(***************************************************************************)
BackoffFires ==
    /\ link.backoff
    /\ DialWith([link EXCEPT !.backoff = FALSE], socks)
    /\ UNCHANGED <<ctl, client, spent>>

\* A mutant: a Hello is said once, not once per generation.
HelloOnce == ctl.up /\ client.hello = 0

\* The client worker owes the current generation a Hello.
HelloDue == ctl.up /\ ctl.gen # client.hello

\* The host was asked nothing and will be asked nothing.
Unasked(d) == /\ socks[d].host = "garbage" /\ socks[d].wire = <<>>
              /\ uplink = <<>> /\ ~HelloDue

\* The socket has nothing more to say: the timer will run out.
Silent(d) == \/ socks[d].cut \/ socks[d].phase = "closed" \/ Unasked(d)
             \/ link.state = "down"

DeadFires ==
    /\ link.dead
    /\ IF Silent(Current) THEN spent' = spent ELSE Trouble /\ Troubled
    /\ link' = Lost(link, "dead")
    /\ Released
    /\ UNCHANGED <<socks, client, uplink>>

\* probe(): a link that heard something in the last second changes nothing,
\* which is no step here; any other redials at once.  The deadline
\* remembers the generation before its own dial.
Probe ==
    /\ spent.probes < MaxProbes
    /\ ~link.stopped
    /\ DialWith([link EXCEPT !.backoff = FALSE, !.dead = FALSE,
                             !.probe = link.gen + 1], socks)
    /\ spent' = [spent EXCEPT !.probes = @ + 1]
    /\ UNCHANGED <<ctl, client>>

\* The deadline of a probe that heard nothing: `gen === preProbeGen'.
ProbeMissed(l) == l.gen + 1 = l.probe

ProbeDeadline ==
    /\ link.probe # None
    /\ IF ProbeMissed(link)
       THEN link' = Lost(link, "dead") /\ Released
       ELSE /\ link' = [link EXCEPT !.probe = None]
            /\ UNCHANGED <<pump, ctl>>
    /\ UNCHANGED <<socks, client, uplink, spent>>

\* main's retry after a version mismatch: a Link is built from scratch.
\* stop() of the old one finds it stopped already.
Retry ==
    /\ link.stopped /\ link.why = "version-mismatch"
    /\ DialWith(NewLink, socks)
    /\ UNCHANGED <<ctl, client, spent>>

(***************************************************************************)
(* What a socket reports.                                                  *)
(***************************************************************************)
\* dialSeq: every dial of every Link that opened as the current one.
PublishedGen == ctl.gen + 1

\* ws.onopen: the queue is flushed, and the newest dial publishes Up.
Opens(d) ==
    /\ socks[d].phase = "connecting" /\ ~socks[d].cut
    /\ socks' = [socks EXCEPT ![d].phase = "open", ![d].host = "garbage"]
    /\ ctl' = IF d = Current THEN [up |-> TRUE, gen |-> PublishedGen] ELSE ctl
    /\ UNCHANGED <<link, pump, client, uplink, spent>>

\* A mutant: what is heard disarms the dead timer and does not set it anew.
HeardUnarmed(l) == [l EXCEPT !.probe = None, !.dead = FALSE]

\* raw.onMessage: the link lives.  The Welcome reaches the client worker if
\* the pump is still attached to this socket.
Heard(l) == [l EXCEPT !.probe = None, !.dead = TRUE]

Hears(d) ==
    /\ socks[d].phase = "open" /\ ~socks[d].cut /\ socks[d].host = "settled"
    /\ socks' = [socks EXCEPT ![d].welcome = FALSE]
    /\ link' = IF Listens(d) THEN Heard(link) ELSE link
    /\ client' = IF socks[d].welcome /\ Listens(d) /\ pump = d
                 THEN [client EXCEPT !.attached = TRUE] ELSE client
    /\ UNCHANGED <<pump, ctl, uplink, spent>>

\* raw.onClose: the newest dial's close brings the link down, a replaced
\* one's is ignored.
Closes(d) ==
    /\ socks[d].phase = "closing"
    /\ socks' = [socks EXCEPT ![d] = Gone]
    /\ IF Listens(d)
       THEN link' = Lost(link, socks[d].why) /\ Released
       ELSE UNCHANGED <<link, pump, ctl>>
    /\ UNCHANGED <<client, uplink, spent>>

(***************************************************************************)
(* The uplink: the client worker's wake and the pump's drain.              *)
(***************************************************************************)
\* A wake of the client worker: a Hello if the link is up at a generation
\* it has said none for, then, once it was welcomed for the first time,
\* the batch that is due.
Polls(due) ==
    /\ HelloDue \/ due
    /\ due => client.attached /\ spent.batches < MaxBatches
    /\ uplink' = uplink \o (IF HelloDue THEN <<"hello">> ELSE <<>>)
                        \o (IF due THEN <<"batch">> ELSE <<>>)
    /\ client' = IF HelloDue THEN [client EXCEPT !.hello = ctl.gen] ELSE client
    /\ spent' = IF due THEN [spent EXCEPT !.batches = @ + 1] ELSE spent
    /\ UNCHANGED <<link, socks, pump, ctl>>

\* The net worker's drain timer.
Drains ==
    /\ pump # None /\ uplink # <<>>
    /\ socks' = [socks EXCEPT ![pump] = Sent(@, uplink)]
    /\ uplink' = <<>>
    /\ UNCHANGED <<link, pump, ctl, client, spent>>

(***************************************************************************)
(* The host and the network.                                               *)
(***************************************************************************)
Shut(s, why) == IF s.cut THEN [s EXCEPT !.host = "closed", !.welcome = FALSE]
                ELSE [Gone EXCEPT !.phase = "closing", !.why = why]

\* A player's newest settled socket supersedes the one before it.
Settled(ss, d) ==
    [e \in DOMAIN ss |->
        IF e = d THEN [ss[e] EXCEPT !.host = "settled", !.welcome = TRUE,
                                    !.wire = <<>>, !.garbage = 0]
        ELSE IF ss[e].host = "settled" THEN Shut(ss[e], "superseded")
        ELSE ss[e]]

TooMuch(s) == s.garbage + 1 > MaxGarbage

\* The host reads one message of a socket it has not welcomed: a Hello is
\* answered, anything else is counted, and too much of it closes.
HostReads(d) ==
    LET s == [socks[d] EXCEPT !.wire = Tail(@)] IN
    /\ socks[d].phase = "open" /\ ~socks[d].cut
    /\ socks[d].wire # <<>>
    /\ socks' = IF Head(socks[d].wire) = "hello" THEN Settled(socks, d)
                ELSE [socks EXCEPT ![d] =
                        IF TooMuch(s) THEN Shut(s, "close")
                        ELSE [s EXCEPT !.garbage = @ + 1]]
    /\ UNCHANGED <<link, pump, ctl, client, uplink, spent>>

\* The host turns a Hello away, for good as the link sees it.  ("bad-key"
\* is to the link what "full" is.)
HostRejects(d, why) ==
    /\ socks[d].phase = "open" /\ ~socks[d].cut /\ Trouble
    /\ socks[d].host = "garbage"
    /\ socks[d].wire # <<>> /\ Head(socks[d].wire) = "hello"
    /\ socks' = [socks EXCEPT ![d] = Shut(@, why)]
    /\ Troubled
    /\ UNCHANGED <<link, pump, ctl, client, uplink>>

\* The network drops a socket without a word, or with a close event: the
\* dial fails, the host goes away, a Hello was too late.
Cut(d) ==
    /\ Trouble /\ ~socks[d].cut /\ socks[d].phase \in {"connecting", "open"}
    /\ socks' = [socks EXCEPT ![d].cut = TRUE]
    /\ Troubled
    /\ UNCHANGED <<link, pump, ctl, client, uplink>>

Fails(d) ==
    /\ socks[d].phase \in {"connecting", "open"}
    /\ socks[d].cut \/ Trouble
    /\ socks' = [socks EXCEPT ![d] = Shut([@ EXCEPT !.cut = FALSE], "close")]
    /\ IF socks[d].cut THEN UNCHANGED spent ELSE Troubled
    /\ UNCHANGED <<link, pump, ctl, client, uplink>>

\* The net worker is set up: buildLink() dials at once.
Init ==
    /\ link = Dialled(NewLink)
    /\ socks = <<NewSock>>
    /\ pump = 1
    /\ ctl = [up |-> FALSE, gen |-> 0]
    /\ client = [hello |-> 0, attached |-> FALSE]
    /\ uplink = <<>>
    /\ spent = [batches |-> 0, probes |-> 0, troubles |-> 0]

Rejections == {"version-mismatch", "full"}

Next ==
    \/ BackoffFires \/ DeadFires \/ Probe \/ ProbeDeadline \/ Retry
    \/ \E due \in BOOLEAN : Polls(due)
    \/ Drains
    \/ \E d \in DOMAIN socks :
        \/ Opens(d) \/ Hears(d) \/ Closes(d) \/ HostReads(d)
        \/ Cut(d) \/ Fails(d)
        \/ \E why \in Rejections : HostRejects(d, why)

\* The timers run, the workers are scheduled, and a socket that is not cut
\* carries what it is given.
Fairness ==
    /\ WF_vars(BackoffFires) /\ WF_vars(Retry)
    /\ WF_vars(DeadFires /\ Silent(Current))
    /\ WF_vars(Polls(FALSE)) /\ WF_vars(Drains)
    /\ \A d \in 1..Dials :
        /\ WF_vars(d \in DOMAIN socks /\ Opens(d))
        /\ WF_vars(d \in DOMAIN socks /\ Closes(d))
        /\ WF_vars(d \in DOMAIN socks /\ HostReads(d))
        /\ WF_vars(d \in DOMAIN socks /\ socks[d].welcome /\ Hears(d))

Spec == Init /\ [][Next]_vars /\ Fairness

(***************************************************************************)
(* Properties.                                                             *)
(***************************************************************************)
Sock == [phase: {"connecting", "open", "closing", "closed"}, cut: BOOLEAN,
         host: {"none", "garbage", "settled", "closed"},
         wire: Seq({"hello", "batch"}), welcome: BOOLEAN,
         garbage: 0..MaxGarbage, why: Reasons]

\* Every variable has its type, the pump is attached to the newest dial or
\* to none, and a link that gave up has no timer left.
TypeOK ==
    /\ link \in [state: {"down", "up"}, gen: 0..Dials, dead: BOOLEAN,
                 backoff: BOOLEAN, probe: 0..Dials, stopped: BOOLEAN,
                 why: Reasons]
    /\ socks \in Seq(Sock) /\ Len(socks) <= Dials
    /\ pump \in {None, Current}
    /\ ctl \in [up: BOOLEAN, gen: 0..Dials]
    /\ client \in [hello: 0..Dials, attached: BOOLEAN]
    /\ uplink \in Seq({"hello", "batch"})
    /\ spent \in [batches: 0..MaxBatches, probes: 0..MaxProbes,
                  troubles: 0..MaxTroubles]
    /\ link.stopped => ~link.dead /\ ~link.backoff /\ link.probe = None

\* A link that has not given up always has a timer that brings it on: the
\* dead timer of a socket it trusts, the backoff timer of one it lost
\* (net/link.ts).  A path of goDown, probe or a late message that left both
\* disarmed would leave the page offline until a reload.
AlwaysArmed ==
    ~link.stopped => IF link.state = "up" THEN link.dead ELSE link.backoff

\* The pump carries the uplink to a socket exactly while the link trusts
\* one, and then to the newest: a batch is never given to a socket that was
\* replaced, and none waits in the ring of a link that is up
\* (worker/net.ts, onUp and onDown).
PumpFollowsLink == IF link.state = "up" THEN pump = Current ELSE pump = None

\* The host closes the socket a reconnect replaced with Superseded, the
\* code that stops a link for good: it must never stop the link that did
\* the reconnecting (net/link.ts, "a `Superseded' aimed at a socket the
\* client already replaced is harmless").
NeverSupersedesItself == link.why # "superseded"

Served == /\ link.state = "up" /\ client.attached
          /\ socks[Current].host = "settled" /\ ~socks[Current].cut

\* When the troubles are over, the page is served again or the host turned
\* it away for good (0013, the client policy): every dial that opens is
\* greeted, after a version mismatch too, and no outage is the last word.
Reconnects ==
    <>[](Served \/ (link.stopped /\ link.why \in {"full", "superseded"}))

\* net/ws-connection.ts: before a dial has proven itself a caller only ever
\* sends its Hello.  Stated of the host: no socket of this page carries
\* anything before its Hello.
HelloFirst == \A d \in DOMAIN socks : socks[d].garbage = 0

\* net/link.ts, onDown: never twice in a row without an onUp between.
OnDownOnce ==
    [][link.state = "down" => \A d \in DOMAIN socks :
           ~(Listens(d) /\ Closes(d))]_vars

\* sab/control.ts: CB_LINK_STATE mirrors the link's state.
UpMeansUp == ctl.up => link.state = "up"

\* net/link.ts, probe: a dial that did not prove itself within its deadline
\* falls back to the backoff schedule.
ProbeFallsBack == [][ProbeDeadline => link'.state = "down"]_vars
=============================================================================
