-------------------------------- MODULE Ring --------------------------------
(***************************************************************************)
(* The single-producer single-consumer ring over one SharedArrayBuffer:    *)
(* packages/engine/src/sab/ring.ts.  The two ends run in different         *)
(* workers, so every shared load, slot write, slot copy and shared store   *)
(* is a step of its own.  Slots are addressed by unbounded claim counts    *)
(* (slot c % Slots); the two words that publish the counts are Int32.      *)
(*                                                                         *)
(* A message is its number in the order of acceptance; how many slots it   *)
(* spans is chosen when it is pushed.  Either end may die with its worker  *)
(* at any step and be built again over the same buffer.                    *)
(***************************************************************************)
EXTENDS Integers, Sequences

CONSTANTS
  Slots,        \* createRing's slots
  HalfRange,    \* 2^31: the first count an Int32 word cannot hold
  MaxClaims,    \* bound: slots ever claimed
  MaxRespawn    \* bound: deaths of either end

ASSUME RingAssumption ==
  /\ Slots \in Nat \ {0}
  /\ HalfRange \in Nat \ {0}
  /\ MaxClaims \in Nat
  /\ MaxRespawn \in Nat

VARIABLES
  slots,      \* the fixed slots: header and payload
  headWord,   \* RING_HEAD
  tailWord,   \* RING_TAIL
  head,       \* RingProducer.head
  pushing,    \* how many slots the push under way spans, 0 if none
  part,       \* how many of them are written
  tail,       \* RingConsumer.tail
  popping,    \* how many slots the pop under way spans, 0 if none
  copied,     \* what the pop under way has copied out of them
  sent,       \* history: message -> the slots it spans
  stream,     \* history: claim -> what was published under it
  delivered,  \* history: what each finished pop handed over
  respawns    \* deaths so far

shared   == << slots, headWord, tailWord >>
producer == << head, pushing, part >>
consumer == << tail, popping, copied >>
history  == << sent, stream, delivered >>
vars == << shared, producer, consumer, history, respawns >>
-----------------------------------------------------------------------------
(* One slot: its header (part, parts) and the message its bytes are of.    *)
Cell(message, index, of) == [msg |-> message, part |-> index, parts |-> of]

Cells == [msg : Nat, part : Nat, parts : Nat]

(* Nothing was ever written: a fresh SharedArrayBuffer is all zero.        *)
Zero == Cell(0, 0, 0)

(* Atomics.store into an Int32Array element. *)
Int32(n) == ((n + HalfRange) % (2 * HalfRange)) - HalfRange

(* The message about to be pushed. *)
NextMessage == Len(sent) + 1

Init ==
  /\ slots = [i \in 0 .. Slots - 1 |-> Zero]
  /\ headWord = 0
  /\ tailWord = 0
  /\ head = 0
  /\ pushing = 0
  /\ part = 0
  /\ tail = 0
  /\ popping = 0
  /\ copied = << >>
  /\ sent = << >>
  /\ stream = << >>
  /\ delivered = << >>
  /\ respawns = 0
-----------------------------------------------------------------------------
(* The room test of tryPush and tryClaim, on a tail loaded just before; and *)
(* a mutant that lets one slot too many in.                                *)
RoomPlusOne(parts) == head - tailWord + parts <= Slots + 1

Room(parts) == head - tailWord + parts <= Slots

(* tryPush or tryClaim: room for the whole message or none of it.  (A push *)
(* that finds no room changes nothing.)                                    *)
PushBegins ==
  /\ pushing = 0
  /\ \E parts \in 1 .. Slots :
       /\ Room(parts)
       /\ head + parts <= MaxClaims
       /\ pushing' = parts
  /\ part' = 0
  /\ UNCHANGED << shared, head, consumer, history, respawns >>

(* One turn of tryPush's loop, or the caller's fill of a claimed slot.     *)
WritesPart ==
  /\ part < pushing
  /\ slots' = [slots EXCEPT ![(head + part) % Slots] =
                 Cell(NextMessage, part, pushing)]
  /\ part' = part + 1
  /\ UNCHANGED << headWord, tailWord, head, pushing, consumer, history,
                  respawns >>

(* When the head may be published; and a mutant that publishes it before   *)
(* the last slot is written.                                               *)
PartsWrittenButOne == part + 1 >= pushing

PartsWritten == part = pushing

(* The parts of the message that is being published, for the history.      *)
PublishedCells == [i \in 1 .. pushing |-> Cell(NextMessage, i - 1, pushing)]

(* The head is stored once, after every part is written. *)
Publishes ==
  /\ pushing # 0
  /\ PartsWritten
  /\ head' = head + pushing
  /\ headWord' = Int32(head')
  /\ sent' = Append(sent, pushing)
  /\ stream' = stream \o PublishedCells
  /\ pushing' = 0
  /\ part' = 0
  /\ UNCHANGED << slots, tailWord, consumer, delivered, respawns >>

(* A claimed slot that is never committed: the next claim returns it again. *)
ClaimAbandoned ==
  /\ pushing = 1
  /\ pushing' = 0
  /\ part' = 0
  /\ UNCHANGED << shared, head, consumer, history, respawns >>
-----------------------------------------------------------------------------
(* popInto or peek: nothing if the tail has caught up, else the header of  *)
(* the slot at the tail says how many slots the message spans.             *)
PopBegins ==
  /\ popping = 0
  /\ tail < headWord
  /\ popping' = slots[tail % Slots].parts
  /\ copied' = << >>
  /\ UNCHANGED << shared, producer, tail, history, respawns >>

CopiesPart ==
  /\ Len(copied) < popping
  /\ copied' = Append(copied, slots[(tail + Len(copied)) % Slots])
  /\ UNCHANGED << shared, producer, tail, popping, history, respawns >>

(* How far a finished pop moves the tail; and mutants: slot by slot, as    *)
(* release does, and a tail stored before the copy is done.                *)
TailAfterOneSlot == tail + 1

TailAfter == tail + popping

CopyStarted == copied # << >>

CopyDone == popping # 0 /\ Len(copied) = popping

(* Every slot the message spanned is released at once. *)
Releases ==
  /\ CopyDone
  /\ tail' = TailAfter
  /\ tailWord' = Int32(tail')
  /\ delivered' = Append(delivered, copied)
  /\ popping' = 0
  /\ copied' = << >>
  /\ UNCHANGED << slots, headWord, producer, sent, stream, respawns >>
-----------------------------------------------------------------------------
(* The worker of one end is terminated at any step, and a new end is built *)
(* over the same buffer: it starts from the published word.                *)
ProducerRespawns ==
  /\ respawns < MaxRespawn
  /\ respawns' = respawns + 1
  /\ head' = headWord
  /\ pushing' = 0
  /\ part' = 0
  /\ UNCHANGED << shared, consumer, history >>

(* A mutant: the new consumer skips what was waiting. *)
ConsumerStart(atHead, atTail) == atHead

TailOnRespawn(atHead, atTail) == atTail

ConsumerRespawns ==
  /\ respawns < MaxRespawn
  /\ respawns' = respawns + 1
  /\ tail' = TailOnRespawn(headWord, tailWord)
  /\ popping' = 0
  /\ copied' = << >>
  /\ UNCHANGED << shared, producer, history >>
-----------------------------------------------------------------------------
Produce == PushBegins \/ WritesPart \/ Publishes \/ ClaimAbandoned
Consume == PopBegins \/ CopiesPart \/ Releases
Respawn == ProducerRespawns \/ ConsumerRespawns

Next == Produce \/ Consume \/ Respawn

(* The consumer's worker polls on every pass of its loop. *)
Spec == Init /\ [][Next]_vars /\ WF_vars(Consume)
-----------------------------------------------------------------------------
TypeOK ==
  /\ slots \in [0 .. Slots - 1 -> Cells]
  /\ headWord \in Int /\ tailWord \in Int
  /\ head \in Nat /\ pushing \in 0 .. Slots /\ part \in Nat
  /\ tail \in Nat /\ popping \in Nat /\ copied \in Seq(Cells)
  /\ sent \in Seq(Nat) /\ stream \in Seq(Cells) /\ delivered \in Seq(Seq(Cells))
  /\ respawns \in Nat

(* The slots a push may be writing and those a pop may be copying. *)
Claimed == { (head + i) % Slots : i \in 0 .. pushing - 1 }
Borrowed == { (tail + i) % Slots : i \in 0 .. popping - 1 }

(* The two workers never touch one slot at the same time: while a pop      *)
(* copies a message out of its slots, no push under way has claimed one of *)
(* them, although each side tests a word the other may be about to move    *)
(* (tryPush, tryClaim, popInto, peek of ring.ts).                          *)
NoSlotShared == Claimed \cap Borrowed = {}

(* Every pop hands over a whole message, the one after the last: none is   *)
(* torn, mixed with a later lap of the ring, lost, repeated or reordered,  *)
(* whichever end died and was built again (popInto, tryPush).              *)
DeliveredWholeInOrder ==
  \A n \in DOMAIN delivered :
    /\ n \in DOMAIN sent
    /\ Len(delivered[n]) = sent[n]
    /\ \A i \in 1 .. Len(delivered[n]) :
         delivered[n][i] = Cell(n, i - 1, sent[n])

(* The message a finished pop reports, by its first slot's header. *)
Reported(cells) ==
  [msg |-> cells[1].msg, parts |-> Len(cells)]

(* The strengthening that makes the two properties above inductive.  The    *)
(* words are the counts, and no more than Slots claims are open.           *)
CountsAgree ==
  /\ head = Len(stream) /\ headWord = head
  /\ tailWord = tail /\ tail <= head
  /\ head + pushing <= MaxClaims /\ head + pushing - tail <= Slots
  /\ part <= pushing /\ Len(sent) <= head

(* What was published is a sequence of whole messages, numbered from one.  *)
WholeMessageAt(c) ==
  LET m == stream[c].msg
      k == stream[c].parts
  IN  /\ m \in DOMAIN sent /\ k = sent[m] /\ k # 0
      /\ c + k <= Len(stream) + 1
      /\ \A j \in 0 .. k - 1 : stream[c + j] = Cell(m, j, k)
      /\ c + k <= Len(stream) => /\ stream[c + k].part = 0
                                /\ stream[c + k].msg = m + 1
      /\ c + k = Len(stream) + 1 => m = Len(sent)

StreamFramed ==
  \A c \in 1 .. Len(stream) : stream[c].part = 0 => WholeMessageAt(c)

(* The open slots still hold what was published in them, and those of the  *)
(* push under way what it has written.                                     *)
SlotsHold ==
  /\ \A c \in tail .. head - 1 : slots[c % Slots] = stream[c + 1]
  /\ \A i \in 0 .. part - 1 :
       slots[(head + i) % Slots] = Cell(NextMessage, i, pushing)

(* The tail rests between two messages, the next one not yet delivered.    *)
TailBetweenMessages ==
  IF tail = head
  THEN Len(delivered) = Len(sent)
  ELSE /\ stream[tail + 1].part = 0
       /\ stream[tail + 1].msg = Len(delivered) + 1

(* The pop under way copies that message.                                  *)
PopCopies ==
  /\ Len(copied) <= popping
  /\ popping # 0 => tail < head /\ popping = stream[tail + 1].parts
  /\ \A i \in DOMAIN copied : copied[i] = stream[tail + i]

IInv ==
  /\ TypeOK
  /\ CountsAgree
  /\ StreamFramed
  /\ SlotsHold
  /\ TailBetweenMessages
  /\ PopCopies
  /\ DeliveredWholeInOrder

(* The abstract channel this ring implements. *)
Channel == INSTANCE Fifo WITH
  Message <- [msg : 1 .. MaxClaims, parts : 1 .. Slots],
  offered <- [n \in DOMAIN sent |-> [msg |-> n, parts |-> sent[n]]],
  taken   <- [n \in DOMAIN delivered |-> Reported(delivered[n])]

(* The ring implements the lossless ordered channel (class comment of      *)
(* sab/ring.ts, ADR 0015 section 2).                                       *)
ImplementsFifo == Channel!Init /\ [][Channel!Next]_(Channel!vars)

(* What was accepted is handed over in the end, as long as the consumer    *)
(* keeps polling.                                                          *)
EveryMessageArrives ==
  \A n \in 1 .. MaxClaims : Len(sent) >= n ~> Len(delivered) >= n
=============================================================================
