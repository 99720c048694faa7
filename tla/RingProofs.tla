----------------------------- MODULE RingProofs -----------------------------
(***************************************************************************)
(* Proofs about the ring, for every number of slots and every split of     *)
(* messages over them, as long as the claim counts fit the Int32 words     *)
(* that publish them.                                                      *)
(***************************************************************************)
EXTENDS Ring, SequenceTheorems, TLAPS

(* No count reaches the first one an Int32 word cannot hold.               *)
CountsFit == MaxClaims < HalfRange
-----------------------------------------------------------------------------
(* Arithmetic of the slot index.                                           *)

(* A slot index is an index of the ring.                                   *)
LEMMA ModRange ==
  ASSUME NEW x \in Nat, NEW n \in Nat \ {0}
  PROVE  x % n \in 0 .. n - 1
  OBVIOUS

(* Division with remainder.                                                *)
LEMMA DivMod ==
  ASSUME NEW x \in Nat, NEW n \in Nat \ {0}
  PROVE  /\ x = n * (x \div n) + (x % n)
         /\ x \div n \in Nat
  OBVIOUS

(* A count below the modulus is its own remainder.                         *)
LEMMA ModSmall ==
  ASSUME NEW x \in Nat, NEW n \in Nat \ {0}, x < n
  PROVE  x % n = x
  OBVIOUS

(* A positive multiple is at least the factor.                             *)
LEMMA MultipleAtLeast ==
  ASSUME NEW n \in Nat \ {0}, NEW d \in Int, d >= 1
  PROVE  n * d >= n
  OBVIOUS

(* Two claims less than a lap apart use different slots.                   *)
LEMMA SlotsDiffer ==
  ASSUME NEW n \in Nat \ {0}, NEW i \in Nat, NEW j \in Nat, i < j, j < i + n
  PROVE  i % n # j % n
<1> SUFFICES ASSUME i % n = j % n PROVE FALSE
  OBVIOUS
<1> DEFINE q == i \div n
           r == j \div n
<1>1. /\ i = n * q + (i % n) /\ j = n * r + (j % n)
      /\ q \in Nat /\ r \in Nat /\ i % n \in 0 .. n - 1
  BY DivMod, ModRange
<1> HIDE DEF q, r
<1>2. j - i = n * r - n * q
  BY <1>1
<1>3. n * r - n * q = n * (r - q)
  BY <1>1
<1>4. CASE r - q >= 1
  BY <1>1, <1>2, <1>3, <1>4, MultipleAtLeast
<1>5. CASE r - q <= 0
  BY <1>1, <1>2, <1>3, <1>5
<1> QED
  BY <1>4, <1>5, <1>1

(* A count that fits is published as itself.                               *)
LEMMA Int32Fits ==
  ASSUME NEW n \in Nat, n < HalfRange
  PROVE  Int32(n) = n
<1>1. HalfRange \in Nat \ {0}
  BY RingAssumption
<1>2. n + HalfRange \in Nat /\ 2 * HalfRange \in Nat \ {0}
      /\ n + HalfRange < 2 * HalfRange
  BY <1>1
<1>3. (n + HalfRange) % (2 * HalfRange) = n + HalfRange
  BY <1>2, ModSmall
<1> QED
  BY <1>1, <1>3 DEF Int32
-----------------------------------------------------------------------------
(* The initial states.                                                     *)
LEMMA InitInv == Init => IInv
<1> SUFFICES ASSUME Init PROVE IInv
  OBVIOUS
<1> USE RingAssumption DEF Init
<1>1. TypeOK
  BY DEF TypeOK, Cells, Zero, Cell
<1>2. CountsAgree
  BY DEF CountsAgree
<1>3. StreamFramed /\ SlotsHold /\ DeliveredWholeInOrder
  BY DEF StreamFramed, SlotsHold, DeliveredWholeInOrder
<1>4. TailBetweenMessages /\ PopCopies
  BY DEF TailBetweenMessages, PopCopies
<1> QED
  BY <1>1, <1>2, <1>3, <1>4 DEF IInv

(* A push that begins claims room and moves nothing else.                  *)
LEMMA PushBeginsInv == ASSUME IInv, PushBegins PROVE IInv'
<1> USE RingAssumption DEF IInv, PushBegins, shared, consumer, history
<1>1. TypeOK'
  BY DEF TypeOK
<1>2. CountsAgree'
  BY DEF TypeOK, CountsAgree, Room
<1>3. StreamFramed'
  BY DEF StreamFramed, WholeMessageAt
<1>4. SlotsHold'
  <2>1. \A i \in 0 .. part' - 1 : FALSE
    BY DEF TypeOK
  <2> QED
    BY <2>1 DEF SlotsHold
<1>5. TailBetweenMessages' /\ PopCopies' /\ DeliveredWholeInOrder'
  BY DEF TailBetweenMessages, PopCopies, DeliveredWholeInOrder
<1> QED
  BY <1>1, <1>2, <1>3, <1>4, <1>5

(* A slot write lands outside the open claims.                             *)
LEMMA WritesPartInv == ASSUME IInv, WritesPart PROVE IInv'
<1> USE RingAssumption DEF IInv, WritesPart, consumer, history
<1> DEFINE here == (head + part) % Slots
<1>0. /\ head \in Nat /\ part \in Nat /\ tail \in Nat /\ pushing \in 0 .. Slots
      /\ part < pushing /\ tail <= head /\ head + pushing - tail <= Slots
  BY DEF TypeOK, CountsAgree
<1>h. here \in 0 .. Slots - 1
  <2>1. head + part \in Nat
    BY <1>0
  <2> QED
    BY <2>1, ModRange
<1>1. TypeOK'
  <2>1. Cell(NextMessage, part, pushing) \in Cells
    BY <1>0 DEF Cell, Cells, NextMessage, TypeOK
  <2> QED
    BY <1>0, <1>h, <2>1 DEF TypeOK
<1>2. CountsAgree'
  BY <1>0 DEF CountsAgree, TypeOK
<1>3. StreamFramed'
  BY DEF StreamFramed, WholeMessageAt
<1>4. SlotsHold'
  <2> HIDE DEF here
  <2>1. \A i \in 0 .. Slots - 1 : i # here => slots'[i] = slots[i]
    BY <1>0, <1>h DEF TypeOK, here
  <2>2. slots'[here] = Cell(NextMessage, part, pushing)
    BY <1>0, <1>h DEF TypeOK, here
  <2>3. ASSUME NEW c \in tail .. head - 1
        PROVE  slots'[c % Slots] = stream'[c + 1]
    <3>1. /\ c \in Nat /\ head + part \in Nat
          /\ c < head + part /\ head + part < c + Slots
      BY <1>0, <2>3
    <3>2. c % Slots # here
      BY <3>1, SlotsDiffer DEF here
    <3>3. c % Slots \in 0 .. Slots - 1
      BY <3>1, ModRange
    <3> QED
      BY <3>2, <3>3, <2>1, <2>3 DEF SlotsHold
  <2>4. ASSUME NEW i \in 0 .. part - 1
        PROVE  slots'[(head + i) % Slots] = Cell(NextMessage, i, pushing)
    <3>1. /\ head + i \in Nat /\ head + part \in Nat
          /\ head + i < head + part /\ head + part < (head + i) + Slots
      BY <1>0, <2>4
    <3>2. (head + i) % Slots # here
      BY <3>1, SlotsDiffer DEF here
    <3>3. (head + i) % Slots \in 0 .. Slots - 1
      BY <3>1, ModRange
    <3> QED
      BY <3>2, <3>3, <2>1, <2>4 DEF SlotsHold
  <2>5. \A i \in 0 .. part' - 1 : i \in 0 .. part - 1 \/ i = part
    BY <1>0
  <2> QED
    BY <2>2, <2>3, <2>4, <2>5 DEF SlotsHold, NextMessage, here
<1>5. TailBetweenMessages' /\ PopCopies' /\ DeliveredWholeInOrder'
  BY DEF TailBetweenMessages, PopCopies, DeliveredWholeInOrder
<1> QED
  BY <1>1, <1>2, <1>3, <1>4, <1>5

(* An abandoned claim leaves nothing behind.                               *)
LEMMA ClaimAbandonedInv == ASSUME IInv, ClaimAbandoned PROVE IInv'
<1> USE RingAssumption DEF IInv, ClaimAbandoned, shared, consumer, history
<1>1. TypeOK' /\ CountsAgree'
  BY DEF TypeOK, CountsAgree
<1>2. StreamFramed'
  BY DEF StreamFramed, WholeMessageAt
<1>3. SlotsHold'
  <2>1. \A i \in 0 .. part' - 1 : FALSE
    BY DEF TypeOK
  <2> QED
    BY <2>1 DEF SlotsHold
<1>4. TailBetweenMessages' /\ PopCopies' /\ DeliveredWholeInOrder'
  BY DEF TailBetweenMessages, PopCopies, DeliveredWholeInOrder
<1> QED
  BY <1>1, <1>2, <1>3, <1>4

(* What is published is one more whole message after the others, and its   *)
(* slots hold it.                                                          *)
LEMMA PublishesInv == ASSUME IInv, Publishes, CountsFit PROVE IInv'
<1> DEFINE n == NextMessage
           k == pushing
<1>0. /\ head \in Nat /\ k \in 1 .. Slots /\ tail \in Nat /\ tail <= head
      /\ head = Len(stream) /\ head + k \in Nat /\ head + k <= MaxClaims
      /\ part = k /\ n \in Nat /\ n = Len(sent) + 1
      /\ sent \in Seq(Nat) /\ stream \in Seq(Cells) /\ Slots \in Nat \ {0}
      /\ head + k - tail <= Slots /\ tailWord = tail /\ MaxClaims \in Nat
      /\ Len(sent) <= head
  BY RingAssumption
     DEF IInv, Publishes, TypeOK, CountsAgree, PartsWritten, NextMessage
<1>a. /\ slots' = slots /\ tailWord' = tailWord /\ tail' = tail
      /\ popping' = popping /\ copied' = copied /\ delivered' = delivered
      /\ respawns' = respawns /\ head' = head + k /\ pushing' = 0 /\ part' = 0
  BY DEF Publishes, consumer
<1>1. /\ Len(PublishedCells) = k /\ PublishedCells \in Seq(Cells)
      /\ \A i \in 1 .. k : PublishedCells[i] = Cell(n, i - 1, k)
  <2>1. \A i \in 1 .. k : Cell(n, i - 1, k) \in Cells
    BY <1>0 DEF Cell, Cells
  <2> QED
    BY <2>1, <1>0 DEF PublishedCells
<1>2. /\ stream' \in Seq(Cells) /\ Len(stream') = head + k
      /\ \A c \in 1 .. head : stream'[c] = stream[c]
      /\ \A c \in head + 1 .. head + k : stream'[c] = Cell(n, c - head - 1, k)
  <2>1. stream' = stream \o PublishedCells
    BY DEF Publishes
  <2>2. /\ stream' \in Seq(Cells)
        /\ Len(stream') = Len(stream) + Len(PublishedCells)
        /\ \A c \in 1 .. Len(stream) + Len(PublishedCells) :
             stream'[c] = IF c <= Len(stream)
                          THEN stream[c] ELSE PublishedCells[c - Len(stream)]
    BY <2>1, <1>0, <1>1, ConcatProperties
  <2> HIDE DEF n, k
  <2>3. \A c \in 1 .. head : stream'[c] = stream[c]
    BY <2>2, <1>0, <1>1
  <2>4. ASSUME NEW c \in head + 1 .. head + k
        PROVE  stream'[c] = Cell(n, c - head - 1, k)
    <3>1. c - head \in 1 .. k /\ c \in 1 .. head + k /\ ~(c <= head)
      BY <1>0
    <3>2. stream'[c] = PublishedCells[c - head]
      BY <3>1, <2>2, <1>0, <1>1
    <3> QED
      BY <3>1, <3>2, <1>1
  <2> QED
    BY <2>2, <2>3, <2>4, <1>0, <1>1
<1>c. stream'[head + 1] = Cell(n, 0, k)
  <2>1. head + 1 \in head + 1 .. head + k /\ (head + 1) - head - 1 = 0
    BY <1>0
  <2> HIDE DEF n, k
  <2> QED
    BY <2>1, <1>2
<1>3. /\ sent' \in Seq(Nat) /\ Len(sent') = n /\ sent'[n] = k
      /\ DOMAIN sent' = 1 .. n
      /\ \A m \in 1 .. Len(sent) : sent'[m] = sent[m]
  <2>1. sent' = Append(sent, k) /\ k \in Nat
    BY <1>0 DEF Publishes
  <2> QED
    BY <2>1, <1>0, AppendProperties
<1>4. headWord' = head + k
  <2>1. headWord' = Int32(head + k) /\ head + k < HalfRange
    BY <1>0, RingAssumption DEF CountsFit, Publishes
  <2> QED
    BY <2>1, <1>0, Int32Fits
<1>b. /\ TypeOK /\ CountsAgree /\ StreamFramed /\ SlotsHold
      /\ TailBetweenMessages /\ PopCopies /\ DeliveredWholeInOrder
  BY DEF IInv
<1> HIDE DEF n, k
<1>n. /\ head \in Nat /\ k \in Nat /\ k # 0 /\ tail \in Nat /\ MaxClaims \in Nat
      /\ Slots \in Nat /\ head + k <= MaxClaims /\ head + k - tail <= Slots
      /\ tail <= head /\ n \in Nat
  BY <1>0
<1>5. TypeOK'
  BY <1>0, <1>a, <1>b, <1>2, <1>3, <1>4 DEF TypeOK
<1>6. CountsAgree'
  <2>1. Len(sent') <= head + k
    BY <1>0, <1>3
  <2>2. /\ head' = Len(stream') /\ headWord' = head' /\ tailWord' = tail'
        /\ pushing' = 0 /\ part' = 0 /\ head' = head + k /\ tail' = tail
    BY <1>0, <1>a, <1>2, <1>4
  <2> QED
    BY <2>1, <2>2, <1>n DEF CountsAgree
<1>7. StreamFramed'
  <2> SUFFICES ASSUME NEW c \in 1 .. head + k, stream'[c].part = 0
               PROVE  WholeMessageAt(c)'
    BY <1>2 DEF StreamFramed
  <2>1. CASE c \in 1 .. head
    <3> DEFINE m == stream[c].msg
               j == stream[c].parts
    <3>1. stream'[c] = stream[c] /\ WholeMessageAt(c)
      BY <1>0, <1>b, <1>2, <2>1 DEF StreamFramed
    <3>2. /\ m \in DOMAIN sent /\ j = sent[m] /\ j # 0
          /\ c + j <= Len(stream) + 1
          /\ \A i \in 0 .. j - 1 : stream[c + i] = Cell(m, i, j)
          /\ c + j <= Len(stream) => /\ stream[c + j].part = 0
                                    /\ stream[c + j].msg = m + 1
          /\ c + j = Len(stream) + 1 => m = Len(sent)
      BY <3>1 DEF WholeMessageAt
    <3>a. /\ m \in 1 .. Len(sent) /\ m \in Nat /\ j \in Nat /\ j # 0
          /\ c \in Nat /\ 1 <= c /\ c <= head /\ c + j <= head + 1
          /\ head \in Nat /\ k \in Nat /\ k # 0 /\ Len(stream') = head + k
      <4>1. m \in 1 .. Len(sent) /\ sent[m] \in Nat
        BY <3>2, <1>0, SMTT(20)
      <4> QED
        BY <4>1, <3>2, <1>0, <2>1, <1>2
    <3> HIDE DEF m, j
    <3>3. m \in DOMAIN sent' /\ j = sent'[m]
      <4>1. m \in 1 .. n /\ m \in 1 .. Len(sent) /\ j = sent[m]
        <5>1. m \in 1 .. Len(sent) /\ Len(sent) \in Nat /\ n = Len(sent) + 1
          BY <3>a, <1>0
        <5> QED
          BY <5>1, <3>2
      <4> QED
        BY <4>1, <1>3
    <3>4. c + j <= Len(stream') + 1
      BY <3>a
    <3>5. \A i \in 0 .. j - 1 : stream'[c + i] = Cell(m, i, j)
      <4> TAKE i \in 0 .. j - 1
      <4>1. c + i \in 1 .. head
        BY <3>a
      <4>2. stream'[c + i] = stream[c + i]
        BY <4>1, <1>2
      <4> QED
        BY <4>2, <3>2
    <3>6. c + j <= Len(stream') =>
            stream'[c + j].part = 0 /\ stream'[c + j].msg = m + 1
      <4>1. CASE c + j <= head
        <5>1. c + j \in 1 .. head
          BY <4>1, <3>a
        <5>2. stream'[c + j] = stream[c + j]
          BY <5>1, <1>2
        <5> QED
          BY <5>2, <4>1, <3>2, <1>0
      <4>2. CASE c + j = head + 1
        <5>1. stream'[c + j] = Cell(n, 0, k)
          BY <4>2, <1>c
        <5>2. m + 1 = n
          BY <4>2, <3>2, <1>0
        <5> QED
          BY <5>1, <5>2 DEF Cell
      <4>4. c + j <= head \/ c + j = head + 1
        BY <3>a
      <4> QED
        BY <4>1, <4>2, <4>4
    <3>7. c + j # Len(stream') + 1
      BY <3>a
    <3> QED
      BY <3>1, <3>2, <3>3, <3>4, <3>5, <3>6, <3>7 DEF WholeMessageAt, m, j
  <2>2. CASE c \in head + 1 .. head + k
    <3>1. stream'[c] = Cell(n, c - head - 1, k)
      BY <2>2, <1>2
    <3>2. c = head + 1
      BY <3>1, <2>2, <1>0 DEF Cell
    <3>3. stream'[c].msg = n /\ stream'[c].parts = k
      BY <3>1 DEF Cell
    <3>4. \A i \in 0 .. k - 1 : stream'[c + i] = Cell(n, i, k)
      <4> TAKE i \in 0 .. k - 1
      <4>1. c + i \in head + 1 .. head + k /\ (c + i) - head - 1 = i
        BY <3>2, <1>n
      <4> QED
        BY <4>1, <1>2
    <3>5. n \in DOMAIN sent' /\ k = sent'[n] /\ k # 0 /\ n = Len(sent')
      BY <1>0, <1>3
    <3>6. c + k = Len(stream') + 1
      BY <3>2, <1>0, <1>2
    <3>7. ~(c + k <= Len(stream'))
      BY <3>6, <1>0, <1>2, <3>2
    <3> QED
      BY <3>3, <3>4, <3>5, <3>6, <3>7 DEF WholeMessageAt
  <2> QED
    BY <2>1, <2>2, <1>0
<1>8. SlotsHold'
  <2>1. \A i \in 0 .. part' - 1 : FALSE
    BY <1>a
  <2>2. ASSUME NEW c \in tail .. (head + k) - 1
        PROVE  slots[c % Slots] = stream'[c + 1]
    <3>1. CASE c < head
      <4>1. c \in tail .. head - 1 /\ c + 1 \in 1 .. head
        BY <3>1, <2>2, <1>0
      <4> QED
        BY <4>1, <1>2, <1>b DEF SlotsHold
    <3>2. CASE c >= head
      <4>1. /\ c - head \in 0 .. part - 1 /\ c = head + (c - head)
            /\ c + 1 \in head + 1 .. head + k /\ (c + 1) - head - 1 = c - head
        BY <3>2, <2>2, <1>0
      <4>2. slots[c % Slots] = Cell(n, c - head, k)
        BY <4>1, <1>b DEF SlotsHold, n, k
      <4> QED
        BY <4>1, <4>2, <1>2
    <3> QED
      BY <3>1, <3>2, <2>2, <1>0
  <2> QED
    BY <2>1, <2>2, <1>a DEF SlotsHold
<1>9. TailBetweenMessages'
  <2>1. CASE tail = head
    <3>1. stream'[tail + 1] = Cell(n, 0, k)
      BY <2>1, <1>c
    <3>2. Len(delivered) = Len(sent)
      BY <2>1, <1>b DEF TailBetweenMessages
    <3> QED
      BY <3>1, <3>2, <2>1, <1>0, <1>a DEF TailBetweenMessages, Cell
  <2>2. CASE tail # head
    <3>1. tail + 1 \in 1 .. head
      BY <2>2, <1>0
    <3> QED
      BY <3>1, <2>2, <1>0, <1>a, <1>b, <1>2 DEF TailBetweenMessages
  <2> QED
    BY <2>1, <2>2
<1>10. PopCopies'
  <2>1. CASE popping # 0
    <3>1. tail < head /\ popping = stream[tail + 1].parts
          /\ stream[tail + 1].part = 0 /\ tail + 1 \in 1 .. head
      BY <2>1, <1>0, <1>b DEF PopCopies, TailBetweenMessages
    <3>2. tail + 1 + popping <= head + 1
      BY <3>1, <1>0, <1>b DEF StreamFramed, WholeMessageAt
    <3>3. /\ copied \in Seq(Cells) /\ Len(copied) <= popping
          /\ popping \in Nat /\ Len(copied) \in Nat /\ DOMAIN copied = 1 .. Len(copied)
      BY <1>b DEF PopCopies, TypeOK
    <3>4. \A i \in 1 .. Len(copied) : tail + i \in 1 .. head
      <4> SUFFICES ASSUME NEW i \in 1 .. Len(copied)
                   PROVE  tail + i \in 1 .. head
        OBVIOUS
      <4>1. i \in Nat /\ 1 <= i /\ i <= popping
        BY <3>3
      <4>2. tail \in Nat /\ head \in Nat /\ tail + popping <= head
        BY <3>2, <3>3, <1>0
      <4> QED
        BY <4>1, <4>2, <3>3
    <3>5. \A i \in DOMAIN copied : copied[i] = stream'[tail + i]
      BY <3>3, <3>4, <1>b, <1>2 DEF PopCopies
    <3>6. tail < head + k /\ popping = stream'[tail + 1].parts
      BY <3>1, <1>0, <1>2
    <3> QED
      BY <3>3, <3>5, <3>6, <1>a DEF PopCopies
  <2>2. CASE popping = 0
    <3>1. DOMAIN copied = {}
      BY <2>2, <1>b DEF PopCopies, TypeOK
    <3> QED
      BY <3>1, <2>2, <1>a DEF PopCopies
  <2> QED
    BY <2>1, <2>2
<1>11. DeliveredWholeInOrder'
  <2> SUFFICES ASSUME NEW d \in DOMAIN delivered
               PROVE  /\ d \in DOMAIN sent'
                      /\ Len(delivered[d]) = sent'[d]
                      /\ \A i \in 1 .. Len(delivered[d]) :
                           delivered[d][i] = Cell(d, i - 1, sent'[d])
    BY <1>a DEF DeliveredWholeInOrder
  <2>1. d \in 1 .. Len(sent) /\ d \in 1 .. n
    <3>1. d \in DOMAIN sent
      BY <1>b DEF DeliveredWholeInOrder
    <3>2. d \in 1 .. Len(sent) /\ Len(sent) \in Nat /\ n = Len(sent) + 1
      BY <3>1, <1>0
    <3> QED
      BY <3>2
  <2>2. sent'[d] = sent[d] /\ d \in DOMAIN sent'
    BY <2>1, <1>3
  <2> QED
    BY <2>2, <1>b DEF DeliveredWholeInOrder
<1> QED
  BY <1>5, <1>6, <1>7, <1>8, <1>9, <1>10, <1>11 DEF IInv

(* The message at the tail: whole in the stream and whole in its slots.    *)
LEMMA MessageAtTail ==
  ASSUME IInv, tail < head
  PROVE  LET k == stream[tail + 1].parts
             m == Len(delivered) + 1
         IN  /\ k \in Nat \ {0} /\ tail + k <= head
             /\ m \in DOMAIN sent /\ k = sent[m]
             /\ slots[tail % Slots].parts = k
             /\ \A i \in 0 .. k - 1 :
                  /\ stream[(tail + 1) + i] = Cell(m, i, k)
                  /\ slots[(tail + i) % Slots] = stream[(tail + 1) + i]
             /\ tail + k < head => /\ stream[tail + k + 1].part = 0
                                   /\ stream[tail + k + 1].msg = m + 1
             /\ tail + k = head => m = Len(sent)
<1> DEFINE c == tail + 1
           k == stream[c].parts
           m == Len(delivered) + 1
<1>0. /\ head \in Nat /\ tail \in Nat /\ head = Len(stream)
      /\ c \in 1 .. Len(stream) /\ stream \in Seq(Cells)
      /\ sent \in Seq(Nat) /\ Slots \in Nat \ {0}
  BY RingAssumption DEF IInv, TypeOK, CountsAgree
<1>1. stream[c].part = 0 /\ stream[c].msg = m
  <2>1. tail # head
    BY <1>0
  <2> QED
    BY <2>1 DEF IInv, TailBetweenMessages
<1>2. WholeMessageAt(c)
  BY <1>0, <1>1 DEF IInv, StreamFramed
<1>3. /\ m \in DOMAIN sent /\ k = sent[m] /\ k # 0
      /\ c + k <= Len(stream) + 1
      /\ \A i \in 0 .. k - 1 : stream[c + i] = Cell(m, i, k)
      /\ c + k <= Len(stream) => /\ stream[c + k].part = 0
                                /\ stream[c + k].msg = m + 1
      /\ c + k = Len(stream) + 1 => m = Len(sent)
  BY <1>1, <1>2 DEF WholeMessageAt
<1>4. k \in Nat
  BY <1>3, <1>0
<1> HIDE DEF k, m
<1>5. tail + k <= head /\ c + k = tail + k + 1
  BY <1>0, <1>3, <1>4
<1>6. ASSUME NEW i \in 0 .. k - 1
      PROVE  slots[(tail + i) % Slots] = stream[c + i]
  <2>1. tail + i \in tail .. head - 1 /\ (tail + i) + 1 = c + i
    BY <1>0, <1>4, <1>5
  <2> QED
    BY <2>1 DEF IInv, SlotsHold
<1>7. slots[tail % Slots].parts = k
  <2>1. 0 \in 0 .. k - 1 /\ tail + 0 = tail /\ c + 0 = c
    BY <1>0, <1>3, <1>4
  <2>2. slots[tail % Slots] = stream[c]
    BY <2>1, <1>6
  <2> QED
    BY <2>2 DEF k
<1>8. /\ tail + k < head => /\ stream[tail + k + 1].part = 0
                            /\ stream[tail + k + 1].msg = m + 1
      /\ tail + k = head => m = Len(sent)
  <2>1. /\ tail + k < head => c + k <= Len(stream)
        /\ tail + k = head => c + k = Len(stream) + 1
    BY <1>0, <1>4, <1>5
  <2> QED
    BY <2>1, <1>3, <1>5
<1>9. k \in Nat \ {0}
  BY <1>3, <1>4
<1> QED
  BY <1>3, <1>5, <1>6, <1>7, <1>8, <1>9 DEF k, m

(* A pop that begins reads the length of the message at the tail.          *)
LEMMA PopBeginsInv == ASSUME IInv, PopBegins PROVE IInv'
<1>0. /\ tail < head /\ tail \in Nat /\ head \in Nat
      /\ popping' = slots[tail % Slots].parts /\ copied' = << >>
  BY DEF IInv, PopBegins, CountsAgree, TypeOK
<1>a. /\ slots' = slots /\ headWord' = headWord /\ tailWord' = tailWord
      /\ head' = head /\ pushing' = pushing /\ part' = part /\ tail' = tail
      /\ sent' = sent /\ stream' = stream /\ delivered' = delivered
      /\ respawns' = respawns
  BY DEF PopBegins, shared, producer, history
<1>1. popping' = stream[tail + 1].parts /\ popping' \in Nat
  BY <1>0, MessageAtTail
<1>2. TypeOK' /\ CountsAgree'
  BY <1>0, <1>1, <1>a DEF IInv, TypeOK, CountsAgree
<1>3. StreamFramed' /\ SlotsHold'
  BY <1>a DEF IInv, StreamFramed, WholeMessageAt, SlotsHold, NextMessage
<1>4. TailBetweenMessages' /\ DeliveredWholeInOrder'
  BY <1>a DEF IInv, TailBetweenMessages, DeliveredWholeInOrder
<1>5. PopCopies'
  BY <1>0, <1>1, <1>a DEF PopCopies
<1> QED
  BY <1>2, <1>3, <1>4, <1>5 DEF IInv

(* A copy takes the next slot of that message as it was published.         *)
LEMMA CopiesPartInv == ASSUME IInv, CopiesPart PROVE IInv'
<1> DEFINE n == Len(copied)
           cell == slots[(tail + n) % Slots]
<1>0. /\ tail < head /\ tail \in Nat /\ head \in Nat /\ n \in Nat
      /\ popping \in Nat /\ n < popping /\ popping = stream[tail + 1].parts
  BY DEF IInv, CopiesPart, PopCopies, CountsAgree, TypeOK
<1>s. /\ copied \in Seq(Cells) /\ slots \in [0 .. Slots - 1 -> Cells]
      /\ Slots \in Nat \ {0}
      /\ \A i \in 1 .. n : copied[i] = stream[tail + i]
  BY RingAssumption DEF IInv, PopCopies, TypeOK
<1>a. /\ slots' = slots /\ headWord' = headWord /\ tailWord' = tailWord
      /\ head' = head /\ pushing' = pushing /\ part' = part /\ tail' = tail
      /\ sent' = sent /\ stream' = stream /\ delivered' = delivered
      /\ respawns' = respawns /\ popping' = popping
      /\ copied' = Append(copied, cell)
  BY DEF CopiesPart, shared, producer, history
<1>1. cell = stream[tail + (n + 1)]
  <2>1. n \in 0 .. popping - 1 /\ (tail + 1) + n = tail + (n + 1)
    <3> HIDE DEF n
    <3> QED
      BY <1>0
  <2> QED
    BY <2>1, <1>0, MessageAtTail
<1>2. cell \in Cells
  <2>1. (tail + n) % Slots \in 0 .. Slots - 1
    <3>1. tail + n \in Nat
      BY <1>0
    <3> QED
      BY <3>1, <1>s, ModRange
  <2> QED
    BY <2>1, <1>s
<1> HIDE DEF cell
<1>3. /\ copied' \in Seq(Cells) /\ Len(copied') = n + 1
      /\ \A i \in 1 .. n : copied'[i] = copied[i]
      /\ copied'[n + 1] = cell
  BY <1>s, <1>2, <1>a, AppendProperties
<1>4. TypeOK' /\ CountsAgree'
  BY <1>0, <1>3, <1>a DEF IInv, TypeOK, CountsAgree
<1>5. StreamFramed' /\ SlotsHold'
  BY <1>a DEF IInv, StreamFramed, WholeMessageAt, SlotsHold, NextMessage
<1>6. TailBetweenMessages' /\ DeliveredWholeInOrder'
  BY <1>a DEF IInv, TailBetweenMessages, DeliveredWholeInOrder
<1>7. PopCopies'
  <2>1. \A i \in DOMAIN copied' : copied'[i] = stream[tail + i]
    <3> SUFFICES ASSUME NEW i \in 1 .. n + 1
                 PROVE  copied'[i] = stream[tail + i]
      BY <1>0, <1>3
    <3>1. CASE i \in 1 .. n
      BY <3>1, <1>s, <1>3
    <3>2. CASE i = n + 1
      BY <3>2, <1>1, <1>3
    <3> HIDE DEF n
    <3>3. i \in 1 .. n \/ i = n + 1
      BY <1>0
    <3> QED
      BY <3>1, <3>2, <3>3
  <2> QED
    BY <2>1, <1>0, <1>3, <1>a DEF PopCopies
<1> QED
  BY <1>4, <1>5, <1>6, <1>7 DEF IInv

(* A finished pop hands over exactly the next message and leaves the tail  *)
(* at the start of the one after it.                                       *)
LEMMA ReleasesInv == ASSUME IInv, Releases, CountsFit PROVE IInv'
<1> DEFINE m == Len(delivered) + 1
           k == popping
<1>0. /\ tail < head /\ tail \in Nat /\ head \in Nat /\ k \in Nat \ {0}
      /\ k = stream[tail + 1].parts /\ Len(copied) = k
      /\ copied \in Seq(Cells) /\ delivered \in Seq(Seq(Cells))
  BY DEF IInv, Releases, CopyDone, PopCopies, CountsAgree, TypeOK
<1>s. \A i \in 1 .. k : copied[i] = stream[tail + i]
  <2>1. DOMAIN copied = 1 .. k
    BY <1>0
  <2> QED
    BY <2>1 DEF IInv, PopCopies
<1>1. /\ tail + k <= head /\ m \in DOMAIN sent /\ k = sent[m]
      /\ \A i \in 0 .. k - 1 : stream[(tail + 1) + i] = Cell(m, i, k)
      /\ tail + k < head => /\ stream[tail + k + 1].part = 0
                            /\ stream[tail + k + 1].msg = m + 1
      /\ tail + k = head => m = Len(sent)
  BY <1>0, MessageAtTail
<1>a. /\ slots' = slots /\ headWord' = headWord /\ head' = head
      /\ pushing' = pushing /\ part' = part /\ sent' = sent
      /\ stream' = stream /\ respawns' = respawns
      /\ tail' = tail + k /\ popping' = 0 /\ copied' = << >>
      /\ tailWord' = Int32(tail + k)
      /\ delivered' = Append(delivered, copied)
  BY DEF Releases, TailAfter, producer
<1>2. /\ delivered' \in Seq(Seq(Cells)) /\ Len(delivered') = m
      /\ \A n \in 1 .. Len(delivered) : delivered'[n] = delivered[n]
      /\ delivered'[m] = copied
      /\ DOMAIN delivered' = 1 .. m /\ Len(delivered) \in Nat
  <2>1. copied \in Seq(Cells)
    BY <1>0
  <2> QED
    BY <2>1, <1>0, <1>a, AppendProperties
<1>b. /\ head <= MaxClaims /\ MaxClaims \in Nat /\ pushing \in Nat /\ Slots \in Nat
      /\ head + pushing - tail <= Slots /\ headWord = head
      /\ head + pushing <= MaxClaims /\ part <= pushing /\ head = Len(stream)
      /\ Len(sent) <= head
  BY RingAssumption DEF IInv, CountsAgree, TypeOK
<1> HIDE DEF m, k
<1>r. tail + k <= head /\ tail + k \in Nat
  BY <1>0, <1>1
<1>3. tailWord' = tail + k
  <2>1. tail + k \in Nat /\ tail + k < HalfRange
    BY <1>r, <1>0, <1>b, RingAssumption, SMTT(20) DEF CountsFit
  <2> QED
    BY <2>1, <1>a, Int32Fits
<1>4. TypeOK'
  <2>1. /\ slots' \in [0 .. Slots - 1 -> Cells] /\ headWord' \in Int
        /\ head' \in Nat /\ pushing' \in 0 .. Slots /\ part' \in Nat
        /\ sent' \in Seq(Nat) /\ stream' \in Seq(Cells) /\ respawns' \in Nat
    BY <1>a DEF IInv, TypeOK
  <2>2. tailWord' \in Int /\ tail' \in Nat
    BY <1>r, <1>3, <1>a
  <2>3. popping' \in Nat /\ copied' \in Seq(Cells)
    BY <1>a
  <2> QED
    BY <2>1, <2>2, <2>3, <1>2 DEF TypeOK
<1>5. CountsAgree'
  <2>1. tail + k <= head /\ head + pushing - (tail + k) <= Slots
    BY <1>0, <1>1, <1>b
  <2> QED
    BY <2>1, <1>3, <1>a, <1>b DEF CountsAgree
<1>6. StreamFramed'
  BY <1>a DEF IInv, StreamFramed, WholeMessageAt
<1>7. SlotsHold'
  <2>1. \A c \in tail' .. head - 1 : c \in tail .. head - 1
    BY <1>0, <1>a
  <2> QED
    BY <2>1, <1>a DEF IInv, SlotsHold, NextMessage
<1>8. TailBetweenMessages'
  <2>1. CASE tail + k = head
    <3>1. Len(delivered') = Len(sent')
      BY <2>1, <1>1, <1>2, <1>a
    <3> QED
      BY <3>1, <2>1, <1>a DEF TailBetweenMessages
  <2>2. CASE tail + k < head
    <3>1. stream'[tail' + 1].part = 0 /\ stream'[tail' + 1].msg = Len(delivered') + 1
      BY <2>2, <1>1, <1>2, <1>a
    <3>2. tail' # head'
      BY <2>2, <1>0, <1>a
    <3> QED
      BY <3>1, <3>2 DEF TailBetweenMessages
  <2>3. tail + k = head \/ tail + k < head
    BY <1>0, <1>r
  <2> QED
    BY <2>1, <2>2, <2>3
<1>9. PopCopies'
  BY <1>a DEF PopCopies
<1>10. DeliveredWholeInOrder'
  <2> SUFFICES ASSUME NEW n \in 1 .. m
               PROVE  /\ n \in DOMAIN sent
                      /\ Len(delivered'[n]) = sent[n]
                      /\ \A i \in 1 .. Len(delivered'[n]) :
                           delivered'[n][i] = Cell(n, i - 1, sent[n])
    BY <1>2, <1>a DEF DeliveredWholeInOrder
  <2>1. CASE n \in 1 .. Len(delivered)
    <3>1. n \in DOMAIN delivered /\ delivered'[n] = delivered[n]
      BY <2>1, <1>0, <1>2
    <3> QED
      BY <3>1 DEF IInv, DeliveredWholeInOrder
  <2>2. CASE n = m
    <3>1. \A i \in 1 .. k : copied[i] = Cell(m, i - 1, k)
      <4> TAKE i \in 1 .. k
      <4>1. i - 1 \in 0 .. k - 1 /\ (tail + 1) + (i - 1) = tail + i
        BY <1>0
      <4>2. stream[tail + i] = Cell(m, i - 1, k)
        BY <4>1, <1>1
      <4> QED
        BY <4>2, <1>s
    <3> QED
      BY <2>2, <3>1, <1>0, <1>1, <1>2
  <2>3. n \in 1 .. Len(delivered) \/ n = m
    BY <1>2 DEF m
  <2> QED
    BY <2>1, <2>2, <2>3
<1> QED
  BY <1>4, <1>5, <1>6, <1>7, <1>8, <1>9, <1>10 DEF IInv

(* A producer built again starts where the dead one had published.         *)
LEMMA ProducerRespawnsInv == ASSUME IInv, ProducerRespawns PROVE IInv'
<1> USE RingAssumption DEF IInv, ProducerRespawns, shared, consumer, history
<1>1. TypeOK' /\ CountsAgree'
  BY DEF TypeOK, CountsAgree
<1>2. StreamFramed'
  BY DEF StreamFramed, WholeMessageAt
<1>3. SlotsHold'
  <2>1. head' = head /\ \A i \in 0 .. part' - 1 : FALSE
    BY DEF CountsAgree
  <2> QED
    BY <2>1 DEF SlotsHold
<1>4. TailBetweenMessages' /\ PopCopies' /\ DeliveredWholeInOrder'
  BY DEF TailBetweenMessages, PopCopies, DeliveredWholeInOrder, CountsAgree
<1> QED
  BY <1>1, <1>2, <1>3, <1>4

(* A consumer built again starts at the first message not handed over.     *)
LEMMA ConsumerRespawnsInv == ASSUME IInv, ConsumerRespawns PROVE IInv'
<1>a. /\ slots' = slots /\ headWord' = headWord /\ tailWord' = tailWord
      /\ head' = head /\ pushing' = pushing /\ part' = part /\ tail' = tail
      /\ sent' = sent /\ stream' = stream /\ delivered' = delivered
      /\ respawns' = respawns + 1 /\ popping' = 0 /\ copied' = << >>
  BY DEF IInv, CountsAgree, ConsumerRespawns, TailOnRespawn, shared, producer,
         history
<1>1. TypeOK' /\ CountsAgree'
  BY <1>a DEF IInv, TypeOK, CountsAgree
<1>2. StreamFramed' /\ SlotsHold'
  BY <1>a DEF IInv, StreamFramed, WholeMessageAt, SlotsHold, NextMessage
<1>3. TailBetweenMessages' /\ PopCopies' /\ DeliveredWholeInOrder'
  BY <1>a DEF IInv, TailBetweenMessages, PopCopies, DeliveredWholeInOrder
<1> QED
  BY <1>1, <1>2, <1>3 DEF IInv

(* Every step keeps the invariant.                                         *)
LEMMA NextInv == ASSUME IInv, [Next]_vars, CountsFit PROVE IInv'
<1>1. CASE PushBegins
  BY <1>1, PushBeginsInv
<1>2. CASE WritesPart
  BY <1>2, WritesPartInv
<1>3. CASE Publishes
  BY <1>3, PublishesInv
<1>4. CASE ClaimAbandoned
  BY <1>4, ClaimAbandonedInv
<1>5. CASE PopBegins
  BY <1>5, PopBeginsInv
<1>6. CASE CopiesPart
  BY <1>6, CopiesPartInv
<1>7. CASE Releases
  BY <1>7, ReleasesInv
<1>8. CASE ProducerRespawns
  BY <1>8, ProducerRespawnsInv
<1>9. CASE ConsumerRespawns
  BY <1>9, ConsumerRespawnsInv
<1>10. CASE UNCHANGED vars
  BY <1>10 DEF vars, shared, producer, consumer, history, IInv, TypeOK,
     CountsAgree, StreamFramed, WholeMessageAt, SlotsHold, NextMessage,
     TailBetweenMessages, PopCopies, DeliveredWholeInOrder
<1> QED
  BY <1>1, <1>2, <1>3, <1>4, <1>5, <1>6, <1>7, <1>8, <1>9, <1>10
     DEF Next, Produce, Consume, Respawn
-----------------------------------------------------------------------------
(* The invariant holds in every reachable state.                           *)
THEOREM RingInvariant == ASSUME CountsFit PROVE Spec => []IInv
<1>1. Init => IInv
  BY InitInv
<1>2. IInv /\ [Next]_vars => IInv'
  BY NextInv
<1> QED
  BY <1>1, <1>2, PTL DEF Spec

(* Type correctness of the ring.                                           *)
THEOREM RingTypeOK == ASSUME CountsFit PROVE Spec => []TypeOK
<1>1. IInv => TypeOK
  BY DEF IInv
<1> QED
  BY <1>1, RingInvariant, PTL

(* Every pop hands over the next message, whole (popInto, tryPush).        *)
THEOREM RingDeliversInOrder ==
  ASSUME CountsFit PROVE Spec => []DeliveredWholeInOrder
<1>1. IInv => DeliveredWholeInOrder
  BY DEF IInv
<1> QED
  BY <1>1, RingInvariant, PTL

(* The invariant keeps the slots of the two ends apart.                    *)
LEMMA SlotsApart == IInv => NoSlotShared
<1> SUFFICES ASSUME IInv,
                    NEW i \in 0 .. pushing - 1, NEW j \in 0 .. popping - 1,
                    (head + i) % Slots = (tail + j) % Slots
             PROVE  FALSE
  BY DEF NoSlotShared, Claimed, Borrowed
<1>1. /\ head \in Nat /\ tail \in Nat /\ pushing \in Nat /\ popping \in Nat
      /\ Slots \in Nat \ {0} /\ head + pushing - tail <= Slots
      /\ tail < head /\ popping = stream[tail + 1].parts
  BY RingAssumption DEF IInv, TypeOK, CountsAgree, PopCopies
<1>2. tail + popping <= head
  BY <1>1, MessageAtTail
<1>3. /\ tail + j \in Nat /\ head + i \in Nat
      /\ tail + j < head + i /\ head + i < (tail + j) + Slots
  BY <1>1, <1>2, SMTT(20)
<1> QED
  BY <1>1, <1>3, SlotsDiffer

(* The two workers never touch one slot at the same time (tryPush,         *)
(* tryClaim, popInto, peek).                                               *)
THEOREM RingSharesNoSlot == ASSUME CountsFit PROVE Spec => []NoSlotShared
<1>1. IInv => NoSlotShared
  BY SlotsApart
<1> QED
  BY <1>1, RingInvariant, PTL
-----------------------------------------------------------------------------
(* Refinement of the ordered channel.                                      *)

Offered(q) == [n \in DOMAIN q |-> [msg |-> n, parts |-> q[n]]]
Taken(q)   == [n \in DOMAIN q |-> Reported(q[n])]

(* Appending to a sequence appends to what a numbered map makes of it.     *)
LEMMA MapOfAppend ==
  ASSUME NEW S, NEW q \in Seq(S), NEW e \in S, NEW f, NEW g,
         f = [n \in 1 .. Len(q) |-> g[n]],
         NEW h, h = [n \in 1 .. Len(q) + 1 |-> g[n]]
  PROVE  h = Append(f, g[Len(q) + 1])
<1>1. Len(q) \in Nat
  OBVIOUS
<1>2. f \in Seq({ g[n] : n \in 1 .. Len(q) + 1 }) /\ Len(f) = Len(q)
  BY <1>1
<1>3. h \in Seq({ g[n] : n \in 1 .. Len(q) + 1 }) /\ Len(h) = Len(q) + 1
  BY <1>1
<1>4. g[Len(q) + 1] \in { g[n] : n \in 1 .. Len(q) + 1 }
  BY <1>1
<1> DEFINE a == Append(f, g[Len(q) + 1])
<1>5. /\ a \in Seq({ g[n] : n \in 1 .. Len(q) + 1 }) /\ Len(a) = Len(q) + 1
      /\ \A n \in 1 .. Len(q) : a[n] = f[n]
      /\ a[Len(q) + 1] = g[Len(q) + 1]
  BY <1>2, <1>4, AppendProperties
<1>6. \A n \in 1 .. Len(h) : h[n] = a[n]
  <2>1. \A n \in 1 .. Len(q) + 1 : n \in 1 .. Len(q) \/ n = Len(q) + 1
    BY <1>1
  <2> QED
    BY <2>1, <1>1, <1>3, <1>5
<1> QED
  BY <1>3, <1>5, <1>6, SeqEqual

(* A fresh ring is an empty channel.                                       *)
LEMMA InitRefines == Init => Channel!Init
  BY DEF Init, Channel!Init

(* Publishing the head is the channel's Push.                              *)
LEMMA PublishesPushes == ASSUME IInv, Publishes, CountsFit PROVE Channel!Push
<1> DEFINE n == Len(sent) + 1
           m == [msg |-> n, parts |-> pushing]
<1>1. /\ sent \in Seq(Nat) /\ pushing \in 1 .. Slots /\ pushing \in Nat
      /\ n \in 1 .. MaxClaims
      /\ sent' = Append(sent, pushing) /\ delivered' = delivered
  BY RingAssumption DEF IInv, TypeOK, CountsAgree, Publishes, PartsWritten
<1>2. /\ sent' \in Seq(Nat) /\ Len(sent') = n /\ sent'[n] = pushing
      /\ \A i \in 1 .. Len(sent) : sent'[i] = sent[i]
      /\ DOMAIN sent = 1 .. Len(sent) /\ DOMAIN sent' = 1 .. n
      /\ Len(sent) \in Nat
  BY <1>1, AppendProperties
<1>3. Offered(sent') = [i \in 1 .. n |-> Offered(sent')[i]]
  BY <1>2 DEF Offered
<1>4. Offered(sent) = [i \in 1 .. Len(sent) |-> Offered(sent')[i]]
  BY <1>2 DEF Offered
<1>5. Offered(sent')[n] = m
  BY <1>2 DEF Offered
<1>6. Offered(sent') = Append(Offered(sent), m)
  BY <1>1, <1>3, <1>4, <1>5, MapOfAppend
<1>7. m \in [msg : 1 .. MaxClaims, parts : 1 .. Slots]
  BY <1>1
<1> QED
  BY <1>1, <1>6, <1>7 DEF Channel!Push, Offered

(* Releasing a message is the channel's Pop.                               *)
LEMMA ReleasesPops == ASSUME IInv, Releases, CountsFit PROVE Channel!Pop
<1> DEFINE n == Len(delivered) + 1
<1>1. /\ delivered \in Seq(Seq(Cells)) /\ copied \in Seq(Cells)
      /\ Len(delivered) \in Nat /\ tail < head /\ popping \in Nat \ {0}
      /\ popping = stream[tail + 1].parts /\ Len(copied) = popping
      /\ DOMAIN copied = 1 .. popping /\ tail \in Nat /\ sent \in Seq(Nat)
      /\ delivered' = Append(delivered, copied) /\ sent' = sent
  BY DEF IInv, TypeOK, CountsAgree, PopCopies, Releases, CopyDone
<1>2. /\ n \in DOMAIN sent /\ popping = sent[n]
      /\ \A i \in 0 .. popping - 1 : stream[(tail + 1) + i] = Cell(n, i, popping)
  BY <1>1, MessageAtTail
<1>3. copied[1].msg = n
  <2>1. 1 \in 1 .. popping /\ 0 \in 0 .. popping - 1 /\ (tail + 1) + 0 = tail + 1
    BY <1>1
  <2>2. copied[1] = Cell(n, 0, popping)
    BY <2>1, <1>1, <1>2 DEF IInv, PopCopies
  <2> QED
    BY <2>2 DEF Cell
<1>4. /\ delivered' \in Seq(Seq(Cells)) /\ Len(delivered') = n
      /\ delivered'[n] = copied
      /\ \A i \in 1 .. Len(delivered) : delivered'[i] = delivered[i]
      /\ DOMAIN delivered = 1 .. Len(delivered) /\ DOMAIN delivered' = 1 .. n
  BY <1>1, AppendProperties
<1>5. Taken(delivered') = [i \in 1 .. n |-> Taken(delivered')[i]]
  BY <1>4 DEF Taken
<1>6. Taken(delivered) = [i \in 1 .. Len(delivered) |-> Taken(delivered')[i]]
  BY <1>4, <1>1 DEF Taken
<1>7. Taken(delivered')[n] = Offered(sent)[n]
  BY <1>1, <1>2, <1>3, <1>4 DEF Taken, Offered, Reported
<1>8. Taken(delivered') = Append(Taken(delivered), Offered(sent)[n])
  BY <1>1, <1>5, <1>6, <1>7, MapOfAppend
<1>9. /\ Len(Taken(delivered)) = Len(delivered)
      /\ Len(Offered(sent)) = Len(sent) /\ Len(delivered) < Len(sent)
  BY <1>1, <1>2, <1>4 DEF Taken, Offered
<1> QED
  BY <1>1, <1>8, <1>9 DEF Channel!Pop, Offered, Taken

(* Every other step leaves the channel as it was.                          *)
LEMMA NextRefines ==
  ASSUME IInv, [Next]_vars, CountsFit
  PROVE  [Channel!Next]_(Channel!vars)
<1>1. CASE Publishes
  BY <1>1, PublishesPushes DEF Channel!Next
<1>2. CASE Releases
  BY <1>2, ReleasesPops DEF Channel!Next
<1>3. CASE sent' = sent /\ delivered' = delivered
  BY <1>3 DEF Channel!vars
<1>4. Publishes \/ Releases \/ (sent' = sent /\ delivered' = delivered)
  BY DEF Next, Produce, Consume, Respawn, PushBegins, WritesPart, ClaimAbandoned,
     PopBegins, CopiesPart, ProducerRespawns, ConsumerRespawns, vars, history
<1> QED
  BY <1>1, <1>2, <1>3, <1>4

(* The ring implements the lossless ordered channel of Fifo (ADR 0015      *)
(* section 2): every step of either worker is a push, a pop or invisible.  *)
THEOREM RingRefinesFifo == ASSUME CountsFit PROVE Spec => ImplementsFifo
<1>1. Init => Channel!Init
  BY InitRefines
<1>2. IInv /\ [Next]_vars => [Channel!Next]_(Channel!vars)
  BY NextRefines
<1> QED
  BY <1>1, <1>2, RingInvariant, PTL DEF Spec, ImplementsFifo
=============================================================================
