-------------------------- MODULE PersistenceProofs --------------------------
(***************************************************************************)
(* Proofs that a world's log, snapshots and manifest survive what the      *)
(* process and the machine do to them, for every number of actions, ticks, *)
(* segments, crashes and snapshots.                                        *)
(***************************************************************************)
EXTENDS PersistenceProperties, ProofLemmas, FiniteSetTheorems, SequenceTheorems

(* The ways of keeping a world that the code runs under.  Its creation is  *)
(* durable before it starts; where an operating-system crash is possible a *)
(* snapshot lands after the log bytes it names; and where the log is       *)
(* rolled, whole-key writes land at once and no snapshot is lost to a trap *)
(* or a bad checksum (MCPersistenceRollTrap shows what happens if one is). *)
Sound ==
  /\ CreateSettled
  /\ MaxOsCrash > 0 => WritesLag /\ ~SnapshotOutrunsLog
  /\ MaxSegment > 0 => /\ ~WritesLag
                       /\ MaxOsCrash = 0
                       /\ MaxSnapshotTrap = 0
                       /\ MaxCorrupt = 0
-----------------------------------------------------------------------------
(***************************************************************************)
(* A segment as its reader sees it.  Frame n is cells 2n and 2n+1, behind  *)
(* the header, so that n whole frames end at offset 2n+1.                  *)
(***************************************************************************)
Cell ==
  [kind : {"header"}]
  \cup [kind : {"frame"}, part : 1..2, delta : Nat, ids : Seq(Actions)]
  \cup [kind : {"skip"}, part : 1..2, segment : Segments, at : Nat \X Nat]

WholeFrames(cells) == {n \in 1..Len(cells) : 2 * n + 1 <= Len(cells)}

IdsOf(cells, n) == cells[2 * n].ids

DeltaOf(cells, n) == cells[2 * n].delta

LogFrames(cells) == {n \in WholeFrames(cells) : cells[2 * n].kind = "frame"}

(* What a Skip frame may name: a record of an earlier frame, which traps.  *)
Names(cells, n, at) ==
  \E j \in LogFrames(cells) :
    /\ j < n
    /\ \E i \in DOMAIN IdsOf(cells, j) :
         at = << 2 * j - 1, i >> /\ IdsOf(cells, j)[i] \in Poison

(* The frames n that is whole reads back so. *)
WholeFrame(cells, n) ==
  /\ cells[2 * n].kind # "header"
  /\ cells[2 * n].part = 1
  /\ cells[2 * n + 1] = [cells[2 * n] EXCEPT !.part = 2]
  /\ cells[2 * n].kind = "frame" => IdsOf(cells, n) # << >>
  /\ cells[2 * n].kind = "skip" => Names(cells, n, cells[2 * n].at)

Parsed(cells) ==
  /\ cells \in Seq(Cell)
  /\ Len(cells) >= 1
  /\ cells[1].kind = "header"
  /\ \A n \in WholeFrames(cells) : WholeFrame(cells, n)

(* The tick a log frame was sealed for. *)
When(cells, n, st) == st[IdsOf(cells, n)[1]]

(* What the next delta counts from once n frames are read: the tick of the *)
(* last log frame among them, or the tick the segment began with.          *)
LagIs(cells, n, st, first, lag) ==
  /\ (\A j \in LogFrames(cells) : j > n) => lag = first
  /\ \A j \in LogFrames(cells) :
       j <= n /\ (\A k \in LogFrames(cells) : k <= n => k <= j)
       => lag = When(cells, j, st)

(* The records of a frame are in order, sealed for one tick, which its     *)
(* delta tells.                                                            *)
Timed(cells, n, st, first) ==
  /\ When(cells, n, st) # 0
  /\ \A i \in DOMAIN IdsOf(cells, n) :
       st[IdsOf(cells, n)[i]] = When(cells, n, st)
  /\ \A i, j \in DOMAIN IdsOf(cells, n) :
       i < j => IdsOf(cells, n)[i] < IdsOf(cells, n)[j]
  /\ LagIs(cells, n - 1, st, first, When(cells, n, st) - DeltaOf(cells, n))

(* A later frame has a later tick and later records. *)
Before(cells, n, p, st) ==
  /\ When(cells, n, st) < When(cells, p, st)
  /\ \A i \in DOMAIN IdsOf(cells, n) : \A j \in DOMAIN IdsOf(cells, p) :
       IdsOf(cells, n)[i] < IdsOf(cells, p)[j]

Chained(cells, st, first) ==
  /\ \A n \in LogFrames(cells) : Timed(cells, n, st, first)
  /\ \A n, p \in LogFrames(cells) : n < p => Before(cells, n, p, st)

(***************************************************************************)
(* A sim, or a snapshot of one, against the segment it goes on in.         *)
(***************************************************************************)
World == Seq([id : Actions, tick : Ticks])

WorldOK(x, st) ==
  /\ x.tick \in Ticks /\ x.lastLogged \in Ticks /\ x.lastLogged <= x.tick
  /\ x.world \in World
  /\ \A k \in DOMAIN x.world :
       /\ x.world[k].id \notin Poison
       /\ x.world[k].tick = st[x.world[k].id]
       /\ x.world[k].tick # 0
  /\ \A j, k \in DOMAIN x.world : j < k => x.world[j].id < x.world[k].id
  /\ x.faulted \subseteq Poison

(* The first m frames are behind x, the others ahead of it. *)
ReadsOn(x, cells, m, st, first) ==
  /\ \A n \in LogFrames(cells) : n <= m => When(cells, n, st) <= x.tick
  /\ \A n \in LogFrames(cells) :
       n > m => /\ x.tick < When(cells, n, st)
                /\ \A i \in DOMAIN IdsOf(cells, n) : \A k \in DOMAIN x.world :
                     x.world[k].id < IdsOf(cells, n)[i]
  /\ LagIs(cells, m, st, first, x.lastLogged)

(* What was logged, and no crash was free to lose, is in x or ahead of it. *)
Covers(x, cells, m, st, ex) ==
  \A a \in Actions :
    st[a] # 0 /\ a \notin ex =>
      \/ a \in Applied(x) \cup x.faulted
      \/ \E n \in LogFrames(cells) : n > m /\ a \in ToSet(IdsOf(cells, n))

BaseOK(x, cells, m, st, ex, first) ==
  /\ m \in Nat /\ 2 * m + 1 <= Len(cells)
  /\ WorldOK(x, st)
  /\ ReadsOn(x, cells, m, st, first)
  /\ Covers(x, cells, m, st, ex)
-----------------------------------------------------------------------------
(***************************************************************************)
(* Reading frames.                                                         *)
(***************************************************************************)

(* A segment of 2N+1 cells, or of one more, holds N whole frames.          *)
LEMMA WholeCount ==
  ASSUME NEW cells \in Seq(Cell), NEW N \in Nat,
         Len(cells) = 2 * N + 1 \/ Len(cells) = 2 * N + 2
  PROVE  WholeFrames(cells) = 1..N
<1> Len(cells) \in Nat
  BY LenProperties
<1> QED
  BY DEF WholeFrames

(* Every segment that begins with a header has such a length.              *)
LEMMA Halved ==
  ASSUME NEW L \in Nat, L >= 1
  PROVE  \E N \in Nat : L = 2 * N + 1 \/ L = 2 * N + 2
<1> DEFINE T == {N \in 0..L : 2 * N + 1 <= L}
<1>1. PICK N \in T : \A M \in T : M <= N
  <2>1. 0 \in T /\ T \in SUBSET (0..L)
    OBVIOUS
  <2> HIDE DEF T
  <2> QED
    BY <2>1, NatMax
<1>2. N \in Nat /\ 2 * N + 1 <= L
  BY <1>1
<1>3. N + 1 \notin T
  <2> HIDE DEF T
  <2> QED
    BY <1>1, <1>2
<1> QED
  BY <1>2, <1>3

LEMMA WholeReads ==
  ASSUME NEW cells, Parsed(cells), NEW n \in WholeFrames(cells)
  PROVE  FrameAt(cells, 2 * n - 1)
<1>1. n \in Nat /\ n >= 1 /\ 2 * n + 1 <= Len(cells) /\ Len(cells) \in Nat
  BY LenProperties DEF WholeFrames, Parsed
<1>2. WholeFrame(cells, n) /\ cells \in Seq(Cell)
  BY DEF Parsed
<1>3. cells[2 * n] \in Cell /\ cells[2 * n + 1] \in Cell
  BY <1>1, <1>2, ElementOfSeq
<1>4. cells[2 * n] = [cells[2 * n] EXCEPT !.part = 1]
  BY <1>2, <1>3 DEF WholeFrame, Cell
<1>5. cells[2 * n + 1].part = 2 /\ cells[2 * n + 1].kind # "header"
  BY <1>2, <1>3 DEF WholeFrame, Cell
<1>6. /\ (2 * n - 1) + 1 = 2 * n
      /\ (2 * n - 1) + 2 = 2 * n + 1
  BY <1>1
<1>7. ASSUME NEW part \in 1..2
      PROVE  LET cell == cells[(2 * n - 1) + part]
             IN  /\ cell.kind # "header"
                 /\ cell.part = part
                 /\ cell = [cells[(2 * n - 1) + 1] EXCEPT !.part = part]
  <2>1. CASE part = 1
    BY <1>2, <1>4, <1>6, <2>1 DEF WholeFrame
  <2>2. CASE part = 2
    BY <1>2, <1>5, <1>6, <2>2 DEF WholeFrame
  <2> QED
    BY <2>1, <2>2
<1> QED
  BY <1>1, <1>6, <1>7 DEF FrameAt, FrameLen

(* A reader who has read m of N frames decodes the N - m that are left.    *)
LEMMA CountsRest ==
  ASSUME NEW cells, Parsed(cells), NEW N \in Nat, NEW m \in 0..N,
         Len(cells) = 2 * N + 1 \/ Len(cells) = 2 * N + 2
  PROVE  FrameCount(cells, 2 * m + 1) = N - m
<1> DEFINE Stops(n) == /\ \A i \in 0..n - 1 : FrameAt(cells, (2 * m + 1) + i * FrameLen)
                       /\ ~FrameAt(cells, (2 * m + 1) + n * FrameLen)
<1>0. cells \in Seq(Cell) /\ Len(cells) \in Nat
  BY LenProperties DEF Parsed
<1>1. ASSUME NEW i \in Nat, i < N - m
      PROVE  FrameAt(cells, (2 * m + 1) + i * FrameLen)
  <2>0. WholeFrames(cells) = 1..N
    BY <1>0, WholeCount
  <2>1. m + i + 1 \in WholeFrames(cells)
    BY <1>1, <2>0
  <2>2. (2 * m + 1) + i * FrameLen = 2 * (m + i + 1) - 1
    BY DEF FrameLen
  <2> QED
    BY <2>1, <2>2, WholeReads
<1>2. ~FrameAt(cells, (2 * m + 1) + (N - m) * FrameLen)
  BY <1>0 DEF FrameAt, FrameLen
<1>3. N - m \in 0..Len(cells) /\ Stops(N - m)
  BY <1>0, <1>1, <1>2
<1>4. ASSUME NEW n \in 0..Len(cells), Stops(n)
      PROVE  n = N - m
  <2>1. CASE n < N - m
    BY <1>1, <1>4, <2>1
  <2>2. CASE n > N - m
    <3>1. N - m \in 0..n - 1
      BY <2>2
    <3> QED
      BY <1>2, <1>4, <3>1
  <2> QED
    BY <2>1, <2>2
<1>5. FrameCount(cells, 2 * m + 1) = CHOOSE n \in 0..Len(cells) : Stops(n)
  BY DEF FrameCount
<1> HIDE DEF Stops
<1> QED
  BY <1>3, <1>4, <1>5

LEMMA FrameRead ==
  ASSUME NEW cells, NEW m \in Nat, NEW i \in Nat
  PROVE  /\ FrameNo(cells, 2 * m + 1, i + 1) = cells[2 * (m + i + 1)]
         /\ (2 * m + 1) + ((i + 1) - 1) * FrameLen = 2 * (m + i + 1) - 1
<1>1. (2 * m + 1) + ((i + 1) - 1) * FrameLen + 1 = 2 * (m + i + 1)
  BY DEF FrameLen
<1> QED
  BY <1>1 DEF FrameNo, FrameLen

(* The cells of a frame that was read: a log frame, or a Skip.             *)
LEMMA LogCell ==
  ASSUME NEW cells, Parsed(cells), NEW n \in LogFrames(cells)
  PROVE  /\ n \in Nat /\ n >= 1 /\ 2 * n + 1 <= Len(cells)
         /\ cells[2 * n] \in [kind : {"frame"}, part : 1..2, delta : Nat, ids : Seq(Actions)]
         /\ IdsOf(cells, n) \in Seq(Actions)
         /\ Len(IdsOf(cells, n)) \in Nat
         /\ DOMAIN IdsOf(cells, n) = 1..Len(IdsOf(cells, n))
         /\ 1 \in DOMAIN IdsOf(cells, n)
         /\ DeltaOf(cells, n) \in Nat
<1>1. /\ n \in WholeFrames(cells) /\ n \in Nat /\ n >= 1 /\ 2 * n + 1 <= Len(cells)
      /\ Len(cells) \in Nat
      /\ cells[2 * n].kind = "frame"
  BY LenProperties DEF WholeFrames, LogFrames, Parsed
<1>2. WholeFrame(cells, n) /\ cells \in Seq(Cell)
  BY <1>1 DEF Parsed
<1>3. cells[2 * n] \in Cell
  BY <1>1, <1>2, ElementOfSeq
<1>4. cells[2 * n] \in [kind : {"frame"}, part : 1..2, delta : Nat, ids : Seq(Actions)]
  BY <1>1, <1>3 DEF Cell
<1>5. IdsOf(cells, n) \in Seq(Actions) /\ DeltaOf(cells, n) \in Nat
  BY <1>4 DEF IdsOf, DeltaOf
<1>6. IdsOf(cells, n) # << >>
  BY <1>1, <1>2 DEF WholeFrame
<1>7. /\ Len(IdsOf(cells, n)) \in Nat
      /\ DOMAIN IdsOf(cells, n) = 1..Len(IdsOf(cells, n))
  BY <1>5, LenProperties
<1>8. Len(IdsOf(cells, n)) # 0
  BY <1>5, <1>6, EmptySeq
<1> QED
  BY <1>1, <1>4, <1>5, <1>7, <1>8

(* A reader has exactly one tick to count the next delta from.             *)
LEMMA LagUnique ==
  ASSUME NEW cells, NEW n \in Nat, NEW st, NEW first, NEW a, NEW b,
         LagIs(cells, n, st, first, a), LagIs(cells, n, st, first, b)
  PROVE  a = b
<1> DEFINE T == {j \in LogFrames(cells) : j <= n}
<1>0. \A j \in LogFrames(cells) : j \in Nat
  BY DEF LogFrames, WholeFrames
<1>1. CASE T = {}
  <2>1. \A j \in LogFrames(cells) : j > n
    BY <1>0, <1>1
  <2> QED
    BY <2>1 DEF LagIs
<1>2. CASE T # {}
  <2>1. PICK j \in T : \A k \in T : k <= j
    <3>1. T \in SUBSET (0..n)
      BY <1>0
    <3> HIDE DEF T
    <3> QED
      BY <1>2, <3>1, NatMax
  <2> QED
    BY <2>1 DEF LagIs
<1> QED
  BY <1>1, <1>2

(* The records of a frame at offset o that a Skip names, and those of the  *)
(* others that trap.                                                       *)
NamedIn(ids, o, skipped) == {i \in DOMAIN ids : << o, i >> \in skipped}

TrapIn(ids, o, skipped) ==
  {i \in DOMAIN ids \ NamedIn(ids, o, skipped) : ids[i] \in Poison}

KeptSet(ids, o, skipped) ==
  {ids[i] : i \in {j \in DOMAIN ids : << o, j >> \notin skipped}}

Rising(ids) == \A i, j \in DOMAIN ids : i < j => ids[i] < ids[j]

(* The records of a frame that no Skip names, in their order.              *)
LEMMA KeptIds ==
  ASSUME NEW ids \in Seq(Actions), NEW o, NEW skipped, Rising(ids)
  PROVE  /\ Kept(ids, o, skipped) \in Seq(Actions)
         /\ Rising(Kept(ids, o, skipped))
         /\ ToSet(Kept(ids, o, skipped)) = KeptSet(ids, o, skipped)
<1> DEFINE Step(f, n) ==
             [i \in 0..n |-> IF i = 0 THEN << >>
                             ELSE IF << o, i >> \in skipped THEN f[i - 1]
                             ELSE Append(f[i - 1], ids[i])]
           Bad == {n \in Nat : ~ \E f : f = Step(f, n)}
<1>1. Len(ids) \in Nat /\ DOMAIN ids = 1..Len(ids)
  BY LenProperties
<1>2. Bad = {}
  <2> SUFFICES ASSUME Bad # {} PROVE FALSE
    OBVIOUS
  <2>1. PICK m \in Bad : \A y \in Bad : m <= y
    <3>1. Bad \in SUBSET Nat
      OBVIOUS
    <3> HIDE DEF Bad
    <3> QED
      BY <3>1, NatMin
  <2>2. CASE m = 0
    <3>1. [i \in 0..0 |-> << >>] = Step([i \in 0..0 |-> << >>], 0)
      OBVIOUS
    <3> QED
      BY <2>1, <2>2, <3>1
  <2>3. CASE m # 0
    <3>0. m \in Nat
      BY <2>1
    <3>1. m - 1 \in Nat /\ m - 1 \notin Bad
      <4> HIDE DEF Bad
      <4> QED
        BY <2>1, <2>3, <3>0
    <3>2. PICK f : f = Step(f, m - 1)
      <4> HIDE DEF Step
      <4> QED
        BY <3>1
    <3> DEFINE g == [i \in 0..m |-> IF i = m
                                    THEN IF << o, m >> \in skipped THEN f[m - 1]
                                         ELSE Append(f[m - 1], ids[m])
                                    ELSE f[i]]
    <3>3. ASSUME NEW i \in 0..m
          PROVE  g[i] = IF i = 0 THEN << >>
                        ELSE IF << o, i >> \in skipped THEN g[i - 1]
                        ELSE Append(g[i - 1], ids[i])
      <4>1. CASE i = m
        <5>1. g[m - 1] = f[m - 1]
          BY <2>1, <2>3
        <5> QED
          BY <2>3, <4>1, <5>1
      <4>2. CASE i # m
        <5>1. i \in 0..(m - 1) /\ g[i] = f[i]
          BY <4>2, <2>1
        <5>2. f[i] = IF i = 0 THEN << >>
                     ELSE IF << o, i >> \in skipped THEN f[i - 1]
                     ELSE Append(f[i - 1], ids[i])
          BY <3>2, <5>1, Zenon
        <5>3. i # 0 => g[i - 1] = f[i - 1]
          BY <2>1, <5>1
        <5> QED
          BY <5>1, <5>2, <5>3
      <4> QED
        BY <4>1, <4>2
    <3>4. g = Step(g, m)
      BY <3>3
    <3> QED
      BY <2>1, <3>4
  <2> QED
    BY <2>2, <2>3
<1>3. \E f : f = Step(f, Len(ids))
  BY <1>1, <1>2
<1> DEFINE F == CHOOSE f : f = Step(f, Len(ids))
<1>4. F = Step(F, Len(ids))
  BY <1>3, Zenon
<1>5. Kept(ids, o, skipped) = F[Len(ids)]
  BY Zenon DEF Kept
<1>6. \A i \in 0..Len(ids) : F[i] = IF i = 0 THEN << >>
                                    ELSE IF << o, i >> \in skipped THEN F[i - 1]
                                    ELSE Append(F[i - 1], ids[i])
  BY <1>4, Zenon
<1> HIDE DEF F, Bad
<1> DEFINE Left(n) == {ids[i] : i \in {j \in 1..n : << o, j >> \notin skipped}}
           Good(n) == /\ F[n] \in Seq(Actions)
                      /\ \A i, j \in DOMAIN F[n] : i < j => F[n][i] < F[n][j]
                      /\ ToSet(F[n]) = Left(n)
           Lacks == {n \in 0..Len(ids) : ~Good(n)}
<1>7. Lacks = {}
  <2> SUFFICES ASSUME Lacks # {} PROVE FALSE
    OBVIOUS
  <2>1. PICK n \in Lacks : \A y \in Lacks : n <= y
    <3>1. Lacks \in SUBSET Nat
      BY <1>1
    <3> HIDE DEF Lacks
    <3> QED
      BY <3>1, NatMin
  <2>2. n \in 0..Len(ids) /\ ~Good(n) /\ n \in Nat
    <3> HIDE DEF Good
    <3> QED
      BY <1>1, <2>1
  <2>3. CASE n = 0
    <3>0. 0 \in 0..Len(ids)
      BY <1>1
    <3>1. F[0] = << >>
      BY <1>6, <3>0
    <3>2. DOMAIN F[0] = {} /\ F[0] \in Seq(Actions)
      BY <3>1
    <3>3. ToSet(F[0]) = {}
      BY <3>2 DEF ToSet
    <3>4. Left(0) = {}
      OBVIOUS
    <3> QED
      BY <2>2, <2>3, <3>2, <3>3, <3>4
  <2>4. CASE n # 0
    <3>1. n - 1 \in 0..Len(ids) /\ n \in 1..Len(ids)
      BY <1>1, <2>2, <2>4
    <3>2. Good(n - 1)
      <4>1. n - 1 \notin Lacks
        <5> HIDE DEF Lacks
        <5> QED
          BY <2>1, <2>2, <2>4
      <4> HIDE DEF Good
      <4> QED
        BY <3>1, <4>1
    <3>3. CASE << o, n >> \in skipped
      <4>1. F[n] = F[n - 1]
        BY <1>6, <2>2, <2>4, <3>3
      <4>2. Left(n) = Left(n - 1)
        BY <2>2, <3>3
      <4> QED
        BY <2>2, <3>2, <4>1, <4>2
    <3>4. CASE << o, n >> \notin skipped
      <4> DEFINE P == F[n - 1]
      <4>1. F[n] = Append(P, ids[n]) /\ P \in Seq(Actions) /\ ids[n] \in Actions
        BY <1>1, <1>6, <2>2, <2>4, <3>1, <3>2, <3>4, ElementOfSeq
      <4>2. Left(n) = Left(n - 1) \cup {ids[n]}
        <5>1. \A i \in Nat : i \in 1..n <=> i \in 1..n - 1 \/ i = n
          BY <2>2, <3>1
        <5>2. 1..n = (1..n - 1) \cup {n}
          BY <2>2, <3>1, <5>1
        <5> QED
          BY <3>4, <5>2
      <4>3. /\ F[n] \in Seq(Actions) /\ Len(P) \in Nat /\ DOMAIN P = 1..Len(P)
            /\ Len(F[n]) = Len(P) + 1
            /\ DOMAIN F[n] = 1..Len(P) + 1
            /\ F[n][Len(P) + 1] = ids[n]
            /\ \A i \in 1..Len(P) : F[n][i] = P[i]
        <5> HIDE DEF P
        <5> QED
          BY <4>1, AppendProperties, LenProperties
      <4>4. ASSUME NEW i \in 1..Len(P) PROVE P[i] \in Left(n - 1)
        BY <3>2, <4>3, <4>4 DEF ToSet
      <4>5. ASSUME NEW i \in 1..Len(P) PROVE P[i] < ids[n]
        <5>1. PICK j \in 1..n - 1 : P[i] = ids[j]
          BY <4>4
        <5> QED
          BY <1>1, <3>1, <5>1 DEF Rising
      <4>6. \A i, j \in DOMAIN F[n] : i < j => F[n][i] < F[n][j]
        <5>1. \A i, j \in DOMAIN P : i < j => P[i] < P[j]
          BY <3>2
        <5> HIDE DEF P
        <5> QED
          BY <4>3, <4>5, <5>1, SMTT(20)
      <4>7. ToSet(F[n]) = ToSet(P) \cup {ids[n]}
        <5>1. \A i : i \in DOMAIN F[n] <=> i \in DOMAIN P \/ i = Len(P) + 1
          <6> HIDE DEF P
          <6> QED
            BY <4>3
        <5>2. \A i \in DOMAIN P : F[n][i] = P[i]
          BY <4>3, Zenon
        <5>3. F[n][Len(P) + 1] = ids[n]
          BY <4>3, Zenon
        <5> HIDE DEF P
        <5> QED
          BY <5>1, <5>2, <5>3 DEF ToSet
      <4> QED
        BY <2>2, <3>2, <4>2, <4>3, <4>6, <4>7
    <3> QED
      BY <3>3, <3>4
  <2> QED
    BY <2>3, <2>4
<1>8. Good(Len(ids))
  <2> HIDE DEF Good
  <2> QED
    BY <1>1, <1>7
<1> QED
  BY <1>1, <1>5, <1>8 DEF Rising, KeptSet
-----------------------------------------------------------------------------
(***************************************************************************)
(* Replaying one frame, then all of them.                                  *)
(***************************************************************************)
SimT ==
  [tick : Ticks, lastLogged : Ticks, world : World, faulted : SUBSET Actions,
   trap : {NoTrap} \cup (Nat \X Nat), pending : Seq(Actions), dirty : BOOLEAN]

(* A trap names a record of a log frame, and a record that traps.          *)
TrapNames(cells, at) ==
  \E j \in LogFrames(cells) : \E i \in DOMAIN IdsOf(cells, j) :
    at = << 2 * j - 1, i >> /\ IdsOf(cells, j)[i] \in Poison

(* The Skips of a segment name records that trap.                          *)
SkipsPoison(cells, skipped) ==
  \A n \in LogFrames(cells) : \A i \in DOMAIN IdsOf(cells, n) :
    << 2 * n - 1, i >> \in skipped => IdsOf(cells, n)[i] \in Poison

(* A replay from m frames on ends where it traps, or has read n frames.    *)
ReplayedTo(y, x, cells, n, st, ex, first) ==
  /\ y \in SimT
  /\ y.pending = x.pending
  /\ \/ y.trap = NoTrap /\ x.tick <= y.tick /\ BaseOK(y, cells, n, st, ex, first)
     \/ y.trap # NoTrap /\ TrapNames(cells, y.trap)

(* The constants are numbers, and what traps is an action.                 *)
LEMMA ConstantsTyped ==
  /\ {MaxAction, MaxTick, MaxSegment, MaxTabCrash, MaxOsCrash, MaxExit,
      MaxSnapshotTrap, MaxCorrupt} \subseteq Nat
  /\ Poison \subseteq Actions
  /\ WritesLag \in BOOLEAN /\ SnapshotOutrunsLog \in BOOLEAN /\ CreateSettled \in BOOLEAN
BY BoundsAreNaturals DEF Actions

LEMMA TimesTyped ==
  ASSUME NEW cells, Parsed(cells), NEW st \in [Actions -> Ticks],
         NEW n \in LogFrames(cells)
  PROVE  /\ When(cells, n, st) \in Ticks /\ When(cells, n, st) \in Nat
         /\ n \in Nat /\ n >= 1
         /\ \A i \in DOMAIN IdsOf(cells, n) : IdsOf(cells, n)[i] \in Nat
<1>1. /\ IdsOf(cells, n) \in Seq(Actions) /\ n \in Nat /\ n >= 1
      /\ 1 \in DOMAIN IdsOf(cells, n)
  BY LogCell
<1>2. \A i \in DOMAIN IdsOf(cells, n) : IdsOf(cells, n)[i] \in Actions
  BY <1>1, ElementOfSeq, LenProperties
<1>3. Ticks \subseteq Nat /\ Actions \subseteq Nat
  BY ConstantsTyped DEF Ticks, Actions
<1> QED
  BY <1>1, <1>2, <1>3 DEF When

(* A frame that logs nothing changes nothing.                              *)
LEMMA PassesSkip ==
  ASSUME NEW cells, Parsed(cells), NEW st, NEW ex, NEW first, NEW x, NEW m,
         BaseOK(x, cells, m, st, ex, first),
         m + 1 \in WholeFrames(cells), m + 1 \notin LogFrames(cells)
  PROVE  BaseOK(x, cells, m + 1, st, ex, first)
<1>1. m \in Nat /\ 2 * m + 1 <= Len(cells) /\ WorldOK(x, st)
  BY DEF BaseOK
<1>2. 2 * (m + 1) + 1 <= Len(cells)
  BY DEF WholeFrames
<1>3. \A n \in LogFrames(cells) : n \in Nat
  BY DEF LogFrames, WholeFrames
<1>4. \A n \in LogFrames(cells) : /\ n <= m + 1 <=> n <= m
                                  /\ n > m + 1 <=> n > m
  BY <1>1, <1>3
<1>5. LagIs(cells, m, st, first, x.lastLogged)
  BY DEF BaseOK, ReadsOn
<1>6. LagIs(cells, m + 1, st, first, x.lastLogged)
  BY <1>4, <1>5 DEF LagIs
<1>7. ReadsOn(x, cells, m + 1, st, first)
  BY <1>4, <1>6 DEF BaseOK, ReadsOn
<1>8. Covers(x, cells, m + 1, st, ex)
  BY <1>4 DEF BaseOK, Covers
<1> QED
  BY <1>1, <1>2, <1>7, <1>8 DEF BaseOK

Least(S) == CHOOSE i \in S : \A j \in S : i <= j

(* What a log frame makes of a sim it does not trap in.                    *)
AppliedTo(x, ids, kept, t, named) ==
  [x EXCEPT !.tick = t,
            !.lastLogged = t,
            !.world = @ \o [k \in DOMAIN kept |-> [id |-> kept[k], tick |-> t]],
            !.faulted = @ \cup {ids[i] : i \in named}]

(* The apply pass in the terms of the frame it reads: it runs the idle     *)
(* ticks up to the tick the frame was sealed for.                          *)
LEMMA AppliesAt ==
  ASSUME NEW cells, Parsed(cells), NEW st \in [Actions -> Ticks], NEW ex, NEW first,
         Chained(cells, st, first), NEW x \in SimT, NEW m, NEW skipped,
         BaseOK(x, cells, m, st, ex, first), m + 1 \in LogFrames(cells),
         NEW ids, ids = IdsOf(cells, m + 1),
         NEW kept, kept = Kept(ids, 2 * (m + 1) - 1, skipped),
         NEW named, named = NamedIn(ids, 2 * (m + 1) - 1, skipped),
         NEW trapping, trapping = TrapIn(ids, 2 * (m + 1) - 1, skipped)
  PROVE  ApplyFrame(x, cells[2 * (m + 1)], 2 * (m + 1) - 1, skipped) =
           IF trapping # {}
           THEN [x EXCEPT !.trap = << 2 * (m + 1) - 1, Least(trapping) >>]
           ELSE AppliedTo(x, ids, kept, When(cells, m + 1, st), named)
<1> DEFINE T == When(cells, m + 1, st)
           frame == cells[2 * (m + 1)]
<1>1. m \in Nat /\ ReadsOn(x, cells, m, st, first)
  BY DEF BaseOK
<1>2. T \in Nat
  BY TimesTyped
<1>3. frame.ids = ids /\ frame.delta = DeltaOf(cells, m + 1) /\ DeltaOf(cells, m + 1) \in Nat
  BY LogCell DEF IdsOf, DeltaOf
<1>4. LagIs(cells, (m + 1) - 1, st, first, T - DeltaOf(cells, m + 1))
  BY DEF Chained, Timed
<1>5. (m + 1) - 1 = m
  BY <1>1
<1>6. LagIs(cells, m, st, first, T - DeltaOf(cells, m + 1))
  BY <1>4, <1>5
<1>7. LagIs(cells, m, st, first, x.lastLogged)
  BY <1>1 DEF ReadsOn
<1>8. x.lastLogged = T - DeltaOf(cells, m + 1)
  <2> HIDE DEF T
  <2> QED
    BY <1>1, <1>6, <1>7, LagUnique
<1>9. FrameTick(x, frame) = T
  <2> HIDE DEF T
  <2> QED
    BY <1>2, <1>3, <1>8 DEF FrameTick
<1>10. m + 1 > m
  BY <1>1
<1>11. T > x.tick
  BY <1>1, <1>10 DEF ReadsOn
<1> HIDE DEF T, frame
<1>12. (IF T > x.tick THEN T ELSE x.tick + 1) = T
  BY <1>11
<1> DEFINE o == 2 * (m + 1) - 1
           FT == FrameTick(x, frame)
           NW == IF FT > x.tick THEN FT ELSE x.tick + 1
           NM == {i \in DOMAIN frame.ids : << o, i >> \in skipped}
           KP == Kept(frame.ids, o, skipped)
           TR == {i \in DOMAIN frame.ids \ NM : frame.ids[i] \in Poison}
<1>13. ApplyFrame(x, frame, o, skipped) =
         IF TR # {}
         THEN [x EXCEPT !.trap = << o, Least(TR) >>]
         ELSE [x EXCEPT !.tick = NW, !.lastLogged = FT,
                        !.world = @ \o [k \in DOMAIN KP |-> [id |-> KP[k], tick |-> NW]],
                        !.faulted = @ \cup {frame.ids[i] : i \in NM}]
  BY DEF ApplyFrame, Least
<1>14. frame.ids = ids /\ NW = T /\ FT = T
  BY <1>3, <1>9, <1>12
<1>15. NM = named
  BY <1>14 DEF NamedIn
<1>16. TR = trapping
  BY <1>14, <1>15 DEF TrapIn
<1>17. KP = kept
  BY <1>14
<1>18. [x EXCEPT !.tick = NW, !.lastLogged = FT,
                 !.world = @ \o [k \in DOMAIN KP |-> [id |-> KP[k], tick |-> NW]],
                 !.faulted = @ \cup {frame.ids[i] : i \in NM}]
         = AppliedTo(x, ids, kept, T, named)
  <2> HIDE DEF NM, TR, KP, NW, FT
  <2> QED
    BY <1>14, <1>15, <1>17 DEF AppliedTo
<1>19. ApplyFrame(x, frame, o, skipped) =
         IF trapping # {}
         THEN [x EXCEPT !.trap = << o, Least(trapping) >>]
         ELSE AppliedTo(x, ids, kept, T, named)
  <2> HIDE DEF NM, TR, KP, NW, FT
  <2> QED
    BY <1>13, <1>16, <1>18
<1> QED
  BY <1>19 DEF frame, T

LEMMA AppliedView ==
  ASSUME NEW x \in SimT, NEW ids \in Seq(Actions), NEW kept \in Seq(Actions), NEW t \in Ticks,
         NEW named, NEW y, y = AppliedTo(x, ids, kept, t, named),
         named \subseteq DOMAIN ids
  PROVE  /\ y \in SimT
         /\ y.tick = t /\ y.lastLogged = t /\ y.trap = x.trap /\ y.pending = x.pending
         /\ y.world \in World
         /\ Len(x.world) \in Nat /\ Len(kept) \in Nat
         /\ DOMAIN x.world = 1..Len(x.world) /\ DOMAIN kept = 1..Len(kept)
         /\ DOMAIN y.world = 1..Len(x.world) + Len(kept)
         /\ \A k \in DOMAIN x.world : y.world[k] = x.world[k]
         /\ \A k \in DOMAIN kept : y.world[Len(x.world) + k] = [id |-> kept[k], tick |-> t]
         /\ y.faulted = x.faulted \cup {ids[i] : i \in named}
<1> DEFINE more == [k \in DOMAIN kept |-> [id |-> kept[k], tick |-> t]]
           E == [id : Actions, tick : Ticks]
<1>1. Len(kept) \in Nat /\ DOMAIN kept = 1..Len(kept) /\ \A k \in DOMAIN kept : kept[k] \in Actions
  BY LenProperties, ElementOfSeq
<1>2. more \in Seq(E) /\ Len(more) = Len(kept)
  <2>1. \A k \in 1..Len(kept) : [id |-> kept[k], tick |-> t] \in E
    BY <1>1
  <2>2. more = [k \in 1..Len(kept) |-> [id |-> kept[k], tick |-> t]]
    BY <1>1
  <2>3. more \in [1..Len(kept) -> E]
    BY <2>1, <2>2
  <2> QED
    BY <1>1, <2>3, SeqDef, LenProperties
<1>3. x.world \in Seq(E)
  BY DEF SimT, World
<1>4. Len(x.world) \in Nat /\ DOMAIN x.world = 1..Len(x.world)
  BY <1>3, LenProperties
<1>5. /\ x.world \o more \in Seq(E)
      /\ Len(x.world \o more) = Len(x.world) + Len(kept)
      /\ \A k \in 1..Len(x.world) + Len(kept) :
           (x.world \o more)[k] = IF k <= Len(x.world) THEN x.world[k] ELSE more[k - Len(x.world)]
  <2> HIDE DEF more, E
  <2>1. /\ x.world \o more \in Seq(E)
        /\ Len(x.world \o more) = Len(x.world) + Len(more)
        /\ \A k \in 1..Len(x.world) + Len(more) :
             (x.world \o more)[k] = IF k <= Len(x.world) THEN x.world[k] ELSE more[k - Len(x.world)]
    BY <1>2, <1>3, ConcatProperties, Zenon
  <2> QED
    BY <1>2, <2>1
<1>6. DOMAIN (x.world \o more) = 1..Len(x.world) + Len(kept)
  <2> HIDE DEF more, E
  <2> QED
    BY <1>5, LenProperties
<1>7. {ids[i] : i \in named} \subseteq Actions
  BY ElementOfSeq, LenProperties
<1>8. /\ y.tick = t /\ y.lastLogged = t /\ y.trap = x.trap /\ y.pending = x.pending
      /\ y.world = x.world \o more
      /\ y.faulted = x.faulted \cup {ids[i] : i \in named}
      /\ y.dirty = x.dirty
  <2> HIDE DEF more
  <2>1. y = [x EXCEPT !.tick = t, !.lastLogged = t, !.world = x.world \o more,
                      !.faulted = x.faulted \cup {ids[i] : i \in named}]
    BY DEF AppliedTo, more, SimT
  <2> QED
    BY <2>1 DEF SimT
<1>9. y \in SimT
  <2> HIDE DEF more
  <2>1. x.world \o more \in World
    BY <1>5 DEF World
  <2>2. x.faulted \cup {ids[i] : i \in named} \in SUBSET Actions
    BY <1>7 DEF SimT
  <2> HIDE DEF World
  <2>3. y = [x EXCEPT !.tick = t, !.lastLogged = t, !.world = x.world \o more,
                      !.faulted = x.faulted \cup {ids[i] : i \in named}]
    BY DEF AppliedTo, more, SimT
  <2> QED
    BY <2>1, <2>2, <2>3 DEF SimT
<1>10. \A k \in DOMAIN x.world : (x.world \o more)[k] = x.world[k]
  <2> HIDE DEF more
  <2> QED
    BY <1>1, <1>4, <1>5
<1>11. ASSUME NEW k \in DOMAIN kept
       PROVE  (x.world \o more)[Len(x.world) + k] = [id |-> kept[k], tick |-> t]
  <2>1. (x.world \o more)[Len(x.world) + k] = more[k]
    <3>1. Len(x.world) + k \in 1..Len(x.world) + Len(kept) /\ ~(Len(x.world) + k <= Len(x.world))
          /\ (Len(x.world) + k) - Len(x.world) = k
      BY <1>1, <1>4
    <3> HIDE DEF more
    <3> QED
      BY <1>5, <3>1
  <2> QED
    BY <2>1
<1> QED
  BY <1>1, <1>4, <1>5, <1>6, <1>8, <1>9, <1>10, <1>11 DEF World

(* A frame splits into records that are applied and records that a Skip    *)
(* names; exactly those that trap are named.                               *)
Splits(ids, kept, named) ==
  /\ kept \in Seq(Actions) /\ Rising(kept)
  /\ \A i \in DOMAIN ids \ named : ids[i] \notin Poison
  /\ named \subseteq DOMAIN ids /\ \A i \in named : ids[i] \in Poison
  /\ \A k \in DOMAIN kept : \E i \in DOMAIN ids \ named : kept[k] = ids[i]
  /\ \A i \in DOMAIN ids \ named : \E k \in DOMAIN kept : kept[k] = ids[i]

Follows(m, n) == n = m + 1

(* What is applied at its tick takes a sim one frame on.                   *)
LEMMA AppliedOK ==
  ASSUME NEW cells, Parsed(cells), NEW st \in [Actions -> Ticks], NEW ex, NEW first,
         Chained(cells, st, first), NEW x \in SimT, NEW m,
         BaseOK(x, cells, m, st, ex, first), NEW n \in LogFrames(cells), Follows(m, n),
         NEW kept, NEW named, Splits(IdsOf(cells, n), kept, named)
  PROVE  BaseOK(AppliedTo(x, IdsOf(cells, n), kept, When(cells, n, st), named),
                cells, n, st, ex, first)
<1> DEFINE ids == IdsOf(cells, n)
           t == When(cells, n, st)
           y == AppliedTo(x, ids, kept, t, named)
<1>1. /\ m \in Nat /\ n \in Nat /\ n >= 1 /\ 2 * n + 1 <= Len(cells)
      /\ ids \in Seq(Actions) /\ Len(ids) \in Nat /\ DOMAIN ids = 1..Len(ids)
      /\ t \in Ticks /\ t \in Nat
  BY LogCell, TimesTyped DEF BaseOK, Follows
<1>2. n = m + 1
  BY DEF Follows
<1>3. Timed(cells, n, st, first)
  BY DEF Chained
<1>4. /\ WorldOK(x, st) /\ ReadsOn(x, cells, m, st, first) /\ Covers(x, cells, m, st, ex)
      /\ n > m /\ n \in LogFrames(cells)
  BY <1>1, <1>2 DEF BaseOK
<1> SUFFICES BaseOK(y, cells, n, st, ex, first)
  OBVIOUS
<1>21. kept \in Seq(Actions) /\ Rising(kept)
  BY DEF Splits
<1>22. \A i \in DOMAIN ids \ named : ids[i] \notin Poison
  BY DEF Splits
<1>23. \A i \in named : i \in DOMAIN ids /\ ids[i] \in Poison
  BY DEF Splits
<1>25. \A i \in DOMAIN ids : st[ids[i]] = t /\ t # 0
  BY <1>3 DEF Timed
<1>26. \A k \in DOMAIN kept : \E i \in DOMAIN ids \ named : kept[k] = ids[i]
  BY DEF Splits
<1>27. \A i \in DOMAIN ids \ named : \E k \in DOMAIN kept : kept[k] = ids[i]
  BY DEF Splits
<1>28. named \subseteq DOMAIN ids
  BY DEF Splits
<1>24. y = AppliedTo(x, ids, kept, t, named)
  OBVIOUS
<1> HIDE DEF ids, t, y
<1>29. /\ y \in SimT
       /\ y.tick = t /\ y.lastLogged = t /\ y.trap = x.trap /\ y.pending = x.pending
       /\ y.world \in World
       /\ Len(x.world) \in Nat /\ Len(kept) \in Nat
       /\ DOMAIN x.world = 1..Len(x.world) /\ DOMAIN kept = 1..Len(kept)
       /\ DOMAIN y.world = 1..Len(x.world) + Len(kept)
       /\ \A k \in DOMAIN x.world : y.world[k] = x.world[k]
       /\ \A k \in DOMAIN kept : y.world[Len(x.world) + k] = [id |-> kept[k], tick |-> t]
       /\ y.faulted = x.faulted \cup {ids[i] : i \in named}
  BY <1>1, <1>21, <1>24, <1>28, AppliedView, SMTT(20)
<1>36. /\ Len(x.world) \in Nat /\ Len(kept) \in Nat
       /\ DOMAIN x.world = 1..Len(x.world) /\ DOMAIN kept = 1..Len(kept)
       /\ DOMAIN y.world = 1..Len(x.world) + Len(kept)
  BY <1>29
<1>37. /\ \A k \in DOMAIN x.world : y.world[k] = x.world[k]
       /\ \A k \in DOMAIN kept : y.world[Len(x.world) + k] = [id |-> kept[k], tick |-> t]
  BY <1>29
<1>38. y.faulted = x.faulted \cup {ids[i] : i \in named}
  BY <1>29
<1>30. \A k \in DOMAIN y.world :
         \/ k \in DOMAIN x.world /\ y.world[k] = x.world[k]
         \/ \E j \in DOMAIN kept : k = Len(x.world) + j /\ y.world[k].id = kept[j]
                                   /\ y.world[k].tick = t
  <2> SUFFICES ASSUME NEW k \in DOMAIN y.world, k \notin DOMAIN x.world
               PROVE  \E j \in DOMAIN kept : k = Len(x.world) + j /\ y.world[k].id = kept[j]
                                             /\ y.world[k].tick = t
    BY <1>29
  <2> DEFINE j == k - Len(x.world)
  <2>1. j \in DOMAIN kept /\ k = Len(x.world) + j
    BY <1>36
  <2> HIDE DEF j
  <2>2. y.world[k] = [id |-> kept[j], tick |-> t]
    BY <1>37, <2>1
  <2> QED
    BY <2>1, <2>2
<1>31. \A k \in DOMAIN x.world, i \in DOMAIN ids : x.world[k].id < ids[i]
  BY <1>4 DEF ReadsOn, ids
<1>32. WorldOK(y, st)
  <2>1. y.tick \in Ticks /\ y.lastLogged \in Ticks /\ y.lastLogged <= y.tick
    BY <1>1, <1>29
  <2>2. \A k \in DOMAIN y.world : /\ y.world[k].id \notin Poison
                                  /\ y.world[k].tick = st[y.world[k].id]
                                  /\ y.world[k].tick # 0
    <3> SUFFICES ASSUME NEW k \in DOMAIN y.world
                 PROVE  /\ y.world[k].id \notin Poison
                        /\ y.world[k].tick = st[y.world[k].id]
                        /\ y.world[k].tick # 0
      OBVIOUS
    <3>1. CASE k \in DOMAIN x.world /\ y.world[k] = x.world[k]
      BY <1>4, <3>1 DEF WorldOK
    <3>2. ASSUME NEW j \in DOMAIN kept, y.world[k].id = kept[j], y.world[k].tick = t
          PROVE  /\ y.world[k].id \notin Poison
                 /\ y.world[k].tick = st[y.world[k].id]
                 /\ y.world[k].tick # 0
      BY <1>22, <1>25, <1>26, <3>2
    <3> QED
      BY <1>30, <3>1, <3>2
  <2>3. \A j, k \in DOMAIN y.world : j < k => y.world[j].id < y.world[k].id
    <3> SUFFICES ASSUME NEW j \in DOMAIN y.world, NEW k \in DOMAIN y.world, j < k
                 PROVE  y.world[j].id < y.world[k].id
      OBVIOUS
    <3>1. CASE k \in DOMAIN x.world
      <4>1. j \in DOMAIN x.world
        BY <1>29, <3>1
      <4> QED
        BY <1>4, <1>29, <3>1, <4>1 DEF WorldOK
    <3>2. CASE k \notin DOMAIN x.world
      <4>1. PICK b \in DOMAIN kept : k = Len(x.world) + b /\ y.world[k].id = kept[b]
        BY <1>30, <3>2
      <4>2. CASE j \in DOMAIN x.world
        <5>1. PICK i \in DOMAIN ids : kept[b] = ids[i]
          BY <1>26
        <5> QED
          BY <1>29, <1>31, <4>1, <4>2, <5>1
      <4>3. CASE j \notin DOMAIN x.world
        <5>1. PICK a \in DOMAIN kept : j = Len(x.world) + a /\ y.world[j].id = kept[a]
          BY <1>30, <4>3
        <5>2. a < b
          BY <1>29, <4>1, <5>1
        <5> QED
          BY <1>21, <4>1, <5>1, <5>2 DEF Rising
      <4> QED
        BY <4>2, <4>3
    <3> QED
      BY <3>1, <3>2
  <2>4. y.faulted \subseteq Poison
    BY <1>4, <1>23, <1>38 DEF WorldOK
  <2> QED
    BY <1>29, <2>1, <2>2, <2>3, <2>4 DEF WorldOK
<1>33. \A p \in LogFrames(cells) : p \in Nat /\ When(cells, p, st) \in Nat
  BY TimesTyped
<1>34. ReadsOn(y, cells, n, st, first)
  <2>1. ASSUME NEW p \in LogFrames(cells), p <= n
        PROVE  When(cells, p, st) <= y.tick
    <3>1. CASE p = n
      BY <1>29, <1>33, <3>1 DEF t
    <3>2. CASE p # n
      <4>1. p < n
        BY <1>1, <1>33, <2>1, <3>2
      <4>2. When(cells, p, st) < When(cells, n, st)
        BY <1>4, <4>1 DEF Chained, Before
      <4> QED
        BY <1>1, <1>29, <1>33, <4>2 DEF t
    <3> QED
      BY <3>1, <3>2
  <2>2. ASSUME NEW p \in LogFrames(cells), p > n
        PROVE  /\ y.tick < When(cells, p, st)
               /\ \A i \in DOMAIN IdsOf(cells, p) : \A k \in DOMAIN y.world :
                    y.world[k].id < IdsOf(cells, p)[i]
    <3>1. n < p /\ p > m
      BY <1>1, <1>2, <1>33, <2>2
    <3>2. Before(cells, n, p, st)
      BY <1>4, <3>1 DEF Chained
    <3>3. ASSUME NEW i \in DOMAIN IdsOf(cells, p), NEW k \in DOMAIN y.world
          PROVE  y.world[k].id < IdsOf(cells, p)[i]
      <4>1. CASE k \in DOMAIN x.world /\ y.world[k] = x.world[k]
        BY <1>4, <3>1, <4>1 DEF ReadsOn
      <4>2. ASSUME NEW j \in DOMAIN kept, y.world[k].id = kept[j]
            PROVE  y.world[k].id < IdsOf(cells, p)[i]
        <5>1. PICK q \in DOMAIN ids : kept[j] = ids[q]
          BY <1>26
        <5> QED
          BY <3>2, <4>2, <5>1 DEF Before, ids
      <4> QED
        BY <1>30, <4>1, <4>2
    <3> QED
      BY <1>29, <3>2, <3>3 DEF Before, t
  <2>3. LagIs(cells, n, st, first, y.lastLogged)
    <3>1. ~(\A j \in LogFrames(cells) : j > n)
      BY <1>1, <1>4
    <3>2. ASSUME NEW j \in LogFrames(cells), j <= n,
                 \A k \in LogFrames(cells) : k <= n => k <= j
          PROVE  j = n
      <4>1. n <= j
        BY <1>1, <1>4, <3>2
      <4> QED
        BY <1>1, <1>33, <3>2, <4>1
    <3> QED
      BY <1>29, <3>1, <3>2 DEF LagIs, t
  <2> QED
    BY <2>1, <2>2, <2>3 DEF ReadsOn
<1>35. Covers(y, cells, n, st, ex)
  <2> SUFFICES ASSUME NEW a \in Actions, st[a] # 0, a \notin ex,
                      ~ \E p \in LogFrames(cells) : p > n /\ a \in ToSet(IdsOf(cells, p))
               PROVE  a \in Applied(y) \cup y.faulted
    BY DEF Covers
  <2>1. CASE a \in Applied(x)
    <3>1. PICK k \in DOMAIN x.world : a = x.world[k].id
      BY <2>1 DEF Applied
    <3>2. k \in DOMAIN y.world /\ y.world[k].id = a
      BY <1>29, <3>1
    <3> QED
      BY <3>2 DEF Applied
  <2>2. CASE a \in x.faulted
    BY <1>38, <2>2
  <2>3. CASE a \notin Applied(x) \cup x.faulted
    <3>1. PICK p \in LogFrames(cells) : p > m /\ a \in ToSet(IdsOf(cells, p))
      BY <1>4, <2>3 DEF Covers
    <3>2. p = n
      BY <1>1, <1>2, <1>33, <3>1
    <3>3. PICK i \in DOMAIN ids : a = ids[i]
      BY <3>1, <3>2 DEF ToSet, ids
    <3>4. CASE i \in named
      BY <1>38, <3>3, <3>4
    <3>5. CASE i \notin named
      <4>1. PICK k \in DOMAIN kept : kept[k] = ids[i]
        BY <1>27, <3>5
      <4>2. y.world[Len(x.world) + k].id = a
        <5>1. y.world[Len(x.world) + k] = [id |-> kept[k], tick |-> t]
          BY <1>37, <4>1
        <5> QED
          BY <3>3, <4>1, <5>1
      <4>3. Len(x.world) + k \in DOMAIN y.world
        <5>1. k \in 1..Len(kept) /\ Len(x.world) \in Nat /\ Len(kept) \in Nat
          BY <1>29, <4>1
        <5>2. Len(x.world) + k \in 1..Len(x.world) + Len(kept)
          BY <5>1
        <5> QED
          BY <1>29, <5>2, Zenon
      <4> QED
        BY <4>2, <4>3 DEF Applied
    <3> QED
      BY <3>4, <3>5
  <2> QED
    BY <2>1, <2>2, <2>3
<1> QED
  BY <1>1, <1>32, <1>34, <1>35 DEF BaseOK

(* A log frame takes a sim one frame on, or traps on one of its records.   *)
LEMMA AppliesLog ==
  ASSUME NEW cells, Parsed(cells), NEW st \in [Actions -> Ticks], NEW ex, NEW first,
         Chained(cells, st, first), NEW x \in SimT, NEW m, NEW skipped,
         SkipsPoison(cells, skipped), x.trap = NoTrap,
         BaseOK(x, cells, m, st, ex, first), m + 1 \in LogFrames(cells)
  PROVE  ReplayedTo(ApplyFrame(x, cells[2 * (m + 1)], 2 * (m + 1) - 1, skipped),
                    x, cells, m + 1, st, ex, first)
<1> DEFINE n == m + 1
           o == 2 * n - 1
           ids == IdsOf(cells, n)
           kept == Kept(ids, o, skipped)
           named == NamedIn(ids, o, skipped)
           trapping == TrapIn(ids, o, skipped)
           t == When(cells, n, st)
           y == AppliedTo(x, ids, kept, t, named)
<1>1. /\ m \in Nat /\ n \in Nat /\ n >= 1 /\ 2 * n + 1 <= Len(cells)
      /\ ids \in Seq(Actions) /\ Len(ids) \in Nat /\ DOMAIN ids = 1..Len(ids)
      /\ t \in Ticks /\ t \in Nat
  BY LogCell, TimesTyped DEF BaseOK
<1>2. ApplyFrame(x, cells[2 * n], o, skipped) =
        IF trapping # {} THEN [x EXCEPT !.trap = << o, Least(trapping) >>] ELSE y
  <2>1. /\ ids = IdsOf(cells, m + 1) /\ kept = Kept(ids, 2 * (m + 1) - 1, skipped)
        /\ named = NamedIn(ids, 2 * (m + 1) - 1, skipped)
        /\ trapping = TrapIn(ids, 2 * (m + 1) - 1, skipped)
    OBVIOUS
  <2> HIDE DEF ids, kept, named, trapping
  <2> QED
    BY <2>1, AppliesAt
<1>3. Timed(cells, n, st, first)
  BY DEF Chained
<1>4. /\ WorldOK(x, st) /\ ReadsOn(x, cells, m, st, first) /\ Covers(x, cells, m, st, ex)
      /\ n > m /\ n \in LogFrames(cells)
  BY <1>1 DEF BaseOK
<1>5. CASE trapping # {}
  <2>1. /\ trapping \in SUBSET Nat /\ trapping \subseteq DOMAIN ids
        /\ \A i \in trapping : ids[i] \in Poison
    BY <1>1 DEF TrapIn
  <2>2. Least(trapping) \in trapping
    <3> HIDE DEF trapping
    <3>1. \E i \in trapping : \A j \in trapping : i <= j
      BY <1>5, <2>1, NatMin
    <3> QED
      BY <3>1 DEF Least
  <2> DEFINE i == Least(trapping)
             at == << o, i >>
             z == [x EXCEPT !.trap = at]
  <2>3. i \in Nat /\ i \in DOMAIN ids /\ ids[i] \in Poison
    <3> HIDE DEF i
    <3>1. i \in trapping
      BY <2>2 DEF i
    <3> QED
      BY <2>1, <3>1
  <2> HIDE DEF i, trapping
  <2>4. at \in Nat \X Nat /\ at # NoTrap
    BY <1>1, <2>3 DEF NoTrap
  <2>5. TrapNames(cells, at)
    BY <1>4, <2>3 DEF TrapNames
  <2>6. z \in SimT /\ z.trap = at /\ z.pending = x.pending
    <3> HIDE DEF at
    <3> QED
      BY <2>4 DEF SimT
  <2>7. ApplyFrame(x, cells[2 * n], o, skipped) = z
    BY <1>2, <1>5 DEF i
  <2> HIDE DEF z, at
  <2> QED
    BY <2>4, <2>5, <2>6, <2>7 DEF ReplayedTo
<1>6. CASE trapping = {}
  <2>1. /\ kept \in Seq(Actions)
        /\ Rising(kept)
        /\ ToSet(kept) = KeptSet(ids, o, skipped)
    <3>1. Rising(ids)
      BY <1>3 DEF Timed, Rising
    <3>2. ids \in Seq(Actions)
      BY <1>1
    <3> HIDE DEF ids, o
    <3> QED
      BY <3>1, <3>2, KeptIds, Zenon
  <2>2. \A i \in DOMAIN ids \ named : ids[i] \notin Poison
    BY <1>6 DEF TrapIn
  <2>3. \A i \in named : i \in DOMAIN ids /\ ids[i] \in Poison
    BY <1>4 DEF SkipsPoison, NamedIn
  <2>4. \A i \in DOMAIN ids : i \in named <=> << o, i >> \in skipped
    BY DEF NamedIn
  <2>5. \A i \in DOMAIN ids : st[ids[i]] = t /\ t # 0
    BY <1>3 DEF Timed
  <2>6. \A k \in DOMAIN kept : /\ kept[k] \in Actions /\ kept[k] \in ToSet(kept)
                               /\ \E i \in DOMAIN ids \ named : kept[k] = ids[i]
    <3>1. \A k \in DOMAIN kept : kept[k] \in ToSet(kept)
      BY DEF ToSet
    <3>2. \A k \in DOMAIN kept : kept[k] \in Actions
      BY <2>1, LenProperties, ElementOfSeq
    <3> HIDE DEF kept, named, ids, o
    <3> QED
      BY <2>1, <2>4, <3>1, <3>2 DEF KeptSet
  <2>7. \A i \in DOMAIN ids \ named : \E k \in DOMAIN kept : kept[k] = ids[i]
    <3>1. \A i \in DOMAIN ids \ named : ids[i] \in ToSet(kept)
      <4> HIDE DEF kept, named, ids, o
      <4> QED
        BY <2>1, <2>4 DEF KeptSet
    <3> QED
      BY <3>1 DEF ToSet
  <2>8. named \subseteq DOMAIN ids
    BY DEF NamedIn
  <2>9. Splits(ids, kept, named)
    BY <2>1, <2>2, <2>3, <2>6, <2>7, <2>8 DEF Splits
  <2>16. BaseOK(y, cells, n, st, ex, first) /\ y \in SimT /\ y.trap = x.trap
         /\ y.pending = x.pending /\ x.tick <= y.tick
    <3>1. BaseOK(y, cells, n, st, ex, first)
      <4> HIDE DEF kept, named
      <4> QED
        BY <1>1, <1>4, <2>9, AppliedOK DEF Follows
    <3>2. y \in SimT /\ y.trap = x.trap /\ y.pending = x.pending /\ y.tick = t
      <4> HIDE DEF kept, named, t, ids
      <4> QED
        BY <1>1, <2>1, <2>8, AppliedView
    <3>3. x.tick < t
      BY <1>4 DEF ReadsOn
    <3>4. x.tick \in Nat
      BY DEF SimT, Ticks
    <3> HIDE DEF kept, named, t, ids, y
    <3> QED
      BY <1>1, <3>1, <3>2, <3>3, <3>4
  <2>17. ApplyFrame(x, cells[2 * n], o, skipped) = y
    BY <1>2, <1>6
  <2> HIDE DEF y
  <2> QED
    BY <2>16, <2>17 DEF ReplayedTo
<1> QED
  BY <1>5, <1>6

LEMMA ReplaysOne ==
  ASSUME NEW cells, Parsed(cells), NEW st \in [Actions -> Ticks], NEW ex, NEW first,
         Chained(cells, st, first), NEW x \in SimT, NEW y, NEW m \in Nat, NEW skipped,
         SkipsPoison(cells, skipped), ReplayedTo(y, x, cells, m, st, ex, first),
         m + 1 \in WholeFrames(cells)
  PROVE  ReplayedTo(ReplayFrame(y, cells[2 * (m + 1)], 2 * (m + 1) - 1, skipped),
                    x, cells, m + 1, st, ex, first)
<1> DEFINE frame == cells[2 * (m + 1)]
           z == ReplayFrame(y, frame, 2 * (m + 1) - 1, skipped)
<1> SUFFICES ReplayedTo(z, x, cells, m + 1, st, ex, first)
  OBVIOUS
<1>1. y \in SimT /\ y.pending = x.pending
  BY DEF ReplayedTo
<1>2. CASE y.trap # NoTrap
  <2>1. z = y
    BY <1>2 DEF ReplayFrame
  <2> HIDE DEF z
  <2> QED
    BY <1>1, <1>2, <2>1 DEF ReplayedTo
<1>3. CASE y.trap = NoTrap /\ m + 1 \in LogFrames(cells)
  <2>1. frame.kind = "frame"
    BY <1>3 DEF LogFrames
  <2>2. BaseOK(y, cells, m, st, ex, first)
    BY <1>3 DEF ReplayedTo
  <2>3. ReplayedTo(ApplyFrame(y, cells[2 * (m + 1)], 2 * (m + 1) - 1, skipped),
                   y, cells, m + 1, st, ex, first)
    BY <1>1, <1>3, <2>2, AppliesLog
  <2>4. z = ApplyFrame(y, cells[2 * (m + 1)], 2 * (m + 1) - 1, skipped)
    BY <1>3, <2>1 DEF ReplayFrame
  <2> HIDE DEF z
  <2>5. x.tick \in Nat /\ y.tick \in Nat /\ x.tick <= y.tick
    BY <1>1, <1>3 DEF ReplayedTo, SimT, Ticks
  <2>6. ReplayedTo(z, y, cells, m + 1, st, ex, first)
    BY <2>3, <2>4
  <2>7. z \in SimT /\ z.pending = x.pending
    BY <1>1, <2>6 DEF ReplayedTo
  <2>8. z.tick \in Nat
    BY <2>7 DEF SimT, Ticks
  <2>9. z.trap = NoTrap /\ y.tick <= z.tick => x.tick <= z.tick
    BY <2>5, <2>8
  <2> QED
    BY <2>6, <2>7, <2>9 DEF ReplayedTo
<1>4. CASE y.trap = NoTrap /\ m + 1 \notin LogFrames(cells)
  <2>1. frame.kind = "skip"
    <3>1. WholeFrame(cells, m + 1) /\ cells \in Seq(Cell)
      BY DEF Parsed
    <3>2. 2 * (m + 1) \in 1..Len(cells)
      BY <3>1, LenProperties DEF WholeFrames
    <3>3. frame \in Cell
      BY <3>1, <3>2, ElementOfSeq
    <3>4. frame.kind # "header" /\ frame.kind # "frame"
      BY <1>4, <3>1 DEF WholeFrame, LogFrames
    <3> QED
      BY <3>3, <3>4 DEF Cell
  <2>2. z = y
    BY <2>1 DEF ReplayFrame
  <2>3. BaseOK(y, cells, m + 1, st, ex, first)
    BY <1>4, PassesSkip DEF ReplayedTo
  <2> HIDE DEF z
  <2> QED
    BY <1>1, <1>4, <2>2, <2>3 DEF ReplayedTo
<1> QED
  BY <1>2, <1>3, <1>4

(* The records the scan pass tells replay to step over are ones that trap. *)
LEMMA ScansPoison ==
  ASSUME NEW cells, Parsed(cells), NEW N \in Nat,
         Len(cells) = 2 * N + 1 \/ Len(cells) = 2 * N + 2,
         NEW m \in Nat, m <= N, NEW s
  PROVE  SkipsPoison(cells, SkipTargets(s, cells, 2 * m + 1))
<1>1. FrameCount(cells, 2 * m + 1) = N - m
  BY CountsRest
<1>2. WholeFrames(cells) = 1..N
  BY WholeCount DEF Parsed
<1> SUFFICES ASSUME NEW n \in LogFrames(cells), NEW i \in DOMAIN IdsOf(cells, n),
                    << 2 * n - 1, i >> \in SkipTargets(s, cells, 2 * m + 1)
             PROVE  IdsOf(cells, n)[i] \in Poison
  BY DEF SkipsPoison
<1>3. PICK k \in 1..N - m : /\ FrameNo(cells, 2 * m + 1, k).kind = "skip"
                            /\ << 2 * n - 1, i >> = FrameNo(cells, 2 * m + 1, k).at
  BY <1>1 DEF SkipTargets
<1>4. FrameNo(cells, 2 * m + 1, k) = cells[2 * (m + k)]
  <2>1. k - 1 \in Nat /\ k = (k - 1) + 1
    BY <1>3
  <2>2. PICK q \in Nat : k = q + 1
    BY <2>1
  <2>3. m + q + 1 = m + k
    BY <2>2
  <2>4. FrameNo(cells, 2 * m + 1, q + 1) = cells[2 * (m + q + 1)]
    BY FrameRead
  <2> QED
    BY <2>2, <2>3, <2>4, Zenon
<1>5. m + k \in WholeFrames(cells)
  BY <1>2
<1>6. Names(cells, m + k, << 2 * n - 1, i >>)
  BY <1>3, <1>4, <1>5 DEF Parsed, WholeFrame
<1>7. PICK j \in LogFrames(cells) : \E q \in DOMAIN IdsOf(cells, j) :
        << 2 * n - 1, i >> = << 2 * j - 1, q >> /\ IdsOf(cells, j)[q] \in Poison
  BY <1>6 DEF Names
<1>8. n \in Nat /\ j \in Nat
  BY LogCell
<1>9. j = n
  BY <1>7, <1>8
<1> QED
  BY <1>7, <1>9

(* The replay of a segment's tail ends: it has one outcome, a trap on a    *)
(* record that traps in every apply, or all that is whole.                 *)
LEMMA ReplayEnds ==
  ASSUME NEW cells, Parsed(cells), NEW st \in [Actions -> Ticks], NEW ex, NEW first,
         Chained(cells, st, first), NEW x \in SimT, x.trap = NoTrap,
         NEW N \in Nat, Len(cells) = 2 * N + 1 \/ Len(cells) = 2 * N + 2,
         NEW m, BaseOK(x, cells, m, st, ex, first), NEW s
  PROVE  \E y : /\ Replay(x, s, cells, 2 * m + 1) = {y}
                /\ ReplayedTo(y, x, cells, N, st, ex, first)
<1> DEFINE o == 2 * m + 1
           skipped == SkipTargets(s, cells, o)
           M == FrameCount(cells, o)
           One(y, i) == ReplayFrame(y, FrameNo(cells, o, i), o + (i - 1) * FrameLen, skipped)
           Step(f, n) == [i \in 0..n |-> IF i = 0 THEN {x}
                                         ELSE {One(y, i) : y \in f[i - 1]}]
           Bad == {n \in Nat : ~ \E f : f = Step(f, n)}
<1>0. m \in Nat /\ m <= N
  BY LenProperties DEF BaseOK, Parsed
<1>1. M = N - m /\ M \in Nat
  BY <1>0, CountsRest
<1>2. Bad = {}
  <2> HIDE DEF One
  <2> SUFFICES ASSUME Bad # {} PROVE FALSE
    OBVIOUS
  <2>1. PICK k \in Bad : \A y \in Bad : k <= y
    <3>1. Bad \in SUBSET Nat
      OBVIOUS
    <3> HIDE DEF Bad
    <3> QED
      BY <3>1, NatMin
  <2>2. CASE k = 0
    <3>1. [i \in 0..0 |-> {x}] = Step([i \in 0..0 |-> {x}], 0)
      OBVIOUS
    <3> QED
      BY <2>1, <2>2, <3>1
  <2>3. CASE k # 0
    <3>0. k \in Nat
      BY <2>1
    <3>1. k - 1 \in Nat /\ k - 1 \notin Bad
      <4> HIDE DEF Bad
      <4> QED
        BY <2>1, <2>3, <3>0
    <3>2. PICK f : f = Step(f, k - 1)
      <4> HIDE DEF Step
      <4> QED
        BY <3>1
    <3> DEFINE g == [i \in 0..k |-> IF i = k THEN {One(y, k) : y \in f[k - 1]} ELSE f[i]]
    <3>3. ASSUME NEW i \in 0..k
          PROVE  g[i] = IF i = 0 THEN {x} ELSE {One(y, i) : y \in g[i - 1]}
      <4>1. CASE i = k
        <5>1. g[k - 1] = f[k - 1]
          BY <2>1, <2>3
        <5> QED
          BY <2>3, <4>1, <5>1
      <4>2. CASE i # k
        <5>1. i \in 0..(k - 1) /\ g[i] = f[i]
          BY <4>2, <2>1
        <5>2. f[i] = IF i = 0 THEN {x} ELSE {One(y, i) : y \in f[i - 1]}
          BY <3>2, <5>1, Zenon
        <5>3. i # 0 => g[i - 1] = f[i - 1]
          BY <2>1, <5>1
        <5> QED
          BY <5>1, <5>2, <5>3
      <4> QED
        BY <4>1, <4>2
    <3>4. g = Step(g, k)
      BY <3>3
    <3> QED
      BY <2>1, <3>4
  <2> QED
    BY <2>2, <2>3
<1>3. \E f : f = Step(f, M)
  BY <1>1, <1>2
<1> DEFINE F == CHOOSE f : f = Step(f, M)
<1>4. F = Step(F, M)
  BY <1>3, Zenon
<1>5. Replay(x, s, cells, o) = F[M]
  BY Zenon DEF Replay
<1>6. \A i \in 0..M : F[i] = IF i = 0 THEN {x} ELSE {One(y, i) : y \in F[i - 1]}
  BY <1>4, Zenon
<1> HIDE DEF F, Bad, Step
<1>7. SkipsPoison(cells, skipped)
  BY <1>0, ScansPoison
<1>8. ReplayedTo(x, x, cells, m, st, ex, first)
  <2>1. x.tick \in Nat
    BY DEF SimT, Ticks
  <2>2. x.tick <= x.tick
    BY <2>1
  <2> QED
    BY <2>2 DEF ReplayedTo
<1> DEFINE Good(i) == \E y : F[i] = {y} /\ ReplayedTo(y, x, cells, m + i, st, ex, first)
           Lacks == {i \in 0..M : ~Good(i)}
<1>9. Good(0)
  <2>0. 0 \in 0..M
    BY <1>1
  <2>1. F[0] = {x}
    <3> HIDE DEF One, M
    <3> QED
      BY <1>6, <2>0, Zenon
  <2>2. m + 0 = m
    BY <1>0
  <2> QED
    BY <1>8, <2>1, <2>2
<1>10. ASSUME NEW i \in Nat, i + 1 \in 0..M, Good(i)
       PROVE  Good(i + 1)
  <2>1. PICK y : F[i] = {y} /\ ReplayedTo(y, x, cells, m + i, st, ex, first)
    BY <1>10
  <2>2. F[i + 1] = {One(z, i + 1) : z \in F[(i + 1) - 1]}
    <3>1. i + 1 # 0
      BY <1>10
    <3> HIDE DEF One
    <3> QED
      BY <1>6, <1>10, <3>1
  <2>3. F[i + 1] = {One(y, i + 1)}
    <3>1. (i + 1) - 1 = i
      BY <1>10
    <3> HIDE DEF One
    <3> QED
      BY <2>1, <2>2, <3>1
  <2>4. One(y, i + 1) = ReplayFrame(y, cells[2 * (m + i + 1)], 2 * (m + i + 1) - 1, skipped)
    <3>1. /\ FrameNo(cells, 2 * m + 1, i + 1) = cells[2 * (m + i + 1)]
          /\ (2 * m + 1) + ((i + 1) - 1) * FrameLen = 2 * (m + i + 1) - 1
      BY <1>0, FrameRead
    <3> HIDE DEF skipped
    <3> QED
      BY <3>1
  <2>5. m + i + 1 \in WholeFrames(cells) /\ m + i \in Nat
    <3>1. WholeFrames(cells) = 1..N
      BY WholeCount DEF Parsed
    <3> QED
      BY <1>0, <1>1, <1>10, <3>1, SMTT(20)
  <2>6. ReplayedTo(ReplayFrame(y, cells[2 * (m + i + 1)], 2 * (m + i + 1) - 1, skipped),
                   x, cells, m + i + 1, st, ex, first)
    <3> HIDE DEF skipped
    <3> QED
      BY <1>7, <2>1, <2>5, ReplaysOne
  <2>7. m + (i + 1) = m + i + 1
    BY <1>0
  <2> HIDE DEF One, skipped
  <2> QED
    BY <2>3, <2>4, <2>6, <2>7
<1> HIDE DEF Good
<1>11. Lacks = {}
  <2> SUFFICES ASSUME Lacks # {} PROVE FALSE
    OBVIOUS
  <2>1. PICK n \in Lacks : \A y \in Lacks : n <= y
    <3>1. Lacks \in SUBSET Nat
      BY <1>1
    <3> HIDE DEF Lacks
    <3> QED
      BY <3>1, NatMin
  <2>2. n \in Nat /\ n \in 0..M /\ ~Good(n)
    BY <1>1, <2>1
  <2>3. n # 0
    BY <1>9, <2>2
  <2>4. n - 1 \in Nat /\ n - 1 \notin Lacks
    <3> HIDE DEF Lacks
    <3> QED
      BY <2>1, <2>2, <2>3
  <2>5. Good(n - 1)
    BY <1>1, <2>2, <2>4
  <2>6. (n - 1) + 1 = n
    BY <2>2
  <2> QED
    BY <1>10, <2>2, <2>4, <2>5, <2>6
<1>12. Good(M)
  BY <1>1, <1>11
<1>13. m + M = N
  BY <1>0, <1>1
<1> QED
  BY <1>5, <1>12, <1>13 DEF Good
-----------------------------------------------------------------------------
(***************************************************************************)
(* What writing to a segment, or cutting it, leaves of the frames in it.   *)
(***************************************************************************)

(* Up to frame K the two segments hold the same frames.                    *)
SameUpTo(old, new, K) ==
  /\ K \in Nat
  /\ \A n \in Nat : n <= K => (n \in LogFrames(new) <=> n \in LogFrames(old))
  /\ \A n \in LogFrames(new) :
       n <= K => /\ IdsOf(new, n) = IdsOf(old, n)
                 /\ DeltaOf(new, n) = DeltaOf(old, n)

(* The tick an action was sealed for is never changed.                     *)
Grows(st, later) == \A a \in Actions : st[a] # 0 => later[a] = st[a]

LEMMA CarriesTimes ==
  ASSUME NEW old, Parsed(old), NEW new, Parsed(new), NEW K, SameUpTo(old, new, K),
         NEW st \in [Actions -> Ticks], NEW later \in [Actions -> Ticks], Grows(st, later),
         NEW first, Chained(old, st, first)
  PROVE  /\ \A n \in LogFrames(new) : n <= K => /\ n \in LogFrames(old)
                                                /\ When(new, n, later) = When(old, n, st)
         /\ \A m \in Nat : \A lag :
              m <= K /\ LagIs(old, m, st, first, lag) => LagIs(new, m, later, first, lag)
<1>1. ASSUME NEW n \in LogFrames(new), n <= K
      PROVE  /\ n \in LogFrames(old) /\ n \in Nat
             /\ When(new, n, later) = When(old, n, st)
  <2>1. n \in Nat
    BY LogCell
  <2>2. n \in LogFrames(old) /\ IdsOf(new, n) = IdsOf(old, n)
    BY <1>1, <2>1 DEF SameUpTo
  <2>3. IdsOf(old, n) \in Seq(Actions) /\ 1 \in DOMAIN IdsOf(old, n)
    BY <2>2, LogCell
  <2>4. IdsOf(old, n)[1] \in Actions
    BY <2>3, ElementOfSeq, LenProperties
  <2>5. When(old, n, st) # 0
    BY <2>2 DEF Chained, Timed
  <2> QED
    BY <2>1, <2>2, <2>4, <2>5 DEF When, Grows
<1>2. ASSUME NEW m \in Nat, NEW lag, m <= K, LagIs(old, m, st, first, lag)
      PROVE  LagIs(new, m, later, first, lag)
  <2>0. K \in Nat /\ \A n \in LogFrames(old) : n \in Nat
    BY LogCell DEF SameUpTo
  <2>1. \A n \in LogFrames(old) : n <= m => n \in LogFrames(new)
    BY <1>2, <2>0 DEF SameUpTo
  <2>2. \A n \in LogFrames(new) : n <= m => n \in LogFrames(old) /\ When(new, n, later) = When(old, n, st)
    BY <1>1, <1>2, <2>0, LogCell
  <2>3. \A n \in LogFrames(new) : n \in Nat
    BY LogCell
  <2>4. ASSUME \A j \in LogFrames(new) : j > m
        PROVE  lag = first
    <3>1. \A j \in LogFrames(old) : j > m
      BY <2>0, <2>1, <2>4
    <3> QED
      BY <1>2, <3>1 DEF LagIs
  <2>5. ASSUME NEW j \in LogFrames(new), j <= m,
               \A k \in LogFrames(new) : k <= m => k <= j
        PROVE  lag = When(new, j, later)
    <3>1. j \in LogFrames(old) /\ \A k \in LogFrames(old) : k <= m => k <= j
      BY <2>1, <2>2, <2>5
    <3>2. lag = When(old, j, st)
      BY <1>2, <2>5, <3>1 DEF LagIs
    <3> QED
      BY <2>2, <2>5, <3>2
  <2> QED
    BY <2>4, <2>5 DEF LagIs
<1> QED
  BY <1>1, <1>2

LEMMA CarriesChain ==
  ASSUME NEW old, Parsed(old), NEW new, Parsed(new), NEW K, SameUpTo(old, new, K),
         NEW st \in [Actions -> Ticks], NEW later \in [Actions -> Ticks], Grows(st, later),
         NEW first, Chained(old, st, first)
  PROVE  /\ \A n \in LogFrames(new) : n <= K => Timed(new, n, later, first)
         /\ \A n, p \in LogFrames(new) : n < p /\ p <= K => Before(new, n, p, later)
<1>0. K \in Nat /\ \A n \in LogFrames(new) : n \in Nat /\ n >= 1
  BY LogCell DEF SameUpTo
<1>1. \A n \in LogFrames(new) : n <= K => /\ n \in LogFrames(old)
                                          /\ When(new, n, later) = When(old, n, st)
  BY CarriesTimes
<1>2. \A n \in LogFrames(new) : n <= K => /\ IdsOf(new, n) = IdsOf(old, n)
                                          /\ DeltaOf(new, n) = DeltaOf(old, n)
  BY DEF SameUpTo
<1>3. ASSUME NEW n \in LogFrames(new), n <= K
      PROVE  Timed(new, n, later, first)
  <2>1. Timed(old, n, st, first) /\ n \in LogFrames(old)
    BY <1>1, <1>3 DEF Chained
  <2>2. n - 1 \in Nat /\ n - 1 <= K
    BY <1>0, <1>3
  <2>3. LagIs(old, n - 1, st, first, When(old, n, st) - DeltaOf(old, n))
    BY <2>1 DEF Timed
  <2>4. LagIs(new, n - 1, later, first, When(old, n, st) - DeltaOf(old, n))
    BY <2>2, <2>3, CarriesTimes
  <2>5. When(new, n, later) = When(old, n, st) /\ IdsOf(new, n) = IdsOf(old, n)
        /\ DeltaOf(new, n) = DeltaOf(old, n)
    BY <1>1, <1>2, <1>3
  <2>6. \A i \in DOMAIN IdsOf(old, n) : later[IdsOf(old, n)[i]] = When(old, n, st)
    <3>1. \A i \in DOMAIN IdsOf(old, n) : IdsOf(old, n)[i] \in Actions
      BY <2>1, LogCell, ElementOfSeq, LenProperties
    <3> QED
      BY <2>1, <3>1 DEF Timed, Grows
  <2> QED
    BY <2>1, <2>4, <2>5, <2>6 DEF Timed
<1>4. ASSUME NEW n \in LogFrames(new), NEW p \in LogFrames(new), n < p, p <= K
      PROVE  Before(new, n, p, later)
  <2>1. n <= K
    BY <1>0, <1>4
  <2>2. n \in LogFrames(old) /\ p \in LogFrames(old)
    BY <1>1, <1>4, <2>1
  <2>3. Before(old, n, p, st)
    BY <1>4, <2>2 DEF Chained
  <2> QED
    BY <1>1, <1>2, <1>4, <2>1, <2>3 DEF Before
<1> QED
  BY <1>3, <1>4

(* The frames the new segment has beyond K are later than tick t, and their*)
(* records than all that were sealed.                                      *)
Later(new, K, st, later, t) ==
  \A n \in LogFrames(new) :
    n > K => /\ t < When(new, n, later)
             /\ \A i \in DOMAIN IdsOf(new, n) : \A a \in Actions :
                  st[a] # 0 => a < IdsOf(new, n)[i]

(* What is to be covered was so before, and not by a frame that is gone; or*)
(* a new frame covers it.                                                  *)
Accounted(old, new, K, st, later, ex, exLater) ==
  \A a \in Actions :
    later[a] # 0 /\ a \notin exLater =>
      \/ /\ st[a] # 0 /\ a \notin ex
         /\ \A n \in LogFrames(old) : n > K => a \notin ToSet(IdsOf(old, n))
      \/ \E n \in LogFrames(new) : n > K /\ a \in ToSet(IdsOf(new, n))

LEMMA WorldIds ==
  ASSUME NEW w \in World, NEW k \in DOMAIN w
  PROVE  w[k].id \in Actions /\ w[k].tick \in Ticks
<1> DEFINE E == [id : Actions, tick : Ticks]
<1>1. w \in Seq(E)
  BY DEF World
<1>2. w[k] \in E
  <2> HIDE DEF E
  <2> QED
    BY <1>1, ElementOfSeq, LenProperties
<1> QED
  BY <1>2

LEMMA KeepsWorld ==
  ASSUME NEW x, NEW st \in [Actions -> Ticks], NEW later \in [Actions -> Ticks],
         Grows(st, later), WorldOK(x, st)
  PROVE  WorldOK(x, later)
<1>1. \A k \in DOMAIN x.world : x.world[k].id \in Actions
  BY WorldIds DEF WorldOK
<1> QED
  BY <1>1 DEF WorldOK, Grows

LEMMA CarriesBase ==
  ASSUME NEW old, Parsed(old), NEW new, Parsed(new), NEW K, SameUpTo(old, new, K),
         NEW st \in [Actions -> Ticks], NEW later \in [Actions -> Ticks], Grows(st, later),
         NEW first, Chained(old, st, first), NEW ex, NEW exLater,
         NEW x, NEW m, BaseOK(x, old, m, st, ex, first), m <= K, 2 * m + 1 <= Len(new),
         NEW t \in Nat, x.tick <= t, Later(new, K, st, later, t),
         Accounted(old, new, K, st, later, ex, exLater)
  PROVE  BaseOK(x, new, m, later, exLater, first)
<1>0. /\ m \in Nat /\ K \in Nat /\ \A n \in LogFrames(new) : n \in Nat
      /\ \A n \in LogFrames(old) : n \in Nat
      /\ WorldOK(x, st) /\ ReadsOn(x, old, m, st, first) /\ Covers(x, old, m, st, ex)
  BY LogCell DEF SameUpTo, BaseOK
<1>1. \A n \in LogFrames(new) : n <= K => /\ n \in LogFrames(old)
                                          /\ When(new, n, later) = When(old, n, st)
  BY CarriesTimes
<1>2. \A n \in LogFrames(new) : n <= K => IdsOf(new, n) = IdsOf(old, n)
  BY DEF SameUpTo
<1>3. WorldOK(x, later)
  BY <1>0, KeepsWorld
<1>4. x.tick \in Nat /\ \A k \in DOMAIN x.world : x.world[k].id \in Actions /\ st[x.world[k].id] # 0
  <2>1. \A k \in DOMAIN x.world : x.world[k].id \in Actions
    BY <1>0, WorldIds DEF WorldOK
  <2>2. \A k \in DOMAIN x.world : st[x.world[k].id] # 0
    BY <1>0 DEF WorldOK
  <2>3. x.tick \in Nat
    BY <1>0, ConstantsTyped DEF WorldOK, Ticks
  <2> QED
    BY <2>1, <2>2, <2>3
<1>5. ReadsOn(x, new, m, later, first)
  <2>1. ASSUME NEW n \in LogFrames(new), n <= m
        PROVE  When(new, n, later) <= x.tick
    <3>1. n <= K
      BY <1>0, <2>1
    <3> QED
      BY <1>0, <1>1, <2>1, <3>1 DEF ReadsOn
  <2>2. ASSUME NEW n \in LogFrames(new), n > m
        PROVE  /\ x.tick < When(new, n, later)
               /\ \A i \in DOMAIN IdsOf(new, n) : \A k \in DOMAIN x.world :
                    x.world[k].id < IdsOf(new, n)[i]
    <3>1. CASE n <= K
      BY <1>0, <1>1, <1>2, <2>2, <3>1 DEF ReadsOn
    <3>2. CASE n > K
      <4>1. t < When(new, n, later) /\ When(new, n, later) \in Nat
        BY <3>2, TimesTyped DEF Later
      <4>2. \A i \in DOMAIN IdsOf(new, n) : \A k \in DOMAIN x.world :
              x.world[k].id < IdsOf(new, n)[i]
        BY <1>4, <3>2 DEF Later
      <4> QED
        BY <1>4, <4>1, <4>2
    <3> QED
      BY <1>0, <3>1, <3>2
  <2>3. LagIs(new, m, later, first, x.lastLogged)
    BY <1>0, CarriesTimes DEF ReadsOn
  <2> QED
    BY <2>1, <2>2, <2>3 DEF ReadsOn
<1>6. Covers(x, new, m, later, exLater)
  <2> SUFFICES ASSUME NEW a \in Actions, later[a] # 0, a \notin exLater,
                      ~ \E n \in LogFrames(new) : n > m /\ a \in ToSet(IdsOf(new, n))
               PROVE  a \in Applied(x) \cup x.faulted
    BY DEF Covers
  <2>1. ~ \E n \in LogFrames(new) : n > K /\ a \in ToSet(IdsOf(new, n))
    BY <1>0
  <2>2. /\ st[a] # 0 /\ a \notin ex
        /\ \A n \in LogFrames(old) : n > K => a \notin ToSet(IdsOf(old, n))
    BY <2>1 DEF Accounted
  <2>3. ASSUME NEW n \in LogFrames(old), n > m, a \in ToSet(IdsOf(old, n))
        PROVE  FALSE
    <3>1. n <= K
      BY <1>0, <2>2, <2>3
    <3>2. n \in LogFrames(new)
      BY <1>0, <3>1 DEF SameUpTo
    <3> QED
      BY <1>2, <2>3, <3>1, <3>2
  <2> QED
    BY <1>0, <2>2, <2>3 DEF Covers
<1> QED
  BY <1>0, <1>3, <1>5, <1>6 DEF BaseOK

(* Two segments that agree up to the end of frame K hold the same frames   *)
(* up to there.                                                            *)
LEMMA AgreesUpTo ==
  ASSUME NEW old, Parsed(old), NEW new \in Seq(Cell), NEW K \in Nat,
         2 * K + 1 <= Len(old), 2 * K + 1 <= Len(new),
         \A i \in 1..2 * K + 1 : new[i] = old[i]
  PROVE  /\ SameUpTo(old, new, K)
         /\ Len(new) >= 1
         /\ new[1].kind = "header"
         /\ \A n \in WholeFrames(new) : n <= K => WholeFrame(new, n)
<1>0. Len(old) \in Nat /\ Len(new) \in Nat
  BY LenProperties DEF Parsed
<1>1. \A n \in 1..K : n \in WholeFrames(old) /\ n \in WholeFrames(new)
  BY <1>0 DEF WholeFrames
<1>2. \A n \in 1..K : new[2 * n] = old[2 * n] /\ new[2 * n + 1] = old[2 * n + 1]
  OBVIOUS
<1>3. \A n \in Nat : n <= K /\ n >= 1 => (n \in LogFrames(new) <=> n \in LogFrames(old))
  BY <1>1, <1>2 DEF LogFrames
<1>4. \A n : n \in LogFrames(new) \/ n \in LogFrames(old) => n \in Nat /\ n >= 1
  BY DEF LogFrames, WholeFrames
<1>5. SameUpTo(old, new, K)
  <2>1. \A n \in Nat : n <= K => (n \in LogFrames(new) <=> n \in LogFrames(old))
    BY <1>3, <1>4
  <2>2. ASSUME NEW n \in LogFrames(new), n <= K
        PROVE  IdsOf(new, n) = IdsOf(old, n) /\ DeltaOf(new, n) = DeltaOf(old, n)
    <3>1. n \in 1..K
      BY <1>4, <2>2
    <3> QED
      BY <1>2, <3>1 DEF IdsOf, DeltaOf
  <2> QED
    BY <2>1, <2>2 DEF SameUpTo
<1>6. Len(new) >= 1 /\ new[1].kind = "header"
  <2>1. new[1] = old[1]
    OBVIOUS
  <2> QED
    BY <1>0, <2>1 DEF Parsed
<1>7. ASSUME NEW n \in WholeFrames(new), n <= K
      PROVE  WholeFrame(new, n)
  <2>1. n \in 1..K
    BY <1>7 DEF WholeFrames
  <2>2. WholeFrame(old, n)
    BY <1>1, <2>1 DEF Parsed
  <2>3. new[2 * n] = old[2 * n] /\ new[2 * n + 1] = old[2 * n + 1] /\ IdsOf(new, n) = IdsOf(old, n)
    BY <1>2, <2>1 DEF IdsOf
  <2>4. ASSUME new[2 * n].kind = "skip"
        PROVE  Names(new, n, new[2 * n].at)
    <3>1. Names(old, n, old[2 * n].at)
      BY <2>2, <2>3, <2>4 DEF WholeFrame
    <3>2. PICK j \in LogFrames(old) :
            /\ j < n
            /\ \E i \in DOMAIN IdsOf(old, j) :
                 old[2 * n].at = << 2 * j - 1, i >> /\ IdsOf(old, j)[i] \in Poison
      BY <3>1 DEF Names
    <3>3. j \in LogFrames(new) /\ j <= K
      BY <1>3, <1>4, <2>1, <3>2
    <3>4. IdsOf(new, j) = IdsOf(old, j)
      BY <1>5, <3>3 DEF SameUpTo
    <3> QED
      BY <2>3, <3>2, <3>3, <3>4 DEF Names
  <2> QED
    BY <2>2, <2>3, <2>4 DEF WholeFrame
<1> QED
  BY <1>5, <1>6, <1>7

(* A cut keeps the frames before it.                                       *)
LEMMA CutKeeps ==
  ASSUME NEW cells, Parsed(cells), NEW K \in Nat, NEW p \in 1..Len(cells),
         p = 2 * K + 1 \/ p = 2 * K + 2
  PROVE  /\ Parsed(SubSeq(cells, 1, p))
         /\ Len(SubSeq(cells, 1, p)) = p
         /\ SameUpTo(cells, SubSeq(cells, 1, p), K)
         /\ \A n \in LogFrames(SubSeq(cells, 1, p)) : n <= K
<1> PICK new : new = SubSeq(cells, 1, p)
  OBVIOUS
<1>0. cells \in Seq(Cell) /\ Len(cells) \in Nat
  BY LenProperties DEF Parsed
<1>1. p \in Int /\ 1 \in Int /\ 1 <= p /\ \A i \in 1..p : cells[i] \in Cell
  BY <1>0, ElementOfSeq
<1>2. p \in 0..Len(cells)
  BY <1>0
<1>3. new \in Seq(Cell) /\ Len(new) = p /\ \A i \in 1..p : new[i] = cells[i]
  BY <1>0, <1>2, Beginning
<1>4. /\ \A i \in 1..2 * K + 1 : new[i] = cells[i]
      /\ 2 * K + 1 <= Len(cells) /\ 2 * K + 1 <= Len(new)
  BY <1>0, <1>3
<1>5. /\ SameUpTo(cells, new, K)
      /\ Len(new) >= 1
      /\ new[1].kind = "header"
      /\ \A n \in WholeFrames(new) : n <= K => WholeFrame(new, n)
  BY <1>0, <1>3, <1>4, AgreesUpTo
<1>6. \A n \in WholeFrames(new) : n <= K
  BY <1>3 DEF WholeFrames
<1>7. Parsed(new)
  BY <1>3, <1>5, <1>6 DEF Parsed
<1>8. \A n \in LogFrames(new) : n <= K
  BY <1>6 DEF LogFrames
<1> QED
  BY <1>3, <1>5, <1>7, <1>8

(* The cells a frame is written as.                                        *)
LEMMA FrameCells ==
  ASSUME NEW d \in Nat, NEW ids \in Seq(Actions)
  PROVE  /\ Frame(d, ids) \in Seq(Cell) /\ Len(Frame(d, ids)) = 2
         /\ Frame(d, ids)[1] = [kind |-> "frame", part |-> 1, delta |-> d, ids |-> ids]
         /\ Frame(d, ids)[2] = [Frame(d, ids)[1] EXCEPT !.part = 2]
<1> DEFINE f == [part \in 1..2 |-> [kind |-> "frame", part |-> part, delta |-> d, ids |-> ids]]
<1>1. Frame(d, ids) = f
  BY DEF Frame, FrameLen
<1>2. \A part \in 1..2 : [kind |-> "frame", part |-> part, delta |-> d, ids |-> ids] \in Cell
  BY DEF Cell
<1>3. f \in [1..2 -> Cell]
  BY <1>2
<1>4. f \in Seq(Cell) /\ Len(f) = 2
  BY <1>3, SeqDef, LenProperties
<1> QED
  BY <1>1, <1>4

LEMMA SkipCells ==
  ASSUME NEW s \in Segments, NEW at \in Nat \X Nat
  PROVE  /\ Skip(s, at) \in Seq(Cell) /\ Len(Skip(s, at)) = 2
         /\ Skip(s, at)[1] = [kind |-> "skip", part |-> 1, segment |-> s, at |-> at]
         /\ Skip(s, at)[2] = [Skip(s, at)[1] EXCEPT !.part = 2]
<1> DEFINE f == [part \in 1..2 |-> [kind |-> "skip", part |-> part, segment |-> s, at |-> at]]
<1>1. Skip(s, at) = f
  BY DEF Skip, FrameLen
<1>2. \A part \in 1..2 : [kind |-> "skip", part |-> part, segment |-> s, at |-> at] \in Cell
  BY DEF Cell
<1>3. f \in [1..2 -> Cell]
  BY <1>2
<1>4. f \in Seq(Cell) /\ Len(f) = 2
  BY <1>3, SeqDef, LenProperties
<1> QED
  BY <1>1, <1>4

NewFrame(cells, f) ==
  /\ f \in Seq(Cell) /\ Len(f) = 2
  /\ f[1].kind # "header" /\ f[1].part = 1 /\ f[2] = [f[1] EXCEPT !.part = 2]
  /\ f[1].kind = "frame" => f[1].ids # << >>
  /\ f[1].kind = "skip" => TrapNames(cells, f[1].at)

(* Two cells written at the end of a whole segment are its next frame.     *)
LEMMA AppendKeeps ==
  ASSUME NEW cells, Parsed(cells), NEW N \in Nat, Len(cells) = 2 * N + 1,
         NEW f, NewFrame(cells, f)
  PROVE  /\ Parsed(cells \o f)
         /\ Len(cells \o f) = 2 * (N + 1) + 1
         /\ (cells \o f)[2 * (N + 1)] = f[1]
         /\ SameUpTo(cells, cells \o f, N)
         /\ \A n \in LogFrames(cells \o f) : n <= N \/ n = N + 1
         /\ N + 1 \in LogFrames(cells \o f) <=> f[1].kind = "frame"
<1> PICK new : new = cells \o f
  OBVIOUS
<1>0. cells \in Seq(Cell) /\ f \in Seq(Cell) /\ Len(f) = 2
  BY DEF Parsed, NewFrame
<1>1. /\ new \in Seq(Cell)
      /\ Len(new) = Len(cells) + Len(f)
      /\ \A i \in 1..Len(cells) : new[i] = cells[i]
      /\ \A i \in 1..Len(f) : new[Len(cells) + i] = f[i]
  <2>1. /\ cells \o f \in Seq(Cell)
        /\ Len(cells \o f) = Len(cells) + Len(f)
        /\ \A i \in 1..Len(cells) : (cells \o f)[i] = cells[i]
        /\ \A i \in 1..Len(f) : (cells \o f)[Len(cells) + i] = f[i]
    <3>1. cells \in Seq(Cell)
      BY <1>0
    <3>2. f \in Seq(Cell)
      BY <1>0
    <3>3. cells \o f \in Seq(Cell)
      BY <3>1, <3>2, Joined
    <3>4. Len(cells \o f) = Len(cells) + Len(f)
      BY <3>1, <3>2, Joined
    <3>5. \A i \in 1..Len(cells) : (cells \o f)[i] = cells[i]
      BY <3>1, <3>2, Joined
    <3>6. \A i \in 1..Len(f) : (cells \o f)[Len(cells) + i] = f[i]
      BY <3>1, <3>2, Joined
    <3> QED
      BY <3>3, <3>4, <3>5, <3>6
  <2> QED
    BY <2>1, Zenon
<1>2. /\ Len(new) = 2 * N + 3
      /\ \A i \in 1..2 * N + 1 : new[i] = cells[i]
      /\ new[2 * N + 2] = f[1] /\ new[2 * N + 3] = f[2]
  BY <1>0, <1>1
<1>3. 2 * (N + 1) = 2 * N + 2 /\ 2 * (N + 1) + 1 = 2 * N + 3
  OBVIOUS
<1>4. /\ SameUpTo(cells, new, N)
      /\ Len(new) >= 1
      /\ new[1].kind = "header"
      /\ \A n \in WholeFrames(new) : n <= N => WholeFrame(new, n)
  <2>1. new \in Seq(Cell) /\ 2 * N + 1 <= Len(cells) /\ 2 * N + 1 <= Len(new)
    BY <1>1, <1>2, SMTT(20)
  <2> QED
    BY <1>2, <2>1, AgreesUpTo
<1>5. WholeFrames(new) = 1..N + 1
  <2>1. new \in Seq(Cell) /\ Len(new) = 2 * (N + 1) + 1 /\ N + 1 \in Nat
    BY <1>1, <1>2
  <2> QED
    BY <2>1, WholeCount
<1>6. WholeFrame(new, N + 1)
  <2>1. new[2 * (N + 1)] = f[1] /\ new[2 * (N + 1) + 1] = f[2]
    BY <1>2, <1>3
  <2>2. IdsOf(new, N + 1) = f[1].ids
    BY <2>1 DEF IdsOf
  <2>3. ASSUME f[1].kind = "skip"
        PROVE  Names(new, N + 1, f[1].at)
    <3>1. PICK j \in LogFrames(cells) : \E i \in DOMAIN IdsOf(cells, j) :
            f[1].at = << 2 * j - 1, i >> /\ IdsOf(cells, j)[i] \in Poison
      BY <2>3 DEF TrapNames, NewFrame
    <3>2. j \in Nat /\ j < N + 1 /\ j <= N
      BY LogCell
    <3>3. j \in LogFrames(new) /\ IdsOf(new, j) = IdsOf(cells, j)
      BY <1>4, <3>2 DEF SameUpTo
    <3> QED
      BY <3>1, <3>2, <3>3 DEF Names
  <2> QED
    BY <2>1, <2>2, <2>3 DEF WholeFrame, NewFrame
<1>7. Parsed(new)
  <2>1. \A n \in WholeFrames(new) : WholeFrame(new, n)
    BY <1>4, <1>5, <1>6
  <2> QED
    BY <1>1, <1>4, <2>1 DEF Parsed
<1>8. \A n \in LogFrames(new) : n <= N \/ n = N + 1
  BY <1>5 DEF LogFrames
<1>9. N + 1 \in LogFrames(new) <=> f[1].kind = "frame"
  BY <1>2, <1>3, <1>5 DEF LogFrames
<1> QED
  BY <1>2, <1>3, <1>4, <1>7, <1>8, <1>9
-----------------------------------------------------------------------------
(***************************************************************************)
(* What a step makes of a segment, and of the bases that go on in it.      *)
(***************************************************************************)

(* Whatever went on in the old segment from m <= K frames goes on in the   *)
(* new one.                                                                *)
Carries(old, new, K, st, later, ex, exLater, first, t) ==
  \A x, m :
    BaseOK(x, old, m, st, ex, first) /\ m <= K /\ x.tick <= t
    => BaseOK(x, new, m, later, exLater, first)

LEMMA CarriesAll ==
  ASSUME NEW old, Parsed(old), NEW new, Parsed(new), NEW K, SameUpTo(old, new, K),
         2 * K + 1 <= Len(new),
         NEW st \in [Actions -> Ticks], NEW later \in [Actions -> Ticks], Grows(st, later),
         NEW first, Chained(old, st, first), NEW ex, NEW exLater,
         NEW t \in Nat, Later(new, K, st, later, t),
         Accounted(old, new, K, st, later, ex, exLater)
  PROVE  Carries(old, new, K, st, later, ex, exLater, first, t)
<1> SUFFICES ASSUME NEW x, NEW m, BaseOK(x, old, m, st, ex, first), m <= K, x.tick <= t
             PROVE  BaseOK(x, new, m, later, exLater, first)
  BY DEF Carries
<1>1. m \in Nat /\ K \in Nat /\ Len(new) \in Nat
  BY LenProperties DEF BaseOK, SameUpTo, Parsed
<1>2. 2 * m + 1 <= Len(new)
  BY <1>1
<1> QED
  BY <1>2, CarriesBase

(* The records sealed next: in order, and after all that were sealed.      *)
Unsealed(ids, st) ==
  /\ ids \in Seq(Actions) /\ Rising(ids)
  /\ \A i \in DOMAIN ids : \A a \in Actions : st[a] # 0 => a < ids[i]

SealsAt(ids, t, st) == [a \in Actions |-> IF a \in ToSet(ids) THEN t ELSE st[a]]

LEMMA SealsTyped ==
  ASSUME NEW st \in [Actions -> Ticks], NEW t \in Ticks, NEW ids, Unsealed(ids, st)
  PROVE  /\ SealsAt(ids, t, st) \in [Actions -> Ticks]
         /\ Grows(st, SealsAt(ids, t, st))
         /\ \A i \in DOMAIN ids : /\ ids[i] \in Actions
                                  /\ SealsAt(ids, t, st)[ids[i]] = t
         /\ \A a \in Actions : SealsAt(ids, t, st)[a] # st[a] => a \in ToSet(ids)
<1>1. \A i \in DOMAIN ids : ids[i] \in Actions
  BY ElementOfSeq, LenProperties DEF Unsealed
<1>2. Actions \subseteq Nat
  BY ConstantsTyped DEF Actions
<1>3. \A a \in Actions : a \in ToSet(ids) => st[a] = 0
  <2> SUFFICES ASSUME NEW i \in DOMAIN ids, st[ids[i]] # 0
               PROVE  FALSE
    BY DEF ToSet
  <2>1. ids[i] < ids[i] /\ ids[i] \in Nat
    BY <1>1, <1>2 DEF Unsealed
  <2> QED
    BY <2>1
<1> QED
  BY <1>1, <1>3 DEF SealsAt, Grows, ToSet

(* A whole segment, what was logged in it before tick t, and the tick its  *)
(* next delta counts from.                                                 *)
OpenAt(cells, N, st, first, t, lag) ==
  /\ Parsed(cells) /\ N \in Nat /\ Len(cells) = 2 * N + 1
  /\ Chained(cells, st, first)
  /\ \A n \in LogFrames(cells) : When(cells, n, st) < t
  /\ lag \in Nat /\ lag <= t /\ LagIs(cells, N, st, first, lag)

(* A frame sealed at tick t and written to it (sim_seal_frame, appendFrame). *)
Writes(cells, N, st, first, t, lag, ids, new, later) ==
  /\ OpenAt(cells, N, st, first, t, lag)
  /\ t \in Ticks /\ t # 0
  /\ ids # << >> /\ Unsealed(ids, st)
  /\ new = cells \o Frame(t - lag, ids)
  /\ later = SealsAt(ids, t, st)

Written(cells, N, st, first, t, ids, new, later, ex) ==
  /\ Parsed(new) /\ Len(new) = 2 * (N + 1) + 1
  /\ Chained(new, later, first)
  /\ N + 1 \in LogFrames(new) /\ IdsOf(new, N + 1) = ids
  /\ When(new, N + 1, later) = t
  /\ Carries(cells, new, N, st, later, ex, ex, first, t - 1)

LEMMA SealFrame ==
  ASSUME NEW cells, NEW N, NEW st \in [Actions -> Ticks], NEW first, NEW t,
         NEW lag, NEW ids, NEW new, NEW later, NEW ex,
         Writes(cells, N, st, first, t, lag, ids, new, later)
  PROVE  Written(cells, N, st, first, t, ids, new, later, ex)
<1> DEFINE f == Frame(t - lag, ids)
<1>a. /\ OpenAt(cells, N, st, first, t, lag)
      /\ t \in Ticks /\ t # 0 /\ ids # << >> /\ Unsealed(ids, st)
      /\ later = SealsAt(ids, t, st)
  BY DEF Writes
<1>b. new = cells \o f
  BY DEF Writes
<1>0. /\ Parsed(cells) /\ N \in Nat /\ Len(cells) = 2 * N + 1 /\ Chained(cells, st, first)
      /\ lag \in Nat /\ lag <= t /\ LagIs(cells, N, st, first, lag)
  BY <1>a DEF OpenAt
<1>1. t \in Nat /\ t - lag \in Nat /\ t - 1 \in Nat
  BY <1>0, <1>a, ConstantsTyped DEF Ticks
<1>2. ids \in Seq(Actions) /\ Rising(ids)
  BY <1>a DEF Unsealed
<1>3. /\ f \in Seq(Cell) /\ Len(f) = 2
      /\ f[1] = [kind |-> "frame", part |-> 1, delta |-> t - lag, ids |-> ids]
      /\ f[2] = [f[1] EXCEPT !.part = 2]
  BY <1>1, <1>2, FrameCells
<1> HIDE DEF f
<1>4. NewFrame(cells, f) /\ f[1].kind = "frame"
  BY <1>3, <1>a DEF NewFrame
<1>5. /\ Parsed(new)
      /\ Len(new) = 2 * (N + 1) + 1
      /\ new[2 * (N + 1)] = f[1]
      /\ SameUpTo(cells, new, N)
      /\ \A n \in LogFrames(new) : n <= N \/ n = N + 1
      /\ N + 1 \in LogFrames(new)
  <2>2. /\ Parsed(cells \o f)
        /\ Len(cells \o f) = 2 * (N + 1) + 1
        /\ (cells \o f)[2 * (N + 1)] = f[1]
        /\ SameUpTo(cells, cells \o f, N)
        /\ \A n \in LogFrames(cells \o f) : n <= N \/ n = N + 1
        /\ N + 1 \in LogFrames(cells \o f) <=> f[1].kind = "frame"
    BY <1>0, <1>4, AppendKeeps
  <2> QED
    BY <1>4, <1>b, <2>2, Zenon
<1>6. IdsOf(new, N + 1) = ids /\ DeltaOf(new, N + 1) = t - lag
  <2>1. f[1].ids = ids /\ f[1].delta = t - lag
    BY <1>3
  <2>2. new[2 * (N + 1)] = f[1]
    BY <1>5
  <2> QED
    BY <2>1, <2>2 DEF IdsOf, DeltaOf
<1>7. /\ later \in [Actions -> Ticks] /\ Grows(st, later)
      /\ \A i \in DOMAIN ids : ids[i] \in Actions /\ later[ids[i]] = t
      /\ \A a \in Actions : later[a] # st[a] => a \in ToSet(ids)
  BY <1>a, SealsTyped
<1>8. 1 \in DOMAIN ids
  BY <1>5, <1>6, LogCell
<1>9. When(new, N + 1, later) = t
  BY <1>6, <1>7, <1>8 DEF When
<1>10. /\ \A n \in LogFrames(new) : n <= N => /\ n \in LogFrames(cells)
                                              /\ When(new, n, later) = When(cells, n, st)
       /\ LagIs(new, N, later, first, lag)
  <2>1. N <= N
    BY <1>0
  <2>2. \A n \in LogFrames(new) : n <= N => /\ n \in LogFrames(cells)
                                           /\ When(new, n, later) = When(cells, n, st)
    BY <1>0, <1>5, <1>7, CarriesTimes
  <2>3. \A m \in Nat : \A k :
          m <= N /\ LagIs(cells, m, st, first, k) => LagIs(new, m, later, first, k)
    BY <1>0, <1>5, <1>7, CarriesTimes
  <2> QED
    BY <1>0, <2>1, <2>2, <2>3
<1>11. /\ \A n \in LogFrames(new) : n <= N => Timed(new, n, later, first)
       /\ \A n, p \in LogFrames(new) : n < p /\ p <= N => Before(new, n, p, later)
  BY <1>0, <1>5, <1>7, CarriesChain
<1>12. Timed(new, N + 1, later, first)
  <2>1. t - (t - lag) = lag /\ (N + 1) - 1 = N
    BY <1>0, <1>1
  <2> QED
    BY <1>2, <1>6, <1>7, <1>9, <1>10, <1>a, <2>1 DEF Timed, Rising
<1>13. ASSUME NEW n \in LogFrames(new), n <= N
       PROVE  Before(new, n, N + 1, later)
  <2>1. /\ n \in LogFrames(cells) /\ When(new, n, later) = When(cells, n, st)
        /\ IdsOf(new, n) = IdsOf(cells, n)
    BY <1>5, <1>10, <1>13, LogCell DEF SameUpTo
  <2>2. When(new, n, later) < t
    BY <1>a, <2>1 DEF OpenAt
  <2>3. \A i \in DOMAIN IdsOf(cells, n) : /\ IdsOf(cells, n)[i] \in Actions
                                          /\ st[IdsOf(cells, n)[i]] # 0
    <3>1. \A i \in DOMAIN IdsOf(cells, n) : IdsOf(cells, n)[i] \in Actions
      BY <1>0, <2>1, LogCell, ElementOfSeq
    <3>2. Timed(cells, n, st, first)
      BY <1>0, <2>1 DEF Chained
    <3> QED
      BY <3>1, <3>2 DEF Timed
  <2> QED
    BY <1>6, <1>9, <1>a, <2>1, <2>2, <2>3 DEF Before, Unsealed
<1>14. Chained(new, later, first)
  <2>1. \A n \in LogFrames(new) : n \in Nat
    BY <1>5, LogCell
  <2>2. \A n, p \in LogFrames(new) : n < p => n <= N /\ (p <= N \/ p = N + 1)
    BY <1>0, <1>5, <2>1
  <2> QED
    BY <1>5, <1>11, <1>12, <1>13, <2>2 DEF Chained
<1>15. Later(new, N, st, later, t - 1)
  <2>1. \A n \in LogFrames(new) : n > N => n = N + 1
    BY <1>0, <1>5, LogCell
  <2>2. t - 1 < t
    BY <1>1
  <2> QED
    BY <1>6, <1>9, <1>a, <2>1, <2>2 DEF Later, Unsealed
<1>16. Accounted(cells, new, N, st, later, ex, ex)
  <2> SUFFICES ASSUME NEW a \in Actions, later[a] # 0, a \notin ex, a \notin ToSet(ids)
               PROVE  /\ st[a] # 0
                      /\ \A n \in LogFrames(cells) : n > N => a \notin ToSet(IdsOf(cells, n))
    <3>1. N + 1 > N
      BY <1>0
    <3> QED
      BY <1>5, <1>6, <3>1 DEF Accounted
  <2>1. st[a] # 0
    BY <1>7
  <2>2. \A n \in LogFrames(cells) : ~ (n > N)
    BY <1>0, LogCell
  <2> QED
    BY <2>1, <2>2
<1>17. 2 * N + 1 <= Len(new)
  BY <1>0, <1>5
<1>18. Carries(cells, new, N, st, later, ex, ex, first, t - 1)
  BY <1>0, <1>1, <1>5, <1>7, <1>15, <1>16, <1>17, CarriesAll
<1> QED
  BY <1>5, <1>6, <1>9, <1>14, <1>18 DEF Written

(* A Skip frame after the last one (recovery).                             *)
Skips(cells, N, st, first, s, at, new) ==
  /\ Parsed(cells) /\ N \in Nat /\ Len(cells) = 2 * N + 1
  /\ Chained(cells, st, first)
  /\ TrapNames(cells, at)
  /\ new = cells \o Skip(s, at)

Skipped(cells, N, st, first, ex, new) ==
  /\ Parsed(new) /\ Len(new) = 2 * (N + 1) + 1
  /\ Chained(new, st, first)
  /\ Carries(cells, new, N, st, st, ex, ex, first, MaxTick)

LEMMA SkipFrame ==
  ASSUME NEW cells, NEW N, NEW st \in [Actions -> Ticks], NEW first, NEW s \in Segments,
         NEW at, NEW ex, NEW new, Skips(cells, N, st, first, s, at, new)
  PROVE  Skipped(cells, N, st, first, ex, new)
<1>0. /\ Parsed(cells) /\ N \in Nat /\ Len(cells) = 2 * N + 1
      /\ Chained(cells, st, first)
      /\ TrapNames(cells, at)
      /\ new = cells \o Skip(s, at)
  BY DEF Skips
<1> DEFINE f == Skip(s, at)
<1>1. at \in Nat \X Nat
  <2>0. PICK j \in LogFrames(cells) : \E i \in DOMAIN IdsOf(cells, j) : at = << 2 * j - 1, i >>
    BY <1>0 DEF TrapNames
  <2>1. PICK i \in DOMAIN IdsOf(cells, j) : at = << 2 * j - 1, i >>
    BY <2>0
  <2>2. j \in Nat /\ j >= 1 /\ DOMAIN IdsOf(cells, j) = 1..Len(IdsOf(cells, j))
        /\ Len(IdsOf(cells, j)) \in Nat
    BY <1>0, LogCell
  <2>3. 2 * j - 1 \in Nat /\ i \in Nat
    BY <2>2
  <2> QED
    BY <2>1, <2>3
<1>2. /\ f \in Seq(Cell) /\ Len(f) = 2
      /\ f[1] = [kind |-> "skip", part |-> 1, segment |-> s, at |-> at]
      /\ f[2] = [f[1] EXCEPT !.part = 2]
  BY <1>1, SkipCells
<1> HIDE DEF f
<1>3. NewFrame(cells, f) /\ f[1].kind = "skip"
  BY <1>0, <1>2 DEF NewFrame
<1>4. /\ Parsed(new)
      /\ Len(new) = 2 * (N + 1) + 1
      /\ SameUpTo(cells, new, N)
      /\ \A n \in LogFrames(new) : n <= N \/ n = N + 1
      /\ N + 1 \notin LogFrames(new)
  <2>1. new = cells \o f
    BY <1>0 DEF f
  <2>2. /\ Parsed(cells \o f)
        /\ Len(cells \o f) = 2 * (N + 1) + 1
        /\ SameUpTo(cells, cells \o f, N)
        /\ \A n \in LogFrames(cells \o f) : n <= N \/ n = N + 1
        /\ N + 1 \in LogFrames(cells \o f) <=> f[1].kind = "frame"
    BY <1>0, <1>3, AppendKeeps
  <2>3. f[1].kind # "frame"
    BY <1>3
  <2> QED
    BY <2>1, <2>2, <2>3, Zenon
<1>5. Grows(st, st)
  BY DEF Grows
<1>6. /\ \A n \in LogFrames(new) : n <= N => Timed(new, n, st, first)
      /\ \A n, p \in LogFrames(new) : n < p /\ p <= N => Before(new, n, p, st)
  BY <1>0, <1>4, <1>5, CarriesChain
<1>7. \A n \in LogFrames(new) : n <= N
  BY <1>4
<1>8. Chained(new, st, first)
  BY <1>6, <1>7 DEF Chained
<1>9. \A n \in LogFrames(new) : ~ (n > N)
  BY <1>0, <1>4, <1>7, LogCell
<1>10. \A n \in LogFrames(cells) : ~ (n > N)
  BY <1>0, LogCell
<1>11. Later(new, N, st, st, MaxTick)
  BY <1>9 DEF Later
<1>12. Accounted(cells, new, N, st, st, ex, ex)
  BY <1>10 DEF Accounted
<1>13. 2 * N + 1 <= Len(new) /\ MaxTick \in Nat
  BY <1>0, <1>4, ConstantsTyped
<1>14. Carries(cells, new, N, st, st, ex, ex, first, MaxTick)
  BY <1>0, <1>4, <1>5, <1>11, <1>12, <1>13, CarriesAll
<1> QED
  BY <1>4, <1>8, <1>14 DEF Skipped

(* What a cut after frame K loses is excused. *)
Excuses(cells, K, st, ex, exLater) ==
  \A a \in Actions :
    st[a] # 0 /\ a \notin exLater =>
      a \notin ex /\ \A n \in LogFrames(cells) : n > K => a \notin ToSet(IdsOf(cells, n))

(* Cutting a segment: a truncated tail, or an operating-system crash.      *)
Cuts(cells, K, p, st, first, ex, exLater, new) ==
  /\ Parsed(cells) /\ Chained(cells, st, first)
  /\ K \in Nat /\ p \in 1..Len(cells)
  /\ p = 2 * K + 1 \/ p = 2 * K + 2
  /\ Excuses(cells, K, st, ex, exLater)
  /\ new = SubSeq(cells, 1, p)

WasCut(cells, K, p, st, first, ex, exLater, new) ==
  /\ Parsed(new) /\ Len(new) = p
  /\ Chained(new, st, first)
  /\ Carries(cells, new, K, st, st, ex, exLater, first, MaxTick)

LEMMA CutFrames ==
  ASSUME NEW cells, NEW K, NEW p, NEW st \in [Actions -> Ticks], NEW first,
         NEW ex, NEW exLater, NEW new, Cuts(cells, K, p, st, first, ex, exLater, new)
  PROVE  WasCut(cells, K, p, st, first, ex, exLater, new)
<1>0. /\ Parsed(cells) /\ Chained(cells, st, first)
      /\ K \in Nat /\ p \in 1..Len(cells)
      /\ p = 2 * K + 1 \/ p = 2 * K + 2
      /\ Excuses(cells, K, st, ex, exLater)
      /\ new = SubSeq(cells, 1, p)
  BY DEF Cuts
<1>1. /\ Parsed(new) /\ Len(new) = p
      /\ SameUpTo(cells, new, K)
      /\ \A n \in LogFrames(new) : n <= K
  <2>1. /\ Parsed(SubSeq(cells, 1, p)) /\ Len(SubSeq(cells, 1, p)) = p
        /\ SameUpTo(cells, SubSeq(cells, 1, p), K)
        /\ \A n \in LogFrames(SubSeq(cells, 1, p)) : n <= K
    BY <1>0, CutKeeps
  <2> QED
    BY <1>0, <2>1, Zenon
<1>2. Grows(st, st)
  BY DEF Grows
<1>3. /\ \A n \in LogFrames(new) : n <= K => Timed(new, n, st, first)
      /\ \A n, q \in LogFrames(new) : n < q /\ q <= K => Before(new, n, q, st)
  BY <1>0, <1>1, <1>2, CarriesChain
<1>4. Chained(new, st, first)
  BY <1>1, <1>3 DEF Chained
<1>5. \A n \in LogFrames(new) : ~ (n > K)
  BY <1>0, <1>1, LogCell
<1>6. Later(new, K, st, st, MaxTick)
  BY <1>5 DEF Later
<1>7. Accounted(cells, new, K, st, st, ex, exLater)
  BY <1>0 DEF Accounted, Excuses
<1>8. 2 * K + 1 <= Len(new) /\ MaxTick \in Nat
  BY <1>0, <1>1, ConstantsTyped
<1>9. Carries(cells, new, K, st, st, ex, exLater, first, MaxTick)
  BY <1>0, <1>1, <1>2, <1>6, <1>7, <1>8, CarriesAll
<1> QED
  BY <1>1, <1>4, <1>9 DEF WasCut

(* The same, for every base there is.                                      *)
Continues(old, new, st, later, ex, exLater, first, t) ==
  \A x, m :
    BaseOK(x, old, m, st, ex, first) /\ x.tick <= t
    => BaseOK(x, new, m, later, exLater, first)

LEMMA CarriesWhole ==
  ASSUME NEW old, NEW new, NEW N \in Nat, Len(old) = 2 * N + 1 \/ Len(old) = 2 * N + 2,
         NEW st, NEW later, NEW ex, NEW exLater, NEW first, NEW t,
         Carries(old, new, N, st, later, ex, exLater, first, t)
  PROVE  Continues(old, new, st, later, ex, exLater, first, t)
<1> SUFFICES ASSUME NEW x, NEW m, BaseOK(x, old, m, st, ex, first), x.tick <= t
             PROVE  BaseOK(x, new, m, later, exLater, first)
  BY DEF Continues
<1>1. m <= N
  BY DEF BaseOK
<1> QED
  BY <1>1 DEF Carries

(* What a base is depends on the world it holds, not on what is pending or *)
(* whether it is dirty.                                                    *)
SameView(x, y) ==
  /\ y.tick = x.tick /\ y.lastLogged = x.lastLogged
  /\ y.world = x.world /\ y.faulted = x.faulted

LEMMA ViewKeeps ==
  ASSUME NEW x, NEW y, SameView(x, y), NEW cells, NEW m, NEW st, NEW ex, NEW first,
         BaseOK(x, cells, m, st, ex, first)
  PROVE  BaseOK(y, cells, m, st, ex, first)
<1>1. WorldOK(y, st)
  BY DEF SameView, BaseOK, WorldOK
<1>2. ReadsOn(y, cells, m, st, first)
  BY DEF SameView, BaseOK, ReadsOn
<1>3. Applied(y) = Applied(x)
  BY DEF SameView, Applied
<1>4. Covers(y, cells, m, st, ex)
  BY <1>3 DEF SameView, BaseOK, Covers
<1> QED
  BY <1>1, <1>2, <1>4 DEF BaseOK

(* A tick that applies nothing.                                            *)
LEMMA IdleTick ==
  ASSUME NEW cells, Parsed(cells), NEW N \in Nat, Len(cells) = 2 * N + 1,
         NEW st \in [Actions -> Ticks], NEW ex, NEW first, NEW x, NEW y,
         BaseOK(x, cells, N, st, ex, first), y.tick \in Ticks, x.tick <= y.tick,
         y.lastLogged = x.lastLogged, y.world = x.world, y.faulted = x.faulted
  PROVE  BaseOK(y, cells, N, st, ex, first)
<1>0. /\ WorldOK(x, st) /\ ReadsOn(x, cells, N, st, first) /\ Covers(x, cells, N, st, ex)
      /\ 2 * N + 1 <= Len(cells)
  BY DEF BaseOK
<1>1. x.tick \in Nat /\ y.tick \in Nat /\ x.lastLogged \in Nat /\ Ticks \subseteq Nat
  BY <1>0, ConstantsTyped DEF WorldOK, Ticks
<1>2. WorldOK(y, st)
  <2>1. y.lastLogged <= y.tick
    BY <1>0, <1>1 DEF WorldOK
  <2> QED
    BY <1>0, <2>1 DEF WorldOK
<1>3. \A n \in LogFrames(cells) : ~ (n > N)
  BY LogCell
<1>4. \A n \in LogFrames(cells) : When(cells, n, st) \in Nat
  BY TimesTyped
<1>5. \A n \in LogFrames(cells) : n <= N => When(cells, n, st) <= y.tick
  <2>1. \A n \in LogFrames(cells) : n <= N => When(cells, n, st) <= x.tick
    BY <1>0 DEF ReadsOn
  <2> QED
    BY <1>1, <1>4, <2>1
<1>6. ReadsOn(y, cells, N, st, first)
  BY <1>0, <1>3, <1>5 DEF ReadsOn
<1>7. Applied(y) = Applied(x)
  BY DEF Applied
<1>8. Covers(y, cells, N, st, ex)
  BY <1>0, <1>7 DEF Covers
<1> QED
  BY <1>0, <1>2, <1>6, <1>8 DEF BaseOK

(* A whole segment that a sim has read all of is open at every later tick. *)
LEMMA OpenAfter ==
  ASSUME NEW cells, Parsed(cells), NEW N \in Nat, Len(cells) = 2 * N + 1,
         NEW st \in [Actions -> Ticks], NEW ex, NEW first, Chained(cells, st, first),
         NEW x, BaseOK(x, cells, N, st, ex, first), NEW t \in Nat, x.tick < t
  PROVE  OpenAt(cells, N, st, first, t, x.lastLogged)
<1>0. WorldOK(x, st) /\ ReadsOn(x, cells, N, st, first)
  BY DEF BaseOK
<1>1. x.tick \in Nat /\ x.lastLogged \in Nat /\ x.lastLogged <= x.tick
  BY <1>0, ConstantsTyped DEF WorldOK, Ticks
<1>2. \A n \in LogFrames(cells) : n <= N /\ When(cells, n, st) \in Nat
  <2>1. \A n \in LogFrames(cells) : n <= N
    BY LogCell
  <2>2. \A n \in LogFrames(cells) : When(cells, n, st) \in Nat
    BY TimesTyped
  <2> QED
    BY <2>1, <2>2
<1>3. \A n \in LogFrames(cells) : When(cells, n, st) <= x.tick
  BY <1>0, <1>2 DEF ReadsOn
<1>4. \A n \in LogFrames(cells) : When(cells, n, st) < t
  BY <1>1, <1>2, <1>3
<1>5. x.lastLogged <= t
  BY <1>1
<1> QED
  BY <1>0, <1>1, <1>4, <1>5 DEF OpenAt, ReadsOn

(* A tick that applies the records just sealed for it.                     *)
LEMMA SealedTicks ==
  ASSUME NEW cells, NEW N, NEW st \in [Actions -> Ticks], NEW ex, NEW first,
         NEW x \in SimT, BaseOK(x, cells, N, st, ex, first),
         NEW t, t = x.tick + 1, NEW ids, \A i \in DOMAIN ids : ids[i] \notin Poison,
         NEW new, NEW later, Writes(cells, N, st, first, t, x.lastLogged, ids, new, later)
  PROVE  BaseOK(AppliedTo(x, ids, ids, t, {}), new, N + 1, later, ex, first)
<1>0. /\ OpenAt(cells, N, st, first, t, x.lastLogged)
      /\ t \in Ticks /\ Unsealed(ids, st) /\ later = SealsAt(ids, t, st)
  BY DEF Writes
<1>1. x.tick <= t - 1 /\ N <= N /\ N \in Nat
  <2>1. x.tick \in Ticks
    BY DEF SimT
  <2>2. Ticks \subseteq Nat
    BY ConstantsTyped DEF Ticks
  <2>3. t \in Nat /\ x.tick \in Nat /\ t = x.tick + 1
    BY <1>0, <2>1, <2>2
  <2>4. N \in Nat
    BY <1>0 DEF OpenAt
  <2> QED
    BY <2>3, <2>4
<1>2. Written(cells, N, st, first, t, ids, new, later, ex)
  BY SealFrame
<1>3. /\ Parsed(new) /\ Chained(new, later, first)
      /\ N + 1 \in LogFrames(new) /\ IdsOf(new, N + 1) = ids
      /\ When(new, N + 1, later) = t
      /\ Carries(cells, new, N, st, later, ex, ex, first, t - 1)
  BY <1>2 DEF Written
<1>4. BaseOK(x, new, N, later, ex, first)
  BY <1>1, <1>3 DEF Carries
<1>5. Splits(IdsOf(new, N + 1), ids, {})
  <2>1. Splits(ids, ids, {})
    BY <1>0 DEF Splits, Unsealed
  <2> QED
    BY <1>3, <2>1
<1>6. later \in [Actions -> Ticks]
  BY <1>0, SealsTyped
<1>7. Follows(N, N + 1)
  BY DEF Follows
<1>8. BaseOK(AppliedTo(x, IdsOf(new, N + 1), ids, When(new, N + 1, later), {}),
             new, N + 1, later, ex, first)
  BY <1>3, <1>4, <1>5, <1>6, <1>7, AppliedOK
<1> QED
  BY <1>3, <1>8
-----------------------------------------------------------------------------
(***************************************************************************)
(* What storage holds of a world.                                          *)
(***************************************************************************)
Snap ==
  [ok : {TRUE}, tick : Ticks, lastLogged : Ticks, world : World,
   faulted : SUBSET Actions, segment : Segments, offset : Nat]
  \cup [ok : {FALSE}, none : BOOLEAN]

(* The stored snapshots against the cells of the newest segment s: those   *)
(* taken in it are bases to go on from.                                    *)
SnapsOK(sn, cells, s, st, ex, first) ==
  \A t \in Ticks : sn[t].ok =>
    /\ sn[t].tick = t /\ sn[t].segment <= s
    /\ sn[t].segment = s =>
         \E m \in Nat : /\ sn[t].offset = 2 * m + 1
                        /\ BaseOK(sn[t], cells, m, st, ex, first)

(* Each segment but the first starts from a snapshot, and later segments   *)
(* have later ones.                                                        *)
InOrder(sn, s) ==
  /\ s > 0 => \E t \in Ticks : sn[t].ok /\ sn[t].segment = s
  /\ \A t, u \in Ticks :
       sn[t].ok /\ sn[u].ok /\ sn[t].segment < sn[u].segment => t < u

(* The log and the snapshots hold the world: s is the newest segment, and  *)
(* first the tick it began with.                                           *)
Intact(l, s, first, st, ex, sn) ==
  /\ Parsed(l[s]) /\ Chained(l[s], st, first)
  /\ \A r \in Segments : r > s => l[r] = << >>
  /\ s = 0 => BaseOK(GenesisSim, l[0], 0, st, ex, first)
  /\ SnapsOK(sn, l[s], s, st, ex, first)
  /\ InOrder(sn, s)

(* The live sim has read all of a whole segment.                           *)
GoesOn(x, cells, st, ex, first) ==
  \E N \in Nat : Len(cells) = 2 * N + 1 /\ BaseOK(x, cells, N, st, ex, first)

LEMMA SnapsContinue ==
  ASSUME NEW sn, NEW s, NEW old, NEW new, NEW st, NEW later, NEW ex, NEW exLater,
         NEW first, NEW T, Continues(old, new, st, later, ex, exLater, first, T),
         SnapsOK(sn, old, s, st, ex, first), \A t \in Ticks : sn[t].ok => t <= T
  PROVE  SnapsOK(sn, new, s, later, exLater, first)
<1> SUFFICES ASSUME NEW t \in Ticks, sn[t].ok
             PROVE  /\ sn[t].tick = t /\ sn[t].segment <= s
                    /\ sn[t].segment = s =>
                         \E m \in Nat : /\ sn[t].offset = 2 * m + 1
                                        /\ BaseOK(sn[t], new, m, later, exLater, first)
  BY DEF SnapsOK
<1>1. sn[t].tick = t /\ sn[t].segment <= s /\ t <= T
  BY DEF SnapsOK
<1>2. ASSUME sn[t].segment = s
      PROVE  \E m \in Nat : /\ sn[t].offset = 2 * m + 1
                            /\ BaseOK(sn[t], new, m, later, exLater, first)
  <2>1. PICK m \in Nat : sn[t].offset = 2 * m + 1 /\ BaseOK(sn[t], old, m, st, ex, first)
    BY <1>2 DEF SnapsOK
  <2>2. BaseOK(sn[t], new, m, later, exLater, first)
    BY <1>1, <2>1 DEF Continues
  <2> QED
    BY <2>1, <2>2
<1> QED
  BY <1>1, <1>2

(* The same where a crash cut the segment after frame K: the snapshots it  *)
(* leaves name no position past the cut.                                   *)
LEMMA SnapsCut ==
  ASSUME NEW sn \in [Ticks -> Snap], NEW s, NEW old, NEW new, NEW K \in Nat, NEW st, NEW later,
         NEW ex, NEW exLater, NEW first,
         Carries(old, new, K, st, later, ex, exLater, first, MaxTick),
         SnapsOK(sn, old, s, st, ex, first),
         \A t \in Ticks : sn[t].ok => sn[t].offset <= 2 * K + 2
  PROVE  SnapsOK(sn, new, s, later, exLater, first)
<1> SUFFICES ASSUME NEW t \in Ticks, sn[t].ok
             PROVE  /\ sn[t].tick = t /\ sn[t].segment <= s
                    /\ sn[t].segment = s =>
                         \E m \in Nat : /\ sn[t].offset = 2 * m + 1
                                        /\ BaseOK(sn[t], new, m, later, exLater, first)
  BY DEF SnapsOK
<1>1. sn[t].tick = t /\ sn[t].segment <= s /\ sn[t].offset <= 2 * K + 2
  BY DEF SnapsOK
<1>2. ASSUME sn[t].segment = s
      PROVE  \E m \in Nat : /\ sn[t].offset = 2 * m + 1
                            /\ BaseOK(sn[t], new, m, later, exLater, first)
  <2>1. PICK m \in Nat : sn[t].offset = 2 * m + 1 /\ BaseOK(sn[t], old, m, st, ex, first)
    BY <1>2 DEF SnapsOK
  <2>2. m <= K
    BY <1>1, <2>1
  <2>3. t <= MaxTick
    BY ConstantsTyped DEF Ticks
  <2>4. BaseOK(sn[t], new, m, later, exLater, first)
    BY <1>1, <2>1, <2>2, <2>3 DEF Carries
  <2> QED
    BY <2>1, <2>4
<1> QED
  BY <1>1, <1>2

(* A step that writes to the newest segment, or cuts its torn tail.        *)
LEMMA StoredContinues ==
  ASSUME NEW l, NEW s \in Segments, NEW first, NEW st, NEW ex, NEW sn,
         Intact(l, s, first, st, ex, sn), DOMAIN l = Segments,
         NEW new, NEW later, NEW exLater, NEW T \in Nat, Parsed(new), Chained(new, later, first),
         Continues(l[s], new, st, later, ex, exLater, first, T),
         \A t \in Ticks : sn[t].ok => t <= T
  PROVE  Intact([l EXCEPT ![s] = new], s, first, later, exLater, sn)
<1> DEFINE z == [l EXCEPT ![s] = new]
<1>1. z[s] = new /\ \A r \in Segments : r # s => z[r] = l[r]
  OBVIOUS
<1> HIDE DEF z
<1>2. /\ \A r \in Segments : r > s => l[r] = << >>
      /\ s = 0 => BaseOK(GenesisSim, l[0], 0, st, ex, first)
      /\ SnapsOK(sn, l[s], s, st, ex, first)
      /\ InOrder(sn, s)
  BY DEF Intact
<1>3. \A r \in Segments : r > s => r # s
  BY DEF Segments
<1>4. SnapsOK(sn, new, s, later, exLater, first)
  BY <1>2, SnapsContinue
<1>5. s = 0 => BaseOK(GenesisSim, new, 0, later, exLater, first)
  <2>1. GenesisSim.tick <= T
    BY DEF GenesisSim
  <2> QED
    BY <1>2, <2>1 DEF Continues
<1> QED
  BY <1>1, <1>2, <1>3, <1>4, <1>5 DEF Intact, z
-----------------------------------------------------------------------------
(***************************************************************************)
(* Loading (loadLatest): what is picked, and what the replay makes of it.  *)
(***************************************************************************)

(* A stored snapshot is a sim to go on from.                               *)
SimOf(b) ==
  [GenesisSim EXCEPT !.tick = b.tick, !.lastLogged = b.lastLogged,
                     !.world = b.world, !.faulted = b.faulted]

LEMMA GenesisTyped ==
  /\ GenesisSim \in SimT /\ GenesisSim.tick = 0 /\ GenesisSim.lastLogged = 0
  /\ GenesisSim.trap = NoTrap /\ GenesisSim.pending = << >>
  /\ GenesisSim.world = << >> /\ GenesisSim.faulted = {}
<1>1. 0 \in Ticks
  BY ConstantsTyped DEF Ticks
<1>2. << >> \in World /\ << >> \in Seq(Actions)
  BY DEF World
<1> QED
  BY <1>1, <1>2 DEF GenesisSim, SimT

LEMMA SnapIsBase ==
  ASSUME NEW b \in Snap, b.ok
  PROVE  /\ SimOf(b) \in SimT /\ SimOf(b).trap = NoTrap /\ SimOf(b).pending = << >>
         /\ SameView(b, SimOf(b)) /\ SimOf(b).tick = b.tick
         /\ b.segment \in Segments /\ b.offset \in Nat
<1>1. /\ b.tick \in Ticks /\ b.lastLogged \in Ticks /\ b.world \in World
      /\ b.faulted \in SUBSET Actions /\ b.segment \in Segments /\ b.offset \in Nat
  BY DEF Snap
<1>2. PICK g \in SimT : /\ g.trap = NoTrap /\ g.pending = << >>
                        /\ SimOf(b) = [g EXCEPT !.tick = b.tick, !.lastLogged = b.lastLogged,
                                                !.world = b.world, !.faulted = b.faulted]
  BY GenesisTyped DEF SimOf
<1>3. SimOf(b) \in SimT
  BY <1>1, <1>2 DEF SimT
<1>4. SimOf(b).trap = NoTrap /\ SimOf(b).pending = << >>
  BY <1>2 DEF SimT
<1>5. SameView(b, SimOf(b)) /\ SimOf(b).tick = b.tick
  BY <1>2 DEF SimT, SameView
<1> QED
  BY <1>1, <1>3, <1>4, <1>5

(* The base is in the newest segment, and no stored snapshot is newer.     *)
LEMMA Picked ==
  ASSUME NEW s \in Segments, NEW first, snaps \in [Ticks -> Snap],
         Intact(log, s, first, sealedTick, excused, snaps)
  PROVE  /\ ~Corrupt
         /\ PickedBase.segment = s
         /\ PickedBase.sim \in SimT /\ PickedBase.sim.trap = NoTrap
         /\ PickedBase.sim.pending = << >> /\ PickedBase.sim.tick = PickedBase.tick
         /\ \E m \in Nat : /\ PickedBase.offset = 2 * m + 1
                           /\ BaseOK(PickedBase.sim, log[s], m, sealedTick, excused, first)
         /\ \A t \in Ticks : snaps[t].ok => t <= PickedBase.tick
         /\ s > 0 => PickedBase.tick \in Ticks /\ snaps[PickedBase.tick].ok
<1>0. /\ Parsed(log[s]) /\ SnapsOK(snaps, log[s], s, sealedTick, excused, first)
      /\ InOrder(snaps, s)
      /\ s = 0 => BaseOK(GenesisSim, log[0], 0, sealedTick, excused, first)
  BY DEF Intact
<1>1. s \in Nat /\ Ticks \subseteq Nat /\ Segments \subseteq Nat /\ MaxTick \in Nat
  BY ConstantsTyped DEF Ticks, Segments
<1>2. \A t \in Ticks : snaps[t].ok /\ snaps[t].segment = s => t \in UsableTicks
  <2> SUFFICES ASSUME NEW t \in Ticks, snaps[t].ok, snaps[t].segment = s
               PROVE  Len(log[s]) >= snaps[t].offset
    BY DEF UsableTicks, Usable
  <2>1. PICK m \in Nat : /\ snaps[t].offset = 2 * m + 1
                         /\ BaseOK(snaps[t], log[s], m, sealedTick, excused, first)
    BY <1>0 DEF SnapsOK
  <2> QED
    BY <2>1, LenProperties, <1>0 DEF BaseOK, Parsed
<1>3. UsableTicks \in SUBSET (0..MaxTick) /\ \A t \in UsableTicks : snaps[t].ok /\ t \in Ticks
  BY DEF UsableTicks, Usable, Ticks
<1>4. \A t \in Ticks : snaps[t].ok => snaps[t] \in Snap /\ snaps[t].segment \in Segments
  BY SnapIsBase
<1>5. CASE UsableTicks = {}
  <2>1. s = 0
    BY <1>0, <1>1, <1>2, <1>5 DEF InOrder
  <2>2. \A t \in Ticks : ~snaps[t].ok
    <3> SUFFICES ASSUME NEW t \in Ticks, snaps[t].ok PROVE FALSE
      OBVIOUS
    <3>1. snaps[t].segment <= s /\ snaps[t].segment \in Nat
      BY <1>0, <1>1, <1>4 DEF SnapsOK
    <3>2. snaps[t].segment = s
      BY <2>1, <3>1
    <3> QED
      BY <1>2, <1>5, <3>2
  <2>3. PickedBase = [segment |-> 0, offset |-> HeaderLen, tick |-> 0, sim |-> GenesisSim]
    BY <1>5 DEF PickedBase
  <2>4. ~Corrupt
    BY <1>0, <2>1 DEF Corrupt, Parsed
  <2>5. PickedBase.offset = 2 * 0 + 1
    BY <2>3 DEF HeaderLen
  <2>6. /\ PickedBase.segment = s /\ PickedBase.sim = GenesisSim /\ PickedBase.tick = 0
    BY <2>1, <2>3
  <2>7. BaseOK(PickedBase.sim, log[s], 0, sealedTick, excused, first) /\ 0 \in Nat
    BY <1>0, <2>1, <2>6
  <2>8. ~ (s > 0)
    BY <2>1
  <2> QED
    BY <2>2, <2>4, <2>5, <2>6, <2>7, <2>8, GenesisTyped
<1>6. CASE UsableTicks # {}
  <2> DEFINE T == CHOOSE t \in UsableTicks : \A u \in UsableTicks : u <= t
             b == snaps[T]
  <2>1. T \in UsableTicks /\ \A u \in UsableTicks : u <= T
    <3>1. \E t \in UsableTicks : \A u \in UsableTicks : u <= t
      BY <1>1, <1>3, <1>6, NatMax
    <3> QED
      BY <3>1
  <2>2. PickedBase = [segment |-> b.segment, offset |-> b.offset, tick |-> b.tick,
                      sim |-> SimOf(b)]
    BY <1>6 DEF PickedBase, SimOf
  <2> HIDE DEF T
  <2>3. T \in Ticks /\ b.ok /\ b \in Snap /\ b.tick = T /\ b.segment \in Nat /\ b.segment <= s
    BY <1>0, <1>1, <1>3, <1>4, <2>1 DEF SnapsOK
  <2>4. b.segment = s
    <3> SUFFICES ASSUME b.segment # s PROVE FALSE
      OBVIOUS
    <3>1. b.segment < s /\ s > 0
      BY <1>1, <2>3
    <3>2. PICK u \in Ticks : snaps[u].ok /\ snaps[u].segment = s
      BY <1>0, <3>1 DEF InOrder
    <3>3. T < u
      BY <1>0, <2>3, <3>1, <3>2 DEF InOrder
    <3>4. u <= T
      BY <1>2, <2>1, <3>2
    <3> QED
      BY <1>1, <2>3, <3>3, <3>4
  <2>5. ASSUME NEW t \in Ticks, snaps[t].ok
        PROVE  t <= T
    <3>1. snaps[t].segment <= s /\ snaps[t].segment \in Nat
      BY <1>0, <1>1, <1>4, <2>5 DEF SnapsOK
    <3>2. CASE snaps[t].segment = s
      BY <1>2, <2>1, <2>5, <3>2
    <3>3. CASE snaps[t].segment < s
      <4>1. t < T
        BY <1>0, <2>3, <2>4, <2>5, <3>3 DEF InOrder
      <4> QED
        BY <1>1, <2>3, <4>1
    <3> QED
      BY <1>1, <3>1, <3>2, <3>3
  <2>6. PICK m \in Nat : /\ b.offset = 2 * m + 1
                         /\ BaseOK(b, log[s], m, sealedTick, excused, first)
    BY <1>0, <2>3, <2>4 DEF SnapsOK
  <2>7. /\ SimOf(b) \in SimT /\ SimOf(b).trap = NoTrap /\ SimOf(b).pending = << >>
        /\ SameView(b, SimOf(b)) /\ SimOf(b).tick = b.tick
    BY <2>3, SnapIsBase
  <2> HIDE DEF b
  <2>8. BaseOK(SimOf(b), log[s], m, sealedTick, excused, first)
    BY <2>6, <2>7, ViewKeeps
  <2>9. /\ PickedBase.segment = s /\ PickedBase.offset = 2 * m + 1
        /\ PickedBase.tick = T /\ PickedBase.sim = SimOf(b)
    BY <2>2, <2>3, <2>4, <2>6
  <2>10. ~Corrupt
    BY <1>6 DEF Corrupt
  <2>11. snaps[T].ok
    BY <2>3 DEF b
  <2> QED
    BY <2>3, <2>5, <2>7, <2>8, <2>9, <2>10, <2>11
<1> QED
  BY <1>5, <1>6

(* A sim that was loaded: it goes on where the segment's frames end, and   *)
(* no stored snapshot is ahead of it.                                      *)
LoadedSim(x, cells, N, first) ==
  /\ x \in SimT /\ x.trap = NoTrap /\ x.pending = << >>
  /\ BaseOK(x, cells, N, sealedTick, excused, first)
  /\ \A t \in Ticks : snaps[t].ok => t <= x.tick

LEMMA Loads ==
  ASSUME NEW s \in Segments, NEW first, snaps \in [Ticks -> Snap],
         sealedTick \in [Actions -> Ticks],
         Intact(log, s, first, sealedTick, excused, snaps),
         NEW N \in Nat, Len(log[s]) = 2 * N + 1 \/ Len(log[s]) = 2 * N + 2,
         NEW l \in Loaded
  PROVE  /\ l.segment = s /\ l.offset = 2 * N + 1 /\ l.base = PickedBase.tick
         /\ \/ l.trap = NoTrap /\ LoadedSim(l.sim, log[s], N, first)
            \/ l.trap # NoTrap /\ TrapNames(log[s], l.trap)
<1> DEFINE x == PickedBase.sim
           cells == log[s]
<1>1. /\ PickedBase.segment = s
      /\ x \in SimT /\ x.trap = NoTrap /\ x.pending = << >> /\ x.tick = PickedBase.tick
      /\ \A t \in Ticks : snaps[t].ok => t <= x.tick
  BY Picked
<1>2. PICK m \in Nat : /\ PickedBase.offset = 2 * m + 1
                       /\ BaseOK(x, cells, m, sealedTick, excused, first)
  BY Picked
<1>3. Parsed(cells) /\ Chained(cells, sealedTick, first)
  BY DEF Intact
<1>4. PICK y : /\ Replay(x, s, cells, 2 * m + 1) = {y}
               /\ ReplayedTo(y, x, cells, N, sealedTick, excused, first)
  BY <1>1, <1>2, <1>3, ReplayEnds
<1>5. m \in 0..N
  BY <1>2 DEF BaseOK
<1>6. ValidEnd(cells, 2 * m + 1) = 2 * N + 1
  <2>1. FrameCount(cells, 2 * m + 1) = N - m
    BY <1>3, <1>5, CountsRest
  <2> QED
    BY <1>5, <2>1 DEF ValidEnd, FrameLen
<1>7. PICK done \in {y} :
        l = [segment |-> s, offset |-> ValidEnd(cells, 2 * m + 1), base |-> PickedBase.tick,
             trap |-> TrapOf(done),
             sim |-> [done EXCEPT !.dirty = done.world # x.world \/
                                            done.faulted # x.faulted]]
  <2>1. l \in LoadFrom(PickedBase)
    BY DEF Loaded
  <2> QED
    BY <1>1, <1>2, <1>4, <2>1 DEF LoadFrom
<1> DEFINE d == y.world # x.world \/ y.faulted # x.faulted
           z == [y EXCEPT !.dirty = d]
<1>8. /\ l.segment = s /\ l.offset = 2 * N + 1 /\ l.base = PickedBase.tick
      /\ l.trap = y.trap /\ l.sim = z
  BY <1>6, <1>7 DEF TrapOf
<1>9. y \in SimT /\ y.pending = << >> /\ d \in BOOLEAN
  BY <1>1, <1>4 DEF ReplayedTo
<1> HIDE DEF d
<1>10. z \in SimT /\ z.trap = y.trap /\ z.pending = << >> /\ SameView(y, z)
  BY <1>9 DEF SimT, SameView
<1> HIDE DEF x, cells, z
<1>11. CASE y.trap = NoTrap
  <2>1. x.tick <= y.tick /\ BaseOK(y, cells, N, sealedTick, excused, first)
    BY <1>4, <1>11 DEF ReplayedTo
  <2>2. BaseOK(z, cells, N, sealedTick, excused, first)
    BY <1>10, <2>1, ViewKeeps
  <2>3. x.tick \in Nat /\ y.tick \in Nat /\ z.tick = y.tick /\ Ticks \subseteq Nat
    <3>1. Ticks \subseteq Nat
      BY ConstantsTyped DEF Ticks
    <3>2. x.tick \in Ticks
      BY <1>1 DEF SimT
    <3>3. y.tick \in Ticks
      BY <1>9 DEF SimT
    <3> QED
      BY <1>10, <3>1, <3>2, <3>3 DEF SameView
  <2>4. \A t \in Ticks : snaps[t].ok => t <= z.tick
    BY <1>1, <2>1, <2>3
  <2> QED
    BY <1>8, <1>10, <1>11, <2>2, <2>4 DEF LoadedSim, cells
<1>12. CASE y.trap # NoTrap
  <2>1. TrapNames(cells, y.trap)
    BY <1>4, <1>12 DEF ReplayedTo
  <2> QED
    BY <1>8, <1>12, <2>1 DEF cells
<1> QED
  BY <1>11, <1>12

(* The torn tail goes: what is left is whole, and holds all it held.       *)
LEMMA Truncates ==
  ASSUME NEW s \in Segments, NEW first, sealedTick \in [Actions -> Ticks],
         log \in [Segments -> Seq(Cell)],
         safe \in [Segments -> Nat], asked \in [Segments -> Nat],
         \A r \in Segments : safe[r] <= asked[r] /\ asked[r] <= Len(log[r]),
         Parsed(log[s]), Chained(log[s], sealedTick, first),
         NEW N \in Nat, Len(log[s]) = 2 * N + 1 \/ Len(log[s]) = 2 * N + 2,
         NEW l, l.segment = s, l.offset = 2 * N + 1, TruncateTail(l)
  PROVE  \E new \in Seq(Cell) :
           /\ log' = [log EXCEPT ![s] = new]
           /\ Parsed(new) /\ Len(new) = 2 * N + 1
           /\ Chained(new, sealedTick, first)
           /\ Continues(log[s], new, sealedTick, sealedTick, excused, excused, first, MaxTick)
           /\ \A x : BaseOK(x, log[s], N, sealedTick, excused, first)
                     => BaseOK(x, new, N, sealedTick, excused, first)
           /\ safe' \in [Segments -> Nat] /\ asked' \in [Segments -> Nat]
           /\ \A r \in Segments : safe'[r] <= asked'[r] /\ asked'[r] <= Len(log'[r])
           /\ safe'[s] = safe[s] \/ safe'[s] = 2 * N + 1
           /\ \A r \in Segments : r # s => safe'[r] = safe[r]
<1>0. log[s] \in Seq(Cell) /\ Len(log[s]) \in Nat
  BY LenProperties
<1>1. CASE ~(l.offset < Len(log[l.segment]))
  <2>1. UNCHANGED << log, safe, asked >>
    BY <1>1 DEF TruncateTail
  <2>2. Len(log[s]) = 2 * N + 1
    BY <1>1
  <2>3. log' = [log EXCEPT ![s] = log[s]]
    BY <2>1
  <2>4. Continues(log[s], log[s], sealedTick, sealedTick, excused, excused, first, MaxTick)
    BY DEF Continues
  <2>5. /\ safe' \in [Segments -> Nat] /\ asked' \in [Segments -> Nat]
        /\ \A r \in Segments : safe'[r] <= asked'[r] /\ asked'[r] <= Len(log'[r])
        /\ \A r \in Segments : safe'[r] = safe[r]
    BY <2>1
  <2> QED
    BY <1>0, <2>2, <2>3, <2>4, <2>5
<1>2. CASE l.offset < Len(log[l.segment])
  <2> DEFINE p == 2 * N + 1
             new == SubSeq(log[s], 1, p)
  <2>1. /\ log' = [log EXCEPT ![s] = new]
        /\ safe' = [safe EXCEPT ![s] = p]
        /\ asked' = [asked EXCEPT ![s] = p]
    BY <1>2 DEF TruncateTail
  <2>2. p \in 1..Len(log[s]) /\ p \in Nat
    BY <1>0
  <2>3. Excuses(log[s], N, sealedTick, excused, excused)
    <3>1. \A n \in LogFrames(log[s]) : ~ (n > N)
      BY LogCell
    <3> QED
      BY <3>1 DEF Excuses
  <2>4. /\ Parsed(new) /\ Len(new) = p /\ Chained(new, sealedTick, first)
        /\ Carries(log[s], new, N, sealedTick, sealedTick, excused, excused, first, MaxTick)
    <3>1. Cuts(log[s], N, p, sealedTick, first, excused, excused, new)
      BY <2>2, <2>3 DEF Cuts
    <3> HIDE DEF new, p
    <3> QED
      BY <3>1, CutFrames DEF WasCut
  <2> HIDE DEF new
  <2>5. Continues(log[s], new, sealedTick, sealedTick, excused, excused, first, MaxTick)
    BY <2>4, CarriesWhole
  <2>6. ASSUME NEW x, BaseOK(x, log[s], N, sealedTick, excused, first)
        PROVE  BaseOK(x, new, N, sealedTick, excused, first)
    <3>1. x.tick <= MaxTick
      BY <2>6, ConstantsTyped DEF BaseOK, WorldOK, Ticks
    <3> QED
      BY <2>5, <2>6, <3>1 DEF Continues
  <2>7. new \in Seq(Cell)
    BY <2>4 DEF Parsed
  <2>8. log'[s] = new /\ \A r \in Segments : r # s => log'[r] = log[r]
    BY <2>1
  <2>9. /\ safe' \in [Segments -> Nat] /\ asked' \in [Segments -> Nat]
        /\ safe'[s] = p /\ asked'[s] = p
        /\ \A r \in Segments : r # s => safe'[r] = safe[r] /\ asked'[r] = asked[r]
    BY <2>1, <2>2
  <2> HIDE DEF p
  <2>10. \A r \in Segments : safe'[r] <= asked'[r] /\ asked'[r] <= Len(log'[r])
    <3> SUFFICES ASSUME NEW r \in Segments
                 PROVE  safe'[r] <= asked'[r] /\ asked'[r] <= Len(log'[r])
      OBVIOUS
    <3>1. CASE r = s
      BY <2>2, <2>4, <2>8, <2>9, <3>1
    <3>2. CASE r # s
      BY <2>8, <2>9, <3>2
    <3> QED
      BY <3>1, <3>2
  <2> QED
    BY <2>1, <2>4, <2>5, <2>6, <2>7, <2>9, <2>10 DEF p
<1> QED
  BY <1>1, <1>2
-----------------------------------------------------------------------------
(***************************************************************************)
(* Manifests and epochs.                                                   *)
(***************************************************************************)

(* A manifest and a host have their fields. *)
ManifestShape(m) == m = [epoch |-> m.epoch, segments |-> m.segments]

HostShape(h) ==
  /\ h = [segment |-> h.segment, logOffset |-> h.logOffset, manifest |-> h.manifest,
          sinceSnapshot |-> h.sinceSnapshot, sinceSync |-> h.sinceSync,
          appended |-> h.appended]
  /\ ManifestShape(h.manifest)

LEMMA HasShape ==
  ASSUME NEW a, NEW b, NEW m, NEW c, NEW d, NEW e, ManifestShape(m), NEW h,
         h = [segment |-> a, logOffset |-> b, manifest |-> m,
              sinceSnapshot |-> c, sinceSync |-> d, appended |-> e]
  PROVE  HostShape(h) /\ h.manifest = m /\ h.segment = a /\ h.logOffset = b
BY DEF HostShape

LEMMA EpochOfSealed ==
  ASSUME HostShape(host)
  PROVE  HostShape(SealedHost) /\ SealedHost.manifest = host.manifest
BY DEF HostShape, ManifestShape, SealedHost

LEMMA EpochOfRolled ==
  ASSUME NEW h, HostShape(h), NEW t
  PROVE  HostShape(RolledHost(h, t)) /\ RolledHost(h, t).manifest.epoch = h.manifest.epoch
<1> DEFINE more == Append(h.manifest.segments, [index |-> h.segment + 1, base |-> t])
<1>1. CASE ~RollsNow(h)
  BY <1>1 DEF RolledHost
<1>2. CASE RollsNow(h)
  <2>1. RolledHost(h, t) =
          [segment |-> h.segment + 1, logOffset |-> HeaderLen,
           manifest |-> [epoch |-> h.manifest.epoch, segments |-> more],
           sinceSnapshot |-> h.sinceSnapshot, sinceSync |-> h.sinceSync,
           appended |-> h.appended]
    <3> HIDE DEF more
    <3>1. RolledHost(h, t) = [h EXCEPT !.segment = @ + 1, !.logOffset = HeaderLen,
                                       !.manifest.segments = more]
      BY <1>2 DEF RolledHost, more
    <3> QED
      BY <3>1 DEF HostShape, ManifestShape
  <2>2. ManifestShape([epoch |-> h.manifest.epoch, segments |-> more])
    BY DEF ManifestShape
  <2> HIDE DEF more
  <2> QED
    BY <2>1, <2>2, HasShape
<1> QED
  BY <1>1, <1>2

LEMMA EpochOfCounted ==
  ASSUME NEW h, HostShape(h)
  PROVE  HostShape(Counted(h)) /\ Counted(h).manifest = h.manifest
<1> DEFINE c == IF SnapshotDue THEN 0 ELSE h.sinceSnapshot + 1
           d == IF SyncDue(h) THEN 0 ELSE h.sinceSync + 1
           e == IF SyncDue(h) THEN FALSE ELSE h.appended
<1>1. Counted(h) = [h EXCEPT !.sinceSnapshot = c, !.sinceSync = d, !.appended = e]
  BY DEF Counted
<1> HIDE DEF c, d, e
<1>2. Counted(h) = [segment |-> h.segment, logOffset |-> h.logOffset, manifest |-> h.manifest,
                    sinceSnapshot |-> c, sinceSync |-> d, appended |-> e]
  BY <1>1 DEF HostShape
<1>3. ManifestShape(h.manifest)
  BY DEF HostShape
<1> QED
  BY <1>2, <1>3, HasShape

LEMMA EpochOfHealed ==
  ASSUME NEW m, ManifestShape(m), NEW s, NEW base
  PROVE  ManifestShape(Healed(m, s, base)) /\ Healed(m, s, base).epoch = m.epoch
BY DEF ManifestShape, Healed

(* A process that has a world has opened it, and its live manifest has the *)
(* epoch of the stored one.  What a crash would find where writes lag is a *)
(* manifest too: creating the world is settled before it starts.           *)
Opened ==
  /\ HostShape(host) /\ ManifestShape(manifest) /\ manifest.epoch \in Int
  /\ mode \notin {"off", "failed"} => host.manifest.epoch = manifest.epoch
  /\ manifest = NoManifest => mode = "off"
  /\ manifest # NoManifest => manifest.epoch \in Nat
  /\ WritesLag => /\ ManifestShape(manifestDur)
                  /\ manifest = NoManifest => manifestDur = NoManifest
                  /\ manifest # NoManifest => manifestDur.epoch \in Nat

(* A step keeps the epoch of the stored manifest, unless a crash loses it, *)
(* or starts a session under a later one.                                  *)
Session ==
  \/ welcomed' = welcomed /\ (WritesLag \/ manifest'.epoch = manifest.epoch)
  \/ /\ welcomed' = Append(welcomed, manifest'.epoch)
     /\ manifest'.epoch > manifest.epoch

StaysOpened ==
  /\ Opened' /\ Session
  /\ manifest # NoManifest => manifest' # NoManifest

LEMMA OpenedInit == Init => Opened
<1> SUFFICES ASSUME Init PROVE Opened
  OBVIOUS
<1>1. HostShape(host) /\ ManifestShape(manifest)
  BY DEF Init, HostAt, NoManifest, HostShape, ManifestShape
<1>2. /\ manifest = NoManifest /\ manifest.epoch \in Int /\ mode = "off"
      /\ manifestDur = NoManifest /\ ManifestShape(manifestDur)
  BY <1>1 DEF Init, NoManifest
<1> QED
  BY <1>1, <1>2 DEF Opened

(* What starts no session leaves its epochs. *)
LEMMA OpenedKept ==
  ASSUME Opened, manifest # NoManifest, HostShape(host'), ManifestShape(manifest'),
         manifest'.epoch = manifest.epoch, welcomed' = welcomed,
         mode' \notin {"off", "failed"} => host'.manifest.epoch = manifest.epoch,
         manifestDur' = manifestDur \/ manifestDur' = manifest'
  PROVE  StaysOpened
<1>1. manifest' # NoManifest /\ manifest.epoch \in Nat
  BY DEF Opened, NoManifest
<1>2. WritesLag => ManifestShape(manifestDur') /\ manifestDur'.epoch \in Nat
  BY <1>1 DEF Opened
<1> QED
  BY <1>1, <1>2 DEF Opened, StaysOpened, Session

LEMMA OpenedStarts ==
  ASSUME Opened, NEW h, HostShape(h), BumpEpoch(h), h.manifest.epoch = manifest.epoch,
         manifest # NoManifest, mode' = "running",
         manifestDur' = manifestDur \/ manifestDur' = h.manifest
  PROVE  StaysOpened
<1> DEFINE n == manifest.epoch + 1
<1>1. manifest.epoch \in Nat
  BY DEF Opened
<1>2. manifest' = [h.manifest EXCEPT !.epoch = n] /\ welcomed' = Append(welcomed, n)
      /\ host' = [h EXCEPT !.manifest = [h.manifest EXCEPT !.epoch = n]]
  <2>1. n = h.manifest.epoch + 1
    OBVIOUS
  <2> HIDE DEF n
  <2>2. [h.manifest EXCEPT !.epoch = @ + 1] = [h.manifest EXCEPT !.epoch = n]
    BY <2>1
  <2>3. [h.manifest EXCEPT !.epoch = n].epoch = n
    BY DEF HostShape, ManifestShape
  <2> QED
    BY <2>2, <2>3 DEF BumpEpoch
<1>3. n \in Nat /\ n > manifest.epoch
  BY <1>1
<1> HIDE DEF n
<1>4. ManifestShape(manifest') /\ manifest'.epoch = n
  BY <1>2 DEF HostShape, ManifestShape
<1>5. HostShape(host') /\ host'.manifest = manifest'
  <2>1. host' = [segment |-> h.segment, logOffset |-> h.logOffset, manifest |-> manifest',
                 sinceSnapshot |-> h.sinceSnapshot, sinceSync |-> h.sinceSync,
                 appended |-> h.appended]
    BY <1>2 DEF HostShape
  <2> QED
    BY <1>4, <2>1 DEF HostShape
<1>6. manifest' # NoManifest
  BY <1>3, <1>4 DEF NoManifest
<1>7. WritesLag => ManifestShape(manifestDur') /\ manifestDur'.epoch \in Nat
  BY <1>1 DEF Opened, HostShape
<1>8. Session
  BY <1>2, <1>3, <1>4 DEF Session
<1> QED
  BY <1>3, <1>4, <1>5, <1>6, <1>7, <1>8 DEF Opened, StaysOpened

LEMMA OpenedStep ==
  ASSUME WritesLag => CreateSettled, Opened, Next
  PROVE  StaysOpened
<1>0. /\ HostShape(host) /\ ManifestShape(manifest) /\ ManifestShape(host.manifest)
      /\ mode # "off" => manifest # NoManifest
      /\ mode \notin {"off", "failed"} => host.manifest.epoch = manifest.epoch
  BY DEF Opened, HostShape
<1>1. CASE UNCHANGED << host, manifest, manifestDur, mode, welcomed >>
  BY <1>1 DEF Opened, StaysOpened, Session
<1>2. ASSUME mode \notin {"off", "failed"}, HostShape(host'),
             host'.manifest.epoch = host.manifest.epoch,
             UNCHANGED << manifest, welcomed >>,
             manifestDur' = manifestDur \/ manifestDur' = manifest'
      PROVE  StaysOpened
  BY <1>0, <1>2, OpenedKept
<1>3. ASSUME mode' \in {"off", "failed"}, HostShape(host'), mode # "off" \/ manifest # NoManifest,
             UNCHANGED << manifest, welcomed >>,
             manifestDur' = manifestDur \/ manifestDur' = manifest'
      PROVE  StaysOpened
  BY <1>0, <1>3, OpenedKept
<1>4. ASSUME mode \notin {"off", "failed"}, HostShape(host'),
             host'.manifest.epoch = host.manifest.epoch, ManifestShape(manifest'),
             manifest'.epoch = manifest.epoch, welcomed' = welcomed,
             manifestDur' = manifestDur
      PROVE  StaysOpened
  BY <1>0, <1>4, OpenedKept
<1>5. CASE Admit
  BY <1>1, <1>5 DEF Admit, storage, history
<1>6. CASE Tick
  <2>1. mode = "running" /\ HostShape(SealedHost)
        /\ SealedHost.manifest.epoch = host.manifest.epoch
    BY <1>0, <1>6, EpochOfSealed
       DEF Tick, TickTraps, TickPlain, TickSnapshots, TickSnapshotTraps, TickStarts
  <2>2. CASE TickTraps
    BY <1>2, <2>1, <2>2 DEF TickTraps
  <2>3. CASE TickPlain
    BY <1>2, <2>1, <2>3, EpochOfCounted DEF TickPlain
  <2>4. /\ HostShape(RolledHost(SealedHost, NextTick))
        /\ RolledHost(SealedHost, NextTick).manifest.epoch = host.manifest.epoch
    BY <2>1, EpochOfRolled
  <2>5. CASE TickSnapshots
    <3>1. /\ host' = Counted(RolledHost(SealedHost, NextTick))
          /\ welcomed' = welcomed
          /\ \E put \in BOOLEAN :
               manifest' = IF RollsNow(SealedHost)
                           THEN RolledHost(SealedHost, TickedSim(put).tick).manifest
                           ELSE manifest
      BY <2>5 DEF TickSnapshots, SnapshotNow
    <3>5. manifestDur' = manifestDur
      BY <2>5 DEF TickSnapshots
    <3>2. HostShape(host') /\ host'.manifest.epoch = host.manifest.epoch
      BY <2>4, <3>1, EpochOfCounted
    <3>3. PICK t : manifest' = IF RollsNow(SealedHost) THEN RolledHost(SealedHost, t).manifest
                               ELSE manifest
      BY <3>1
    <3>4. ManifestShape(manifest') /\ manifest'.epoch = manifest.epoch
      <4>1. /\ HostShape(RolledHost(SealedHost, t))
            /\ RolledHost(SealedHost, t).manifest.epoch = host.manifest.epoch
        BY <2>1, EpochOfRolled
      <4>2. ManifestShape(RolledHost(SealedHost, t).manifest)
        BY <4>1 DEF HostShape
      <4> QED
        BY <1>0, <2>1, <3>3, <4>1, <4>2
    <3> QED
      BY <1>4, <2>1, <3>1, <3>2, <3>4, <3>5
  <2>6. CASE TickSnapshotTraps
    <3>1. host' = [RolledHost(SealedHost, NextTick) EXCEPT !.sinceSnapshot = 0]
      BY <2>6 DEF TickSnapshotTraps
    <3>2. HostShape(host') /\ host'.manifest = RolledHost(SealedHost, NextTick).manifest
      <4> PICK h : h = RolledHost(SealedHost, NextTick)
        OBVIOUS
      <4>1. /\ host' = [segment |-> h.segment, logOffset |-> h.logOffset,
                        manifest |-> h.manifest, sinceSnapshot |-> 0,
                        sinceSync |-> h.sinceSync, appended |-> h.appended]
            /\ ManifestShape(h.manifest)
        BY <2>4, <3>1 DEF HostShape
      <4> QED
        BY <4>1, HasShape
    <3> QED
      BY <1>2, <2>1, <2>4, <2>6, <3>2 DEF TickSnapshotTraps
  <2> QED
    BY <1>6, <2>2, <2>3, <2>5, <2>6 DEF Tick
<1>7. CASE OpenCreate
  <2>1. /\ manifest = NoManifest /\ manifest' = FreshManifest /\ host' = HostAt(0, HeaderLen, FreshManifest)
        /\ welcomed' = Append(welcomed, 0) /\ mode' = "running"
        /\ WritesLag => manifestDur' = FreshManifest
    BY <1>7 DEF OpenCreate
  <2>2. ManifestShape(FreshManifest) /\ FreshManifest.epoch = 0
    BY DEF FreshManifest, ManifestShape
  <2>3. HostShape(host') /\ host'.manifest = manifest'
    BY <2>1, <2>2, HasShape DEF HostAt
  <2>4. manifest' # NoManifest
    BY <2>1, <2>2 DEF NoManifest
  <2>5. Session
    <3>1. manifest.epoch = -1 /\ manifest'.epoch = 0
      BY <2>1, <2>2 DEF NoManifest
    <3> QED
      BY <2>1, <3>1 DEF Session
  <2> QED
    BY <2>1, <2>2, <2>3, <2>4, <2>5 DEF Opened, StaysOpened
<1>8. CASE OpenLoad
  <2>1. PICK l \in Loaded :
       IF Corrupt \/ l.trap # NoTrap
       THEN /\ mode' = "failed"
            /\ UNCHANGED << storage, host, sim >>
       ELSE /\ manifest' = Healed(manifest, l.segment, l.base)
            /\ host' = HostAt(l.segment, l.offset, manifest')
            /\ mode' = "healing"
            /\ manifestDur' = manifestDur
    BY <1>8 DEF OpenLoad
  <2>2. manifest # NoManifest /\ welcomed' = welcomed
    BY <1>8 DEF OpenLoad, history
  <2>3. CASE Corrupt \/ l.trap # NoTrap
    BY <1>0, <1>3, <2>1, <2>2, <2>3 DEF storage
  <2>4. CASE ~(Corrupt \/ l.trap # NoTrap)
    <3>1. ManifestShape(manifest') /\ manifest'.epoch = manifest.epoch
      BY <1>0, <2>1, <2>4, EpochOfHealed
    <3>2. HostShape(host') /\ host'.manifest = manifest'
      BY <2>1, <2>4, <3>1, HasShape DEF HostAt
    <3>3. manifestDur' = manifestDur /\ host'.manifest.epoch = manifest.epoch
      BY <2>1, <2>4, <3>1, <3>2
    <3> QED
      BY <2>2, <3>1, <3>2, <3>3, OpenedKept
  <2> QED
    BY <2>3, <2>4
<1>9. CASE OpenHealed
  BY <1>0, <1>2, <1>9 DEF OpenHealed, history
<1>10. CASE PruneOne
  BY <1>1, <1>10 DEF PruneOne, history
<1>11. CASE OpenDone
  BY <1>0, <1>11, OpenedStarts DEF OpenDone
<1>12. CASE RecoverBegin
  BY <1>0, <1>2, <1>12 DEF RecoverBegin, storage, history
<1>13. CASE RecoverReplays
  <2>1. PICK s, b : /\ host'.manifest = Healed(host.manifest, s, b)
                    /\ HostShape(host')
                    /\ \/ manifest' = manifest
                       \/ manifest' = Healed(host.manifest, s, b)
    <3>1. PICK l \in Loaded :
            /\ host' = [host EXCEPT !.segment = l.segment, !.logOffset = l.offset,
                                    !.manifest = Healed(host.manifest, l.segment, l.base)]
            /\ \/ manifest' = manifest
               \/ manifest' = Healed(host.manifest, l.segment, l.base)
      BY <1>13 DEF RecoverReplays
    <3> DEFINE m == Healed(host.manifest, l.segment, l.base)
    <3>2. ManifestShape(m)
      BY <1>0, EpochOfHealed
    <3> HIDE DEF m
    <3>3. host' = [segment |-> l.segment, logOffset |-> l.offset, manifest |-> m,
                   sinceSnapshot |-> host.sinceSnapshot, sinceSync |-> host.sinceSync,
                   appended |-> host.appended]
      BY <1>0, <3>1 DEF HostShape, m
    <3>4. HostShape(host') /\ host'.manifest = m
      BY <3>2, <3>3 DEF HostShape
    <3> QED
      BY <3>1, <3>4 DEF m
  <2>2. mode = "recovering" /\ welcomed' = welcomed /\ manifestDur' = manifestDur
    BY <1>13 DEF RecoverReplays, history
  <2>3. /\ ManifestShape(Healed(host.manifest, s, b))
        /\ Healed(host.manifest, s, b).epoch = host.manifest.epoch
    BY <1>0, EpochOfHealed
  <2> QED
    BY <1>0, <1>4, <2>1, <2>2, <2>3
<1>14. CASE RecoverSkips
  BY <1>1, <1>14 DEF RecoverSkips, history
<1>15. CASE RecoverGivesUp
  BY <1>0, <1>2, <1>15 DEF RecoverGivesUp, storage, history
<1>16. CASE RecoverResumes
  BY <1>0, <1>16, OpenedStarts DEF RecoverResumes
<1>17. CASE Pause
  <2>1. mode = "running" /\ welcomed' = welcomed /\ manifestDur' = manifestDur
    BY <1>17 DEF Pause, history
  <2>2. \/ UNCHANGED << manifest, host >>
        \/ /\ host' = RolledHost(host, sim.tick)
           /\ \/ manifest' = manifest
              \/ manifest' = RolledHost(host, sim.tick).manifest
    BY <1>17 DEF Pause, SnapshotNow
  <2>3. /\ HostShape(RolledHost(host, sim.tick))
        /\ RolledHost(host, sim.tick).manifest.epoch = host.manifest.epoch
    BY <1>0, EpochOfRolled
  <2>4. ManifestShape(RolledHost(host, sim.tick).manifest)
    BY <2>3 DEF HostShape
  <2> QED
    BY <1>0, <1>4, <2>1, <2>2, <2>3, <2>4
<1>18. CASE PauseFlushes
  BY <1>0, <1>2, <1>18 DEF PauseFlushes, history
<1>19. CASE Resume
  BY <1>0, <1>2, <1>19 DEF Resume, storage, history
<1>20. ASSUME Dead, mode # "off", UNCHANGED << manifest, welcomed >>,
              manifestDur' = manifestDur \/ manifestDur' = manifest'
       PROVE  StaysOpened
  <2>1. ManifestShape(NoManifest)
    BY DEF NoManifest, ManifestShape
  <2>2. mode' = "off" /\ HostShape(host')
    BY <1>20, <2>1, HasShape DEF Dead, HostAt
  <2> QED
    BY <1>3, <1>20, <2>2
<1>21. CASE Exit
  BY <1>20, <1>21 DEF Exit, storage, history
<1>22. CASE SyncDone
  BY <1>1, <1>22 DEF SyncDone, history
<1>23. CASE SnapshotLands
  BY <1>1, <1>23 DEF SnapshotLands, history
<1>24. CASE ManifestLands
  BY <1>0, <1>24, OpenedKept DEF ManifestLands, Alive, history
<1>25. ASSUME Dead, mode # "off", welcomed' = welcomed,
              manifest' \in {manifest} \cup (IF WritesLag THEN {manifestDur} ELSE {}),
              manifestDur' = manifest'
       PROVE  StaysOpened
  <2>1. CASE manifest' = manifest
    BY <1>20, <1>25, <2>1
  <2>2. CASE manifest' # manifest
    <3>1. WritesLag /\ manifest' = manifestDur
      BY <1>25, <2>2
    <3>2. ManifestShape(NoManifest)
      BY DEF NoManifest, ManifestShape
    <3>3. mode' = "off" /\ HostShape(host')
      BY <1>25, <3>2, HasShape DEF Dead, HostAt
    <3>4. ManifestShape(manifest') /\ manifest'.epoch \in Nat /\ manifest' # NoManifest
      BY <1>0, <1>25, <3>1 DEF Opened, NoManifest
    <3> QED
      BY <1>25, <3>1, <3>3, <3>4 DEF Opened, StaysOpened, Session
  <2> QED
    BY <2>1, <2>2
<1>26. CASE TabCrash \/ OsCrash
  BY <1>25, <1>26 DEF TabCrash, OsCrash, LoseReplaces, Alive, history
<1>27. CASE CorruptSnapshot
  BY <1>1, <1>27 DEF CorruptSnapshot, history
<1> QED
  BY <1>5, <1>6, <1>7, <1>8, <1>9, <1>10, <1>11, <1>12, <1>13, <1>14, <1>15, <1>16, <1>17,
     <1>18, <1>19, <1>21, <1>22, <1>23, <1>24, <1>26, <1>27
     DEF Next, Open, Recover, Boundary, Environment

(* No session was welcomed under a later epoch than the stored one. *)
EpochInv ==
  /\ Opened
  /\ welcomed \in Seq(Int)
  /\ \A i \in DOMAIN welcomed : welcomed[i] <= manifest.epoch
  /\ EpochNeverReused

LEMMA EpochStep ==
  ASSUME ~WritesLag, EpochInv, Opened', Session
  PROVE  EpochInv'
<1>1. CASE welcomed' = welcomed /\ manifest'.epoch = manifest.epoch
  BY <1>1 DEF EpochInv, EpochNeverReused
<1>2. CASE /\ welcomed' = Append(welcomed, manifest'.epoch)
           /\ manifest'.epoch > manifest.epoch
  <2> DEFINE n == manifest'.epoch
  <2>1. n \in Int /\ n > manifest.epoch /\ manifest.epoch \in Int
        /\ welcomed' = Append(welcomed, n)
    BY <1>2 DEF EpochInv, Opened
  <2> HIDE DEF n
  <2>2. /\ welcomed' \in Seq(Int) /\ DOMAIN welcomed' = 1..Len(welcomed) + 1
        /\ Len(welcomed) \in Nat /\ DOMAIN welcomed = 1..Len(welcomed)
        /\ \A i \in DOMAIN welcomed : welcomed'[i] = welcomed[i]
        /\ welcomed'[Len(welcomed) + 1] = n
    BY <2>1 DEF EpochInv
  <2>3. \A i \in DOMAIN welcomed : welcomed[i] \in Int /\ welcomed[i] < n
    <3>1. \A i \in DOMAIN welcomed : welcomed[i] \in Int /\ welcomed[i] <= manifest.epoch
      BY <2>2, ElementOfSeq DEF EpochInv
    <3> QED
      BY <2>1, <3>1
  <2>4. \A i \in DOMAIN welcomed' : i \in DOMAIN welcomed \/ i = Len(welcomed) + 1
    BY <2>2
  <2>5. EpochNeverReused'
    <3> SUFFICES ASSUME NEW i \in DOMAIN welcomed', NEW j \in DOMAIN welcomed', i < j
                 PROVE  welcomed'[i] < welcomed'[j]
      BY DEF EpochNeverReused
    <3>1. i \in DOMAIN welcomed
      BY <2>2
    <3>2. CASE j \in DOMAIN welcomed
      BY <2>2, <3>1, <3>2 DEF EpochInv, EpochNeverReused
    <3>3. CASE j = Len(welcomed) + 1
      BY <2>2, <2>3, <3>1, <3>3
    <3> QED
      BY <2>4, <3>2, <3>3
  <2>6. \A i \in DOMAIN welcomed' : welcomed'[i] <= n
    BY <2>1, <2>2, <2>3, <2>4
  <2> QED
    BY <2>2, <2>5, <2>6 DEF EpochInv, n
<1> QED
  BY <1>1, <1>2 DEF Session

(* Where whole-key writes land in order, no two sessions are welcomed under*)
(* one epoch, whatever crashes, traps and rolls come between: a client's   *)
(* chunk versions are matched against the session that gave them           *)
(* (bumpEpoch in persistence.ts).                                          *)
THEOREM PersistenceEpochs ==
  ASSUME ~WritesLag
  PROVE  Spec => []EpochNeverReused
<1>1. Init => EpochInv
  BY OpenedInit DEF Init, EpochInv, EpochNeverReused
<1>2. EpochInv /\ [Next]_vars => EpochInv'
  <2>1. ASSUME EpochInv, UNCHANGED vars PROVE EpochInv'
    BY <2>1 DEF vars, storage, history, EpochInv, EpochNeverReused, Opened
  <2>2. ASSUME EpochInv, Next PROVE EpochInv'
    BY <2>2, OpenedStep, EpochStep DEF EpochInv, StaysOpened
  <2> QED
    BY <2>1, <2>2
<1>3. EpochInv => EpochNeverReused
  BY DEF EpochInv
<1> QED
  BY <1>1, <1>2, <1>3, PTL DEF Spec
-----------------------------------------------------------------------------
(***************************************************************************)
(* The world: what storage keeps of it, and what a live process adds.      *)
(***************************************************************************)

(* A segment cut in the middle of a frame ends with the frame's first cell.*)
HalfTorn(cells) ==
  \A n \in Nat : Len(cells) = 2 * n + 2 /\ cells[2 * n + 2].kind # "header"
                 => cells[2 * n + 2].part = 1

Whole(cells) == \E N \in Nat : Len(cells) = 2 * N + 1

(* What a crash would find (snd, and the durable lengths sf) is as sound as*)
(* what the process reads (l, sn).                                         *)
Durable(l, s, first, st, ex, sn, snd, sf) ==
  /\ WritesLag => SnapsOK(snd, l[s], s, st, ex, first)
  /\ \A t \in Ticks : snd[t].ok => sn[t].ok
  /\ MaxOsCrash > 0 => \A t \in Ticks : snd[t].ok => snd[t].offset <= sf[s]

Holds(l, s, first, st, ex, sn, snd, sf) ==
  /\ Intact(l, s, first, st, ex, sn)
  /\ Durable(l, s, first, st, ex, sn, snd, sf)
  /\ HalfTorn(l[s])

(* The live process h and its sim x are at the end of the newest segment.  *)
LiveAt(h, x, l, s, first, st, ex, sn, na) ==
  /\ h.segment = s /\ h.logOffset = Len(l[s])
  /\ GoesOn(x, l[s], st, ex, first)
  /\ \A t \in Ticks : sn[t].ok => t <= x.tick
  /\ Unsealed(x.pending, st)
  /\ \A i \in DOMAIN x.pending : x.pending[i] < na

LEMMA OneSegment ==
  ASSUME Sound, NEW s \in Segments, WritesLag \/ MaxOsCrash > 0 \/ MaxSnapshotTrap > 0
                                    \/ MaxCorrupt > 0
  PROVE  /\ MaxSegment = 0 /\ s = 0
         /\ \A r \in Segments : r = 0
<1>1. ~ (MaxSegment > 0) /\ MaxSegment \in Nat
  BY ConstantsTyped DEF Sound
<1> QED
  BY <1>1 DEF Segments

LEMMA HoldsContinues ==
  ASSUME Sound, NEW l, NEW s \in Segments, NEW first, NEW st, NEW ex,
         NEW sn, NEW snd \in [Ticks -> Snap], NEW sf, NEW sfNew,
         Holds(l, s, first, st, ex, sn, snd, sf), DOMAIN l = Segments,
         NEW new, NEW later, NEW exLater, NEW T \in Nat, Parsed(new), Whole(new),
         Chained(new, later, first),
         Continues(l[s], new, st, later, ex, exLater, first, T),
         \A t \in Ticks : sn[t].ok => t <= T,
         sf[s] \in Nat, sfNew[s] \in Nat, sf[s] <= sfNew[s] \/ sfNew[s] = Len(new)
  PROVE  Holds([l EXCEPT ![s] = new], s, first, later, exLater, sn, snd, sfNew)
<1> DEFINE z == [l EXCEPT ![s] = new]
<1>0. /\ Intact(l, s, first, st, ex, sn)
      /\ WritesLag => SnapsOK(snd, l[s], s, st, ex, first)
      /\ \A t \in Ticks : snd[t].ok => sn[t].ok
      /\ MaxOsCrash > 0 => \A t \in Ticks : snd[t].ok => snd[t].offset <= sf[s]
  BY DEF Holds, Durable
<1>1. z[s] = new
  OBVIOUS
<1>2. Intact(z, s, first, later, exLater, sn)
  BY <1>0, StoredContinues
<1> HIDE DEF z
<1>3. ASSUME WritesLag PROVE SnapsOK(snd, new, s, later, exLater, first)
  <2>1. \A t \in Ticks : snd[t].ok => t <= T
    BY <1>0
  <2>2. SnapsOK(snd, l[s], s, st, ex, first)
    BY <1>0, <1>3
  <2> QED
    BY <2>1, <2>2, SnapsContinue
<1>4. ASSUME MaxOsCrash > 0, NEW t \in Ticks, snd[t].ok
      PROVE  snd[t].offset <= sfNew[s]
  <2>1. snd[t] \in Snap /\ snd[t].offset <= sf[s] /\ WritesLag
    BY <1>0, <1>4 DEF Sound
  <2>2. snd[t].offset \in Nat /\ snd[t].segment \in Segments
    BY <1>4, <2>1 DEF Snap
  <2>3. CASE sf[s] <= sfNew[s]
    BY <2>1, <2>2, <2>3
  <2>4. CASE sfNew[s] = Len(new)
    <3>1. snd[t].segment = s
      BY <1>4, <2>2, OneSegment
    <3>2. PICK m \in Nat : snd[t].offset = 2 * m + 1 /\ BaseOK(snd[t], new, m, later, exLater, first)
      BY <1>3, <1>4, <2>1, <3>1 DEF SnapsOK
    <3> QED
      BY <2>4, <3>2 DEF BaseOK
  <2> QED
    BY <2>3, <2>4
<1>5. HalfTorn(new)
  BY DEF HalfTorn, Whole
<1> QED
  BY <1>0, <1>1, <1>2, <1>3, <1>4, <1>5 DEF Holds, Durable, z

(***************************************************************************)
(* Taking a snapshot (snapshotNow), and rolling the segment first.         *)
(***************************************************************************)

(* A snapshot of x at the end of segment s is stored at its tick.          *)
SnapAt(x, s, offset) ==
  [ok |-> TRUE, tick |-> x.tick, lastLogged |-> x.lastLogged, world |-> x.world,
   faulted |-> x.faulted, segment |-> s, offset |-> offset]

LEMMA SnapTyped ==
  ASSUME NEW x \in SimT, NEW s \in Segments, NEW offset \in Nat
  PROVE  /\ SnapAt(x, s, offset) \in Snap
         /\ SnapAt(x, s, offset).ok /\ SnapAt(x, s, offset).tick = x.tick
         /\ SnapAt(x, s, offset).segment = s /\ SnapAt(x, s, offset).offset = offset
         /\ SameView(x, SnapAt(x, s, offset))
         /\ x.tick \in Ticks
<1>1. /\ x.tick \in Ticks /\ x.lastLogged \in Ticks /\ x.world \in World
      /\ x.faulted \in SUBSET Actions
  BY DEF SimT
<1> QED
  BY <1>1 DEF SnapAt, Snap, SameView

LEMMA SnapOrder ==
  ASSUME NEW s \in Segments, NEW r \in Segments, r <= s, NEW sn \in [Ticks -> Snap],
         NEW b \in Snap, NEW t \in Ticks, b.ok, b.segment = s,
         \A u \in Ticks : sn[u].ok => u <= t /\ sn[u].segment <= r,
         InOrder(sn, r)
  PROVE  InOrder([sn EXCEPT ![t] = b], s)
<1> DEFINE new == [sn EXCEPT ![t] = b]
<1>1. new[t] = b /\ \A u \in Ticks : u # t => new[u] = sn[u]
  OBVIOUS
<1>2. Ticks \subseteq Nat /\ Segments \subseteq Nat
  BY ConstantsTyped DEF Ticks, Segments
<1>3. \A u \in Ticks : sn[u].ok => sn[u].segment \in Segments
  <2>1. \A u \in Ticks : sn[u] \in Snap
    OBVIOUS
  <2> QED
    BY <2>1 DEF Snap
<1> HIDE DEF new
<1>4. \E u \in Ticks : new[u].ok /\ new[u].segment = s
  BY <1>1
<1>5. ASSUME NEW u \in Ticks, NEW v \in Ticks, new[u].ok, new[v].ok,
             new[u].segment < new[v].segment
      PROVE  u < v
  <2>1. CASE u = t
    <3>1. v # t
      BY <1>1, <1>2, <1>5, <2>1
    <3>2. new[v] = sn[v] /\ sn[v].segment <= r /\ sn[v].segment \in Nat
      BY <1>1, <1>2, <1>3, <1>5, <3>1
    <3> QED
      BY <1>1, <1>2, <1>5, <2>1, <3>2
  <2>2. CASE u # t /\ v = t
    <3>1. u <= t
      BY <1>1, <1>5, <2>2
    <3> QED
      BY <1>2, <2>2, <3>1
  <2>3. CASE u # t /\ v # t
    BY <1>1, <1>5, <2>3 DEF InOrder
  <2> QED
    BY <2>1, <2>2, <2>3
<1> QED
  BY <1>4, <1>5 DEF InOrder, new

LEMMA SnapshotStays ==
  ASSUME Sound, NEW l, NEW s \in Segments, NEW first, NEW st, NEW ex,
         NEW sn \in [Ticks -> Snap], NEW snd, NEW sf,
         Holds(l, s, first, st, ex, sn, snd, sf), NEW x \in SimT,
         GoesOn(x, l[s], st, ex, first), \A t \in Ticks : sn[t].ok => t <= x.tick
  PROVE  Holds(l, s, first, st, ex, [sn EXCEPT ![x.tick] = SnapAt(x, s, Len(l[s]))], snd, sf)
<1> DEFINE b == SnapAt(x, s, Len(l[s]))
           new == [sn EXCEPT ![x.tick] = b]
<1>0. /\ Intact(l, s, first, st, ex, sn)
      /\ WritesLag => SnapsOK(snd, l[s], s, st, ex, first)
      /\ \A t \in Ticks : snd[t].ok => sn[t].ok
      /\ MaxOsCrash > 0 => \A t \in Ticks : snd[t].ok => snd[t].offset <= sf[s]
      /\ HalfTorn(l[s])
  BY DEF Holds, Durable
<1>1. PICK N \in Nat : Len(l[s]) = 2 * N + 1 /\ BaseOK(x, l[s], N, st, ex, first)
  BY DEF GoesOn
<1>2. /\ b \in Snap /\ b.ok /\ b.tick = x.tick /\ b.segment = s /\ b.offset = 2 * N + 1
      /\ SameView(x, b) /\ x.tick \in Ticks
  <2>1. Len(l[s]) \in Nat
    BY <1>1
  <2> QED
    BY <1>1, <2>1, SnapTyped
<1> HIDE DEF b
<1>3. BaseOK(b, l[s], N, st, ex, first)
  BY <1>1, <1>2, ViewKeeps
<1>4. new[x.tick] = b /\ \A t \in Ticks : t # x.tick => new[t] = sn[t]
  BY <1>2
<1>5. /\ SnapsOK(sn, l[s], s, st, ex, first) /\ InOrder(sn, s)
  BY <1>0 DEF Intact
<1>6. InOrder(new, s)
  <2>1. s <= s
    BY DEF Segments
  <2>2. \A u \in Ticks : sn[u].ok => u <= x.tick /\ sn[u].segment <= s
    BY <1>5 DEF SnapsOK
  <2> QED
    BY <1>2, <1>5, <2>1, <2>2, SnapOrder
<1> HIDE DEF new
<1>7. SnapsOK(new, l[s], s, st, ex, first)
  <2> SUFFICES ASSUME NEW t \in Ticks, new[t].ok
               PROVE  /\ new[t].tick = t /\ new[t].segment <= s
                      /\ new[t].segment = s =>
                           \E m \in Nat : /\ new[t].offset = 2 * m + 1
                                          /\ BaseOK(new[t], l[s], m, st, ex, first)
    BY DEF SnapsOK
  <2>1. CASE t = x.tick
    <3>1. s <= s
      BY DEF Segments
    <3> QED
      BY <1>2, <1>3, <1>4, <2>1, <3>1
  <2>2. CASE t # x.tick
    BY <1>4, <1>5, <2>2 DEF SnapsOK
  <2> QED
    BY <2>1, <2>2
<1>8. Intact(l, s, first, st, ex, new)
  BY <1>0, <1>6, <1>7 DEF Intact
<1>9. \A t \in Ticks : snd[t].ok => new[t].ok
  BY <1>0, <1>2, <1>4
<1> QED
  BY <1>0, <1>8, <1>9 DEF Holds, Durable, new, b

(* A roll: the next segment holds a header, and its deltas count from the  *)
(* snapshot it starts with.                                                *)
Rolls(x, y) ==
  /\ y \in SimT /\ y.tick = x.tick /\ y.lastLogged = x.tick
  /\ y.world = x.world /\ y.faulted = x.faulted

RollsInto(l, s, c, first, st, ex, sn, snd, sf, x, y, z) ==
  /\ s < c
  /\ Holds(l, s, first, st, ex, sn, snd, sf)
  /\ GoesOn(x, l[s], st, ex, first)
  /\ \A t \in Ticks : sn[t].ok => t <= x.tick
  /\ Rolls(x, y)
  /\ z[c] = Header
  /\ \A r \in Segments : r # c => z[r] = l[r]

RolledInto(c, st, ex, sn, snd, sf, x, y, z) ==
  /\ Holds(z, c, x.tick, st, ex,
           [sn EXCEPT ![x.tick] = SnapAt(y, c, HeaderLen)], snd, sf)
  /\ GoesOn(y, z[c], st, ex, x.tick)

LEMMA SnapshotRolls ==
  ASSUME Sound, NEW l, NEW s \in Segments, NEW c \in Segments,
         NEW first, NEW st, NEW ex, NEW sn \in [Ticks -> Snap], NEW snd, NEW sf,
         NEW x \in SimT, NEW y, NEW z,
         RollsInto(l, s, c, first, st, ex, sn, snd, sf, x, y, z)
  PROVE  RolledInto(c, st, ex, sn, snd, sf, x, y, z)
<1> DEFINE b == SnapAt(y, c, HeaderLen)
           new == [sn EXCEPT ![x.tick] = b]
<1>0. /\ Intact(l, s, first, st, ex, sn)
      /\ \A t \in Ticks : snd[t].ok => sn[t].ok
      /\ s < c /\ GoesOn(x, l[s], st, ex, first)
      /\ \A t \in Ticks : sn[t].ok => t <= x.tick
      /\ Rolls(x, y)
      /\ z[c] = Header /\ \A r \in Segments : r # c => z[r] = l[r]
  BY DEF Holds, Durable, RollsInto
<1>1. /\ s \in Nat /\ c \in Nat /\ s <= c /\ c # 0 /\ Segments \subseteq Nat
      /\ ~WritesLag /\ MaxOsCrash = 0
  <2>1. MaxSegment > 0 /\ s \in Nat /\ c \in Nat
    BY <1>0, ConstantsTyped DEF Segments
  <2> QED
    BY <1>0, <2>1 DEF Sound, Segments
<1>2. y \in SimT /\ y.tick = x.tick /\ x.tick \in Ticks /\ y.lastLogged = x.tick
      /\ y.world = x.world /\ y.faulted = x.faulted
  BY <1>0 DEF SimT, Rolls
<1>4. /\ Header \in Seq(Cell) /\ Len(Header) = 1 /\ Header[1].kind = "header"
  BY DEF Header, Cell
<1>5. WholeFrames(Header) = {} /\ LogFrames(Header) = {}
  BY <1>4 DEF WholeFrames, LogFrames
<1>6. Parsed(Header) /\ Chained(Header, st, x.tick) /\ HalfTorn(Header)
  BY <1>4, <1>5 DEF Parsed, Chained, HalfTorn
<1>7. BaseOK(y, Header, 0, st, ex, x.tick)
  <2>1. PICK N \in Nat : Len(l[s]) = 2 * N + 1 /\ BaseOK(x, l[s], N, st, ex, first)
    BY <1>0 DEF GoesOn
  <2>2. WorldOK(x, st) /\ Covers(x, l[s], N, st, ex)
    BY <2>1 DEF BaseOK
  <2>3. WorldOK(y, st)
    <3>1. x.tick <= x.tick
      BY <1>2, ConstantsTyped DEF Ticks
    <3> QED
      BY <1>2, <2>2, <3>1 DEF WorldOK
  <2>4. \A n \in LogFrames(l[s]) : ~ (n > N)
    <3>1. Parsed(l[s])
      BY <1>0 DEF Intact
    <3> QED
      BY <2>1, <3>1, LogCell
  <2>5. Covers(y, Header, 0, st, ex)
    <3>1. Applied(y) = Applied(x)
      BY <1>2 DEF Applied
    <3> QED
      BY <1>2, <2>2, <2>4, <3>1 DEF Covers
  <2>6. ReadsOn(y, Header, 0, st, x.tick)
    BY <1>2, <1>5 DEF ReadsOn, LagIs
  <2> QED
    BY <1>4, <2>3, <2>5, <2>6 DEF BaseOK
<1>8. GoesOn(y, Header, st, ex, x.tick)
  <2>1. Len(Header) = 2 * 0 + 1
    BY <1>4
  <2> QED
    BY <1>7, <2>1 DEF GoesOn
<1>9. /\ b \in Snap /\ b.ok /\ b.tick = x.tick /\ b.segment = c /\ b.offset = 1
      /\ SameView(y, b)
  <2>1. HeaderLen \in Nat /\ HeaderLen = 1
    BY DEF HeaderLen
  <2>2. /\ b \in Snap /\ b.ok /\ b.tick = y.tick /\ b.segment = c
        /\ b.offset = HeaderLen /\ SameView(y, b)
    BY <1>2, <2>1, SnapTyped
  <2> QED
    BY <1>2, <2>1, <2>2
<1> HIDE DEF b
<1>10. BaseOK(b, Header, 0, st, ex, x.tick)
  BY <1>7, <1>9, ViewKeeps
<1>11. new[x.tick] = b /\ \A t \in Ticks : t # x.tick => new[t] = sn[t]
  BY <1>2
<1>12. \A u \in Ticks : sn[u].ok => u <= x.tick /\ sn[u].segment <= s
  BY <1>0 DEF Intact, SnapsOK
<1>13. InOrder(new, c)
  <2>1. s <= c /\ InOrder(sn, s)
    BY <1>0, <1>1 DEF Intact
  <2> QED
    BY <1>1, <1>2, <1>9, <1>12, <2>1, SnapOrder
<1> HIDE DEF new
<1>14. SnapsOK(new, Header, c, st, ex, x.tick)
  <2> SUFFICES ASSUME NEW t \in Ticks, new[t].ok
               PROVE  /\ new[t].tick = t /\ new[t].segment <= c
                      /\ new[t].segment = c =>
                           \E m \in Nat : /\ new[t].offset = 2 * m + 1
                                          /\ BaseOK(new[t], Header, m, st, ex, x.tick)
    BY DEF SnapsOK
  <2>1. CASE t = x.tick
    <3>1. c <= c /\ 1 = 2 * 0 + 1
      BY <1>1
    <3> QED
      BY <1>9, <1>10, <1>11, <2>1, <3>1
  <2>2. CASE t # x.tick
    <3>1. new[t] = sn[t] /\ sn[t].tick = t /\ sn[t].segment <= s
      BY <1>0, <1>11, <2>2 DEF Intact, SnapsOK
    <3>2. sn[t].segment \in Segments
      <4>1. sn[t] \in Snap
        OBVIOUS
      <4> QED
        BY <1>11, <2>2, <4>1 DEF Snap
    <3>3. sn[t].segment <= c /\ sn[t].segment # c
      <4> PICK g \in Nat : g = sn[t].segment
        BY <1>1, <3>2
      <4>1. g <= s
        BY <3>1
      <4> QED
        BY <1>0, <1>1, <4>1
    <3> QED
      BY <3>1, <3>3
  <2> QED
    BY <2>1, <2>2
<1>15. \A r \in Segments : r > c => z[r] = << >>
  <2>1. \A r \in Segments : r > c => r > s /\ r # c
    BY <1>1
  <2> QED
    BY <1>0,  <2>1 DEF Intact
<1>16. Intact(z, c, x.tick, st, ex, new)
  BY <1>0, <1>1, <1>6, <1>13, <1>14, <1>15 DEF Intact
<1>17. \A t \in Ticks : snd[t].ok => new[t].ok
  BY <1>0, <1>9, <1>11
<1>18. Holds(z, c, x.tick, st, ex, new, snd, sf)
  <2>1. Durable(z, c, x.tick, st, ex, new, snd, sf)
    BY <1>1, <1>17 DEF Durable
  <2>2. HalfTorn(z[c])
    BY <1>0, <1>6
  <2> QED
    BY <1>16, <2>1, <2>2 DEF Holds
<1> QED
  BY <1>0, <1>8, <1>18 DEF new, b, RolledInto

LEMMA RollsSim ==
  ASSUME NEW x \in SimT
  PROVE  /\ Rolls(x, [x EXCEPT !.lastLogged = x.tick])
         /\ [x EXCEPT !.lastLogged = x.tick].pending = x.pending
         /\ [x EXCEPT !.lastLogged = x.tick].trap = x.trap
BY DEF SimT, Rolls

LEMMA Cleaned ==
  ASSUME NEW x \in SimT, NEW y, y = [x EXCEPT !.dirty = FALSE]
  PROVE  /\ y \in SimT /\ SameView(x, y)
         /\ y.trap = x.trap /\ y.pending = x.pending /\ y.tick = x.tick
BY DEF SimT, SameView

LEMMA RolledFields ==
  ASSUME NEW h, HostShape(h), NEW t
  PROVE  /\ ~RollsNow(h) => RolledHost(h, t) = h
         /\ RollsNow(h) => /\ RolledHost(h, t).segment = h.segment + 1
                           /\ RolledHost(h, t).logOffset = HeaderLen
BY DEF HostShape, ManifestShape, RolledHost

(* What a snapshot leaves, of the world and of the process.                *)
Taken(l, h, x, c, f, st, na) ==
  /\ Holds(log', c, f, st, excused, snaps', snapsDur, safe)
  /\ LiveAt(RolledHost(h, x.tick), sim', log', c, f, st, excused, snaps', na)
  /\ sim' \in SimT /\ sim'.trap = NoTrap
  /\ snaps' \in [Ticks -> Snap] /\ log' \in [Segments -> Seq(Cell)]
  /\ \A t \in Ticks : snaps'[t].ok \/ snaps'[t] = snaps[t]
  /\ \A r \in Segments : Len(l[r]) <= Len(log'[r])

LEMMA SnapshotTaken ==
  ASSUME Sound, NEW l \in [Segments -> Seq(Cell)], NEW s \in Segments, NEW first \in Ticks,
         NEW st, NEW na, NEW h, HostShape(h), NEW x \in SimT, x.trap = NoTrap,
         snaps \in [Ticks -> Snap],
         Holds(l, s, first, st, excused, snaps, snapsDur, safe),
         LiveAt(h, x, l, s, first, st, excused, snaps, na),
         SnapshotNow(x, h, l)
  PROVE  \E c \in Segments : \E f \in Ticks : Taken(l, h, x, c, f, st, na)
<1> DEFINE at == RolledSim(h, x)
           rolled == RolledHost(h, x.tick)
<1>0. /\ h.segment = s /\ h.logOffset = Len(l[s])
      /\ GoesOn(x, l[s], st, excused, first)
      /\ \A t \in Ticks : snaps[t].ok => t <= x.tick
      /\ Unsealed(x.pending, st)
      /\ \A i \in DOMAIN x.pending : x.pending[i] < na
  BY DEF LiveAt
<1>1. /\ log' = RolledLog(h, l)
      /\ snaps' = [snaps EXCEPT ![x.tick] = SnapAt(at, rolled.segment, rolled.logOffset)]
      /\ sim' = [at EXCEPT !.dirty = FALSE]
  BY DEF SnapshotNow, SnapshotOf, SnapAt
<1>2. x.tick \in Ticks /\ Ticks \subseteq Nat
  BY ConstantsTyped DEF SimT, Ticks
<1>3. \A r \in Segments : l[r] \in Seq(Cell) /\ Len(l[r]) \in Nat
  <2> TAKE r \in Segments
  <2>1. l[r] \in Seq(Cell)
    OBVIOUS
  <2> QED
    BY <2>1, LenProperties
(* What holds of the new sim and snapshots, once it is known where they are.*)
<1>4. ASSUME NEW c \in Segments, NEW f \in Ticks, NEW b \in Snap, b.ok,
             snaps' = [snaps EXCEPT ![x.tick] = b],
             Holds(log', c, f, st, excused, snaps', snapsDur, safe),
             at \in SimT, at.tick = x.tick, at.pending = x.pending, at.trap = NoTrap,
             GoesOn(at, log'[c], st, excused, f),
             rolled.segment = c, rolled.logOffset = Len(log'[c]),
             log' \in [Segments -> Seq(Cell)],
             \A r \in Segments : Len(l[r]) <= Len(log'[r])
      PROVE  Taken(l, h, x, c, f, st, na)
  <2>1. /\ sim' \in SimT /\ SameView(at, sim') /\ sim'.trap = NoTrap
        /\ sim'.pending = x.pending /\ sim'.tick = x.tick
    BY <1>1, <1>4, Cleaned
  <2>2. GoesOn(sim', log'[c], st, excused, f)
    BY <1>4, <2>1, ViewKeeps DEF GoesOn
  <2>3. /\ snaps'[x.tick] = b /\ \A t \in Ticks : t # x.tick => snaps'[t] = snaps[t]
        /\ snaps' \in [Ticks -> Snap]
    BY <1>2, <1>4
  <2>4. \A t \in Ticks : snaps'[t].ok => t <= sim'.tick
    <3> SUFFICES ASSUME NEW t \in Ticks, snaps'[t].ok PROVE t <= x.tick
      BY <2>1
    <3>1. CASE t = x.tick
      BY <1>2, <3>1
    <3>2. CASE t # x.tick
      BY <1>0, <2>3, <3>2
    <3> QED
      BY <3>1, <3>2
  <2>5. LiveAt(rolled, sim', log', c, f, st, excused, snaps', na)
    BY <1>0, <1>4, <2>1, <2>2, <2>4 DEF LiveAt
  <2>6. \A t \in Ticks : snaps'[t].ok \/ snaps'[t] = snaps[t]
    BY <1>4, <2>3
  <2> QED
    BY <1>4, <2>1, <2>3, <2>5, <2>6 DEF Taken
<1>5. CASE ~RollsNow(h)
  <2>1. at = x /\ rolled = h /\ log' = l
    BY <1>1, <1>5, RolledFields DEF RolledSim, RolledLog
  <2>2. snaps' = [snaps EXCEPT ![x.tick] = SnapAt(x, s, Len(l[s]))]
    BY <1>0, <1>1, <2>1
  <2>3. SnapAt(x, s, Len(l[s])) \in Snap /\ SnapAt(x, s, Len(l[s])).ok
    BY <1>3, SnapTyped
  <2>4. Holds(l, s, first, st, excused,
              [snaps EXCEPT ![x.tick] = SnapAt(x, s, Len(l[s]))], snapsDur, safe)
    BY <1>0, SnapshotStays
  <2>5. \A r \in Segments : Len(l[r]) <= Len(log'[r])
    BY <1>3, <2>1
  <2>6. Taken(l, h, x, s, first, st, na)
    <3> HIDE DEF at, rolled
    <3>1. Holds(log', s, first, st, excused, snaps', snapsDur, safe)
      BY <2>1, <2>2, <2>4
    <3>2. GoesOn(at, log'[s], st, excused, first)
      BY <1>0, <2>1
    <3> QED
      BY <1>0, <1>4, <2>1, <2>2, <2>3, <2>5, <3>1, <3>2
  <2> QED
    BY <2>6
<1>6. CASE RollsNow(h)
  <2> DEFINE c == s + 1
  <2>1. c \in Segments /\ s < c /\ s \in Nat
    BY <1>0, <1>6, ConstantsTyped DEF RollsNow, Segments
  <2>2. at = [x EXCEPT !.lastLogged = x.tick] /\ rolled.segment = c /\ rolled.logOffset = HeaderLen
        /\ log' = [l EXCEPT ![c] = @ \o Header]
    BY <1>0, <1>1, <1>6, RolledFields DEF RolledSim, RolledLog
  <2> HIDE DEF c, rolled
  <2>3. Rolls(x, at) /\ at.pending = x.pending /\ at.trap = NoTrap
    BY <2>2, RollsSim
  <2> HIDE DEF at
  <2>4. log'[c] = Header /\ \A r \in Segments : r # c => log'[r] = l[r]
    <3>1. l[c] = << >>
      BY <2>1 DEF Holds, Intact
    <3>2. log'[c] = l[c] \o Header /\ \A r \in Segments : r # c => log'[r] = l[r]
      BY <2>1, <2>2
    <3> QED
      BY <3>1, <3>2 DEF Header
  <2>5. /\ Holds(log', c, x.tick, st, excused,
                 [snaps EXCEPT ![x.tick] = SnapAt(at, c, HeaderLen)], snapsDur, safe)
        /\ GoesOn(at, log'[c], st, excused, x.tick)
    <3>1. RollsInto(l, s, c, first, st, excused, snaps, snapsDur, safe, x, at, log')
      BY <1>0, <2>1, <2>3, <2>4 DEF RollsInto
    <3>2. RolledInto(c, st, excused, snaps, snapsDur, safe, x, at, log')
      BY <2>1, <3>1, SnapshotRolls
    <3> QED
      BY <3>2 DEF RolledInto
  <2>6. HeaderLen \in Nat /\ Len(Header) = HeaderLen /\ Header \in Seq(Cell)
    BY DEF HeaderLen, Header, Cell
  <2>7. at \in SimT /\ at.tick = x.tick
    BY <2>3 DEF Rolls
  <2>8. SnapAt(at, c, HeaderLen) \in Snap /\ SnapAt(at, c, HeaderLen).ok
    BY <2>1, <2>6, <2>7, SnapTyped
  <2>9. snaps' = [snaps EXCEPT ![x.tick] = SnapAt(at, c, HeaderLen)]
    BY <1>1, <2>2
  <2>10. log' \in [Segments -> Seq(Cell)]
    <3>1. log' = [l EXCEPT ![c] = Header]
      BY <2>1, <2>2, <2>4
    <3> QED
      BY <2>6, <3>1
  <2>11. \A r \in Segments : Len(l[r]) <= Len(log'[r])
    <3>1. Len(l[c]) <= Len(log'[c])
      <4>1. l[c] = << >>
        BY <2>1 DEF Holds, Intact
      <4> QED
        BY <2>4, <2>6, <4>1
    <3> QED
      BY <1>3, <2>4, <3>1
  <2>12. Holds(log', c, x.tick, st, excused, snaps', snapsDur, safe)
    BY <2>5, <2>9
  <2>13. Taken(l, h, x, c, x.tick, st, na)
    BY <1>2, <1>4, <2>1, <2>2, <2>3, <2>4, <2>5, <2>6, <2>7, <2>8, <2>9, <2>10, <2>11, <2>12
  <2> QED
    BY <1>2, <2>1, <2>13
<1> QED
  BY <1>5, <1>6

-----------------------------------------------------------------------------
(***************************************************************************)
(* The inductive invariant.                                                *)
(***************************************************************************)
StorageTyped ==
  /\ log \in [Segments -> Seq(Cell)]
  /\ safe \in [Segments -> Nat] /\ asked \in [Segments -> Nat]
  /\ \A r \in Segments : safe[r] <= asked[r] /\ asked[r] <= Len(log[r])
  /\ snaps \in [Ticks -> Snap] /\ snapsDur \in [Ticks -> Snap]

Typed ==
  /\ StorageTyped
  /\ mode \in Modes
  /\ sim \in SimT /\ sim.trap = NoTrap
  /\ host.segment \in Segments /\ host.logOffset \in Nat
  /\ nextAction \in 1..MaxAction + 1
  /\ sealedTick \in [Actions -> Ticks]
  /\ excused \subseteq Actions

FaultsTyped ==
  faults \in [tab : Nat, os : Nat, exit : Nat, snapshot : Nat, corrupt : Nat]

(* What the sim has applied was sealed, and what was sealed was submitted. *)
SimInv ==
  /\ WorldOK(sim, sealedTick)
  /\ \A a \in Actions : sealedTick[a] # 0 => a < nextAction

(* Storage that has never held the world. *)
Uncreated ==
  /\ mode = "off"
  /\ log = [s \in Segments |-> << >>]
  /\ snaps = [t \in Ticks |-> NoSnap] /\ snapsDur = snaps
  /\ sealedTick = [a \in Actions |-> 0]
  /\ excused = {}

(* The modes in which the process is at the end of its log.                *)
Ongoing == {"running", "stopping", "paused", "rebinding", "healing", "pruning"}

WorldAt(s, first) ==
  /\ Holds(log, s, first, sealedTick, excused, snaps, snapsDur, safe)
  /\ mode \notin {"off", "failed"} => Whole(log[s])
  /\ mode \in Ongoing =>
       LiveAt(host, sim, log, s, first, sealedTick, excused, snaps, nextAction)

(* A clean end leaves nothing in flight; where the log is rolled, every    *)
(* stored snapshot verifies.                                               *)
Tidy ==
  /\ safe[0] >= 1
  /\ mode \in {"off", "paused"} => snapsDur = snaps
  /\ MaxSegment > 0 => \A t \in Ticks : snaps[t].ok \/ snaps[t] = NoSnap

Created == Tidy /\ \E s \in Segments : \E first \in Ticks : WorldAt(s, first)

StoreInv ==
  /\ manifest = NoManifest => Uncreated
  /\ manifest # NoManifest => Created

WorldSafe == Typed /\ SimInv /\ StoreInv

WorldInv == WorldSafe /\ FaultsTyped

LEMMA WorldFacts ==
  /\ Ticks \subseteq Nat /\ Actions \subseteq Nat /\ Segments \subseteq Nat
  /\ 0 \in Segments /\ 0 \in Ticks
  /\ MaxTick \in Nat /\ MaxSegment \in Nat /\ MaxAction \in Nat
BY ConstantsTyped DEF Ticks, Actions, Segments

LEMMA WorldInit == Init => WorldInv
<1> SUFFICES ASSUME Init PROVE WorldInv
  OBVIOUS
<1>1. /\ << >> \in Seq(Cell) /\ NoSnap \in Snap /\ << >> \in Seq(Actions)
  BY DEF NoSnap, Snap
<1>2. Typed
  <2>1. /\ log \in [Segments -> Seq(Cell)] /\ safe \in [Segments -> Nat] /\ asked = safe
        /\ snaps \in [Ticks -> Snap] /\ snapsDur = snaps
        /\ sealedTick \in [Actions -> Ticks] /\ excused = {} /\ mode \in Modes
    BY <1>1, WorldFacts DEF Init, Modes
  <2>2. \A r \in Segments : safe[r] <= asked[r] /\ asked[r] <= Len(log[r])
    BY DEF Init
  <2>3. sim \in SimT /\ sim.trap = NoTrap
    BY GenesisTyped DEF Init
  <2>4. host.segment \in Segments /\ host.logOffset \in Nat
    BY WorldFacts DEF Init, HostAt
  <2>5. nextAction \in 1..MaxAction + 1
    BY WorldFacts DEF Init
  <2> QED
    BY <2>1, <2>2, <2>3, <2>4, <2>5 DEF Typed, StorageTyped
<1>3. FaultsTyped
  BY DEF Init, FaultsTyped
<1>4. SimInv
  <2>1. WorldOK(GenesisSim, sealedTick)
    BY WorldFacts DEF GenesisSim, WorldOK, World
  <2> QED
    BY <2>1 DEF Init, SimInv
<1>5. manifest = NoManifest /\ Uncreated
  BY DEF Init, Uncreated
<1> QED
  BY <1>2, <1>3, <1>4, <1>5 DEF WorldInv, WorldSafe, StoreInv

(* No fault happens more often than its bound allows. *)
LEMMA FaultsStep ==
  ASSUME FaultsTyped, [Next]_vars
  PROVE  FaultsTyped'
<1>1. faults' = faults
      \/ faults' = [faults EXCEPT !.tab = @ + 1] \/ faults' = [faults EXCEPT !.os = @ + 1]
      \/ faults' = [faults EXCEPT !.exit = @ + 1] \/ faults' = [faults EXCEPT !.snapshot = @ + 1]
      \/ faults' = [faults EXCEPT !.corrupt = @ + 1]
  <2>1. CASE UNCHANGED vars
    BY <2>1 DEF vars
  <2>2. CASE Admit \/ Tick
    BY <2>2 DEF Admit, Tick, TickTraps, TickPlain, TickSnapshots, TickSnapshotTraps
  <2>3. CASE Open \/ Recover
    BY <2>3 DEF Open, OpenCreate, OpenLoad, OpenHealed, PruneOne, OpenDone, Recover,
                RecoverBegin, RecoverReplays, RecoverSkips, RecoverGivesUp, RecoverResumes
  <2>4. CASE Boundary
    BY <2>4 DEF Boundary, Pause, PauseFlushes, Resume, Exit
  <2>5. CASE Environment
    BY <2>5 DEF Environment, SyncDone, SnapshotLands, ManifestLands, TabCrash, OsCrash,
                CorruptSnapshot
  <2> QED
    BY <2>1, <2>2, <2>3, <2>4, <2>5 DEF Next
<1> QED
  BY <1>1 DEF FaultsTyped

(***************************************************************************)
(* Sealing and ticking.                                                    *)
(***************************************************************************)
SealedAt(s, first) ==
  /\ SealedTick \in [Actions -> Ticks] /\ Grows(sealedTick, SealedTick)
  /\ \A a \in Actions : SealedTick[a] # 0 => a < nextAction
  /\ SealedLog \in [Segments -> Seq(Cell)]
  /\ \A r \in Segments : Len(log[r]) <= Len(SealedLog[r])
  /\ Holds(SealedLog, s, first, SealedTick, excused, snaps, snapsDur, safe)
  /\ Whole(SealedLog[s])
  /\ HostShape(SealedHost) /\ SealedHost.segment = s
  /\ SealedHost.logOffset = Len(SealedLog[s])

TickedAt(put, s, first) ==
  /\ TickedSim(put) \in SimT /\ TickedSim(put).trap = NoTrap
  /\ TickedSim(put).tick = NextTick
  /\ LiveAt(SealedHost, TickedSim(put), SealedLog, s, first, SealedTick, excused, snaps,
            nextAction)

LEMMA SealedFields ==
  ASSUME HostShape(host)
  PROVE  /\ HostShape(SealedHost) /\ SealedHost.segment = host.segment
         /\ ~Sealing => SealedHost.logOffset = host.logOffset
         /\ Sealing => SealedHost.logOffset = host.logOffset + FrameLen
BY DEF HostShape, ManifestShape, SealedHost

LEMMA TickedFields ==
  ASSUME sim \in SimT, NEW put \in BOOLEAN
  PROVE  /\ TickedSim(put).tick = NextTick
         /\ TickedSim(put).lastLogged = IF Sealing THEN NextTick ELSE sim.lastLogged
         /\ TickedSim(put).faulted = sim.faulted
         /\ TickedSim(put).world =
              sim.world \o [k \in DOMAIN sim.pending |-> [id |-> sim.pending[k], tick |-> NextTick]]
         /\ TickedSim(put).trap = sim.trap
         /\ TickedSim(put).pending = << >>
         /\ TickedSim(put).dirty \in BOOLEAN
         /\ TickedSim(put).world \in World /\ NextTick \in Ticks => TickedSim(put) \in SimT
<1> DEFINE w == sim.world \o [k \in DOMAIN sim.pending |->
                                [id |-> sim.pending[k], tick |-> NextTick]]
           e == IF Sealing THEN NextTick ELSE sim.lastLogged
           d == sim.dirty \/ put \/ Sealing
<1>1. PICK g \in SimT : g = sim
  OBVIOUS
<1>2. TickedSim(put) = [g EXCEPT !.tick = NextTick, !.lastLogged = e, !.world = w,
                                 !.pending = << >>, !.dirty = d]
  BY <1>1 DEF TickedSim
<1>3. d \in BOOLEAN /\ << >> \in Seq(Actions)
  BY DEF SimT, Sealing
<1>4. NextTick \in Ticks => e \in Ticks
  BY <1>1 DEF SimT
<1> HIDE DEF w, e, d
<1>5. /\ TickedSim(put).tick = NextTick /\ TickedSim(put).lastLogged = e
      /\ TickedSim(put).faulted = sim.faulted /\ TickedSim(put).world = w
      /\ TickedSim(put).trap = sim.trap /\ TickedSim(put).pending = << >>
      /\ TickedSim(put).dirty = d
  BY <1>1, <1>2 DEF SimT
<1>6. w \in World /\ NextTick \in Ticks => TickedSim(put) \in SimT
  BY <1>1, <1>2, <1>3, <1>4 DEF SimT
<1> QED
  BY <1>3, <1>5, <1>6 DEF w, e

LEMMA Seals ==
  ASSUME Sound, Typed, SimInv, HostShape(host), TickStarts,
         NEW s \in Segments, NEW first \in Ticks, WorldAt(s, first)
  PROVE  /\ SealedAt(s, first)
         /\ ~Traps => \A put \in BOOLEAN : TickedAt(put, s, first)
<1>0. /\ Holds(log, s, first, sealedTick, excused, snaps, snapsDur, safe)
      /\ LiveAt(host, sim, log, s, first, sealedTick, excused, snaps, nextAction)
      /\ sim.tick < MaxTick
  BY DEF WorldAt, TickStarts, Ongoing
<1>1. /\ host.segment = s /\ host.logOffset = Len(log[s])
      /\ \A t \in Ticks : snaps[t].ok => t <= sim.tick
      /\ Unsealed(sim.pending, sealedTick)
      /\ \A i \in DOMAIN sim.pending : sim.pending[i] < nextAction
  BY <1>0 DEF LiveAt
<1>2. PICK N \in Nat : Len(log[s]) = 2 * N + 1
                       /\ BaseOK(sim, log[s], N, sealedTick, excused, first)
  BY <1>0 DEF LiveAt, GoesOn
<1>3. /\ sim \in SimT /\ sim.trap = NoTrap /\ sealedTick \in [Actions -> Ticks]
      /\ log \in [Segments -> Seq(Cell)] /\ snapsDur \in [Ticks -> Snap]
      /\ safe \in [Segments -> Nat] /\ nextAction \in 1..MaxAction + 1
  BY DEF Typed, StorageTyped
<1>4. /\ sim.tick \in Ticks /\ sim.tick \in Nat /\ NextTick \in Ticks /\ NextTick \in Nat
      /\ NextTick # 0 /\ sim.tick < NextTick /\ sim.lastLogged \in Ticks
      /\ sim.pending \in Seq(Actions)
  BY <1>0, <1>3, WorldFacts DEF SimT, NextTick, Ticks
<1>5. SealedTick = SealsAt(sim.pending, NextTick, sealedTick)
  BY DEF SealedTick, SealsAt
<1>6. /\ SealedTick \in [Actions -> Ticks] /\ Grows(sealedTick, SealedTick)
      /\ \A a \in Actions : SealedTick[a] # sealedTick[a] => a \in ToSet(sim.pending)
  <2>1. PICK ids : ids = sim.pending
    OBVIOUS
  <2>2. PICK t \in Ticks : t = NextTick
    BY <1>4
  <2>3. PICK st \in [Actions -> Ticks] : st = sealedTick
    BY <1>3
  <2>4. Unsealed(ids, st)
    BY <1>1, <2>1, <2>3
  <2>5. /\ SealsAt(ids, t, st) \in [Actions -> Ticks]
        /\ Grows(st, SealsAt(ids, t, st))
        /\ \A a \in Actions : SealsAt(ids, t, st)[a] # st[a] => a \in ToSet(ids)
    BY <2>4, SealsTyped
  <2> QED
    BY <1>5, <2>1, <2>2, <2>3, <2>5
<1>7. \A a \in Actions : SealedTick[a] # 0 => a < nextAction
  <2>1. \A a \in ToSet(sim.pending) : a < nextAction
    BY <1>1 DEF ToSet
  <2> QED
    BY <1>6, <2>1 DEF SimInv
<1>8. /\ HostShape(SealedHost) /\ SealedHost.segment = s
  BY <1>1, SealedFields
<1>9. Parsed(log[s]) /\ Chained(log[s], sealedTick, first)
  BY <1>0 DEF Holds, Intact
<1>10. \A r \in Segments : log[r] \in Seq(Cell) /\ Len(log[r]) \in Nat
  <2> TAKE r \in Segments
  <2>1. log[r] \in Seq(Cell)
    BY <1>3
  <2> QED
    BY <2>1, LenProperties
<1>11. ASSUME NEW put \in BOOLEAN, GoesOn(TickedSim(put), SealedLog[s], SealedTick, excused, first),
              SealedHost.logOffset = Len(SealedLog[s])
       PROVE  TickedAt(put, s, first)
  <2>1. TickedSim(put).world \in World
    BY <1>11 DEF GoesOn, BaseOK, WorldOK
  <2>2. /\ TickedSim(put) \in SimT /\ TickedSim(put).trap = NoTrap
        /\ TickedSim(put).tick = NextTick /\ TickedSim(put).pending = << >>
    BY <1>3, <1>4, <2>1, TickedFields
  <2>3. \A t \in Ticks : snaps[t].ok => t <= TickedSim(put).tick
    <3> SUFFICES ASSUME NEW t \in Ticks, snaps[t].ok PROVE t <= NextTick
      BY <2>2
    <3>1. t <= sim.tick /\ t \in Nat
      BY <1>1, WorldFacts
    <3> QED
      BY <1>4, <3>1
  <2>4. Unsealed(TickedSim(put).pending, SealedTick)
        /\ \A i \in DOMAIN TickedSim(put).pending : TickedSim(put).pending[i] < nextAction
    BY <2>2 DEF Unsealed, Rising
  <2> QED
    BY <1>8, <1>11, <2>2, <2>3, <2>4 DEF TickedAt, LiveAt
<1>12. CASE ~Sealing
  <2>1. SealedLog = log /\ sim.pending = << >>
    BY <1>12 DEF SealedLog, Sealing
  <2>2. SealedTick = sealedTick
    <3>1. ToSet(sim.pending) = {}
      BY <2>1 DEF ToSet
    <3> QED
      BY <1>3, <1>6, <3>1
  <2>3. SealedHost.logOffset = Len(SealedLog[s])
    BY <1>1, <1>12, <2>1, SealedFields
  <2>4. Whole(SealedLog[s])
    BY <1>2, <2>1 DEF Whole
  <2>5. SealedAt(s, first)
    <3>1. \A r \in Segments : Len(log[r]) <= Len(SealedLog[r])
      BY <1>10, <2>1
    <3> QED
      BY <1>0, <1>3, <1>6, <1>7, <1>8, <2>1, <2>2, <2>3, <2>4, <3>1 DEF SealedAt
  <2>6. ASSUME NEW put \in BOOLEAN PROVE TickedAt(put, s, first)
    <3>1. /\ TickedSim(put).tick = NextTick /\ TickedSim(put).lastLogged = sim.lastLogged
          /\ TickedSim(put).faulted = sim.faulted
      BY <1>3, <1>12, TickedFields
    <3>2. TickedSim(put).world = sim.world
      <4>1. sim.world \in World
        BY <1>3 DEF SimT
      <4>2. [k \in DOMAIN sim.pending |-> [id |-> sim.pending[k], tick |-> NextTick]] = << >>
        BY <2>1
      <4>3. TickedSim(put).world = sim.world \o << >>
        BY <1>3, <4>2, TickedFields
      <4> QED
        BY <4>1, <4>3, ConcatEmptySeq DEF World
    <3>3. sim.tick <= NextTick
      BY <1>4
    <3>4. BaseOK(TickedSim(put), log[s], N, sealedTick, excused, first)
      BY <1>2, <1>3, <1>4, <1>9, <3>1, <3>2, <3>3, IdleTick
    <3>5. GoesOn(TickedSim(put), SealedLog[s], SealedTick, excused, first)
      BY <1>2, <2>1, <2>2, <3>4 DEF GoesOn
    <3> QED
      BY <1>11, <2>3, <3>5
  <2> QED
    BY <2>5, <2>6
<1>13. CASE Sealing
  <2> DEFINE new == log[s] \o Frame(NextTick - sim.lastLogged, sim.pending)
  <2>1. SealedLog = [log EXCEPT ![s] = new] /\ sim.pending # << >>
    BY <1>1, <1>13 DEF SealedLog, Sealing
  <2>2. Writes(log[s], N, sealedTick, first, NextTick, sim.lastLogged, sim.pending, new, SealedTick)
    <3>1. OpenAt(log[s], N, sealedTick, first, NextTick, sim.lastLogged)
      BY <1>2, <1>3, <1>4, <1>9, OpenAfter
    <3> QED
      BY <1>1, <1>4, <1>5, <2>1, <3>1 DEF Writes
  <2> HIDE DEF new
  <2>3. Written(log[s], N, sealedTick, first, NextTick, sim.pending, new, SealedTick, excused)
    BY <1>3, <2>2, SealFrame
  <2>4. /\ Parsed(new) /\ Len(new) = 2 * (N + 1) + 1 /\ Chained(new, SealedTick, first)
        /\ Carries(log[s], new, N, sealedTick, SealedTick, excused, excused, first, NextTick - 1)
    BY <2>3 DEF Written
  <2>5. NextTick - 1 = sim.tick
    BY <1>4 DEF NextTick
  <2>6. Continues(log[s], new, sealedTick, SealedTick, excused, excused, first, sim.tick)
    BY <1>2, <2>4, <2>5, CarriesWhole
  <2>7. Whole(new)
    <3>1. N + 1 \in Nat
      OBVIOUS
    <3> QED
      BY <2>4, <3>1 DEF Whole
  <2>8. Holds(SealedLog, s, first, SealedTick, excused, snaps, snapsDur, safe)
    <3>1. safe[s] \in Nat /\ safe[s] <= safe[s] /\ DOMAIN log = Segments
      BY <1>3
    <3> QED
      BY <1>0, <1>1, <1>3, <1>4, <2>1, <2>4, <2>6, <2>7, <3>1, HoldsContinues
  <2>9. SealedLog[s] = new /\ \A r \in Segments : r # s => SealedLog[r] = log[r]
    BY <1>3, <2>1
  <2>10. SealedHost.logOffset = Len(SealedLog[s])
    BY <1>1, <1>2, <1>13, <2>4, <2>9, SealedFields DEF FrameLen
  <2>11. SealedAt(s, first)
    <3>1. \A r \in Segments : Len(log[r]) <= Len(SealedLog[r])
      <4>1. Len(log[s]) <= Len(SealedLog[s])
        BY <1>2, <2>4, <2>9
      <4> QED
        BY <1>10, <2>9, <4>1
    <3>2. SealedLog \in [Segments -> Seq(Cell)]
      <4>1. new \in Seq(Cell)
        BY <2>4 DEF Parsed
      <4> QED
        BY <1>3, <2>1, <4>1
    <3> QED
      BY <1>6, <1>7, <1>8, <2>7, <2>8, <2>9, <2>10, <3>1, <3>2 DEF SealedAt
  <2>12. ASSUME ~Traps, NEW put \in BOOLEAN PROVE TickedAt(put, s, first)
    <3> DEFINE y == AppliedTo(sim, sim.pending, sim.pending, NextTick, {})
    <3>1. \A i \in DOMAIN sim.pending : sim.pending[i] \notin Poison
      BY <2>12 DEF Traps, ToSet
    <3>2. NextTick = sim.tick + 1
      BY DEF NextTick
    <3>3. BaseOK(y, new, N + 1, SealedTick, excused, first)
      BY <1>2, <1>3, <2>2, <3>1, <3>2, SealedTicks
    <3>4. SameView(y, TickedSim(put))
      <4>1. /\ y.tick = NextTick /\ y.lastLogged = NextTick
            /\ y.world = sim.world \o [k \in DOMAIN sim.pending |->
                                         [id |-> sim.pending[k], tick |-> NextTick]]
            /\ y.faulted = sim.faulted
        <5>1. PICK g \in SimT : g = sim
          BY <1>3
        <5>2. {sim.pending[i] : i \in {}} = {}
          OBVIOUS
        <5> QED
          BY <5>1, <5>2 DEF AppliedTo, SimT
      <4> QED
        BY <1>3, <1>13, <4>1, TickedFields DEF SameView
    <3> HIDE DEF y
    <3>5. BaseOK(TickedSim(put), new, N + 1, SealedTick, excused, first)
      BY <3>3, <3>4, ViewKeeps
    <3>6. GoesOn(TickedSim(put), SealedLog[s], SealedTick, excused, first)
      <4>1. N + 1 \in Nat
        OBVIOUS
      <4> QED
        BY <2>4, <2>9, <3>5, <4>1 DEF GoesOn
    <3> QED
      BY <1>11, <2>10, <3>6
  <2> QED
    BY <2>11, <2>12
<1> QED
  BY <1>12, <1>13

(***************************************************************************)
(* The steps.  Each is taken from a state of the invariant, and leaves a   *)
(* world that was created created.                                         *)
(***************************************************************************)
Moves == Sound /\ WorldInv /\ Opened /\ StaysOpened

LEMMA MovesFrom ==
  ASSUME Moves
  PROVE  /\ Sound /\ Typed /\ SimInv /\ StoreInv /\ FaultsTyped
         /\ HostShape(host) /\ HostShape(host')
         /\ manifest # NoManifest => Created /\ manifest' # NoManifest
         /\ manifest = NoManifest => Uncreated
         /\ mode # "off" => manifest # NoManifest
BY DEF Moves, WorldInv, WorldSafe, StoreInv, Opened, StaysOpened

LEMMA MovesTo ==
  ASSUME Moves, manifest # NoManifest, Typed', SimInv', Created'
  PROVE  WorldSafe'
BY DEF Moves, StaysOpened, WorldSafe, StoreInv

(* A step that leaves the log, the sim and what was sealed alone, and keeps*)
(* the snapshots in order.                                                 *)
Quiet ==
  /\ UNCHANGED << log, sim, nextAction, sealedTick, excused >>
  /\ host'.segment = host.segment /\ host'.logOffset = host.logOffset
  /\ mode' \in Modes
  /\ mode' \notin {"off", "failed"} => mode \notin {"off", "failed"}
  /\ mode' \in Ongoing => mode \in Ongoing

KeepsSnaps ==
  /\ \A s \in Segments, first \in Ticks :
       Holds(log, s, first, sealedTick, excused, snaps, snapsDur, safe)
       => Holds(log, s, first, sealedTick, excused, snaps', snapsDur', safe')
  /\ \A t \in Ticks : snaps'[t].ok => snaps[t].ok

LEMMA QuietStep ==
  ASSUME Moves, manifest # NoManifest, Quiet, KeepsSnaps, StorageTyped', Tidy'
  PROVE  WorldSafe'
<1>0. Typed /\ SimInv /\ Created
  BY MovesFrom
<1>1. Typed'
  BY <1>0 DEF Typed, Quiet
<1>2. SimInv'
  BY <1>0 DEF SimInv, Quiet
<1>3. PICK s \in Segments, first \in Ticks : WorldAt(s, first)
  BY <1>0 DEF Created
<1>4. /\ Holds(log, s, first, sealedTick, excused, snaps, snapsDur, safe)
      /\ mode \notin {"off", "failed"} => Whole(log[s])
      /\ mode \in Ongoing =>
           LiveAt(host, sim, log, s, first, sealedTick, excused, snaps, nextAction)
  BY <1>3 DEF WorldAt
<1>5. Holds(log, s, first, sealedTick, excused, snaps', snapsDur', safe')
  BY <1>4 DEF KeepsSnaps
<1>6. ASSUME mode' \in Ongoing
      PROVE  LiveAt(host', sim, log, s, first, sealedTick, excused, snaps', nextAction)
  <2>1. LiveAt(host, sim, log, s, first, sealedTick, excused, snaps, nextAction)
    BY <1>4, <1>6 DEF Quiet
  <2> QED
    BY <2>1 DEF LiveAt, Quiet, KeepsSnaps
<1>7. mode' \notin {"off", "failed"} => Whole(log[s])
  BY <1>4 DEF Quiet
<1>8. WorldAt(s, first)'
  BY <1>5, <1>6, <1>7 DEF WorldAt, Quiet
<1>9. Created'
  BY <1>8 DEF Created
<1> QED
  BY <1>1, <1>2, <1>9, MovesTo

(* The snapshots stay as they are, and no more of them is durable.         *)
LEMMA SnapsStay ==
  ASSUME Moves, snaps' = snaps, snapsDur' = snapsDur,
         \A r \in Segments : safe[r] <= safe'[r],
         safe' \in [Segments -> Nat]
  PROVE  KeepsSnaps
<1> SUFFICES ASSUME NEW s \in Segments, NEW first \in Ticks,
                    Holds(log, s, first, sealedTick, excused, snaps, snapsDur, safe)
             PROVE  Holds(log, s, first, sealedTick, excused, snaps, snapsDur, safe')
  BY DEF KeepsSnaps
<1>1. Durable(log, s, first, sealedTick, excused, snaps, snapsDur, safe)
  BY DEF Holds
<1>2. ASSUME NEW t \in Ticks, snapsDur[t].ok, MaxOsCrash > 0
      PROVE  snapsDur[t].offset <= safe'[s]
  <2>1. snapsDur[t] \in Snap /\ safe[s] \in Nat
    BY MovesFrom DEF Typed, StorageTyped
  <2>2. snapsDur[t].offset \in Nat
    BY <1>2, <2>1 DEF Snap
  <2>3. snapsDur[t].offset <= safe[s] /\ safe[s] <= safe'[s] /\ safe'[s] \in Nat
    BY <1>1, <1>2 DEF Durable
  <2> QED
    BY <2>1, <2>2, <2>3
<1>3. Durable(log, s, first, sealedTick, excused, snaps, snapsDur, safe')
  BY <1>1, <1>2 DEF Durable
<1> QED
  BY <1>3 DEF Holds

(* A step that changes no more than the mode and the manifest.             *)
LEMMA StillStep ==
  ASSUME Moves, manifest # NoManifest, Quiet,
         UNCHANGED << safe, asked, snaps, snapsDur >>,
         mode' \in {"off", "paused"} => mode \in {"off", "paused"}
  PROVE  WorldSafe'
<1>1. Typed /\ Created
  BY MovesFrom
<1>2. StorageTyped'
  BY <1>1 DEF Typed, StorageTyped, Quiet
<1>3. Tidy'
  BY <1>1 DEF Created, Tidy, Quiet
<1>4. KeepsSnaps
  <2>1. safe' \in [Segments -> Nat] /\ \A r \in Segments : safe[r] <= safe'[r]
    BY <1>1 DEF Typed, StorageTyped
  <2> QED
    BY <2>1, SnapsStay
<1> QED
  BY <1>2, <1>3, <1>4, QuietStep

LEMMA AdmitStep ==
  ASSUME Moves, Admit
  PROVE  WorldSafe'
<1>0. /\ mode = "running" /\ nextAction <= MaxAction /\ nextAction' = nextAction + 1
      /\ sim' = [sim EXCEPT !.pending = Append(@, nextAction)]
      /\ UNCHANGED << storage, mode, host, history >>
  BY DEF Admit
<1>1. Typed /\ SimInv /\ Created /\ manifest # NoManifest
  BY <1>0, MovesFrom
<1>2. nextAction \in Actions /\ nextAction \in Nat /\ nextAction' \in 1..MaxAction + 1
  BY <1>0, <1>1, WorldFacts DEF Typed, Actions
<1>3. /\ sim' \in SimT /\ SameView(sim, sim') /\ sim'.trap = NoTrap
      /\ sim'.pending = Append(sim.pending, nextAction) /\ sim.pending \in Seq(Actions)
      /\ sim'.pending \in Seq(Actions)
  <2>1. PICK g \in SimT : g = sim
    BY <1>1 DEF Typed
  <2>2. sim' = [g EXCEPT !.pending = Append(g.pending, nextAction)]
    BY <1>0, <2>1
  <2>3. g.pending \in Seq(Actions) /\ g.trap = NoTrap
    BY <1>1, <2>1 DEF SimT, Typed
  <2>4. Append(g.pending, nextAction) \in Seq(Actions)
    BY <1>2, <2>3
  <2> QED
    BY <2>1, <2>2, <2>3, <2>4 DEF SimT, SameView
<1>4. Typed'
  BY <1>0, <1>1, <1>2, <1>3 DEF Typed, StorageTyped, storage, history
<1>5. SimInv'
  <2>1. WorldOK(sim', sealedTick)
    BY <1>1, <1>3 DEF SimInv, WorldOK, SameView
  <2>2. \A a \in Actions : sealedTick[a] # 0 => a < nextAction'
    <3> SUFFICES ASSUME NEW a \in Actions, sealedTick[a] # 0 PROVE a < nextAction + 1
      BY <1>0
    <3>1. a < nextAction /\ a \in Nat
      BY <1>1, WorldFacts DEF SimInv
    <3> QED
      BY <1>2, <3>1
  <2> QED
    BY <1>0, <2>1, <2>2 DEF SimInv, history
<1>6. PICK s \in Segments, first \in Ticks : WorldAt(s, first)
  BY <1>1 DEF Created
<1>7. LiveAt(host, sim, log, s, first, sealedTick, excused, snaps, nextAction)
  BY <1>0, <1>6 DEF WorldAt, Ongoing
<1>8. LiveAt(host, sim', log, s, first, sealedTick, excused, snaps, nextAction')
  <2>1. GoesOn(sim', log[s], sealedTick, excused, first)
    BY <1>3, <1>7, ViewKeeps DEF LiveAt, GoesOn
  <2>2. \A t \in Ticks : snaps[t].ok => t <= sim'.tick
    BY <1>3, <1>7 DEF LiveAt, SameView
  <2> DEFINE p == sim.pending
             q == sim'.pending
  <2>3. /\ p \in Seq(Actions) /\ Len(p) \in Nat /\ DOMAIN p = 1..Len(p)
        /\ DOMAIN q = 1..Len(p) + 1
        /\ \A i \in 1..Len(p) : q[i] = p[i]
        /\ q[Len(p) + 1] = nextAction
    BY <1>3
  <2>4. /\ \A i \in DOMAIN p : p[i] < nextAction /\ p[i] \in Nat
        /\ Rising(p) /\ \A i \in DOMAIN p : \A a \in Actions : sealedTick[a] # 0 => a < p[i]
    <3>1. \A i \in DOMAIN p : p[i] \in Nat
      BY <2>3, ElementOfSeq, WorldFacts
    <3> QED
      BY <1>7, <3>1 DEF LiveAt, Unsealed
  <2> HIDE DEF p, q
  <2>5. \A i \in DOMAIN q : i \in DOMAIN p \/ i = Len(p) + 1
    BY <2>3
  <2>6. Rising(q)
    <3> SUFFICES ASSUME NEW i \in DOMAIN q, NEW j \in DOMAIN q, i < j PROVE q[i] < q[j]
      BY DEF Rising
    <3>1. i \in DOMAIN p
      BY <2>3
    <3>2. CASE j \in DOMAIN p
      BY <2>3, <2>4, <3>1, <3>2 DEF Rising
    <3>3. CASE j = Len(p) + 1
      BY <2>3, <2>4, <3>1, <3>3
    <3> QED
      BY <2>5, <3>2, <3>3
  <2>7. \A i \in DOMAIN q : \A a \in Actions : sealedTick[a] # 0 => a < q[i]
    BY <1>1, <2>3, <2>4, <2>5 DEF SimInv
  <2>8. \A i \in DOMAIN q : q[i] < nextAction'
    <3> SUFFICES ASSUME NEW i \in DOMAIN q PROVE q[i] < nextAction + 1
      BY <1>0
    <3> QED
      BY <1>2, <2>3, <2>4, <2>5
  <2>9. Unsealed(q, sealedTick)
    BY <1>3, <2>6, <2>7 DEF Unsealed, q
  <2> QED
    BY <1>7, <2>1, <2>2, <2>8, <2>9 DEF LiveAt, q
<1>9. WorldAt(s, first)'
  BY <1>0, <1>6, <1>8 DEF WorldAt, storage, history
<1>10. Tidy'
  BY <1>0, <1>1 DEF Created, Tidy, storage
<1> QED
  BY <1>1, <1>4, <1>5, <1>9, <1>10, MovesTo DEF Created

(***************************************************************************)
(* A tick.                                                                 *)
(***************************************************************************)
LEMMA CountedFields ==
  ASSUME NEW h, HostShape(h)
  PROVE  /\ Counted(h).segment = h.segment /\ Counted(h).logOffset = h.logOffset
         /\ [h EXCEPT !.sinceSnapshot = 0].segment = h.segment
         /\ [h EXCEPT !.sinceSnapshot = 0].logOffset = h.logOffset
<1> DEFINE c == IF SnapshotDue THEN 0 ELSE h.sinceSnapshot + 1
           d == IF SyncDue(h) THEN 0 ELSE h.sinceSync + 1
           e == IF SyncDue(h) THEN FALSE ELSE h.appended
<1>1. Counted(h) = [h EXCEPT !.sinceSnapshot = c, !.sinceSync = d, !.appended = e]
  BY DEF Counted
<1> HIDE DEF c, d, e
<1> QED
  BY <1>1 DEF HostShape

LEMMA SyncAsked ==
  ASSUME StorageTyped, log' \in [Segments -> Seq(Cell)],
         \A r \in Segments : Len(log[r]) <= Len(log'[r]),
         safe' = safe, NEW h, h.segment \in Segments,
         asked' = asked \/ AskSync(h, log')
  PROVE  /\ asked' \in [Segments -> Nat]
         /\ \A r \in Segments : safe'[r] <= asked'[r] /\ asked'[r] <= Len(log'[r])
<1>1. \A r \in Segments : /\ safe[r] \in Nat /\ asked[r] \in Nat
                          /\ Len(log[r]) \in Nat /\ Len(log'[r]) \in Nat
                          /\ safe[r] <= asked[r] /\ asked[r] <= Len(log[r])
                          /\ Len(log[r]) <= Len(log'[r])
  <2> TAKE r \in Segments
  <2>1. log[r] \in Seq(Cell) /\ log'[r] \in Seq(Cell)
    BY DEF StorageTyped
  <2>2. Len(log[r]) \in Nat /\ Len(log'[r]) \in Nat
    BY <2>1, LenProperties
  <2> QED
    BY <2>2 DEF StorageTyped
<1>2. asked' = asked \/ asked' = [asked EXCEPT ![h.segment] = Len(log'[h.segment])]
  BY DEF AskSync
<1>3. asked' \in [Segments -> Nat]
  BY <1>1, <1>2 DEF StorageTyped
<1>4. ASSUME NEW r \in Segments
      PROVE  asked'[r] = asked[r] \/ asked'[r] = Len(log'[r])
  BY <1>2 DEF StorageTyped
<1>5. \A r \in Segments : safe[r] <= asked'[r] /\ asked'[r] <= Len(log'[r])
  <2> TAKE r \in Segments
  <2> QED
    BY <1>1, <1>4
<1> QED
  BY <1>3, <1>5

(* What a tick leaves besides the sim and the snapshots. *)
LEMMA TickLeaves ==
  ASSUME Moves, Tick
  PROVE  /\ TickStarts /\ Typed /\ SimInv /\ HostShape(host) /\ Created /\ manifest # NoManifest
         /\ sealedTick' = SealedTick
         /\ UNCHANGED << safe, snapsDur, nextAction, excused >>
         /\ mode' \in {"running", "trapped"}
<1>1. /\ TickStarts /\ sealedTick' = SealedTick
      /\ UNCHANGED << safe, snapsDur, nextAction, excused >>
      /\ mode' \in {"running", "trapped"}
  BY DEF Tick, TickTraps, TickPlain, TickSnapshots, TickSnapshotTraps, TickStarts
<1> QED
  BY <1>1, MovesFrom DEF TickStarts

LEMMA TickTo ==
  ASSUME Moves, Tick, NEW s \in Segments, NEW first \in Ticks, SealedAt(s, first),
         log' \in [Segments -> Seq(Cell)],
         \A r \in Segments : Len(SealedLog[r]) <= Len(log'[r]),
         NEW h, h.segment \in Segments, asked' = asked \/ AskSync(h, log'),
         snaps' \in [Ticks -> Snap], \A t \in Ticks : snaps'[t].ok \/ snaps'[t] = snaps[t],
         sim' \in SimT, sim'.trap = NoTrap, WorldOK(sim', SealedTick),
         host'.segment \in Segments, host'.logOffset \in Nat,
         NEW c \in Segments, NEW f \in Ticks,
         Holds(log', c, f, SealedTick, excused, snaps', snapsDur, safe), Whole(log'[c]),
         mode' = "running" =>
           LiveAt(host', sim', log', c, f, SealedTick, excused, snaps', nextAction)
  PROVE  WorldSafe'
<1>0. /\ Typed /\ Created /\ manifest # NoManifest
      /\ sealedTick' = SealedTick
      /\ UNCHANGED << safe, snapsDur, nextAction, excused >>
      /\ mode' \in {"running", "trapped"}
  BY TickLeaves
<1>1. /\ SealedTick \in [Actions -> Ticks]
      /\ \A a \in Actions : SealedTick[a] # 0 => a < nextAction
  BY DEF SealedAt
<1>2. \A r \in Segments : Len(log[r]) <= Len(log'[r])
  <2> TAKE r \in Segments
  <2>1. log[r] \in Seq(Cell) /\ SealedLog[r] \in Seq(Cell) /\ log'[r] \in Seq(Cell)
    BY <1>0 DEF SealedAt, Typed, StorageTyped
  <2>2. Len(log[r]) \in Nat /\ Len(SealedLog[r]) \in Nat /\ Len(log'[r]) \in Nat
    BY <2>1, LenProperties
  <2>3. Len(log[r]) <= Len(SealedLog[r]) /\ Len(SealedLog[r]) <= Len(log'[r])
    BY DEF SealedAt
  <2> QED
    BY <2>2, <2>3
<1>3. StorageTyped'
  <2>1. /\ asked' \in [Segments -> Nat]
        /\ \A r \in Segments : safe'[r] <= asked'[r] /\ asked'[r] <= Len(log'[r])
    BY <1>0, <1>2, SyncAsked DEF Typed
  <2> QED
    BY <1>0, <2>1 DEF Typed, StorageTyped
<1>4. Typed'
  BY <1>0, <1>1, <1>3 DEF Typed, Modes
<1>5. SimInv'
  BY <1>0, <1>1 DEF SimInv
<1>6. Tidy'
  <2>1. MaxSegment > 0 => \A t \in Ticks : snaps'[t].ok \/ snaps'[t] = NoSnap
    BY <1>0 DEF Created, Tidy
  <2> QED
    BY <1>0, <2>1 DEF Created, Tidy
<1>7. WorldAt(c, f)'
  BY <1>0 DEF WorldAt, Ongoing
<1> QED
  BY <1>0, <1>4, <1>5, <1>6, <1>7, MovesTo DEF Created

LEMMA TickStep ==
  ASSUME Moves, Tick
  PROVE  WorldSafe'
<1>0. /\ TickStarts /\ Typed /\ SimInv /\ HostShape(host) /\ Created /\ manifest # NoManifest
      /\ Sound /\ FaultsTyped
  BY TickLeaves, MovesFrom
<1>1. PICK s \in Segments, first \in Ticks : WorldAt(s, first)
  BY <1>0 DEF Created
<1>2. /\ SealedAt(s, first)
      /\ ~Traps => \A put \in BOOLEAN : TickedAt(put, s, first)
  BY <1>0, <1>1, Seals
<1>3. /\ SealedLog \in [Segments -> Seq(Cell)] /\ Whole(SealedLog[s])
      /\ Holds(SealedLog, s, first, SealedTick, excused, snaps, snapsDur, safe)
      /\ HostShape(SealedHost) /\ SealedHost.segment = s
      /\ SealedHost.logOffset = Len(SealedLog[s])
      /\ SealedTick \in [Actions -> Ticks]
  BY <1>2 DEF SealedAt
<1>4. \A r \in Segments : Len(SealedLog[r]) <= Len(SealedLog[r])
  <2> TAKE r \in Segments
  <2>1. SealedLog[r] \in Seq(Cell)
    BY <1>3
  <2> QED
    BY <2>1, LenProperties
<1>5. SealedHost.segment \in Segments /\ SealedHost.logOffset \in Nat
  BY <1>3, LenProperties
<1>6. snaps \in [Ticks -> Snap] /\ \A t \in Ticks : snaps[t].ok \/ snaps[t] = snaps[t]
  BY <1>0 DEF Typed, StorageTyped
<1>7. sim \in SimT /\ sim.trap = NoTrap /\ WorldOK(sim, SealedTick)
  <2>1. Grows(sealedTick, SealedTick)
    BY <1>2 DEF SealedAt
  <2> QED
    BY <1>0, <1>3, <2>1, KeepsWorld DEF Typed, SimInv
<1>8. ASSUME mode' = "trapped", log' = SealedLog, asked' = asked, snaps' = snaps, sim' = sim,
             host'.segment = SealedHost.segment, host'.logOffset = SealedHost.logOffset
      PROVE  WorldSafe'
  <2>1. SealedHost.segment \in Segments /\ mode' # "running"
    BY <1>5, <1>8
  <2> QED
    BY <1>2, <1>3, <1>4, <1>5, <1>6, <1>7, <1>8, <2>1, TickTo
<1>9. CASE TickTraps
  BY <1>8, <1>9 DEF TickTraps
<1>10. CASE TickPlain
  <2>1. PICK put \in BOOLEAN : sim' = TickedSim(put)
    BY <1>10 DEF TickPlain
  <2>2. /\ ~Traps /\ log' = SealedLog /\ host' = Counted(SealedHost)
        /\ AskSync(SealedHost, SealedLog) /\ snaps' = snaps
    BY <1>10 DEF TickPlain
  <2>3. /\ sim' \in SimT /\ sim'.trap = NoTrap
        /\ LiveAt(SealedHost, sim', SealedLog, s, first, SealedTick, excused, snaps, nextAction)
    BY <1>2, <2>1, <2>2 DEF TickedAt
  <2>4. host'.segment = SealedHost.segment /\ host'.logOffset = SealedHost.logOffset
    BY <1>3, <2>2, CountedFields
  <2>5. LiveAt(host', sim', log', s, first, SealedTick, excused, snaps', nextAction)
    BY <2>2, <2>3, <2>4 DEF LiveAt
  <2>6. WorldOK(sim', SealedTick)
    BY <2>3 DEF LiveAt, GoesOn, BaseOK
  <2>7. AskSync(SealedHost, log')
    BY <2>2
  <2> QED
    BY <1>2, <1>3, <1>4, <1>5, <1>6, <2>2, <2>3, <2>4, <2>5, <2>6, <2>7, TickTo
<1>11. CASE TickSnapshots
  <2>1. PICK put \in BOOLEAN : SnapshotNow(TickedSim(put), SealedHost, SealedLog)
    BY <1>11 DEF TickSnapshots
  <2>2. /\ ~Traps /\ host' = Counted(RolledHost(SealedHost, NextTick))
        /\ AskSync(RolledHost(SealedHost, NextTick), RolledLog(SealedHost, SealedLog))
    BY <1>11 DEF TickSnapshots
  <2> DEFINE x == TickedSim(put)
             rolled == RolledHost(SealedHost, NextTick)
  <2>3. /\ x \in SimT /\ x.trap = NoTrap /\ x.tick = NextTick
        /\ LiveAt(SealedHost, x, SealedLog, s, first, SealedTick, excused, snaps, nextAction)
    BY <1>2, <2>2 DEF TickedAt
  <2> HIDE DEF x
  <2>4. SnapshotNow(x, SealedHost, SealedLog)
    BY <2>1 DEF x
  <2>5. PICK c \in Segments, f \in Ticks :
          Taken(SealedLog, SealedHost, x, c, f, SealedTick, nextAction)
    BY <1>0, <1>3, <1>6, <2>3, <2>4, SnapshotTaken
  <2>6. /\ Holds(log', c, f, SealedTick, excused, snaps', snapsDur, safe)
        /\ LiveAt(rolled, sim', log', c, f, SealedTick, excused, snaps', nextAction)
        /\ sim' \in SimT /\ sim'.trap = NoTrap
        /\ snaps' \in [Ticks -> Snap] /\ log' \in [Segments -> Seq(Cell)]
        /\ \A t \in Ticks : snaps'[t].ok \/ snaps'[t] = snaps[t]
        /\ \A r \in Segments : Len(SealedLog[r]) <= Len(log'[r])
    BY <2>3, <2>5 DEF Taken
  <2>7. HostShape(rolled)
    BY <1>3, EpochOfRolled
  <2> HIDE DEF rolled
  <2>8. host'.segment = rolled.segment /\ host'.logOffset = rolled.logOffset
    BY <2>2, <2>7, CountedFields DEF rolled
  <2>9. LiveAt(host', sim', log', c, f, SealedTick, excused, snaps', nextAction)
    BY <2>6, <2>8 DEF LiveAt
  <2>10. WorldOK(sim', SealedTick) /\ Whole(log'[c])
    BY <2>6 DEF LiveAt, GoesOn, BaseOK, Whole
  <2>11. rolled.segment \in Segments /\ AskSync(rolled, log')
    BY <2>2, <2>4, <2>6 DEF LiveAt, SnapshotNow, rolled
  <2>12. host'.segment \in Segments /\ host'.logOffset \in Nat
    <3>1. host'.segment = c /\ host'.logOffset = Len(log'[c]) /\ log'[c] \in Seq(Cell)
      BY <2>6, <2>9 DEF LiveAt
    <3> QED
      BY <3>1, LenProperties
  <2> QED
    BY <1>2, <2>6, <2>9, <2>10, <2>11, <2>12, TickTo
<1>12. CASE TickSnapshotTraps
  <2>1. /\ log' = RolledLog(SealedHost, SealedLog) /\ mode' = "trapped"
        /\ host' = [RolledHost(SealedHost, NextTick) EXCEPT !.sinceSnapshot = 0]
        /\ faults.snapshot < MaxSnapshotTrap
        /\ UNCHANGED << asked, snaps, sim >>
    BY <1>12 DEF TickSnapshotTraps
  <2>2. faults.snapshot \in Nat /\ MaxSnapshotTrap \in Nat
    BY <1>0, ConstantsTyped DEF FaultsTyped
  <2>3. MaxSegment = 0 /\ s = 0
    BY <1>0, <2>1, <2>2, OneSegment
  <2>4. ~RollsNow(SealedHost)
    BY <1>3, <2>3 DEF RollsNow
  <2>5. log' = SealedLog /\ host' = [SealedHost EXCEPT !.sinceSnapshot = 0]
    BY <1>3, <2>1, <2>4, RolledFields DEF RolledLog
  <2> QED
    BY <1>3, <1>8, <2>1, <2>5, CountedFields
<1> QED
  BY <1>9, <1>10, <1>11, <1>12 DEF Tick

(***************************************************************************)
(* Creating, loading and recovering.                                       *)
(***************************************************************************)
LEMMA HeaderAlone ==
  /\ Header \in Seq(Cell) /\ Len(Header) = 1 /\ Header[1].kind = "header"
  /\ LogFrames(Header) = {} /\ Parsed(Header) /\ HalfTorn(Header) /\ Whole(Header)
  /\ << >> \o Header = Header
  /\ \A st, first : Chained(Header, st, first)
<1>1. Header \in Seq(Cell) /\ Len(Header) = 1 /\ Header[1].kind = "header"
      /\ << >> \o Header = Header
  BY DEF Header, Cell
<1>2. WholeFrames(Header) = {} /\ LogFrames(Header) = {}
  BY <1>1 DEF WholeFrames, LogFrames
<1>3. Whole(Header)
  <2>1. Len(Header) = 2 * 0 + 1
    BY <1>1
  <2> QED
    BY <2>1 DEF Whole
<1> QED
  BY <1>1, <1>2, <1>3 DEF Parsed, Chained, HalfTorn

LEMMA CreateStep ==
  ASSUME Moves, OpenCreate
  PROVE  WorldSafe'
<1>0. Sound /\ Typed /\ SimInv /\ Uncreated /\ manifest = NoManifest
  BY MovesFrom DEF OpenCreate
<1>1. /\ log' = [log EXCEPT ![0] = @ \o Header]
      /\ host' = HostAt(0, HeaderLen, FreshManifest) /\ sim' = GenesisSim
      /\ mode' = "running"
      /\ safe' = [safe EXCEPT ![0] = Len(log'[0])] /\ asked' = safe'
      /\ UNCHANGED << snaps, snapsDur, nextAction, sealedTick, excused >>
      /\ manifest' = FreshManifest
  <2>1. CreateSettled
    BY <1>0 DEF Sound
  <2> QED
    BY <2>1 DEF OpenCreate
<1>2. manifest' # NoManifest
  BY <1>1 DEF FreshManifest, NoManifest
<1>3. /\ log = [r \in Segments |-> << >>] /\ snaps = [t \in Ticks |-> NoSnap]
      /\ snapsDur = snaps /\ sealedTick = [a \in Actions |-> 0] /\ excused = {}
      /\ 0 \in Segments /\ 0 \in Ticks
  BY <1>0, WorldFacts DEF Uncreated
<1>4. log'[0] = Header /\ \A r \in Segments : r # 0 => log'[r] = << >>
  BY <1>1, <1>3, HeaderAlone
<1>5. log' \in [Segments -> Seq(Cell)]
  <2>1. log' = [log EXCEPT ![0] = Header]
    BY <1>1, <1>3, <1>4
  <2> QED
    BY <1>0, <2>1, HeaderAlone DEF Typed, StorageTyped
<1>6. /\ safe' \in [Segments -> Nat] /\ safe'[0] = 1
      /\ \A r \in Segments : safe'[r] <= safe'[r] /\ safe'[r] <= Len(log'[r])
  <2>1. /\ safe' = [safe EXCEPT ![0] = 1] /\ safe \in [Segments -> Nat]
        /\ \A r \in Segments : safe[r] <= asked[r] /\ asked[r] <= Len(log[r])
        /\ asked \in [Segments -> Nat]
    BY <1>0, <1>1, <1>4, HeaderAlone DEF Typed, StorageTyped
  <2>2. safe' \in [Segments -> Nat] /\ safe'[0] = 1
    BY <1>3, <2>1
  <2>3. \A r \in Segments : safe'[r] <= Len(log'[r])
    <3> TAKE r \in Segments
    <3>1. CASE r = 0
      BY <1>4, <2>2, <3>1, HeaderAlone
    <3>2. CASE r # 0
      <4>1. log[r] = << >> /\ log'[r] = << >> /\ safe'[r] = safe[r]
        BY <1>3, <1>4, <2>1, <3>2
      <4> QED
        BY <2>1, <4>1
    <3> QED
      BY <3>1, <3>2
  <2> QED
    BY <2>2, <2>3
<1>7. Typed'
  <2>1. StorageTyped'
    BY <1>0, <1>1, <1>5, <1>6 DEF Typed, StorageTyped
  <2>2. host'.segment = 0 /\ host'.logOffset = 1
    BY <1>1 DEF HostAt, HeaderLen
  <2>3. sim' \in SimT /\ sim'.trap = NoTrap
    BY <1>1, GenesisTyped
  <2> QED
    BY <1>0, <1>1, <1>3, <2>1, <2>2, <2>3 DEF Typed, Modes
<1>8. WorldOK(GenesisSim, sealedTick)
  BY WorldFacts DEF GenesisSim, WorldOK, World
<1>9. SimInv'
  BY <1>0, <1>1, <1>8 DEF SimInv
<1>10. BaseOK(GenesisSim, Header, 0, sealedTick, excused, 0)
  <2>1. ReadsOn(GenesisSim, Header, 0, sealedTick, 0)
    BY HeaderAlone, GenesisTyped DEF ReadsOn, LagIs
  <2>2. Covers(GenesisSim, Header, 0, sealedTick, excused)
    BY <1>3 DEF Covers
  <2> QED
    BY <1>8, <2>1, <2>2, HeaderAlone DEF BaseOK
<1>11. \A t \in Ticks : ~snaps[t].ok
  BY <1>3 DEF NoSnap
<1>12. Holds(log', 0, 0, sealedTick, excused, snaps, snapsDur, safe')
  <2>1. SnapsOK(snaps, Header, 0, sealedTick, excused, 0) /\ InOrder(snaps, 0)
    BY <1>11 DEF SnapsOK, InOrder
  <2>2. \A r \in Segments : r > 0 => log'[r] = << >>
    BY <1>4, WorldFacts
  <2>3. Intact(log', 0, 0, sealedTick, excused, snaps)
    BY <1>4, <1>10, <2>1, <2>2, HeaderAlone DEF Intact
  <2>4. Durable(log', 0, 0, sealedTick, excused, snaps, snapsDur, safe')
    BY <1>3, <1>4, <1>11, <2>1 DEF Durable
  <2> QED
    BY <1>4, <2>3, <2>4, HeaderAlone DEF Holds
<1>13. LiveAt(host', sim', log', 0, 0, sealedTick, excused, snaps, nextAction)
  <2>1. host'.segment = 0 /\ host'.logOffset = Len(log'[0])
    BY <1>1, <1>4, HeaderAlone DEF HostAt, HeaderLen
  <2>2. GoesOn(GenesisSim, Header, sealedTick, excused, 0)
    <3>1. Len(Header) = 2 * 0 + 1
      BY HeaderAlone
    <3> QED
      BY <1>10, <3>1 DEF GoesOn
  <2>3. sim'.pending = << >>
    BY <1>1, GenesisTyped
  <2>4. Unsealed(sim'.pending, sealedTick)
        /\ \A i \in DOMAIN sim'.pending : sim'.pending[i] < nextAction
    BY <2>3 DEF Unsealed, Rising
  <2>5. \A t \in Ticks : snaps[t].ok => t <= sim'.tick
    BY <1>11
  <2>6. GoesOn(sim', log'[0], sealedTick, excused, 0)
    BY <1>1, <1>4, <2>2
  <2> QED
    BY <2>1, <2>4, <2>5, <2>6 DEF LiveAt
<1>14. WorldAt(0, 0)'
  BY <1>1, <1>4, <1>12, <1>13, HeaderAlone DEF WorldAt
<1>15. Tidy'
  BY <1>1, <1>3, <1>6 DEF Tidy
<1> QED
  BY <1>2, <1>3, <1>7, <1>9, <1>14, <1>15 DEF WorldSafe, StoreInv, Created

LEMMA LoadStep ==
  ASSUME Moves, manifest # NoManifest, NEW l \in Loaded, l.trap = NoTrap, TruncateTail(l),
         sim' = l.sim, host'.segment = l.segment, host'.logOffset = l.offset,
         UNCHANGED << snaps, snapsDur, nextAction, sealedTick, excused >>,
         mode' \in {"healing", "rebinding"}
  PROVE  WorldSafe'
<1>0. /\ Sound /\ Typed /\ SimInv /\ Created
      /\ log \in [Segments -> Seq(Cell)] /\ safe \in [Segments -> Nat]
      /\ asked \in [Segments -> Nat]
      /\ \A r \in Segments : safe[r] <= asked[r] /\ asked[r] <= Len(log[r])
      /\ snaps \in [Ticks -> Snap] /\ snapsDur \in [Ticks -> Snap]
      /\ sealedTick \in [Actions -> Ticks]
  BY MovesFrom DEF Typed, StorageTyped
<1>1. PICK s \in Segments, first \in Ticks : WorldAt(s, first)
  BY <1>0 DEF Created
<1>2. /\ Holds(log, s, first, sealedTick, excused, snaps, snapsDur, safe)
      /\ Intact(log, s, first, sealedTick, excused, snaps)
      /\ Parsed(log[s]) /\ Chained(log[s], sealedTick, first)
  BY <1>1 DEF WorldAt, Holds, Intact
<1>3. PICK N \in Nat : Len(log[s]) = 2 * N + 1 \/ Len(log[s]) = 2 * N + 2
  <2>1. Len(log[s]) \in Nat /\ Len(log[s]) >= 1
    BY <1>0, <1>2, LenProperties DEF Parsed
  <2> QED
    BY <2>1, Halved
<1>4. l.segment = s /\ l.offset = 2 * N + 1 /\ LoadedSim(l.sim, log[s], N, first)
  BY <1>0, <1>2, <1>3, Loads
<1>5. PICK new \in Seq(Cell) :
        /\ log' = [log EXCEPT ![s] = new]
        /\ Parsed(new) /\ Len(new) = 2 * N + 1
        /\ Chained(new, sealedTick, first)
        /\ Continues(log[s], new, sealedTick, sealedTick, excused, excused, first, MaxTick)
        /\ \A x : BaseOK(x, log[s], N, sealedTick, excused, first)
                  => BaseOK(x, new, N, sealedTick, excused, first)
        /\ safe' \in [Segments -> Nat] /\ asked' \in [Segments -> Nat]
        /\ \A r \in Segments : safe'[r] <= asked'[r] /\ asked'[r] <= Len(log'[r])
        /\ safe'[s] = safe[s] \/ safe'[s] = 2 * N + 1
        /\ \A r \in Segments : r # s => safe'[r] = safe[r]
  BY <1>0, <1>2, <1>3, <1>4, Truncates
<1>6. log'[s] = new /\ Whole(new)
  BY <1>0, <1>5 DEF Whole
<1>7. Holds(log', s, first, sealedTick, excused, snaps, snapsDur, safe')
  <2>1. /\ safe[s] \in Nat /\ safe'[s] \in Nat /\ DOMAIN log = Segments /\ MaxTick \in Nat
        /\ safe[s] <= safe'[s] \/ safe'[s] = Len(new)
    BY <1>0, <1>5, WorldFacts
  <2>2. \A t \in Ticks : snaps[t].ok => t <= MaxTick
    BY WorldFacts DEF Ticks
  <2>3. Holds([log EXCEPT ![s] = new], s, first, sealedTick, excused, snaps, snapsDur, safe')
    BY <1>0, <1>2, <1>5, <1>6, <2>1, <2>2, HoldsContinues
  <2> QED
    BY <1>5, <2>3
<1>8. LiveAt(host', sim', log', s, first, sealedTick, excused, snaps, nextAction)
  <2>1. GoesOn(l.sim, new, sealedTick, excused, first)
    BY <1>4, <1>5 DEF GoesOn, LoadedSim
  <2>2. l.sim.pending = << >> /\ \A t \in Ticks : snaps[t].ok => t <= l.sim.tick
    BY <1>4 DEF LoadedSim
  <2>3. Unsealed(l.sim.pending, sealedTick)
        /\ \A i \in DOMAIN l.sim.pending : l.sim.pending[i] < nextAction
    BY <2>2 DEF Unsealed, Rising
  <2> QED
    BY <1>4, <1>5, <1>6, <2>1, <2>2, <2>3 DEF LiveAt
<1>9. WorldAt(s, first)'
  BY <1>6, <1>7, <1>8 DEF WorldAt, Ongoing
<1>10. Typed'
  <2>1. StorageTyped'
    <3>1. log' \in [Segments -> Seq(Cell)]
      BY <1>0, <1>5
    <3> QED
      BY <1>0, <1>5, <3>1 DEF StorageTyped
  <2>2. sim' \in SimT /\ sim'.trap = NoTrap
    BY <1>4 DEF LoadedSim
  <2>3. host'.segment \in Segments /\ host'.logOffset \in Nat
    BY <1>3, <1>4
  <2> QED
    BY <1>0, <2>1, <2>2, <2>3 DEF Typed, Modes
<1>11. SimInv'
  BY <1>0, <1>4 DEF SimInv, LoadedSim, BaseOK
<1>12. Tidy'
  <2>1. safe'[0] >= 1
    <3>1. safe[0] >= 1 /\ 0 \in Segments
      BY <1>0, WorldFacts DEF Created, Tidy
    <3>2. CASE s = 0
      BY <1>3, <1>5, <3>1, <3>2
    <3>3. CASE s # 0
      BY <1>5, <3>1, <3>3
    <3> QED
      BY <3>2, <3>3
  <2> QED
    BY <1>0, <2>1 DEF Created, Tidy
<1> QED
  BY <1>9, <1>10, <1>11, <1>12, MovesTo DEF Created

LEMMA SkipStep ==
  ASSUME Moves, RecoverSkips
  PROVE  WorldSafe'
<1>0. /\ Sound /\ Typed /\ SimInv /\ Created /\ manifest # NoManifest
      /\ log \in [Segments -> Seq(Cell)] /\ safe \in [Segments -> Nat]
      /\ asked \in [Segments -> Nat]
      /\ \A r \in Segments : safe[r] <= asked[r] /\ asked[r] <= Len(log[r])
      /\ snaps \in [Ticks -> Snap] /\ snapsDur \in [Ticks -> Snap]
      /\ sealedTick \in [Actions -> Ticks]
      /\ mode = "recovering"
      /\ UNCHANGED << snaps, snapsDur, mode, host, sim, nextAction, sealedTick, excused >>
  BY MovesFrom DEF Typed, StorageTyped, RecoverSkips, history
<1>1. PICK s \in Segments, first \in Ticks : WorldAt(s, first)
  BY <1>0 DEF Created
<1>2. /\ Holds(log, s, first, sealedTick, excused, snaps, snapsDur, safe)
      /\ Intact(log, s, first, sealedTick, excused, snaps)
      /\ Parsed(log[s]) /\ Chained(log[s], sealedTick, first)
      /\ Whole(log[s])
  BY <1>0, <1>1 DEF WorldAt, Holds, Intact
<1>3. PICK N \in Nat : Len(log[s]) = 2 * N + 1
  BY <1>2 DEF Whole
<1>4. PICK l \in Loaded :
        /\ l.trap # NoTrap
        /\ log' = [log EXCEPT ![l.segment] = @ \o Skip(l.segment, l.trap)]
        /\ safe' = [safe EXCEPT ![l.segment] = Len(log'[l.segment])]
        /\ asked' = [asked EXCEPT ![l.segment] = safe'[l.segment]]
  BY DEF RecoverSkips
<1>5. l.segment = s /\ TrapNames(log[s], l.trap)
  BY <1>0, <1>2, <1>3, <1>4, Loads
<1>51. PICK new : new = log[s] \o Skip(s, l.trap)
  OBVIOUS
<1>52. Skips(log[s], N, sealedTick, first, s, l.trap, new)
  BY <1>2, <1>3, <1>5, <1>51 DEF Skips
<1>53. Skipped(log[s], N, sealedTick, first, excused, new)
  <2>1. sealedTick \in [Actions -> Ticks]
    BY <1>0
  <2> QED
    BY <1>52, <2>1, SkipFrame
<1>6. /\ Parsed(new) /\ Len(new) = 2 * (N + 1) + 1 /\ Chained(new, sealedTick, first)
      /\ Carries(log[s], new, N, sealedTick, sealedTick, excused, excused, first, MaxTick)
  BY <1>53 DEF Skipped
<1>7. log' = [log EXCEPT ![s] = new]
  BY <1>4, <1>5, <1>51
<1>8. Continues(log[s], new, sealedTick, sealedTick, excused, excused, first, MaxTick)
  BY <1>3, <1>6, CarriesWhole
<1>9. Whole(new) /\ new \in Seq(Cell) /\ Len(new) \in Nat
  <2>1. N + 1 \in Nat
    OBVIOUS
  <2> QED
    BY <1>6, <2>1, LenProperties DEF Whole, Parsed
<1>10. /\ log'[s] = new /\ \A r \in Segments : r # s => log'[r] = log[r]
       /\ log' \in [Segments -> Seq(Cell)]
  BY <1>0, <1>7, <1>9
<1>11. /\ safe' = [safe EXCEPT ![s] = Len(new)]
       /\ asked' = [asked EXCEPT ![s] = Len(new)]
  BY <1>0, <1>4, <1>5, <1>10
<1>12. /\ safe' \in [Segments -> Nat] /\ asked' \in [Segments -> Nat]
       /\ safe'[s] = Len(new) /\ asked'[s] = Len(new)
       /\ \A r \in Segments : r # s => safe'[r] = safe[r] /\ asked'[r] = asked[r]
  BY <1>0, <1>9, <1>11
<1>13. Holds(log', s, first, sealedTick, excused, snaps, snapsDur, safe')
  <2>1. /\ safe[s] \in Nat /\ safe'[s] \in Nat /\ DOMAIN log = Segments /\ MaxTick \in Nat
        /\ safe[s] <= safe'[s] \/ safe'[s] = Len(new)
    BY <1>0, <1>12, WorldFacts
  <2>2. \A t \in Ticks : snaps[t].ok => t <= MaxTick
    BY WorldFacts DEF Ticks
  <2>3. Holds([log EXCEPT ![s] = new], s, first, sealedTick, excused, snaps, snapsDur, safe')
    BY <1>0, <1>2, <1>6, <1>8, <1>9, <2>1, <2>2, HoldsContinues
  <2> QED
    BY <1>7, <2>3
<1>14. WorldAt(s, first)'
  BY <1>0, <1>9, <1>10, <1>13 DEF WorldAt, Ongoing
<1>15. Typed'
  <2>1. \A r \in Segments : safe'[r] <= asked'[r] /\ asked'[r] <= Len(log'[r])
    <3> TAKE r \in Segments
    <3>1. CASE r = s
      BY <1>9, <1>10, <1>12, <3>1
    <3>2. CASE r # s
      BY <1>0, <1>10, <1>12, <3>2
    <3> QED
      BY <3>1, <3>2
  <2>2. StorageTyped'
    BY <1>0, <1>10, <1>12, <2>1 DEF StorageTyped
  <2> QED
    BY <1>0, <2>2 DEF Typed
<1>16. SimInv'
  BY <1>0 DEF SimInv
<1>17. Tidy'
  <2>1. safe'[0] >= 1
    <3>1. safe[0] >= 1 /\ 0 \in Segments
      BY <1>0, WorldFacts DEF Created, Tidy
    <3> QED
      BY <1>6, <1>12, <3>1
  <2> QED
    BY <1>0, <2>1 DEF Created, Tidy
<1> QED
  BY <1>0, <1>14, <1>15, <1>16, <1>17, MovesTo DEF Created

(* The steps that change no more than the mode and the manifest. *)
LEMMA BumpLeaves ==
  ASSUME HostShape(host), BumpEpoch(host)
  PROVE  host'.segment = host.segment /\ host'.logOffset = host.logOffset
BY DEF BumpEpoch, HostShape, ManifestShape

LEMMA OtherStep ==
  ASSUME Moves,
         OpenHealed \/ OpenDone \/ RecoverBegin \/ RecoverGivesUp \/ RecoverResumes
         \/ Resume \/ ManifestLands
  PROVE  WorldSafe'
<1>0. HostShape(host) /\ (mode # "off" => manifest # NoManifest) /\ mode \in Modes
  BY MovesFrom DEF Typed
<1>1. /\ UNCHANGED << log, sim, nextAction, sealedTick, excused, safe, asked, snaps, snapsDur >>
      /\ host'.segment = host.segment /\ host'.logOffset = host.logOffset
  <2>1. CASE OpenDone \/ RecoverResumes
    BY <1>0, <2>1, BumpLeaves DEF OpenDone, RecoverResumes, BumpEpoch
  <2>2. CASE OpenHealed \/ RecoverBegin \/ RecoverGivesUp \/ Resume \/ ManifestLands
    BY <2>2 DEF OpenHealed, RecoverBegin, RecoverGivesUp, Resume, ManifestLands, storage, history
  <2> QED
    BY <2>1, <2>2
<1>2. \/ mode = "healing" /\ mode' = "pruning"
      \/ mode = "pruning" /\ mode' = "running"
      \/ mode = "trapped" /\ mode' \in {"fatal", "recovering"}
      \/ mode = "recovering" /\ mode' = "fatal"
      \/ mode = "rebinding" /\ mode' = "running"
      \/ mode = "paused" /\ mode' = "running"
      \/ mode # "off" /\ mode' = mode
  BY DEF OpenHealed, OpenDone, RecoverBegin, RecoverGivesUp, RecoverResumes, Resume,
         ManifestLands, Alive
<1>3. /\ mode # "off" /\ mode' \in Modes
      /\ mode' \notin {"off", "failed"} => mode \notin {"off", "failed"}
      /\ mode' \in Ongoing => mode \in Ongoing
      /\ mode' \in {"off", "paused"} => mode \in {"off", "paused"}
  BY <1>0, <1>2 DEF Modes, Ongoing
<1>4. Quiet
  BY <1>1, <1>3 DEF Quiet
<1> QED
  BY <1>0, <1>1, <1>3, <1>4, StillStep

LEMMA OpenLoadStep ==
  ASSUME Moves, OpenLoad
  PROVE  WorldSafe'
<1>0. /\ manifest # NoManifest /\ mode = "off" /\ Typed /\ Created
      /\ UNCHANGED << nextAction, sealedTick, excused >>
  BY MovesFrom DEF OpenLoad, history
<1>1. PICK s \in Segments, first \in Ticks : WorldAt(s, first)
  BY <1>0 DEF Created
<1>2. ~Corrupt
  <2>1. Intact(log, s, first, sealedTick, excused, snaps) /\ snaps \in [Ticks -> Snap]
    BY <1>0, <1>1 DEF WorldAt, Holds, Typed, StorageTyped
  <2> QED
    BY <2>1, Picked
<1>3. PICK l \in Loaded :
        \/ mode' = "failed" /\ UNCHANGED << storage, host, sim >>
        \/ /\ l.trap = NoTrap /\ TruncateTail(l) /\ sim' = l.sim
           /\ host' = HostAt(l.segment, l.offset, manifest')
           /\ UNCHANGED << snaps, snapsDur >> /\ mode' = "healing"
  BY <1>2 DEF OpenLoad
<1>4. CASE mode' = "failed" /\ UNCHANGED << storage, host, sim >>
  <2>1. Quiet
    BY <1>0, <1>4 DEF Quiet, storage, Modes, Ongoing
  <2> QED
    BY <1>0, <1>4, <2>1, StillStep DEF storage
<1>5. CASE /\ l.trap = NoTrap /\ TruncateTail(l) /\ sim' = l.sim
           /\ host' = HostAt(l.segment, l.offset, manifest')
           /\ UNCHANGED << snaps, snapsDur >> /\ mode' = "healing"
  <2>1. host'.segment = l.segment /\ host'.logOffset = l.offset
    BY <1>5 DEF HostAt
  <2> QED
    BY <1>0, <1>5, <2>1, LoadStep
<1> QED
  BY <1>3, <1>4, <1>5

LEMMA RecoverReplaysStep ==
  ASSUME Moves, RecoverReplays
  PROVE  WorldSafe'
<1>0. /\ mode = "recovering" /\ manifest # NoManifest /\ HostShape(host)
      /\ mode' = "rebinding"
      /\ UNCHANGED << snaps, snapsDur, nextAction, sealedTick, excused >>
  BY MovesFrom DEF RecoverReplays, history
<1>1. PICK l \in Loaded :
        /\ l.trap = NoTrap /\ TruncateTail(l) /\ sim' = l.sim
        /\ \E m : host' = [host EXCEPT !.segment = l.segment, !.logOffset = l.offset,
                                       !.manifest = m]
  BY DEF RecoverReplays
<1>2. host'.segment = l.segment /\ host'.logOffset = l.offset
  BY <1>0, <1>1 DEF HostShape
<1> QED
  BY <1>0, <1>1, <1>2, LoadStep

(***************************************************************************)
(* Pruning, and storage that catches up.                                   *)
(***************************************************************************)

(* Some snapshots go, or go bad; the others stay as they were.  Where the  *)
(* log is rolled, the newest one stays.                                    *)
FewerSnaps ==
  /\ \A t \in Ticks : snaps'[t] = snaps[t] \/ ~snaps'[t].ok
  /\ \/ MaxSegment = 0 \/ snaps' = snaps
     \/ \E t \in Ticks : snaps'[t].ok /\ \A u \in Ticks : snaps[u].ok => u <= t

(* What a crash would find of them is what it would have found before, or  *)
(* what is stored and lies in the durable part of the log.                 *)
DurableSnaps ==
  \A t \in Ticks : snapsDur'[t].ok =>
    /\ snaps'[t].ok
    /\ \/ snapsDur'[t] = snapsDur[t] /\ \A r \in Segments : safe[r] <= safe'[r]
       \/ /\ snapsDur'[t] = snaps[t]
          /\ MaxOsCrash > 0 => snaps[t].offset <= safe'[0]

LEMMA SnapsChange ==
  ASSUME Moves, FewerSnaps, DurableSnaps, safe' \in [Segments -> Nat]
  PROVE  KeepsSnaps
<1> SUFFICES ASSUME NEW s \in Segments, NEW first \in Ticks,
                    Holds(log, s, first, sealedTick, excused, snaps, snapsDur, safe)
             PROVE  Holds(log, s, first, sealedTick, excused, snaps', snapsDur', safe')
  BY DEF KeepsSnaps, FewerSnaps
<1>0. /\ Sound /\ safe \in [Segments -> Nat] /\ snaps \in [Ticks -> Snap]
      /\ snapsDur \in [Ticks -> Snap]
  BY MovesFrom DEF Typed, StorageTyped
<1>1. /\ Intact(log, s, first, sealedTick, excused, snaps)
      /\ WritesLag => SnapsOK(snapsDur, log[s], s, sealedTick, excused, first)
      /\ MaxOsCrash > 0 => \A t \in Ticks : snapsDur[t].ok => snapsDur[t].offset <= safe[s]
      /\ HalfTorn(log[s])
  BY DEF Holds, Durable
<1>2. SnapsOK(snaps, log[s], s, sealedTick, excused, first) /\ InOrder(snaps, s)
  BY <1>1 DEF Intact
<1>3. \A t \in Ticks : snaps'[t].ok => snaps'[t] = snaps[t] /\ snaps[t].ok
  BY DEF FewerSnaps
<1>4. SnapsOK(snaps', log[s], s, sealedTick, excused, first)
  <2> SUFFICES ASSUME NEW t \in Ticks, snaps'[t].ok
               PROVE  /\ snaps'[t].tick = t /\ snaps'[t].segment <= s
                      /\ snaps'[t].segment = s =>
                           \E m \in Nat : /\ snaps'[t].offset = 2 * m + 1
                                          /\ BaseOK(snaps'[t], log[s], m, sealedTick, excused, first)
    BY DEF SnapsOK
  <2> QED
    BY <1>2, <1>3 DEF SnapsOK
<1>5. InOrder(snaps', s)
  <2>1. ASSUME s > 0 PROVE \E t \in Ticks : snaps'[t].ok /\ snaps'[t].segment = s
    <3>1. PICK u \in Ticks : snaps[u].ok /\ snaps[u].segment = s
      BY <1>2, <2>1 DEF InOrder
    <3>2. CASE snaps' = snaps
      BY <3>1, <3>2
    <3>3. CASE snaps' # snaps
      <4>1. MaxSegment # 0
        BY <2>1, WorldFacts DEF Segments
      <4>2. PICK t \in Ticks : snaps'[t].ok /\ \A v \in Ticks : snaps[v].ok => v <= t
        BY <3>3, <4>1 DEF FewerSnaps
      <4>3. /\ snaps'[t] = snaps[t] /\ snaps[t].ok /\ u <= t
            /\ snaps[t].segment <= s /\ ~ (snaps[t].segment < s)
        <5>1. snaps'[t] = snaps[t] /\ snaps[t].ok /\ u <= t
          BY <1>3, <3>1, <4>2
        <5>2. u \in Nat /\ t \in Nat
          BY WorldFacts
        <5>3. snaps[t].segment < s => t < u
          BY <1>2, <3>1, <5>1 DEF InOrder
        <5> QED
          BY <1>2, <5>1, <5>2, <5>3 DEF SnapsOK
      <4>4. snaps[t].segment \in Nat /\ s \in Nat
        BY <1>0, <4>3, SnapIsBase, WorldFacts
      <4> QED
        BY <4>2, <4>3, <4>4
    <3> QED
      BY <3>2, <3>3
  <2>2. \A t, u \in Ticks :
          snaps'[t].ok /\ snaps'[u].ok /\ snaps'[t].segment < snaps'[u].segment => t < u
    BY <1>2, <1>3 DEF InOrder
  <2> QED
    BY <2>1, <2>2 DEF InOrder
<1>6. Intact(log, s, first, sealedTick, excused, snaps')
  BY <1>1, <1>4, <1>5 DEF Intact
<1>7. ASSUME WritesLag PROVE SnapsOK(snapsDur', log[s], s, sealedTick, excused, first)
  <2> SUFFICES ASSUME NEW t \in Ticks, snapsDur'[t].ok
               PROVE  /\ snapsDur'[t].tick = t /\ snapsDur'[t].segment <= s
                      /\ snapsDur'[t].segment = s =>
                           \E m \in Nat : /\ snapsDur'[t].offset = 2 * m + 1
                                          /\ BaseOK(snapsDur'[t], log[s], m, sealedTick, excused, first)
    BY DEF SnapsOK
  <2>1. snapsDur'[t] = snapsDur[t] \/ snapsDur'[t] = snaps[t]
    BY DEF DurableSnaps
  <2>2. CASE snapsDur'[t] = snapsDur[t]
    BY <1>1, <1>7, <2>2 DEF SnapsOK
  <2>3. CASE snapsDur'[t] = snaps[t]
    BY <1>2, <2>3 DEF SnapsOK
  <2> QED
    BY <2>1, <2>2, <2>3
<1>8. ASSUME MaxOsCrash > 0, NEW t \in Ticks, snapsDur'[t].ok
      PROVE  snapsDur'[t].offset <= safe'[s]
  <2>1. s = 0
    BY <1>0, <1>8, OneSegment
  <2>2. CASE snapsDur'[t] = snapsDur[t] /\ \A r \in Segments : safe[r] <= safe'[r]
    <3>1. snapsDur[t].offset <= safe[s] /\ safe[s] <= safe'[s]
      BY <1>1, <1>8, <2>2
    <3>2. safe[s] \in Nat /\ safe'[s] \in Nat /\ snapsDur[t].offset \in Nat
      BY <1>0, <1>8, <2>2, SnapIsBase
    <3> QED
      BY <2>2, <3>1, <3>2
  <2>3. CASE snapsDur'[t] = snaps[t] /\ snaps[t].offset <= safe'[0]
    BY <2>1, <2>3
  <2> QED
    BY <1>8, <2>2, <2>3 DEF DurableSnaps
<1>9. Durable(log, s, first, sealedTick, excused, snaps', snapsDur', safe')
  BY <1>7, <1>8 DEF Durable, DurableSnaps
<1> QED
  BY <1>1, <1>6, <1>9 DEF Holds

LEMMA PruneStep ==
  ASSUME Moves, PruneOne
  PROVE  WorldSafe'
<1>0. /\ Typed /\ Created /\ manifest # NoManifest /\ mode \in {"pruning", "stopping"}
      /\ UNCHANGED << log, safe, asked, mode, host, sim, nextAction, sealedTick, excused >>
      /\ snaps \in [Ticks -> Snap] /\ snapsDur \in [Ticks -> Snap]
      /\ safe \in [Segments -> Nat]
  BY MovesFrom DEF PruneOne, history, Typed, StorageTyped
<1>1. PICK t \in Prunable :
        /\ snaps' = [snaps EXCEPT ![t] = NoSnap]
        /\ snapsDur' = [snapsDur EXCEPT ![t] = NoSnap]
  <2>1. Prunable \subseteq Nat /\ Prunable # {}
    BY WorldFacts DEF Prunable, Stored, PruneOne
  <2>2. \E t \in Prunable : \A u \in Prunable : t <= u
    BY <2>1, NatMin
  <2> QED
    BY <2>2 DEF PruneOne
<1>2. t \in Ticks /\ snaps[t] # NoSnap /\ t \notin NewestTwo
  BY DEF Prunable, Stored
<1>3. NoSnap \in Snap /\ ~NoSnap.ok
  BY DEF NoSnap, Snap
<1>4. /\ snaps' \in [Ticks -> Snap] /\ snapsDur' \in [Ticks -> Snap]
      /\ \A u \in Ticks : u # t => snaps'[u] = snaps[u] /\ snapsDur'[u] = snapsDur[u]
      /\ snaps'[t] = NoSnap /\ snapsDur'[t] = NoSnap
  BY <1>0, <1>1, <1>2, <1>3
<1>5. FewerSnaps
  <2>1. \A u \in Ticks : snaps'[u] = snaps[u] \/ ~snaps'[u].ok
    BY <1>3, <1>4
  <2>2. ASSUME MaxSegment # 0
        PROVE  \E m \in Ticks : snaps'[m].ok /\ \A u \in Ticks : snaps[u].ok => u <= m
    <3>1. Stored \in SUBSET (0..MaxTick) /\ Stored # {}
      BY <1>2 DEF Ticks, Stored
    <3>2. PICK m \in Stored : \A u \in Stored : u <= m
      BY <3>1, WorldFacts, NatMax
    <3>3. {u \in Stored : u > m} = {}
      <4> SUFFICES ASSUME NEW u \in Stored, u > m PROVE FALSE
        OBVIOUS
      <4>1. u \in Nat /\ m \in Nat /\ u <= m
        BY <3>1, <3>2
      <4> QED
        BY <4>1
    <3>4. m \in NewestTwo
      <4>1. Cardinality({u \in Stored : u > m}) = 0
        BY <3>3, FS_EmptySet
      <4> QED
        BY <3>2, <4>1 DEF NewestTwo
    <3>5. m # t /\ m \in Ticks /\ snaps[m] # NoSnap
      BY <1>2, <3>2, <3>4 DEF Stored
    <3>6. snaps[m].ok /\ snaps'[m] = snaps[m]
      BY <1>0, <1>4, <2>2, <3>5, WorldFacts DEF Created, Tidy
    <3>7. \A u \in Ticks : snaps[u].ok => u <= m
      BY <1>3, <3>2 DEF Stored
    <3> QED
      BY <3>5, <3>6, <3>7
  <2> QED
    BY <2>1, <2>2 DEF FewerSnaps
<1>6. DurableSnaps
  <2>1. PICK s \in Segments, first \in Ticks :
          Holds(log, s, first, sealedTick, excused, snaps, snapsDur, safe)
    BY <1>0 DEF Created, WorldAt
  <2>2. \A u \in Ticks : snapsDur[u].ok => snaps[u].ok
    BY <2>1 DEF Holds, Durable
  <2>3. \A r \in Segments : safe[r] <= safe'[r]
    BY <1>0, WorldFacts
  <2> QED
    BY <1>3, <1>4, <2>2, <2>3 DEF DurableSnaps
<1>7. KeepsSnaps
  BY <1>0, <1>5, <1>6, SnapsChange
<1>8. StorageTyped'
  BY <1>0, <1>4 DEF Typed, StorageTyped
<1>9. Tidy'
  BY <1>0, <1>1, <1>2, <1>4 DEF Created, Tidy
<1>10. Quiet
  BY <1>0 DEF Quiet, Typed
<1> QED
  BY <1>0, <1>7, <1>8, <1>9, <1>10, QuietStep

LEMMA CorruptStep ==
  ASSUME Moves, CorruptSnapshot
  PROVE  WorldSafe'
<1>0. /\ Sound /\ FaultsTyped /\ Typed /\ mode = "off"
      /\ UNCHANGED << log, safe, asked, mode, host, sim, nextAction, sealedTick, excused >>
      /\ snaps \in [Ticks -> Snap] /\ safe \in [Segments -> Nat]
      /\ snapsDur' = snaps' /\ faults.corrupt < MaxCorrupt
  BY MovesFrom DEF CorruptSnapshot, history, Typed, StorageTyped
<1>1. PICK t \in Ticks : /\ snaps[t].ok
                        /\ snaps' = [snaps EXCEPT ![t] = [ok |-> FALSE, none |-> FALSE]]
  BY DEF CorruptSnapshot
<1>2. [ok |-> FALSE, none |-> FALSE] \in Snap /\ ~[ok |-> FALSE, none |-> FALSE].ok
  BY DEF Snap
<1>3. /\ snaps' \in [Ticks -> Snap]
      /\ \A u \in Ticks : snaps'[u] = snaps[u] \/ ~snaps'[u].ok
  BY <1>0, <1>1, <1>2
<1>4. manifest # NoManifest /\ Created
  <2>1. ~Uncreated
    BY <1>1 DEF Uncreated, NoSnap
  <2> QED
    BY <2>1, MovesFrom
<1>5. MaxSegment = 0
  <2>1. MaxCorrupt > 0
    BY <1>0, ConstantsTyped DEF FaultsTyped
  <2> QED
    BY <1>0, <2>1, WorldFacts, OneSegment
<1>6. FewerSnaps
  BY <1>3, <1>5 DEF FewerSnaps
<1>7. DurableSnaps
  <2>1. snapsDur = snaps
    BY <1>0, <1>4 DEF Created, Tidy
  <2>2. \A r \in Segments : safe[r] <= safe'[r]
    BY <1>0, WorldFacts
  <2> QED
    BY <1>0, <1>3, <2>1, <2>2 DEF DurableSnaps
<1>8. KeepsSnaps
  BY <1>0, <1>6, <1>7, SnapsChange
<1>9. StorageTyped'
  BY <1>0, <1>3 DEF Typed, StorageTyped
<1>10. Tidy'
  BY <1>0, <1>4, <1>5 DEF Created, Tidy
<1>11. Quiet
  BY <1>0 DEF Quiet, Typed
<1> QED
  BY <1>4, <1>8, <1>9, <1>10, <1>11, QuietStep

LEMMA SyncStep ==
  ASSUME Moves, SyncDone
  PROVE  WorldSafe'
<1>0. /\ Typed /\ StorageTyped /\ Created /\ mode # "off" /\ manifest # NoManifest
      /\ UNCHANGED << log, asked, snaps, snapsDur, mode, host, sim, nextAction, sealedTick,
                      excused >>
  BY MovesFrom DEF SyncDone, Alive, history, Typed
<1>1. PICK s \in Segments : safe[s] < asked[s] /\ safe' = [safe EXCEPT ![s] = asked[s]]
  BY DEF SyncDone
<1>2. /\ safe' \in [Segments -> Nat]
      /\ \A r \in Segments : safe'[r] = safe[r] \/ safe'[r] = asked[r]
      /\ \A r \in Segments : safe[r] \in Nat /\ asked[r] \in Nat /\ safe[r] <= asked[r]
                              /\ asked[r] <= Len(log[r])
  BY <1>0, <1>1 DEF StorageTyped
<1>3. \A r \in Segments : safe[r] <= safe'[r] /\ safe'[r] <= asked[r]
  BY <1>2
<1>4. StorageTyped'
  BY <1>0, <1>2, <1>3 DEF StorageTyped
<1>5. Tidy'
  <2>1. safe[0] >= 1 /\ 0 \in Segments
    BY <1>0, WorldFacts DEF Created, Tidy
  <2>2. safe'[0] >= 1
    BY <1>2, <1>3, <2>1
  <2> QED
    BY <1>0, <2>2 DEF Created, Tidy
<1>6. KeepsSnaps
  BY <1>0, <1>2, <1>3, SnapsStay
<1>7. Quiet
  BY <1>0 DEF Quiet, Typed
<1> QED
  BY <1>0, <1>4, <1>5, <1>6, <1>7, QuietStep

LEMMA LandStep ==
  ASSUME Moves, SnapshotLands
  PROVE  WorldSafe'
<1>0. /\ Sound /\ Typed /\ StorageTyped /\ Created /\ mode # "off" /\ manifest # NoManifest
      /\ WritesLag
      /\ UNCHANGED << log, safe, asked, snaps, mode, host, sim, nextAction, sealedTick,
                      excused >>
      /\ snaps \in [Ticks -> Snap] /\ snapsDur \in [Ticks -> Snap]
  BY MovesFrom DEF SnapshotLands, Alive, history, Typed, StorageTyped
<1>1. PICK t \in Ticks : /\ MayLand(t) /\ snapsDur[t] # snaps[t]
                        /\ snapsDur' = [snapsDur EXCEPT ![t] = snaps[t]]
  BY DEF SnapshotLands
<1>2. /\ snapsDur' \in [Ticks -> Snap] /\ snapsDur'[t] = snaps[t]
      /\ \A u \in Ticks : u # t => snapsDur'[u] = snapsDur[u]
  BY <1>0, <1>1
<1>3. MaxSegment = 0 /\ \A r \in Segments : r = 0
  BY <1>0, WorldFacts, OneSegment
<1>4. mode # "paused"
  BY <1>0, <1>1 DEF Created, Tidy
<1>5. PICK s \in Segments, first \in Ticks :
        Holds(log, s, first, sealedTick, excused, snaps, snapsDur, safe)
  BY <1>0 DEF Created, WorldAt
<1>6. FewerSnaps
  BY <1>0 DEF FewerSnaps
<1>7. DurableSnaps
  <2> SUFFICES ASSUME NEW u \in Ticks, snapsDur'[u].ok
               PROVE  /\ snaps[u].ok
                      /\ \/ snapsDur'[u] = snapsDur[u] /\ \A r \in Segments : safe[r] <= safe[r]
                         \/ /\ snapsDur'[u] = snaps[u]
                            /\ MaxOsCrash > 0 => snaps[u].offset <= safe[0]
    BY <1>0 DEF DurableSnaps
  <2>1. CASE u = t
    <3>1. snaps[t].ok
      BY <1>2, <2>1
    <3>2. snaps[t].segment = 0 /\ snaps[t].offset \in Nat
      BY <1>0, <1>3, <3>1, SnapIsBase
    <3>3. safe[0] \in Nat
      BY <1>0, WorldFacts DEF StorageTyped
    <3>4. MaxOsCrash > 0 => snaps[t].offset <= safe[0]
      BY <1>0, <1>1, <3>1, <3>2, <3>3 DEF Sound, MayLand
    <3> QED
      BY <1>2, <2>1, <3>1, <3>4
  <2>2. CASE u # t
    <3>1. snapsDur'[u] = snapsDur[u] /\ snaps[u].ok
      BY <1>2, <1>5, <2>2 DEF Holds, Durable
    <3>2. \A r \in Segments : safe[r] <= safe[r]
      BY <1>0, WorldFacts DEF StorageTyped
    <3> QED
      BY <3>1, <3>2
  <2> QED
    BY <2>1, <2>2
<1>8. KeepsSnaps
  <2>1. safe' \in [Segments -> Nat]
    BY <1>0 DEF StorageTyped
  <2> QED
    BY <1>6, <1>7, <2>1, SnapsChange
<1>9. StorageTyped'
  BY <1>0, <1>2 DEF StorageTyped
<1>10. Tidy'
  BY <1>0, <1>4 DEF Created, Tidy
<1>11. Quiet
  BY <1>0 DEF Quiet, Typed
<1> QED
  BY <1>0, <1>8, <1>9, <1>10, <1>11, QuietStep

(***************************************************************************)
(* Pausing.                                                                *)
(***************************************************************************)
LEMMA FlushStep ==
  ASSUME Moves, PauseFlushes
  PROVE  WorldSafe'
<1>0. /\ Sound /\ Typed /\ StorageTyped /\ Created /\ mode = "stopping" /\ mode' = "paused"
      /\ manifest # NoManifest
      /\ safe' = [r \in Segments |-> Len(log[r])] /\ asked' = safe' /\ snapsDur' = snaps
      /\ UNCHANGED << log, snaps, host, sim, nextAction, sealedTick, excused >>
      /\ snaps \in [Ticks -> Snap]
  BY MovesFrom DEF PauseFlushes, history, Typed, StorageTyped
<1>1. \A r \in Segments : Len(log[r]) \in Nat /\ safe[r] <= Len(log[r])
  <2> TAKE r \in Segments
  <2>1. log[r] \in Seq(Cell) /\ safe[r] \in Nat /\ asked[r] \in Nat
        /\ safe[r] <= asked[r] /\ asked[r] <= Len(log[r])
    BY <1>0 DEF StorageTyped
  <2>2. Len(log[r]) \in Nat
    BY <2>1, LenProperties
  <2> QED
    BY <2>1, <2>2
<1>2. /\ safe' \in [Segments -> Nat] /\ \A r \in Segments : safe'[r] = Len(log[r])
  BY <1>0, <1>1
<1>3. FewerSnaps
  BY <1>0 DEF FewerSnaps
<1>4. DurableSnaps
  <2> SUFFICES ASSUME NEW t \in Ticks, snaps[t].ok, MaxOsCrash > 0
               PROVE  snaps[t].offset <= safe'[0]
    BY <1>0 DEF DurableSnaps
  <2>1. PICK s \in Segments, first \in Ticks :
          Holds(log, s, first, sealedTick, excused, snaps, snapsDur, safe)
    BY <1>0 DEF Created, WorldAt
  <2>2. s = 0 /\ snaps[t].segment = 0 /\ safe'[0] = Len(log[0])
    <3>1. \A r \in Segments : r = 0
      BY <1>0, WorldFacts, OneSegment
    <3> QED
      BY <1>0, <1>2, <3>1, SnapIsBase
  <2>3. PICK m \in Nat : /\ snaps[t].offset = 2 * m + 1
                         /\ BaseOK(snaps[t], log[s], m, sealedTick, excused, first)
    BY <2>1, <2>2 DEF Holds, Intact, SnapsOK
  <2> QED
    BY <2>2, <2>3 DEF BaseOK
<1>5. KeepsSnaps
  BY <1>2, <1>3, <1>4, SnapsChange
<1>6. StorageTyped'
  <2>1. \A r \in Segments : safe'[r] <= asked'[r] /\ asked'[r] <= Len(log'[r])
    BY <1>0, <1>1, <1>2
  <2> QED
    BY <1>0, <1>2, <2>1 DEF StorageTyped
<1>7. Tidy'
  <2>1. safe[0] >= 1 /\ 0 \in Segments /\ safe[0] \in Nat
    BY <1>0, WorldFacts DEF Created, Tidy, StorageTyped
  <2>2. safe'[0] >= 1
    BY <1>1, <1>2, <2>1
  <2> QED
    BY <1>0, <2>2 DEF Created, Tidy
<1>8. Quiet
  BY <1>0 DEF Quiet, Modes, Ongoing
<1> QED
  BY <1>0, <1>5, <1>6, <1>7, <1>8, QuietStep

LEMMA PauseStep ==
  ASSUME Moves, Pause
  PROVE  WorldSafe'
<1>0. /\ Sound /\ Typed /\ SimInv /\ Created /\ HostShape(host)
      /\ manifest # NoManifest /\ mode = "running" /\ mode' = "stopping"
      /\ UNCHANGED << safe, asked, snapsDur, nextAction, sealedTick, excused >>
  BY MovesFrom DEF Pause, history
<1>1. CASE ~sim.dirty
  <2>1. UNCHANGED << log, snaps, sim, host >>
    BY <1>1 DEF Pause
  <2>2. Quiet
    BY <1>0, <2>1 DEF Quiet, Modes, Ongoing
  <2> QED
    BY <1>0, <2>1, <2>2, StillStep
<1>2. CASE sim.dirty
  <2>1. SnapshotNow(sim, host, log) /\ host' = RolledHost(host, sim.tick)
    BY <1>2 DEF Pause
  <2>2. /\ log \in [Segments -> Seq(Cell)] /\ safe \in [Segments -> Nat]
        /\ asked \in [Segments -> Nat] /\ snaps \in [Ticks -> Snap]
        /\ sim \in SimT /\ sim.trap = NoTrap
    BY <1>0 DEF Typed, StorageTyped
  <2>3. PICK s \in Segments, first \in Ticks : WorldAt(s, first)
    BY <1>0 DEF Created
  <2>4. /\ Holds(log, s, first, sealedTick, excused, snaps, snapsDur, safe)
        /\ LiveAt(host, sim, log, s, first, sealedTick, excused, snaps, nextAction)
    BY <1>0, <2>3 DEF WorldAt, Ongoing
  <2>5. PICK c \in Segments, f \in Ticks : Taken(log, host, sim, c, f, sealedTick, nextAction)
    BY <1>0, <2>1, <2>2, <2>4, SnapshotTaken
  <2>6. /\ Holds(log', c, f, sealedTick, excused, snaps', snapsDur, safe)
        /\ LiveAt(host', sim', log', c, f, sealedTick, excused, snaps', nextAction)
        /\ sim' \in SimT /\ sim'.trap = NoTrap
        /\ snaps' \in [Ticks -> Snap] /\ log' \in [Segments -> Seq(Cell)]
        /\ \A t \in Ticks : snaps'[t].ok \/ snaps'[t] = snaps[t]
        /\ \A r \in Segments : Len(log[r]) <= Len(log'[r])
    BY <2>1, <2>5 DEF Taken
  <2>7. Whole(log'[c]) /\ WorldOK(sim', sealedTick)
    BY <2>6 DEF LiveAt, GoesOn, BaseOK, Whole
  <2>8. WorldAt(c, f)'
    BY <1>0, <2>6, <2>7 DEF WorldAt
  <2>9. StorageTyped'
    <3>1. \A r \in Segments : safe'[r] <= asked'[r] /\ asked'[r] <= Len(log'[r])
      <4> TAKE r \in Segments
      <4>1. log[r] \in Seq(Cell) /\ log'[r] \in Seq(Cell)
        BY <2>2, <2>6
      <4>2. Len(log[r]) \in Nat /\ Len(log'[r]) \in Nat
        BY <4>1, LenProperties
      <4> QED
        BY <1>0, <2>2, <2>6, <4>2 DEF Typed, StorageTyped
    <3> QED
      BY <1>0, <2>6, <3>1 DEF Typed, StorageTyped
  <2>10. host'.segment \in Segments /\ host'.logOffset \in Nat
    <3>1. host'.segment = c /\ host'.logOffset = Len(log'[c]) /\ log'[c] \in Seq(Cell)
      BY <2>6 DEF LiveAt
    <3> QED
      BY <3>1, LenProperties
  <2>11. Typed'
    BY <1>0, <2>6, <2>9, <2>10 DEF Typed, Modes
  <2>12. SimInv'
    BY <1>0, <2>7 DEF SimInv
  <2>13. Tidy'
    BY <1>0, <2>6 DEF Created, Tidy
  <2> QED
    BY <1>0, <2>8, <2>11, <2>12, <2>13, MovesTo DEF Created
<1> QED
  BY <1>1, <1>2
(***************************************************************************)
(* Dying: a clean exit, a closed tab, a machine that goes down.            *)
(***************************************************************************)
LEMMA Dies ==
  ASSUME Moves, manifest # NoManifest, Dead, StorageTyped', Tidy',
         UNCHANGED << nextAction, sealedTick >>, excused' \subseteq Actions,
         NEW s \in Segments, NEW first \in Ticks,
         Holds(log', s, first, sealedTick, excused', snaps', snapsDur', safe')
  PROVE  WorldSafe'
<1>0. /\ Typed /\ SimInv /\ mode' = "off" /\ sim' = GenesisSim
      /\ host'.segment = 0 /\ host'.logOffset = 0
  BY MovesFrom DEF Dead, HostAt
<1>1. Typed'
  <2>1. sim' \in SimT /\ sim'.trap = NoTrap
    BY <1>0, GenesisTyped
  <2> QED
    BY <1>0, <2>1, WorldFacts DEF Typed, Modes
<1>2. SimInv'
  <2>1. WorldOK(sim', sealedTick)
    BY <1>0, WorldFacts DEF GenesisSim, WorldOK, World
  <2> QED
    BY <1>0, <2>1 DEF SimInv
<1>3. WorldAt(s, first)'
  BY <1>0 DEF WorldAt, Ongoing
<1> QED
  BY <1>1, <1>2, <1>3, MovesTo DEF Created

LEMMA ExitStep ==
  ASSUME Moves, Exit
  PROVE  WorldSafe'
<1>0. /\ Typed /\ Created /\ mode = "paused" /\ manifest # NoManifest /\ Dead
      /\ UNCHANGED << log, safe, asked, snaps, snapsDur, nextAction, sealedTick, excused >>
  BY MovesFrom DEF Exit, storage, history
<1>1. PICK s \in Segments, first \in Ticks :
        Holds(log, s, first, sealedTick, excused, snaps, snapsDur, safe)
  BY <1>0 DEF Created, WorldAt
<1>2. StorageTyped' /\ excused' \subseteq Actions
  BY <1>0 DEF Typed, StorageTyped
<1>3. Tidy'
  BY <1>0 DEF Created, Tidy
<1>4. Holds(log', s, first, sealedTick, excused', snaps', snapsDur', safe')
  BY <1>0, <1>1
<1> QED
  BY <1>0, <1>2, <1>3, <1>4, Dies

(* What a dying process loses of the whole-key writes still in flight.     *)
LEMMA Loses ==
  ASSUME LoseReplaces, snaps \in [Ticks -> Snap], snapsDur \in [Ticks -> Snap]
  PROVE  /\ snaps' \in [Ticks -> Snap] /\ snapsDur' = snaps'
         /\ ~WritesLag => snaps' = snaps
         /\ \A t \in Ticks : \/ snaps'[t] = snapsDur[t]
                             \/ snaps'[t] = snaps[t] /\ (WritesLag => MayLand(t))
<1>1. snapsDur' = snaps'
  BY DEF LoseReplaces
<1>2. PICK lost \in SUBSET { t \in Ticks : snapsDur[t] # snaps[t] } :
        /\ \A t \in Ticks : WritesLag /\ ~MayLand(t) /\ snapsDur[t] # snaps[t] => t \in lost
        /\ ~WritesLag => lost = {}
        /\ snaps' = [t \in Ticks |-> IF t \in lost THEN snapsDur[t] ELSE snaps[t]]
  BY DEF LoseReplaces
<1>3. \A t \in Ticks : snaps'[t] = IF t \in lost THEN snapsDur[t] ELSE snaps[t]
  BY <1>2
<1>4. snaps' \in [Ticks -> Snap]
  BY <1>2
<1>5. ~WritesLag => snaps' = snaps
  BY <1>2
<1>6. ASSUME NEW t \in Ticks
      PROVE  \/ snaps'[t] = snapsDur[t]
             \/ snaps'[t] = snaps[t] /\ (WritesLag => MayLand(t))
  BY <1>2, <1>3
<1> QED
  BY <1>1, <1>4, <1>5, <1>6

(* The snapshots a crash leaves are bases, in order, and where a machine   *)
(* may go down they name only what is durable.                             *)
LEMMA LeftSnaps ==
  ASSUME Moves, LoseReplaces, NEW s \in Segments, NEW first \in Ticks,
         Holds(log, s, first, sealedTick, excused, snaps, snapsDur, safe)
  PROVE  /\ snaps' \in [Ticks -> Snap] /\ snapsDur' = snaps'
         /\ ~WritesLag => snaps' = snaps
         /\ SnapsOK(snaps', log[s], s, sealedTick, excused, first)
         /\ InOrder(snaps', s)
         /\ MaxOsCrash > 0 => \A t \in Ticks : snaps'[t].ok => snaps'[t].offset <= safe[s]
<1>0. /\ Sound /\ snaps \in [Ticks -> Snap] /\ snapsDur \in [Ticks -> Snap]
      /\ safe \in [Segments -> Nat]
  BY MovesFrom DEF Typed, StorageTyped
<1>1. /\ SnapsOK(snaps, log[s], s, sealedTick, excused, first) /\ InOrder(snaps, s)
      /\ WritesLag => SnapsOK(snapsDur, log[s], s, sealedTick, excused, first)
      /\ MaxOsCrash > 0 => \A t \in Ticks : snapsDur[t].ok => snapsDur[t].offset <= safe[s]
  BY DEF Holds, Intact, Durable
<1>2. /\ snaps' \in [Ticks -> Snap] /\ snapsDur' = snaps'
      /\ ~WritesLag => snaps' = snaps
      /\ \A t \in Ticks : \/ snaps'[t] = snapsDur[t]
                          \/ snaps'[t] = snaps[t] /\ (WritesLag => MayLand(t))
  BY <1>0, Loses
<1>3. CASE ~WritesLag
  <2>1. ~ (MaxOsCrash > 0)
    BY <1>0, <1>3 DEF Sound
  <2> QED
    BY <1>1, <1>2, <1>3, <2>1
<1>4. CASE WritesLag
  <2>1. s = 0 /\ \A r \in Segments : r = 0
    BY <1>0, <1>4, OneSegment
  <2>2. SnapsOK(snaps', log[s], s, sealedTick, excused, first)
    <3> SUFFICES ASSUME NEW t \in Ticks, snaps'[t].ok
                 PROVE  /\ snaps'[t].tick = t /\ snaps'[t].segment <= s
                        /\ snaps'[t].segment = s =>
                             \E m \in Nat :
                               /\ snaps'[t].offset = 2 * m + 1
                               /\ BaseOK(snaps'[t], log[s], m, sealedTick, excused, first)
      BY DEF SnapsOK
    <3>1. CASE snaps'[t] = snapsDur[t]
      BY <1>1, <1>4, <3>1 DEF SnapsOK
    <3>2. CASE snaps'[t] = snaps[t]
      BY <1>1, <3>2 DEF SnapsOK
    <3> QED
      BY <1>2, <3>1, <3>2
  <2>3. \A t \in Ticks : snaps'[t].ok => snaps'[t].segment = 0 /\ snaps'[t].offset \in Nat
    BY <1>2, <2>1, SnapIsBase
  <2>4. InOrder(snaps', s)
    BY <2>1, <2>3 DEF InOrder
  <2>5. ASSUME MaxOsCrash > 0, NEW t \in Ticks, snaps'[t].ok
        PROVE  snaps'[t].offset <= safe[s]
    <3>1. CASE snaps'[t] = snapsDur[t]
      BY <1>1, <2>5, <3>1
    <3>2. CASE snaps'[t] = snaps[t] /\ MayLand(t)
      <4>1. safe[0] >= snaps[t].offset /\ safe[0] \in Nat /\ snaps[t].offset \in Nat
        BY <1>0, <2>1, <2>3, <2>5, <3>2 DEF MayLand, Sound
      <4> QED
        BY <2>1, <3>2, <4>1
    <3> QED
      BY <1>2, <1>4, <3>1, <3>2
  <2> QED
    BY <1>2, <1>4, <2>2, <2>4, <2>5
<1> QED
  BY <1>3, <1>4

LEMMA TabCrashStep ==
  ASSUME Moves, TabCrash
  PROVE  WorldSafe'
<1>0. /\ Sound /\ Typed /\ StorageTyped /\ Created /\ mode # "off" /\ manifest # NoManifest
      /\ Dead /\ LoseReplaces /\ asked' = safe
      /\ UNCHANGED << log, safe, nextAction, sealedTick, excused >>
  BY MovesFrom DEF TabCrash, Alive, history, Typed
<1>1. PICK s \in Segments, first \in Ticks :
        Holds(log, s, first, sealedTick, excused, snaps, snapsDur, safe)
  BY <1>0 DEF Created, WorldAt
<1>2. /\ snaps' \in [Ticks -> Snap] /\ snapsDur' = snaps'
      /\ ~WritesLag => snaps' = snaps
      /\ SnapsOK(snaps', log[s], s, sealedTick, excused, first)
      /\ InOrder(snaps', s)
      /\ MaxOsCrash > 0 => \A t \in Ticks : snaps'[t].ok => snaps'[t].offset <= safe[s]
  BY <1>0, <1>1, LeftSnaps
<1>3. Intact(log, s, first, sealedTick, excused, snaps')
  BY <1>1, <1>2 DEF Holds, Intact
<1>4. Durable(log, s, first, sealedTick, excused, snaps', snapsDur', safe)
  BY <1>2 DEF Durable
<1>5. Holds(log', s, first, sealedTick, excused', snaps', snapsDur', safe')
  BY <1>0, <1>1, <1>3, <1>4 DEF Holds
<1>6. StorageTyped'
  <2>1. \A r \in Segments : safe[r] <= safe[r] /\ safe[r] <= Len(log[r])
    <3> TAKE r \in Segments
    <3>1. log[r] \in Seq(Cell) /\ safe[r] \in Nat /\ asked[r] \in Nat
          /\ safe[r] <= asked[r] /\ asked[r] <= Len(log[r])
      BY <1>0 DEF StorageTyped
    <3>2. Len(log[r]) \in Nat
      BY <3>1, LenProperties
    <3> QED
      BY <3>1, <3>2
  <2> QED
    BY <1>0, <1>2, <2>1 DEF StorageTyped
<1>7. Tidy'
  <2>1. MaxSegment > 0 => snaps' = snaps
    BY <1>0, <1>2 DEF Sound
  <2> QED
    BY <1>0, <1>2, <2>1 DEF Created, Tidy
<1>8. excused' \subseteq Actions
  BY <1>0 DEF Typed
<1> QED
  BY <1>0, <1>5, <1>6, <1>7, <1>8, Dies

(* What is read of a segment is made of actions.                           *)
LEMMA LoggedTyped ==
  ASSUME NEW cells \in Seq(Cell)
  PROVE  LoggedIn(cells) \subseteq Actions
<1> SUFFICES ASSUME NEW i \in DOMAIN cells, cells[i].kind = "frame",
                    NEW a \in ToSet(cells[i].ids)
             PROVE  a \in Actions
  BY DEF LoggedIn
<1>1. cells[i] \in Cell
  BY ElementOfSeq, LenProperties
<1>2. cells[i].ids \in Seq(Actions)
  BY <1>1 DEF Cell
<1>3. PICK k \in DOMAIN cells[i].ids : a = cells[i].ids[k]
  BY DEF ToSet
<1> QED
  BY <1>2, <1>3, ElementOfSeq, LenProperties

(* A cell that closes a log frame is the second of a whole one.            *)
LEMMA Closes ==
  ASSUME NEW cells, Parsed(cells), HalfTorn(cells), NEW i \in 1..Len(cells),
         cells[i].kind = "frame", cells[i].part = FrameLen
  PROVE  \E n \in LogFrames(cells) : i = 2 * n + 1 /\ cells[i].ids = IdsOf(cells, n)
<1>0. /\ cells \in Seq(Cell) /\ Len(cells) \in Nat /\ cells[1].kind = "header"
      /\ \A n \in WholeFrames(cells) : WholeFrame(cells, n)
      /\ FrameLen = 2
  BY LenProperties DEF Parsed, FrameLen
<1>1. PICK j \in Nat : i = 2 * j + 1 \/ i = 2 * j + 2
  <2>1. i \in Nat /\ i >= 1
    BY <1>0
  <2> QED
    BY <2>1, Halved
<1>2. CASE i = 2 * j + 1
  <2>1. j >= 1 /\ j \in WholeFrames(cells)
    <3>1. j # 0
      BY <1>0, <1>2
    <3> QED
      BY <1>0, <1>2, <3>1 DEF WholeFrames
  <2>2. cells[i] = [cells[2 * j] EXCEPT !.part = 2]
    BY <1>0, <1>2, <2>1 DEF WholeFrame
  <2>3. cells[2 * j] \in Cell
    <3>1. 2 * j \in 1..Len(cells)
      BY <1>0, <1>2, <2>1
    <3> QED
      BY <1>0, <3>1, ElementOfSeq
  <2>4. cells[2 * j].kind = "frame" /\ cells[i].ids = cells[2 * j].ids
    BY <2>2, <2>3 DEF Cell
  <2> QED
    BY <1>2, <2>1, <2>4 DEF LogFrames, IdsOf
<1>3. CASE i = 2 * j + 2
  <2>1. CASE 2 * j + 3 <= Len(cells)
    <3>1. j + 1 \in WholeFrames(cells) /\ 2 * (j + 1) = i
      BY <1>0, <1>3, <2>1 DEF WholeFrames
    <3>2. cells[i].part = 1
      BY <1>0, <3>1 DEF WholeFrame
    <3> QED
      BY <1>0, <3>2
  <2>2. CASE Len(cells) = 2 * j + 2
    BY <1>0, <1>3, <2>2 DEF HalfTorn
  <2> QED
    BY <1>0, <1>3, <2>1, <2>2
<1> QED
  BY <1>1, <1>2, <1>3

(* What a crash loses of the log, it was free to lose: a record beyond the *)
(* cut was not yet durable.                                                *)
LEMMA CutExcused ==
  ASSUME NEW cells, Parsed(cells), HalfTorn(cells), NEW st \in [Actions -> Ticks], NEW first,
         Chained(cells, st, first), NEW q \in Nat, q <= Len(cells),
         NEW K \in Nat, q <= 2 * K + 2, NEW ex, NEW exLater,
         ex \cup (LoggedIn(cells) \ LoggedIn(SubSeq(cells, 1, q))) \subseteq exLater
  PROVE  Excuses(cells, K, st, ex, exLater)
<1> SUFFICES ASSUME NEW a \in Actions, a \notin exLater,
                    NEW n \in LogFrames(cells), n > K, a \in ToSet(IdsOf(cells, n))
             PROVE  FALSE
  BY DEF Excuses
<1>0. cells \in Seq(Cell) /\ Len(cells) \in Nat /\ q \in 0..Len(cells) /\ FrameLen = 2
  BY LenProperties DEF Parsed, FrameLen
<1>1. /\ n \in Nat /\ n >= 1 /\ 2 * n + 1 <= Len(cells)
      /\ cells[2 * n] \in [kind : {"frame"}, part : 1..2, delta : Nat, ids : Seq(Actions)]
      /\ cells[2 * n + 1] = [cells[2 * n] EXCEPT !.part = 2]
  <2>1. WholeFrame(cells, n)
    BY DEF Parsed, LogFrames
  <2> QED
    BY <2>1, LogCell DEF WholeFrame
<1>2. /\ 2 * n + 1 \in DOMAIN cells /\ cells[2 * n + 1].kind = "frame"
      /\ cells[2 * n + 1].part = FrameLen /\ cells[2 * n + 1].ids = IdsOf(cells, n)
  BY <1>0, <1>1 DEF IdsOf
<1>3. a \in LoggedIn(cells)
  BY <1>2 DEF LoggedIn
<1>4. a \in LoggedIn(SubSeq(cells, 1, q))
  BY <1>3
<1> PICK cut : cut = SubSeq(cells, 1, q)
  OBVIOUS
<1>5. /\ cut \in Seq(Cell) /\ Len(cut) = q /\ \A i \in 1..q : cut[i] = cells[i]
  BY <1>0, Beginning
<1>6. PICK i \in DOMAIN cut : /\ cut[i].kind = "frame" /\ cut[i].part = FrameLen
                              /\ a \in ToSet(cut[i].ids)
  BY <1>4 DEF LoggedIn
<1>7. i \in 1..q /\ cut[i] = cells[i] /\ i \in 1..Len(cells)
  BY <1>0, <1>5, <1>6
<1>8. PICK p \in LogFrames(cells) : i = 2 * p + 1 /\ cells[i].ids = IdsOf(cells, p)
  BY <1>6, <1>7, Closes
<1>9. p \in Nat /\ p < n /\ a \in ToSet(IdsOf(cells, p))
  <2>1. p \in Nat
    BY LogCell
  <2> QED
    BY <1>1, <1>6, <1>7, <1>8, <2>1, SMTT(20)
<1>10. \A k \in DOMAIN IdsOf(cells, p) : \A j \in DOMAIN IdsOf(cells, n) :
         IdsOf(cells, p)[k] < IdsOf(cells, n)[j]
  BY <1>9 DEF Chained, Before
<1>11. a < a /\ a \in Nat
  BY <1>9, <1>10, WorldFacts DEF ToSet
<1> QED
  BY <1>11
LEMMA OsCrashStep ==
  ASSUME Moves, OsCrash
  PROVE  WorldSafe'
<1>0. /\ Sound /\ Typed /\ StorageTyped /\ Created /\ FaultsTyped /\ mode # "off"
      /\ manifest # NoManifest /\ Dead /\ LoseReplaces /\ faults.os < MaxOsCrash
      /\ asked' = safe' /\ excused' = excused \cup Unsynced
      /\ safe' = [r \in Segments |-> Len(log'[r])]
      /\ UNCHANGED << nextAction, sealedTick >>
      /\ sealedTick \in [Actions -> Ticks] /\ excused \subseteq Actions
      /\ \A r \in Segments : log[r] \in Seq(Cell) /\ safe[r] \in Nat
  BY MovesFrom DEF OsCrash, Alive, Typed, StorageTyped
<1>1. PICK kept : /\ \A r \in Segments : kept[r] \in Int /\ safe[r] <= kept[r]
                                         /\ kept[r] <= Len(log[r])
                  /\ log' = [r \in Segments |-> SubSeq(log[r], 1, kept[r])]
  <2>1. PICK kept \in [Segments -> UNION { 0 .. Len(log[r]) : r \in Segments }] :
          /\ \A r \in Segments : safe[r] <= kept[r] /\ kept[r] <= Len(log[r])
          /\ log' = [r \in Segments |-> SubSeq(log[r], 1, kept[r])]
    BY DEF OsCrash
  <2>2. \A r \in Segments : kept[r] \in Int
    <3> TAKE r \in Segments
    <3>1. kept[r] \in UNION { 0 .. Len(log[u]) : u \in Segments }
      BY <2>1
    <3> QED
      BY <3>1
  <2> QED
    BY <2>1, <2>2
<1>2. MaxOsCrash > 0 /\ WritesLag /\ MaxSegment = 0 /\ \A r \in Segments : r = 0
  <2>1. MaxOsCrash > 0 /\ 0 \in Segments
    BY <1>0, ConstantsTyped, WorldFacts DEF FaultsTyped
  <2> QED
    BY <1>0, <2>1, OneSegment DEF Sound
<1>3. PICK s \in Segments, first \in Ticks :
        Holds(log, s, first, sealedTick, excused, snaps, snapsDur, safe)
  BY <1>0 DEF Created, WorldAt
<1>4. /\ s = 0 /\ Parsed(log[s]) /\ Chained(log[s], sealedTick, first) /\ HalfTorn(log[s])
      /\ BaseOK(GenesisSim, log[s], 0, sealedTick, excused, first)
  BY <1>2, <1>3 DEF Holds, Intact
<1>5. PICK p : p = kept[s]
  OBVIOUS
<1>6. /\ p \in Nat /\ p >= 1 /\ p <= Len(log[s]) /\ safe[s] <= p /\ p \in 1..Len(log[s])
      /\ safe[s] \in Nat /\ safe[s] <= Len(log[s]) /\ p \in 0..Len(log[s])
      /\ Len(log[s]) \in Nat
  <2>1. Len(log[s]) \in Nat /\ safe[s] \in Nat /\ safe[s] >= 1 /\ p \in Int
        /\ safe[s] <= p /\ p <= Len(log[s])
    BY <1>0, <1>1, <1>4, <1>5, LenProperties DEF Created, Tidy
  <2> QED
    BY <2>1
<1>7. PICK K \in Nat : p = 2 * K + 1 \/ p = 2 * K + 2
  BY <1>6, Halved
<1>8. PICK new : new = SubSeq(log[s], 1, p)
  OBVIOUS
<1>9. log'[s] = new /\ \A r \in Segments : log'[r] = new
  BY <1>1, <1>2, <1>4, <1>5, <1>8
<1>10. /\ new \in Seq(Cell) /\ Len(new) = p /\ \A i \in 1..p : new[i] = log[s][i]
  BY <1>0, <1>6, <1>8, Beginning
<1>11. Unsynced = LoggedIn(log[s]) \ LoggedIn(SubSeq(log[s], 1, safe[s]))
  <2>1. Segments = {s}
    BY <1>2, <1>4
  <2> QED
    BY <2>1 DEF Unsynced
<1>12. Excuses(log[s], K, sealedTick, excused, excused')
  <2>1. safe[s] <= 2 * K + 2
    BY <1>6, <1>7
  <2>2. excused \cup (LoggedIn(log[s]) \ LoggedIn(SubSeq(log[s], 1, safe[s]))) \subseteq excused'
    BY <1>0, <1>11
  <2> QED
    BY <1>0, <1>4, <1>6, <2>1, <2>2, CutExcused
<1>13. Cuts(log[s], K, p, sealedTick, first, excused, excused', new)
  BY <1>4, <1>6, <1>7, <1>8, <1>12 DEF Cuts
<1>14. WasCut(log[s], K, p, sealedTick, first, excused, excused', new)
  BY <1>0, <1>13, CutFrames
<1>15. /\ Parsed(new) /\ Chained(new, sealedTick, first)
       /\ Carries(log[s], new, K, sealedTick, sealedTick, excused, excused', first, MaxTick)
  BY <1>14 DEF WasCut
<1>16. /\ snaps' \in [Ticks -> Snap] /\ snapsDur' = snaps'
       /\ SnapsOK(snaps', log[s], s, sealedTick, excused, first)
       /\ InOrder(snaps', s)
       /\ \A t \in Ticks : snaps'[t].ok => snaps'[t].offset <= safe[s]
  BY <1>0, <1>2, <1>3, LeftSnaps
<1>17. \A t \in Ticks : snaps'[t].ok => snaps'[t].offset <= 2 * K + 2 /\ snaps'[t].offset <= p
  <2> SUFFICES ASSUME NEW t \in Ticks, snaps'[t].ok
               PROVE  snaps'[t].offset <= 2 * K + 2 /\ snaps'[t].offset <= p
    OBVIOUS
  <2>1. snaps'[t].offset \in Nat /\ snaps'[t].offset <= safe[s]
    BY <1>16, SnapIsBase
  <2> QED
    BY <1>6, <1>7, <2>1
<1>18. SnapsOK(snaps', new, s, sealedTick, excused', first)
  BY <1>15, <1>16, <1>17, SnapsCut
<1>19. BaseOK(GenesisSim, new, 0, sealedTick, excused', first)
  <2>1. 0 <= K /\ GenesisSim.tick <= MaxTick
    BY WorldFacts DEF GenesisSim
  <2> QED
    BY <1>4, <1>15, <2>1 DEF Carries
<1>20. HalfTorn(new)
  <2> SUFFICES ASSUME NEW n \in Nat, p = 2 * n + 2, new[2 * n + 2].kind # "header"
               PROVE  new[2 * n + 2].part = 1
    BY <1>10 DEF HalfTorn
  <2>1. new[2 * n + 2] = log[s][2 * n + 2]
    BY <1>6, <1>10
  <2>2. CASE p = Len(log[s])
    BY <1>4, <2>1, <2>2 DEF HalfTorn
  <2>3. CASE p # Len(log[s])
    <3>1. n + 1 \in WholeFrames(log[s]) /\ 2 * (n + 1) = 2 * n + 2
      BY <1>6, <2>3 DEF WholeFrames
    <3>2. WholeFrame(log[s], n + 1)
      BY <1>4, <3>1 DEF Parsed
    <3> QED
      BY <2>1, <3>1, <3>2 DEF WholeFrame
  <2> QED
    BY <2>2, <2>3
<1>21. \A r \in Segments : ~ (r > s)
  BY <1>2, <1>4
<1>22. Intact(log', s, first, sealedTick, excused', snaps')
  BY <1>4, <1>9, <1>15, <1>16, <1>18, <1>19, <1>21 DEF Intact
<1>23. safe'[s] = p /\ safe' \in [Segments -> Nat] /\ \A r \in Segments : safe'[r] = Len(log'[r])
  BY <1>0, <1>6, <1>9, <1>10
<1>24. Durable(log', s, first, sealedTick, excused', snaps', snapsDur', safe')
  BY <1>9, <1>16, <1>17, <1>18, <1>23 DEF Durable
<1>25. Holds(log', s, first, sealedTick, excused', snaps', snapsDur', safe')
  BY <1>9, <1>20, <1>22, <1>24 DEF Holds
<1>26. StorageTyped'
  <2>1. log' \in [Segments -> Seq(Cell)]
    BY <1>1, <1>9, <1>10
  <2>2. \A r \in Segments : safe'[r] <= asked'[r] /\ asked'[r] <= Len(log'[r])
    BY <1>0, <1>6, <1>9, <1>10, <1>23
  <2> QED
    BY <1>0, <1>16, <1>23, <2>1, <2>2 DEF StorageTyped
<1>27. Tidy'
  BY <1>2, <1>4, <1>6, <1>16, <1>23 DEF Tidy
<1>28. excused' \subseteq Actions
  BY <1>0, <1>11, LoggedTyped
<1> QED
  BY <1>0, <1>25, <1>26, <1>27, <1>28, Dies

LEMMA WorldStep ==
  ASSUME Moves, Next
  PROVE  WorldSafe'
<1>1. CASE Admit
  BY <1>1, AdmitStep
<1>2. CASE Tick
  BY <1>2, TickStep
<1>3. CASE Open
  BY <1>3, CreateStep, OpenLoadStep, OtherStep, PruneStep DEF Open
<1>4. CASE Recover
  BY <1>4, OtherStep, RecoverReplaysStep, SkipStep DEF Recover
<1>5. CASE Boundary
  BY <1>5, PauseStep, FlushStep, OtherStep, ExitStep DEF Boundary
<1>6. CASE Environment
  BY <1>6, SyncStep, LandStep, OtherStep, TabCrashStep, OsCrashStep, CorruptStep
     DEF Environment
<1> QED
  BY <1>1, <1>2, <1>3, <1>4, <1>5, <1>6 DEF Next

(* However a world is kept, played, crashed, recovered and opened again,   *)
(* its storage holds it: from every snapshot of the newest segment, from   *)
(* genesis, and for a live sim, the frames behind are applied, those ahead *)
(* are to be, and nothing logged is anywhere else (persistence.ts).        *)
THEOREM PersistenceInvariant ==
  ASSUME Sound
  PROVE  Spec => [](Opened /\ WorldInv)
<1>0. WritesLag => CreateSettled
  BY DEF Sound
<1>1. Init => Opened /\ WorldInv
  BY OpenedInit, WorldInit
<1>2. Opened /\ WorldInv /\ [Next]_vars => (Opened /\ WorldInv)'
  <2>1. ASSUME Opened, WorldInv, UNCHANGED vars PROVE (Opened /\ WorldInv)'
    <3>1. UNCHANGED << log, safe, asked, snaps, snapsDur, manifest, manifestDur, mode, host,
                       sim, recovery, nextAction, sealedTick, excused, welcomed, faults >>
      BY <2>1 DEF vars, storage, history
    <3>2. Opened'
      BY <2>1, <3>1 DEF Opened
    <3>3. Typed' /\ FaultsTyped' /\ SimInv'
      BY <2>1, <3>1 DEF WorldInv, WorldSafe, Typed, StorageTyped, FaultsTyped, SimInv
    <3>4. StoreInv'
      <4>1. StoreInv
        BY <2>1 DEF WorldInv, WorldSafe
      <4>2. Uncreated => Uncreated'
        BY <3>1 DEF Uncreated
      <4>3. Created => Created'
        <5>1. Tidy => Tidy'
          BY <3>1 DEF Tidy
        <5>2. ASSUME NEW s \in Segments, NEW first \in Ticks, WorldAt(s, first)
              PROVE  WorldAt(s, first)'
          BY <3>1, <5>2 DEF WorldAt
        <5> QED
          BY <5>1, <5>2 DEF Created
      <4> QED
        BY <3>1, <4>1, <4>2, <4>3 DEF StoreInv
    <3> QED
      BY <3>2, <3>3, <3>4 DEF WorldInv, WorldSafe
  <2>2. ASSUME Opened, WorldInv, Next PROVE (Opened /\ WorldInv)'
    <3>1. StaysOpened
      BY <1>0, <2>2, OpenedStep
    <3>2. Moves
      BY <2>2, <3>1 DEF Moves
    <3>3. WorldSafe'
      BY <2>2, <3>2, WorldStep
    <3>4. FaultsTyped'
      BY <2>2, FaultsStep DEF WorldInv
    <3> QED
      BY <3>1, <3>3, <3>4 DEF WorldInv, StaysOpened
  <2> QED
    BY <2>1, <2>2
<1> QED
  BY <1>1, <1>2, PTL DEF Spec

(* Every variable has its type, and what is durable never exceeds what was *)
(* handed over (persistence.ts, appendFrame and afterTick).                *)
THEOREM PersistenceTypeOK ==
  ASSUME Sound
  PROVE  Spec => []TypeOK
<1>1. Opened /\ WorldInv => TypeOK
  <2> SUFFICES ASSUME WorldInv PROVE TypeOK
    OBVIOUS
  <2>1. Typed /\ StorageTyped
    BY DEF WorldInv, WorldSafe, Typed
  <2>2. sim.tick \in Ticks /\ sim.faulted \subseteq Actions
    BY <2>1 DEF Typed, SimT
  <2>3. \A s \in Segments : 0 <= safe[s] /\ safe[s] <= asked[s] /\ asked[s] <= Len(log[s])
    BY <2>1 DEF StorageTyped
  <2> QED
    BY <2>1, <2>2, <2>3 DEF Typed, TypeOK
<1> QED
  BY <1>1, PersistenceInvariant, PTL

(* No crash, replay, skip, truncation, roll or prune loses a logged action *)
(* or applies one twice, out of order or at another tick; only what traps  *)
(* is skipped, and the host resumes at the log's end (persistence.ts, load *)
(* and truncate; docs/architecture/persistence.md).                        *)
THEOREM PersistenceCrashConsistent ==
  ASSUME Sound
  PROVE  Spec => []CrashConsistent
<1>1. ASSUME Opened, WorldInv PROVE CrashConsistent
  <2>0. /\ Typed /\ SimInv /\ sim \in SimT /\ log \in [Segments -> Seq(Cell)]
        /\ mode # "off" => Created
    BY <1>1 DEF WorldInv, WorldSafe, StoreInv, Typed, StorageTyped, Opened
  <2>1. WorldOK(sim, sealedTick)
    BY <2>0 DEF SimInv
  <2>2. ReplayMatchesLive
    <3> SUFFICES ASSUME NEW k \in DOMAIN sim.world, k > 1
                 PROVE  sim.world[k - 1].id < sim.world[k].id
      BY <2>1 DEF ReplayMatchesLive, WorldOK
    <3>1. k - 1 \in DOMAIN sim.world /\ k - 1 < k
      <4>1. sim.world \in Seq([id : Actions, tick : Ticks])
        BY <2>1 DEF WorldOK, World
      <4>2. DOMAIN sim.world = 1..Len(sim.world) /\ Len(sim.world) \in Nat
        BY <4>1, LenProperties
      <4> QED
        BY <4>2
    <3> QED
      BY <2>1, <3>1 DEF WorldOK
  <2>3. OnlyPoisonFaulted
    BY <2>1 DEF OnlyPoisonFaulted, Applied, WorldOK
  <2>4. ASSUME Playing
        PROVE  \E s \in Segments, first \in Ticks :
                 /\ Parsed(log[s])
                 /\ LiveAt(host, sim, log, s, first, sealedTick, excused, snaps, nextAction)
    <3>1. mode # "off" /\ mode \in Ongoing
      BY <2>4 DEF Playing, Ongoing
    <3> QED
      BY <2>0, <3>1 DEF Created, WorldAt, Holds, Intact
  <2>5. NoLoggedActionLost
    <3> SUFFICES ASSUME Playing, NEW a \in Actions, sealedTick[a] # 0, a \notin excused
                 PROVE  a \in Applied(sim) \cup sim.faulted
      BY DEF NoLoggedActionLost
    <3>1. PICK s \in Segments, first \in Ticks :
            /\ Parsed(log[s])
            /\ LiveAt(host, sim, log, s, first, sealedTick, excused, snaps, nextAction)
      BY <2>4
    <3>2. PICK N \in Nat : /\ Len(log[s]) = 2 * N + 1
                           /\ BaseOK(sim, log[s], N, sealedTick, excused, first)
      BY <3>1 DEF LiveAt, GoesOn
    <3>3. \A n \in LogFrames(log[s]) : ~ (n > N)
      BY <3>1, <3>2, LogCell
    <3> QED
      BY <3>2, <3>3 DEF BaseOK, Covers
  <2>6. LogPositionExact
    <3> SUFFICES ASSUME Playing
                 PROVE  /\ Len(log[host.segment]) = host.logOffset
                        /\ ValidEnd(log[host.segment], HeaderLen) = host.logOffset
      BY DEF LogPositionExact
    <3>1. PICK s \in Segments, first \in Ticks :
            /\ Parsed(log[s])
            /\ LiveAt(host, sim, log, s, first, sealedTick, excused, snaps, nextAction)
      BY <2>4
    <3>2. PICK N \in Nat : Len(log[s]) = 2 * N + 1
      BY <3>1 DEF LiveAt, GoesOn
    <3>3. host.segment = s /\ host.logOffset = Len(log[s])
      BY <3>1 DEF LiveAt
    <3>4. PICK m \in 0..N : m = 0
      OBVIOUS
    <3>5. FrameCount(log[s], 2 * m + 1) = N - m
      BY <3>1, <3>2, CountsRest
    <3>6. FrameCount(log[s], HeaderLen) = N /\ HeaderLen = 1 /\ FrameLen = 2
      <4>1. 2 * m + 1 = HeaderLen /\ N - m = N
        BY <3>4 DEF HeaderLen
      <4> QED
        BY <3>5, <4>1 DEF HeaderLen, FrameLen
    <3> QED
      BY <3>2, <3>3, <3>6 DEF ValidEnd
  <2> QED
    BY <2>2, <2>3, <2>5, <2>6 DEF CrashConsistent
<1>2. Opened /\ WorldInv => CrashConsistent
  BY <1>1
<1> QED
  BY <1>2, PersistenceInvariant, PTL
-----------------------------------------------------------------------------
(***************************************************************************)
(* The snapshots that segments start from.                                 *)
(***************************************************************************)
BasesOf(m) == {m.segments[i].base : i \in DOMAIN m.segments}

(* A manifest lists its segments; the first begins at genesis, and where   *)
(* the log is not rolled there is no other.                                *)
Listed(m) ==
  /\ m.segments \in Seq([index : Segments, base : Ticks \cup {GenesisBase}])
  /\ m.segments # << >>
  /\ MaxSegment = 0 => BasesOf(m) \subseteq {GenesisBase}

Based ==
  MaxSegment > 0 => \A b \in BasesOf(manifest) : b # GenesisBase => snaps[b].ok

(* Where the log is rolled, a live manifest is the stored one.             *)
BaseInv ==
  /\ manifest # NoManifest => Listed(manifest) /\ Based
  /\ WritesLag /\ manifestDur # NoManifest => Listed(manifestDur)
  /\ mode \notin {"off", "failed"} =>
       Listed(host.manifest) /\ (MaxSegment > 0 => host.manifest = manifest)

LEMMA ListedTyped ==
  ASSUME NEW m, Listed(m)
  PROVE  /\ BasesOf(m) \subseteq Ticks \cup {GenesisBase}
         /\ m.segments[Len(m.segments)].index \in Segments
<1> DEFINE E == [index : Segments, base : Ticks \cup {GenesisBase}]
           q == m.segments
<1>1. q \in Seq(E) /\ q # << >>
  BY DEF Listed
<1>2. \A i \in DOMAIN q : q[i] \in E
  <2> HIDE DEF E, q
  <2> QED
    BY <1>1, ElementOfSeq, LenProperties
<1>3. Len(q) \in DOMAIN q
  <2> HIDE DEF E, q
  <2> QED
    BY <1>1
<1> QED
  BY <1>2, <1>3 DEF BasesOf

LEMMA ListsOneMore ==
  ASSUME NEW m, Listed(m), MaxSegment # 0, NEW s \in Segments, NEW b \in Ticks,
         NEW n, n.segments = Append(m.segments, [index |-> s, base |-> b])
  PROVE  Listed(n) /\ BasesOf(n) \subseteq BasesOf(m) \cup {b}
<1> DEFINE e == [index |-> s, base |-> b]
<1>1. /\ m.segments \in Seq([index : Segments, base : Ticks \cup {GenesisBase}])
      /\ e \in [index : Segments, base : Ticks \cup {GenesisBase}] /\ e.base = b
  BY DEF Listed
<1> HIDE DEF e
<1> PICK q : q = m.segments
  OBVIOUS
<1>2. n.segments = Append(q, e)
  BY DEF e
<1>3. /\ n.segments \in Seq([index : Segments, base : Ticks \cup {GenesisBase}])
      /\ DOMAIN q = 1..Len(q) /\ Len(q) \in Nat
      /\ DOMAIN n.segments = 1..Len(q) + 1
      /\ \A i \in 1..Len(q) : n.segments[i] = q[i]
      /\ n.segments[Len(q) + 1] = e
  BY <1>1, <1>2
<1>4. n.segments # << >>
  BY <1>3
<1>5. ASSUME NEW i \in DOMAIN n.segments
      PROVE  n.segments[i].base \in BasesOf(m) \cup {b}
  <2>1. CASE i \in 1..Len(q)
    BY <1>3, <2>1 DEF BasesOf
  <2>2. CASE i = Len(q) + 1
    BY <1>1, <1>3, <2>2
  <2> QED
    BY <1>3, <2>1, <2>2
<1> QED
  BY <1>3, <1>4, <1>5 DEF Listed, BasesOf

(* A step that leaves the manifest, and every snapshot it names.           *)
LEMMA BasesKept ==
  ASSUME BaseInv, manifest # NoManifest, manifest' = manifest,
         manifestDur' = manifestDur \/ manifestDur' = manifest
                                    \/ (manifestDur' = host.manifest /\ mode \notin {"off", "failed"}),
         mode' \notin {"off", "failed"} =>
           mode \notin {"off", "failed"} /\ host'.manifest = host.manifest,
         MaxSegment > 0 => \A b \in BasesOf(manifest) : snaps[b].ok => snaps'[b].ok
  PROVE  BaseInv'
<1>1. Listed(manifest) /\ Based
  BY DEF BaseInv
<1>2. Based'
  BY <1>1 DEF Based
<1>3. WritesLag /\ manifestDur' # NoManifest => Listed(manifestDur')
  BY <1>1 DEF BaseInv
<1>4. mode' \notin {"off", "failed"} =>
        Listed(host'.manifest) /\ (MaxSegment > 0 => host'.manifest = manifest')
  BY DEF BaseInv
<1> QED
  BY <1>1, <1>2, <1>3, <1>4 DEF BaseInv

(* A new epoch. *)
LEMMA BasesBumped ==
  ASSUME BaseInv, HostShape(host), mode \notin {"off", "failed"}, manifest # NoManifest,
         BumpEpoch(host), snaps' = snaps,
         manifestDur' = manifestDur \/ manifestDur' = host.manifest
  PROVE  BaseInv'
<1> PICK h : h = host.manifest
  OBVIOUS
<1>1. Listed(h) /\ (MaxSegment > 0 => h = manifest) /\ Based
  BY DEF BaseInv
<1>2. PICK m : /\ m = [h EXCEPT !.epoch = @ + 1]
               /\ host'.manifest = m /\ manifest' = m
  BY DEF BumpEpoch, HostShape
<1>3. m.segments = h.segments
  BY <1>2 DEF HostShape, ManifestShape
<1>4. Listed(m) /\ BasesOf(m) = BasesOf(h)
  BY <1>1, <1>3 DEF Listed, BasesOf
<1>5. Based'
  BY <1>1, <1>2, <1>4 DEF Based
<1>6. WritesLag /\ manifestDur' # NoManifest => Listed(manifestDur')
  BY <1>1 DEF BaseInv
<1> QED
  BY <1>2, <1>4, <1>5, <1>6 DEF BaseInv

(* A snapshot, and the roll that comes before it. *)
LEMMA BasesRolled ==
  ASSUME BaseInv, mode \notin {"off", "failed"}, manifest # NoManifest,
         NEW h, HostShape(h), h.segment \in Segments, h.manifest = host.manifest,
         NEW x, x.tick \in Ticks, NEW l, SnapshotNow(x, h, l), snaps \in [Ticks -> Snap],
         host'.manifest = RolledHost(h, x.tick).manifest,
         manifestDur' = manifestDur
  PROVE  BaseInv'
<1> PICK m : m = RolledHost(h, x.tick).manifest
  OBVIOUS
<1>1. /\ Listed(h.manifest) /\ Based /\ Listed(manifest)
      /\ MaxSegment > 0 => h.manifest = manifest
      /\ MaxSegment \in Nat
  BY WorldFacts DEF BaseInv
<1>2. /\ snaps'[x.tick].ok /\ \A t \in Ticks : t # x.tick => snaps'[t] = snaps[t]
      /\ manifest' = IF RollsNow(h) THEN m ELSE manifest
  BY DEF SnapshotNow, SnapshotOf
<1>3. CASE ~RollsNow(h)
  <2>1. m = h.manifest /\ manifest' = manifest
    BY <1>2, <1>3 DEF RolledHost
  <2>2. Based'
    <3> SUFFICES ASSUME MaxSegment > 0, NEW b \in BasesOf(manifest), b # GenesisBase
                 PROVE  snaps'[b].ok
      BY <2>1 DEF Based
    <3>1. snaps[b].ok
      BY <1>1 DEF Based
    <3>2. b \in Ticks
      BY <1>1, ListedTyped
    <3> QED
      BY <1>2, <3>1, <3>2
  <2> QED
    BY <1>1, <2>1, <2>2 DEF BaseInv
<1>4. CASE RollsNow(h)
  <2>1. MaxSegment # 0 /\ MaxSegment > 0 /\ h.segment + 1 \in Segments
    BY <1>1, <1>4, WorldFacts DEF RollsNow, Segments
  <2>2. m.segments = Append(h.manifest.segments, [index |-> h.segment + 1, base |-> x.tick])
    <3> DEFINE more == Append(h.manifest.segments, [index |-> h.segment + 1, base |-> x.tick])
    <3>1. RolledHost(h, x.tick) = [h EXCEPT !.segment = @ + 1, !.logOffset = HeaderLen,
                                            !.manifest.segments = more]
      BY <1>4 DEF RolledHost
    <3> HIDE DEF more
    <3>2. m.segments = more
      BY <3>1 DEF HostShape, ManifestShape
    <3> QED
      BY <3>2 DEF more
  <2>3. Listed(m) /\ BasesOf(m) \subseteq BasesOf(h.manifest) \cup {x.tick}
    <3> PICK k : k = h.manifest
      OBVIOUS
    <3> PICK s : s = h.segment + 1
      OBVIOUS
    <3> PICK t : t = x.tick
      OBVIOUS
    <3>1. /\ Listed(k) /\ MaxSegment # 0 /\ s \in Segments /\ t \in Ticks
          /\ m.segments = Append(k.segments, [index |-> s, base |-> t])
      BY <1>1, <2>1, <2>2
    <3>2. Listed(m) /\ BasesOf(m) \subseteq BasesOf(k) \cup {t}
      BY <3>1, ListsOneMore, SMTT(20)
    <3> QED
      BY <3>2
  <2>4. manifest' = m
    BY <1>2, <1>4
  <2>5. Based'
    <3> SUFFICES ASSUME NEW b \in BasesOf(m), b # GenesisBase
                 PROVE  snaps'[b].ok
      BY <2>4 DEF Based
    <3>1. CASE b = x.tick
      BY <1>2, <3>1
    <3>2. CASE b \in BasesOf(manifest)
      <4>1. snaps[b].ok
        BY <1>1, <2>1, <3>2 DEF Based
      <4>2. b \in Ticks
        BY <1>1, <3>2, ListedTyped
      <4> QED
        BY <1>2, <4>1, <4>2
    <3> QED
      BY <1>1, <2>1, <2>3, <3>1, <3>2
  <2> QED
    BY <2>3, <2>4, <2>5 DEF BaseInv
<1> QED
  BY <1>3, <1>4

(* A manifest healed after a load lists the segment that was loaded.       *)
LEMMA BasesHealed ==
  ASSUME Moves, manifest # NoManifest, NEW l \in Loaded, NEW m, ManifestShape(m), Listed(m)
  PROVE  /\ Listed(Healed(m, l.segment, l.base))
         /\ \A b \in BasesOf(Healed(m, l.segment, l.base)) :
              b \in BasesOf(m) \/ snaps[b].ok
<1> PICK n : n = Healed(m, l.segment, l.base)
  OBVIOUS
<1>0. /\ Typed /\ Created /\ log \in [Segments -> Seq(Cell)]
      /\ snaps \in [Ticks -> Snap] /\ sealedTick \in [Actions -> Ticks]
  BY MovesFrom DEF Typed, StorageTyped
<1>1. PICK s \in Segments, first \in Ticks :
        Intact(log, s, first, sealedTick, excused, snaps) /\ Parsed(log[s])
  BY <1>0 DEF Created, WorldAt, Holds, Intact
<1>2. PICK N \in Nat : Len(log[s]) = 2 * N + 1 \/ Len(log[s]) = 2 * N + 2
  <2>1. Len(log[s]) \in Nat /\ Len(log[s]) >= 1
    BY <1>0, <1>1, LenProperties DEF Parsed
  <2> QED
    BY <2>1, Halved
<1>3. l.segment = s /\ l.base = PickedBase.tick
  BY <1>0, <1>1, <1>2, Loads
<1>4. s > 0 => PickedBase.tick \in Ticks /\ snaps[PickedBase.tick].ok
  BY <1>0, <1>1, Picked
<1>5. CASE n = m
  BY <1>5
<1>6. CASE n # m
  <2> DEFINE q == m.segments
  <2>1. q[Len(q)].index < s /\ n = [m EXCEPT !.segments = Append(q, [index |-> s, base |-> l.base])]
    BY <1>3, <1>6 DEF Healed
  <2>2. q[Len(q)].index \in Segments
    BY ListedTyped
  <2>3. s > 0 /\ MaxSegment # 0
    BY <2>1, <2>2, WorldFacts DEF Segments
  <2>4. n.segments = Append(m.segments, [index |-> s, base |-> l.base])
    BY <2>1 DEF ManifestShape
  <2>5. l.base \in Ticks /\ snaps[l.base].ok
    BY <1>3, <1>4, <2>3
  <2> QED
    BY <2>3, <2>4, <2>5, ListsOneMore
<1> QED
  BY <1>5, <1>6

(* The steps that leave the stored manifest, or take what a crash left of  *)
(* it.                                                                     *)
LEMMA BasesStay ==
  ASSUME Moves, BaseInv, manifest # NoManifest,
         OpenHealed \/ PruneOne \/ RecoverBegin \/ RecoverSkips \/ RecoverGivesUp
         \/ PauseFlushes \/ Resume \/ Exit \/ SyncDone \/ SnapshotLands \/ ManifestLands
         \/ CorruptSnapshot
  PROVE  BaseInv'
<1>0. /\ Sound /\ FaultsTyped /\ MaxSegment \in Nat /\ MaxCorrupt \in Nat
  BY MovesFrom, ConstantsTyped
<1>1. CASE OpenHealed \/ RecoverBegin \/ RecoverSkips \/ RecoverGivesUp \/ PauseFlushes
           \/ Resume \/ SyncDone \/ SnapshotLands \/ ManifestLands
  <2>1. /\ manifest' = manifest /\ host' = host /\ snaps' = snaps
        /\ manifestDur' = manifestDur \/ manifestDur' = manifest
    BY <1>1 DEF OpenHealed, RecoverBegin, RecoverSkips, RecoverGivesUp, PauseFlushes, Resume,
                SyncDone, SnapshotLands, ManifestLands, storage
  <2>2. mode' \notin {"off", "failed"} => mode \notin {"off", "failed"}
    BY <1>1 DEF OpenHealed, RecoverBegin, RecoverSkips, RecoverGivesUp, PauseFlushes, Resume,
                SyncDone, SnapshotLands, ManifestLands
  <2> QED
    BY <2>1, <2>2, BasesKept
<1>2. CASE PruneOne
  <2>1. /\ manifest' = manifest /\ manifestDur' = manifestDur /\ host' = host /\ mode' = mode
        /\ mode \notin {"off", "failed"}
    BY <1>2 DEF PruneOne
  <2>2. \E t \in Prunable : snaps' = [snaps EXCEPT ![t] = NoSnap]
    <3>1. Prunable \subseteq Nat /\ Prunable # {}
      BY <1>2, WorldFacts DEF PruneOne, Prunable, Stored
    <3>2. \E t \in Prunable : \A u \in Prunable : t <= u
      BY <3>1, NatMin
    <3> QED
      BY <1>2, <3>2 DEF PruneOne
  <2>3. PICK t \in Prunable : snaps' = [snaps EXCEPT ![t] = NoSnap]
    BY <2>2
  <2>4. t \notin BasesOf(host.manifest)
    BY DEF Prunable, BaseTicks, BasesOf
  <2>5. MaxSegment > 0 => \A b \in BasesOf(manifest) : snaps[b].ok => snaps'[b].ok
    BY <2>1, <2>3, <2>4 DEF BaseInv
  <2> QED
    BY <2>1, <2>5, BasesKept
<1>3. CASE Exit
  <2>1. /\ manifest' = manifest /\ manifestDur' = manifestDur /\ snaps' = snaps /\ mode' = "off"
    BY <1>3 DEF Exit, Dead, storage
  <2> QED
    BY <2>1, BasesKept
<1>4. CASE CorruptSnapshot
  <2>1. /\ manifest' = manifest /\ manifestDur' = manifestDur /\ host' = host /\ mode' = mode
        /\ mode = "off" /\ faults.corrupt < MaxCorrupt
    BY <1>4 DEF CorruptSnapshot
  <2>2. ~ (MaxSegment > 0)
    BY <1>0, <2>1 DEF FaultsTyped, Sound
  <2> QED
    BY <2>1, <2>2, BasesKept
<1> QED
  BY <1>1, <1>2, <1>3, <1>4

LEMMA BasesCrash ==
  ASSUME Moves, BaseInv, TabCrash \/ OsCrash
  PROVE  BaseInv'
<1>0. /\ Sound /\ manifest # NoManifest /\ manifest' # NoManifest /\ MaxSegment \in Nat
      /\ snaps \in [Ticks -> Snap] /\ snapsDur \in [Ticks -> Snap]
      /\ LoseReplaces /\ mode' = "off"
  BY MovesFrom, WorldFacts DEF TabCrash, OsCrash, Alive, Dead, Typed, StorageTyped
<1>1. /\ manifest' \in {manifest} \cup (IF WritesLag THEN {manifestDur} ELSE {})
      /\ manifestDur' = manifest'
  BY <1>0 DEF LoseReplaces
<1>2. Listed(manifest') /\ Listed(manifestDur')
  BY <1>0, <1>1 DEF BaseInv
<1>3. Based'
  <2>1. CASE WritesLag
    <3>1. ~ (MaxSegment > 0)
      BY <1>0, <2>1 DEF Sound
    <3> QED
      BY <3>1 DEF Based
  <2>2. CASE ~WritesLag
    <3>1. manifest' = manifest /\ snaps' = snaps
      BY <1>0, <1>1, <2>2, Loses
    <3> QED
      BY <1>0, <3>1 DEF BaseInv, Based
  <2> QED
    BY <2>1, <2>2
<1> QED
  BY <1>0, <1>2, <1>3 DEF BaseInv

(* Admitting, ticking and pausing.                                         *)
LEMMA BasesTick ==
  ASSUME Moves, BaseInv, Tick
  PROVE  BaseInv'
<1>0. /\ TickStarts /\ Typed /\ HostShape(host) /\ manifest # NoManifest
      /\ Sound /\ FaultsTyped /\ mode = "running" /\ mode' \in {"running", "trapped"}
      /\ snaps \in [Ticks -> Snap] /\ host.segment \in Segments /\ sim \in SimT
  BY TickLeaves, MovesFrom DEF TickStarts, Typed, StorageTyped
<1>1. /\ HostShape(SealedHost) /\ SealedHost.manifest = host.manifest
      /\ SealedHost.segment = host.segment
  BY <1>0, EpochOfSealed, SealedFields
<1>2. NextTick \in Ticks
  BY <1>0, WorldFacts DEF TickStarts, NextTick, SimT, Ticks
<1>3. CASE TickTraps \/ TickPlain
  <2>1. /\ manifest' = manifest /\ manifestDur' = manifestDur /\ snaps' = snaps
    BY <1>3 DEF TickTraps, TickPlain
  <2>2. host'.manifest = host.manifest
    BY <1>1, <1>3, EpochOfCounted DEF TickTraps, TickPlain
  <2> QED
    BY <1>0, <2>1, <2>2, BasesKept
<1>4. CASE TickSnapshots
  <2>1. PICK put \in BOOLEAN : SnapshotNow(TickedSim(put), SealedHost, SealedLog)
    BY <1>4 DEF TickSnapshots
  <2>2. /\ host' = Counted(RolledHost(SealedHost, NextTick)) /\ manifestDur' = manifestDur
    BY <1>4 DEF TickSnapshots
  <2>3. TickedSim(put).tick = NextTick
    BY <1>0, TickedFields
  <2>4. HostShape(RolledHost(SealedHost, NextTick))
    BY <1>1, EpochOfRolled
  <2>5. host'.manifest = RolledHost(SealedHost, NextTick).manifest
    BY <2>2, <2>4, EpochOfCounted
  <2> PICK x : x = TickedSim(put)
    OBVIOUS
  <2>6. /\ x.tick \in Ticks /\ SnapshotNow(x, SealedHost, SealedLog)
        /\ host'.manifest = RolledHost(SealedHost, x.tick).manifest
    BY <1>2, <2>1, <2>3, <2>5
  <2>7. mode \notin {"off", "failed"} /\ SealedHost.segment \in Segments
    BY <1>0, <1>1
  <2> QED
    BY <1>0, <1>1, <2>2, <2>6, <2>7, BasesRolled
<1>5. CASE TickSnapshotTraps
  <2>1. /\ manifest' = manifest /\ manifestDur' = manifestDur /\ snaps' = snaps
        /\ host' = [RolledHost(SealedHost, NextTick) EXCEPT !.sinceSnapshot = 0]
        /\ faults.snapshot < MaxSnapshotTrap
    BY <1>5 DEF TickSnapshotTraps
  <2>2. faults.snapshot \in Nat /\ MaxSnapshotTrap \in Nat
    BY <1>0, ConstantsTyped DEF FaultsTyped
  <2>3. MaxSegment = 0
    BY <1>0, <2>1, <2>2, WorldFacts, OneSegment
  <2>4. ~RollsNow(SealedHost)
    BY <1>0, <1>1, <2>3, WorldFacts DEF RollsNow, Segments
  <2>5. host'.manifest = host.manifest
    BY <1>1, <2>1, <2>4, RolledFields DEF HostShape
  <2> QED
    BY <1>0, <2>1, <2>5, BasesKept
<1> QED
  BY <1>3, <1>4, <1>5 DEF Tick

LEMMA BasesPause ==
  ASSUME Moves, BaseInv, Pause
  PROVE  BaseInv'
<1>0. /\ Typed /\ HostShape(host) /\ manifest # NoManifest
      /\ mode = "running" /\ mode' = "stopping" /\ manifestDur' = manifestDur
      /\ snaps \in [Ticks -> Snap] /\ host.segment \in Segments /\ sim.tick \in Ticks
  BY MovesFrom DEF Typed, StorageTyped, SimT, Pause
<1>1. CASE sim.dirty
  <2>1. SnapshotNow(sim, host, log) /\ host'.manifest = RolledHost(host, sim.tick).manifest
    BY <1>1 DEF Pause
  <2>2. mode \notin {"off", "failed"}
    BY <1>0
  <2> QED
    BY <1>0, <2>1, <2>2, BasesRolled
<1>2. CASE ~sim.dirty
  <2>1. manifest' = manifest /\ snaps' = snaps /\ host' = host
    BY <1>2 DEF Pause
  <2> QED
    BY <1>0, <2>1, BasesKept
<1> QED
  BY <1>1, <1>2

(* Opening and recovering.                                                 *)
LEMMA BasesOpen ==
  ASSUME Moves, BaseInv, OpenCreate \/ OpenLoad \/ OpenDone \/ RecoverReplays \/ RecoverResumes
  PROVE  BaseInv'
<1>0. /\ Sound /\ HostShape(host) /\ ManifestShape(manifest) /\ snaps \in [Ticks -> Snap]
      /\ mode # "off" => manifest # NoManifest
  BY MovesFrom DEF Moves, Opened, Typed, StorageTyped
<1>1. CASE OpenDone \/ RecoverResumes
  <2>1. /\ BumpEpoch(host) /\ snaps' = snaps /\ mode \notin {"off", "failed"} /\ mode # "off"
        /\ manifestDur' = manifestDur \/ manifestDur' = host.manifest
    BY <1>1 DEF OpenDone, RecoverResumes
  <2> QED
    BY <1>0, <2>1, BasesBumped
<1>2. CASE OpenCreate
  <2>1. /\ manifest' = FreshManifest /\ manifestDur' = FreshManifest
        /\ host'.manifest = FreshManifest /\ mode' = "running"
    BY <1>0, <1>2 DEF OpenCreate, HostAt, Sound
  <2>2. Listed(FreshManifest) /\ BasesOf(FreshManifest) = {GenesisBase}
    <3>1. FreshManifest.segments = << [index |-> 0, base |-> GenesisBase] >>
      BY DEF FreshManifest
    <3> QED
      BY <3>1, WorldFacts DEF Listed, BasesOf
  <2> QED
    BY <2>1, <2>2 DEF BaseInv, Based
<1>3. CASE OpenLoad
  <2>0. manifest # NoManifest /\ mode = "off" /\ Listed(manifest) /\ Based
    BY <1>3 DEF OpenLoad, BaseInv
  <2>1. PICK l \in Loaded :
          \/ mode' = "failed" /\ UNCHANGED << storage, host, sim >>
          \/ /\ manifest' = Healed(manifest, l.segment, l.base)
             /\ host' = HostAt(l.segment, l.offset, manifest')
             /\ UNCHANGED << snaps, snapsDur, manifestDur >> /\ mode' = "healing"
    BY <1>3 DEF OpenLoad
  <2>2. CASE mode' = "failed" /\ UNCHANGED << storage, host, sim >>
    BY <2>0, <2>2, BasesKept DEF storage
  <2>3. CASE /\ manifest' = Healed(manifest, l.segment, l.base)
             /\ host' = HostAt(l.segment, l.offset, manifest')
             /\ UNCHANGED << snaps, snapsDur, manifestDur >> /\ mode' = "healing"
    <3>1. /\ Listed(manifest')
          /\ \A b \in BasesOf(manifest') : b \in BasesOf(manifest) \/ snaps[b].ok
      BY <1>0, <2>0, <2>3, BasesHealed
    <3>2. Based'
      BY <2>0, <2>3, <3>1 DEF Based
    <3>3. host'.manifest = manifest'
      BY <2>3 DEF HostAt
    <3> QED
      BY <2>3, <3>1, <3>2, <3>3 DEF BaseInv
  <2> QED
    BY <2>1, <2>2, <2>3
<1>4. CASE RecoverReplays
  <2>0. /\ mode = "recovering" /\ mode' = "rebinding" /\ manifest # NoManifest
        /\ Listed(manifest) /\ Based /\ Listed(host.manifest)
        /\ MaxSegment > 0 => host.manifest = manifest
        /\ snaps' = snaps /\ manifestDur' = manifestDur
    BY <1>0, <1>4 DEF RecoverReplays, BaseInv
  <2>1. PICK l \in Loaded :
          LET healed == Healed(host.manifest, l.segment, l.base)
          IN  /\ host' = [host EXCEPT !.segment = l.segment, !.logOffset = l.offset,
                                      !.manifest = healed]
              /\ manifest' = IF healed # host.manifest THEN healed ELSE manifest
    BY <1>4 DEF RecoverReplays
  <2> PICK healed : healed = Healed(host.manifest, l.segment, l.base)
    OBVIOUS
  <2>2. /\ host'.manifest = healed
        /\ manifest' = healed \/ (manifest' = manifest /\ healed = host.manifest)
    BY <1>0, <2>1 DEF HostShape
  <2>3. /\ Listed(healed)
        /\ \A b \in BasesOf(healed) : b \in BasesOf(host.manifest) \/ snaps[b].ok
    BY <1>0, <2>0, BasesHealed DEF HostShape
  <2>4. Based'
    BY <2>0, <2>2, <2>3 DEF Based
  <2> QED
    BY <2>0, <2>2, <2>3, <2>4 DEF BaseInv
<1> QED
  BY <1>1, <1>2, <1>3, <1>4

LEMMA BasesStep ==
  ASSUME Moves, BaseInv, Next
  PROVE  BaseInv'
<1>0. mode # "off" => manifest # NoManifest
  BY MovesFrom
<1>1. CASE Admit
  <2>1. mode = "running" /\ UNCHANGED << manifest, manifestDur, host, mode, snaps >>
    BY <1>1 DEF Admit, storage
  <2> QED
    BY <1>0, <2>1, BasesKept
<1>2. CASE Tick
  BY <1>2, BasesTick
<1>3. CASE OpenCreate \/ OpenLoad \/ OpenDone \/ RecoverReplays \/ RecoverResumes
  BY <1>3, BasesOpen
<1>4. CASE Pause
  BY <1>4, BasesPause
<1>5. CASE TabCrash \/ OsCrash
  BY <1>5, BasesCrash
<1>6. CASE \/ OpenHealed \/ PruneOne \/ RecoverBegin \/ RecoverSkips \/ RecoverGivesUp
           \/ PauseFlushes \/ Resume \/ Exit \/ SyncDone \/ SnapshotLands \/ ManifestLands
           \/ CorruptSnapshot
  <2>1. CASE ~CorruptSnapshot
    <3>1. mode # "off"
      BY <1>6, <2>1 DEF OpenHealed, PruneOne, RecoverBegin, RecoverSkips, RecoverGivesUp,
           PauseFlushes, Resume, Exit, SyncDone, SnapshotLands, ManifestLands, Alive
    <3> QED
      BY <1>0, <1>6, <3>1, BasesStay
  <2>2. CASE CorruptSnapshot
    <3>1. manifest # NoManifest
      <4>1. \E t \in Ticks : snaps[t].ok
        BY <2>2 DEF CorruptSnapshot
      <4>2. ~Uncreated
        BY <4>1 DEF Uncreated, NoSnap
      <4> QED
        BY <4>2, MovesFrom
    <3> QED
      BY <1>6, <3>1, BasesStay
  <2> QED
    BY <2>1, <2>2
<1> QED
  BY <1>1, <1>2, <1>3, <1>4, <1>5, <1>6 DEF Next, Open, Recover, Boundary, Environment

(* Pruning never takes the snapshot a segment of the manifest starts from, *)
(* nor does a crash: a load that falls back to an earlier segment always   *)
(* finds one (pruneSnapshots and healManifest in persistence.ts).          *)
THEOREM PersistenceBasesKept ==
  ASSUME Sound
  PROVE  Spec => []BaseSnapshotsKept
<1>0. WritesLag => CreateSettled
  BY DEF Sound
<1>1. Init => BaseInv
  BY DEF Init, BaseInv
<1>2. Opened /\ WorldInv /\ (Opened /\ WorldInv)' /\ BaseInv /\ [Next]_vars => BaseInv'
  <2>1. ASSUME BaseInv, UNCHANGED vars PROVE BaseInv'
    BY <2>1 DEF vars, storage, BaseInv, Based
  <2>2. ASSUME Opened, WorldInv, BaseInv, Next PROVE BaseInv'
    <3>1. StaysOpened
      BY <1>0, <2>2, OpenedStep
    <3>2. Moves
      BY <2>2, <3>1 DEF Moves
    <3> QED
      BY <2>2, <3>2, BasesStep
  <2> QED
    BY <2>1, <2>2
<1>3. BaseInv /\ Opened /\ WorldInv => BaseSnapshotsKept
  <2> SUFFICES ASSUME BaseInv, Opened, Playing, NEW i \in DOMAIN host.manifest.segments,
                      host.manifest.segments[i].base # GenesisBase
               PROVE  snaps[host.manifest.segments[i].base].ok
    BY DEF BaseSnapshotsKept
  <2> PICK b : b = host.manifest.segments[i].base
    OBVIOUS
  <2>1. mode \notin {"off", "failed"} /\ manifest # NoManifest
    BY DEF Playing, Opened
  <2>2. b \in BasesOf(host.manifest) /\ b # GenesisBase
    BY DEF BasesOf
  <2>3. MaxSegment > 0
    <3>1. MaxSegment # 0
      BY <2>1, <2>2 DEF BaseInv, Listed
    <3> QED
      BY <3>1, WorldFacts
  <2> QED
    BY <2>1, <2>2, <2>3 DEF BaseInv, Based
<1>4. Spec => []BaseInv
  BY <1>1, <1>2, PersistenceInvariant, PTL DEF Spec
<1> QED
  BY <1>3, <1>4, PersistenceInvariant, PTL
=============================================================================
