------------------------- MODULE PacketQueueProofs -------------------------
(***************************************************************************)
(* Proofs about PacketQueue for every capacity that divides the index      *)
(* range, every slot size, every set of producers and every text.          *)
(*                                                                         *)
(* The inductive invariant IInv adds to type correctness and mutual        *)
(* exclusion what the registers of the thread inside the critical section  *)
(* know: a producer's index register is head and there is room, the        *)
(* worker's is tail and there is a packet, and the part of the slot        *)
(* already copied equals its source.                                       *)
(***************************************************************************)
EXTENDS PacketQueue, SequenceTheorems, TLAPS

-----------------------------------------------------------------------------
(* Wrapping indices: distances modulo m between two free-running counters,  *)
(* and slot numbers modulo a divisor c of m.                               *)

\* Division with remainder, as the arithmetic back end knows it.
LEMMA DivMod ==
  ASSUME NEW x \in Int, NEW c \in Nat \ {0}
  PROVE  /\ x \div c \in Int
         /\ (x % c) \in 0 .. c - 1
         /\ x = (c * (x \div c)) + (x % c)
  OBVIOUS

\* The remainder is the only number below the divisor that differs from x by a multiple of it.
LEMMA ModUnique ==
  ASSUME NEW x \in Int, NEW c \in Nat \ {0}, NEW q \in Int, NEW r \in 0 .. c - 1,
         x = (c * q) + r
  PROVE  (x % c) = r
<1> DEFINE p == x \div c
<1>1. p \in Int /\ (x % c) \in 0 .. c - 1 /\ c * p = x - (x % c) /\ c * q = x - r
  BY DivMod
<1> HIDE DEF p
<1>2. CASE q > p
  <2>1. c * (q - p) >= c
    BY <1>1, <1>2
  <2> QED
    BY <1>1, <2>1
<1>3. CASE q < p
  <2>1. c * (p - q) >= c
    BY <1>1, <1>3
  <2> QED
    BY <1>1, <2>1
<1>4. CASE q = p
  BY <1>1, <1>4
<1> QED
  BY <1>1, <1>2, <1>3, <1>4

\* A whole number of turns does not change the remainder.
LEMMA ModShift ==
  ASSUME NEW x \in Int, NEW c \in Nat \ {0}, NEW k \in Int
  PROVE  ((x + (c * k)) % c) = (x % c)
<1>1. /\ x \div c \in Int
      /\ (x % c) \in 0 .. c - 1
      /\ x + (c * k) = (c * ((x \div c) + k)) + (x % c)
  <2>1. /\ x \div c \in Int
        /\ (x % c) \in 0 .. c - 1
        /\ x = (c * (x \div c)) + (x % c)
    BY DivMod
  <2>2. c * ((x \div c) + k) = (c * (x \div c)) + (c * k)
    BY <2>1
  <2> QED
    BY <2>1, <2>2
<1>2. x + (c * k) \in Int /\ (x \div c) + k \in Int
  BY <1>1
<1> QED
  BY <1>1, <1>2, ModUnique

\* Two consequences for a number within one turn of [0, m).
LEMMA ModSmall ==
  ASSUME NEW m \in Nat \ {0}, NEW x \in 0 .. m - 1
  PROVE  (x % m) = x
<1>1. x = (m * 0) + x
  OBVIOUS
<1> QED
  BY <1>1, ModUnique

LEMMA ModOverOnce ==
  ASSUME NEW m \in Nat \ {0}, NEW x \in m .. (2 * m) - 1
  PROVE  (x % m) = x - m
<1>1. x = (m * 1) + (x - m) /\ x - m \in 0 .. m - 1
  OBVIOUS
<1> QED
  BY <1>1, ModUnique

LEMMA ModUnder ==
  ASSUME NEW m \in Nat \ {0}, NEW x \in (-m) .. -1
  PROVE  (x % m) = x + m
<1>1. x = (m * (-1)) + (x + m) /\ x + m \in 0 .. m - 1
  OBVIOUS
<1> QED
  BY <1>1, ModUnique

\* The distance of two indices, without the modulus.
LEMMA DistanceCases ==
  ASSUME NEW m \in Nat \ {0}, NEW h \in 0 .. m - 1, NEW t \in 0 .. m - 1
  PROVE  ((h - t) % m) = IF h >= t THEN h - t ELSE (h - t) + m
<1>1. CASE h >= t
  <2>1. h - t \in 0 .. m - 1
    BY <1>1
  <2> QED
    BY <1>1, <2>1, ModSmall
<1>2. CASE h < t
  <2>1. h - t \in (-m) .. -1
    BY <1>2
  <2> QED
    BY <1>2, <2>1, ModUnder
<1> QED
  BY <1>1, <1>2

\* An index k places after t, without the modulus.
LEMMA PlusCases ==
  ASSUME NEW m \in Nat \ {0}, NEW t \in 0 .. m - 1, NEW k \in 0 .. m
  PROVE  ((t + k) % m) = IF t + k < m THEN t + k ELSE (t + k) - m
<1>1. PICK z \in Int : z = t + k
  OBVIOUS
<1>2. (z % m) = IF z < m THEN z ELSE z - m
  <2>1. CASE z < m
    <3>1. z \in 0 .. m - 1
      BY <1>1, <2>1
    <3> QED
      BY <2>1, <3>1, ModSmall
  <2>2. CASE z >= m
    <3>1. z \in m .. (2 * m) - 1
      BY <1>1, <2>2
    <3> QED
      BY <2>2, <3>1, ModOverOnce
  <2> QED
    BY <2>1, <2>2
<1> QED
  BY <1>1, <1>2

\* Two indices fewer than c apart never share a slot, because the slots divide the index range.
LEMMA SlotsDiffer ==
  ASSUME NEW c \in Nat \ {0}, NEW m \in Nat \ {0}, (m % c) = 0, c < m,
         NEW x \in 0 .. m - 1, NEW k \in 1 .. c - 1
  PROVE  (((x + k) % m) % c) # (x % c)
<1>1. PICK z \in Int : z = x + k
  OBVIOUS
<1>2. PICK y \in Int, j \in {0, 1} : y = (z % m) /\ y = z - (m * j)
  <2>1. ((x + k) % m) = IF x + k < m THEN x + k ELSE (x + k) - m
    <3>1. k \in 0 .. m
      OBVIOUS
    <3> QED
      BY <3>1, PlusCases
  <2>2. (z % m) = IF z < m THEN z ELSE z - m
    BY <1>1, <2>1
  <2>3. CASE z < m
    <3>1. (z % m) = z - (m * 0)
      BY <2>2, <2>3
    <3> QED
      BY <3>1
  <2>4. CASE z >= m
    <3>1. (z % m) = z - (m * 1)
      BY <2>2, <2>4
    <3> QED
      BY <3>1
  <2> QED
    BY <2>3, <2>4
<1>3. PICK n \in Int : m = c * n
  <2>1. m \div c \in Int /\ m = (c * (m \div c)) + (m % c)
    BY DivMod
  <2> QED
    BY <2>1
<1>4. (y % c) = (z % c)
  <2>1. PICK w \in Int : w = -(n * j)
    OBVIOUS
  <2>2. y = z + (c * w)
    <3>1. CASE j = 0
      BY <1>2, <2>1, <3>1
    <3>2. CASE j = 1
      BY <1>2, <1>3, <2>1, <3>2
    <3> QED
      BY <3>1, <3>2
  <2>3. ((z + (c * w)) % c) = (z % c)
    BY ModShift
  <2> QED
    BY <2>2, <2>3
<1>5. (z % c) # (x % c)
  <2>1. PICK q \in Int, r \in 0 .. c - 1 : x = (c * q) + r /\ r = (x % c)
    <3>1. /\ x \div c \in Int
          /\ (x % c) \in 0 .. c - 1
          /\ x = (c * (x \div c)) + (x % c)
      BY DivMod
    <3> QED
      BY <3>1
  <2>2. CASE r + k < c
    <3>1. PICK s \in 0 .. c - 1 : s = r + k
      BY <2>2
    <3>2. z = (c * q) + s
      BY <1>1, <2>1, <3>1
    <3>3. (z % c) = s
      BY <3>2, ModUnique
    <3> QED
      BY <2>1, <3>1, <3>3
  <2>3. CASE r + k >= c
    <3>1. PICK s \in 0 .. c - 1 : s = (r + k) - c
      BY <2>3
    <3>2. PICK p \in Int : p = q + 1
      OBVIOUS
    <3>3. c * p = (c * q) + c
      BY <3>2
    <3>4. z = (c * p) + s
      BY <1>1, <2>1, <3>1, <3>3
    <3>5. (z % c) = s
      BY <3>4, ModUnique
    <3> QED
      BY <2>1, <3>1, <3>5
  <2> QED
    BY <2>2, <2>3
<1> QED
  BY <1>1, <1>2, <1>4, <1>5

-----------------------------------------------------------------------------
(* The invariant. *)

Bounded == Distance <= Capacity

ProducerRegisters ==
  \A p \in Producers :
    /\ pc[p] \in {"data", "len", "publish"} => index[p] = head /\ Distance < Capacity
    /\ pc[p] \in {"len", "publish"} => data[head % Capacity] = arg[p].body
    /\ pc[p] = "publish" => len[head % Capacity] = arg[p].len

ConsumerRegisters ==
  /\ pc[Consumer] \in {"copy", "advance"} =>
       /\ index[Consumer] = tail
       /\ tail # head
       /\ tmp.len = len[tail % Capacity]
  /\ pc[Consumer] = "advance" => tmp.body = data[tail % Capacity]

IInv ==
  /\ TypeOK
  /\ MutualExclusion
  /\ Bounded
  /\ ProducerRegisters
  /\ ConsumerRegisters

-----------------------------------------------------------------------------
(* Arithmetic of the indices, in the module's terms. *)

\* Both moduli are positive, and a slot number is one of the ring's slots.
LEMMA Positive ==
  /\ Capacity \in Nat \ {0}
  /\ IndexMod \in Nat \ {0}
  /\ IndexMod % Capacity = 0
  /\ Capacity < IndexMod
  BY QueueAssumption

LEMMA SlotInRange ==
  ASSUME NEW i \in Int
  PROVE  i % Capacity \in Slots
  BY DivMod, Positive DEF Slots

LEMMA IndexInRange ==
  ASSUME NEW i \in Int
  PROVE  i % IndexMod \in 0 .. IndexMod - 1
  BY DivMod, Positive

LEMMA ClipInRange ==
  ASSUME NEW n \in Nat
  PROVE  Clip(n) \in 0 .. SlotSize - 1
  BY QueueAssumption DEF Clip

\* head is Distance places after tail.
LEMMA HeadIsTailPlusDistance ==
  ASSUME head \in 0 .. IndexMod - 1, tail \in 0 .. IndexMod - 1
  PROVE  /\ Distance \in 0 .. IndexMod - 1
         /\ (tail + Distance) % IndexMod = head
         /\ Distance = 0 <=> tail = head
<1>1. Distance = IF head >= tail THEN head - tail ELSE (head - tail) + IndexMod
  BY DistanceCases, Positive DEF Distance
<1>2. Distance \in 0 .. IndexMod - 1
  BY <1>1, Positive
<1>3. PICK d \in 0 .. IndexMod - 1 : d = Distance
  BY <1>2
<1>4. ((tail + d) % IndexMod) = IF tail + d < IndexMod THEN tail + d ELSE (tail + d) - IndexMod
  <2>1. d \in 0 .. IndexMod
    BY Positive
  <2> QED
    BY <2>1, PlusCases, Positive
<1> QED
  BY <1>1, <1>2, <1>3, <1>4, Positive

\* Advancing head makes the distance one longer, as long as the ring is not full.
LEMMA DistanceAfterPush ==
  ASSUME head \in 0 .. IndexMod - 1, tail \in 0 .. IndexMod - 1, Distance < Capacity,
         head' = (head + 1) % IndexMod, tail' = tail
  PROVE  Distance' = Distance + 1
<1>1. Distance = IF head >= tail THEN head - tail ELSE (head - tail) + IndexMod
  BY DistanceCases, Positive DEF Distance
<1>2. ((head + 1) % IndexMod) = IF head + 1 < IndexMod THEN head + 1 ELSE (head + 1) - IndexMod
  <2>1. 1 \in 0 .. IndexMod
    BY Positive
  <2> QED
    BY <2>1, PlusCases, Positive
<1>3. head' \in 0 .. IndexMod - 1
  BY <1>2, Positive
<1>4. Distance' = IF head' >= tail THEN head' - tail ELSE (head' - tail) + IndexMod
  BY <1>3, DistanceCases, Positive DEF Distance
<1> QED
  BY <1>1, <1>2, <1>4, Positive

\* Advancing tail makes it one shorter, as long as the ring is not empty.
LEMMA DistanceAfterPop ==
  ASSUME head \in 0 .. IndexMod - 1, tail \in 0 .. IndexMod - 1, tail # head,
         tail' = (tail + 1) % IndexMod, head' = head
  PROVE  Distance' = Distance - 1
<1>1. Distance = IF head >= tail THEN head - tail ELSE (head - tail) + IndexMod
  BY DistanceCases, Positive DEF Distance
<1>2. ((tail + 1) % IndexMod) = IF tail + 1 < IndexMod THEN tail + 1 ELSE (tail + 1) - IndexMod
  <2>1. 1 \in 0 .. IndexMod
    BY Positive
  <2> QED
    BY <2>1, PlusCases, Positive
<1>3. tail' \in 0 .. IndexMod - 1
  BY <1>2, Positive
<1>4. Distance' = IF head >= tail' THEN head - tail' ELSE (head - tail') + IndexMod
  BY <1>3, DistanceCases, Positive DEF Distance
<1> QED
  BY <1>1, <1>2, <1>4, Positive

\* The i-th waiting packet is not in the slot head will write next, unless the ring is full.
LEMMA HeadSlotIsFree ==
  ASSUME head \in 0 .. IndexMod - 1, tail \in 0 .. IndexMod - 1, Distance < Capacity,
         NEW i \in 1 .. Distance
  PROVE  /\ (tail + i - 1) % IndexMod \in 0 .. IndexMod - 1
         /\ ((tail + i - 1) % IndexMod) % Capacity # head % Capacity
<1>1. Distance \in 0 .. IndexMod - 1 /\ (tail + Distance) % IndexMod = head
  BY HeadIsTailPlusDistance
<1>2. PICK d \in 0 .. IndexMod - 1 : d = Distance
  BY <1>1
<1>3. PICK x \in 0 .. IndexMod - 1 : x = (tail + i - 1) % IndexMod
  <2>1. tail + i - 1 \in Int
    BY <1>2, Positive
  <2> QED
    BY <2>1, IndexInRange
<1>4. PICK k \in 1 .. Capacity - 1 : k = (d - i) + 1
  BY <1>2, Positive
<1>5. ((x + k) % IndexMod) = head
  <2>1. PICK j \in 0 .. IndexMod : j = i - 1
    BY <1>2, Positive
  <2>2. x = IF tail + j < IndexMod THEN tail + j ELSE (tail + j) - IndexMod
    <3>1. ((tail + j) % IndexMod) = IF tail + j < IndexMod THEN tail + j ELSE (tail + j) - IndexMod
      BY PlusCases, Positive
    <3>2. tail + j = tail + i - 1
      BY <2>1, <1>2, Positive
    <3> QED
      BY <1>3, <3>1, <3>2
  <2>3. k \in 0 .. IndexMod
    BY Positive
  <2>4. ((x + k) % IndexMod) = IF x + k < IndexMod THEN x + k ELSE (x + k) - IndexMod
    BY <2>3, PlusCases, Positive
  <2>5. d \in 0 .. IndexMod
    BY Positive
  <2>6. ((tail + d) % IndexMod) = IF tail + d < IndexMod THEN tail + d ELSE (tail + d) - IndexMod
    BY <2>5, PlusCases, Positive
  <2> QED
    BY <1>1, <1>2, <1>4, <2>1, <2>2, <2>4, <2>6, Positive
<1>6. (((x + k) % IndexMod) % Capacity) # (x % Capacity)
  BY SlotsDiffer, Positive
<1> QED
  BY <1>3, <1>5, <1>6

-----------------------------------------------------------------------------
(* The inductive invariant. *)

\* What every step but Acquire and Release leaves alone, and where it moves its own thread.
LEMMA TypeInit == Init => TypeOK
<1> SUFFICES ASSUME Init PROVE TypeOK
  OBVIOUS
<1>1. NoText \in Copies /\ NoArg \in [body : Bodies \cup {NoBody}, len : 0 .. SlotSize - 1]
  BY QueueAssumption DEF NoText, NoArg, Copies
<1> QED
  BY <1>1, Positive, QueueAssumption DEF Init, TypeOK, Slots, Threads

LEMMA TypeStep == TypeOK /\ [Next]_vars => TypeOK'
<1> SUFFICES ASSUME TypeOK, [Next]_vars PROVE TypeOK'
  OBVIOUS
<1>1. NoText \in Copies /\ NoArg \in [body : Bodies \cup {NoBody}, len : 0 .. SlotSize - 1]
  BY QueueAssumption DEF NoText, NoArg, Copies
<1> USE DEF TypeOK, Goto, Holding
<1>2. ASSUME NEW t \in Threads, Acquire(t) PROVE TypeOK'
  BY <1>2 DEF Acquire
<1>3. ASSUME NEW t \in Threads, Release(t) PROVE TypeOK'
  BY <1>1, <1>3, Positive DEF Release, Threads
<1>4. ASSUME NEW p \in Producers, PushBegin(p) PROVE TypeOK'
  <2>1. PICK text \in Texts :
          arg' = [arg EXCEPT ![p] = [body |-> text.body, len |-> Clip(text.len)]]
    BY <1>4 DEF PushBegin
  <2>2. text.body \in Bodies /\ text.len \in Nat
    BY TextAssumption
  <2>3. Clip(text.len) \in 0 .. SlotSize - 1
    BY <2>2, ClipInRange
  <2> QED
    BY <1>4, <2>1, <2>2, <2>3 DEF PushBegin
<1>5. ASSUME NEW p \in Producers, Push(p) PROVE TypeOK'
  <2>0. p \in Threads
    BY DEF Threads
  <2>1. CASE PushFull(p)
    BY <2>0, <2>1, IndexInRange DEF PushFull
  <2>2. CASE PushLoad(p)
    BY <2>0, <2>2 DEF PushLoad
  <2>3. CASE PushData(p)
    BY <2>0, <2>3 DEF PushData
  <2>4. CASE PushLen(p)
    BY <2>0, <2>4 DEF PushLen
  <2>5. CASE PushPublish(p)
    BY <2>0, <2>5, IndexInRange DEF PushPublish
  <2> QED
    BY <1>5, <2>1, <2>2, <2>3, <2>4, <2>5 DEF Push
<1>6. ASSUME PopBegin(Consumer) PROVE TypeOK'
  BY <1>6 DEF PopBegin, Threads
<1>7. ASSUME Pop(Consumer) PROVE TypeOK'
  <2>0. Consumer \in Threads
    BY DEF Threads
  <2>1. CASE PopEmpty(Consumer)
    BY <2>0, <2>1 DEF PopEmpty
  <2>2. CASE PopLoad(Consumer)
    <3>1. len[tail % Capacity] \in 0 .. SlotSize - 1
      BY SlotInRange
    <3>2. Clip(len[tail % Capacity]) \in 0 .. SlotSize - 1
      BY <3>1, ClipInRange
    <3> QED
      BY <2>0, <2>2, <3>2 DEF PopLoad, Copies
  <2>3. CASE PopCopy(Consumer)
    <3>1. data[index[Consumer] % Capacity] \in Bodies \cup {NoBody}
      BY <2>0, SlotInRange
    <3> QED
      BY <2>0, <2>3, <3>1 DEF PopCopy, Copies
  <2>4. CASE PopAdvance(Consumer)
    BY <2>0, <2>4, IndexInRange DEF PopAdvance
  <2> QED
    BY <1>7, <2>1, <2>2, <2>3, <2>4 DEF Pop
<1>8. ASSUME PopAssign(Consumer) PROVE TypeOK'
  BY <1>1, <1>8 DEF PopAssign, Threads
<1>9. CASE UNCHANGED vars
  BY <1>9 DEF vars
<1> QED
  BY <1>2, <1>3, <1>4, <1>5, <1>6, <1>7, <1>8, <1>9 DEF Next

\* Every variable keeps its type: indices wrap below IndexMod, and no slot, stack copy or returned
\* string ever holds SlotSize bytes or more.
THEOREM TypeCorrect == Spec => []TypeOK
<1>1. Init => TypeOK
  BY TypeInit
<1>2. TypeOK /\ [Next]_vars => TypeOK'
  BY TypeStep
<1> QED
  BY <1>1, <1>2, PTL DEF Spec

LEMMA MutexStep == TypeOK /\ MutualExclusion /\ [Next]_vars => MutualExclusion'
<1> SUFFICES ASSUME TypeOK, MutualExclusion, [Next]_vars PROVE MutualExclusion'
  OBVIOUS
<1> USE DEF MutualExclusion, TypeOK, Goto, Holding
<1>1. ASSUME NEW t \in Threads, Acquire(t) PROVE MutualExclusion'
  BY <1>1, ThreadAssumption DEF Acquire
<1>2. ASSUME NEW t \in Threads, Release(t) PROVE MutualExclusion'
  BY <1>2 DEF Release
<1>3. ASSUME NEW p \in Producers, PushBegin(p) PROVE MutualExclusion'
  BY <1>3 DEF PushBegin, Threads
<1>4. ASSUME NEW p \in Producers, Push(p) PROVE MutualExclusion'
  BY <1>4 DEF Push, PushFull, PushLoad, PushData, PushLen, PushPublish, Threads
<1>5. ASSUME PopBegin(Consumer) PROVE MutualExclusion'
  BY <1>5 DEF PopBegin, Threads
<1>6. ASSUME Pop(Consumer) PROVE MutualExclusion'
  BY <1>6 DEF Pop, PopEmpty, PopLoad, PopCopy, PopAdvance, Threads
<1>7. ASSUME PopAssign(Consumer) PROVE MutualExclusion'
  BY <1>7 DEF PopAssign, Threads
<1>8. CASE UNCHANGED vars
  BY <1>8 DEF vars
<1> QED
  BY <1>1, <1>2, <1>3, <1>4, <1>5, <1>6, <1>7, <1>8 DEF Next

\* The spinlock excludes: never two threads between lock() and unlock().
THEOREM MutexHolds == Spec => []MutualExclusion
<1>1. Init => MutualExclusion
  BY DEF Init, MutualExclusion, Holding
<1>2. TypeOK /\ MutualExclusion /\ [Next]_vars => MutualExclusion'
  BY MutexStep
<1> QED
  BY <1>1, <1>2, TypeCorrect, PTL DEF Spec

-----------------------------------------------------------------------------
(* What the thread inside the critical section knows. *)

\* Under the invariant at most one thread is inside, so a step of one thread inside leaves the
\* others outside.
LEMMA OneInside ==
  ASSUME MutualExclusion, NEW t \in Threads, NEW u \in Threads,
         pc[t] \in Holding, pc[u] \in Holding
  PROVE  t = u
  BY DEF MutualExclusion

LEMMA RegistersStep == IInv /\ [Next]_vars => (Bounded /\ ProducerRegisters /\ ConsumerRegisters)'
<1> SUFFICES ASSUME IInv, [Next]_vars
             PROVE  /\ Bounded'
                    /\ ProducerRegisters'
                    /\ ConsumerRegisters'
  OBVIOUS
<1> USE DEF Goto
<1>0. /\ TypeOK /\ MutualExclusion /\ Bounded /\ ProducerRegisters /\ ConsumerRegisters
      /\ head \in 0 .. IndexMod - 1 /\ tail \in 0 .. IndexMod - 1
      /\ pc \in [Threads -> Holding \cup {"idle", "spin", "assign"}]
  BY DEF IInv, TypeOK
<1>t. Consumer \in Threads /\ Producers \subseteq Threads /\ Consumer \notin Producers
  BY ThreadAssumption DEF Threads
<1>1. ASSUME NEW t \in Threads, Acquire(t)
      PROVE  Bounded' /\ ProducerRegisters' /\ ConsumerRegisters'
  <2>1. Distance' = Distance
    BY <1>1 DEF Acquire, Distance
  <2> QED
    BY <1>0, <1>1, <1>t, <2>1 DEF Acquire, Bounded, ProducerRegisters, ConsumerRegisters
<1>2. ASSUME NEW t \in Threads, Release(t)
      PROVE  Bounded' /\ ProducerRegisters' /\ ConsumerRegisters'
  <2>1. Distance' = Distance
    BY <1>2 DEF Release, Distance
  <2>2. pc'[t] \in {"idle", "assign"} /\ \A u \in Threads \ {t} : pc'[u] = pc[u]
    BY <1>0, <1>2 DEF Release
  <2>3. \A p \in Producers \ {t} : arg'[p] = arg[p] /\ index'[p] = index[p]
    BY <1>2, <1>0, <1>t DEF Release, TypeOK
  <2>4. Consumer # t => index'[Consumer] = index[Consumer]
    BY <1>2, <1>0, <1>t DEF Release, TypeOK
  <2>5. UNCHANGED <<head, tail, data, len, tmp>>
    BY <1>2 DEF Release
  <2>6. Bounded'
    BY <1>0, <2>1 DEF Bounded
  <2>7. ProducerRegisters'
    BY <1>0, <1>t, <2>1, <2>2, <2>3, <2>5 DEF ProducerRegisters
  <2>8. ConsumerRegisters'
    BY <1>0, <1>t, <2>2, <2>4, <2>5 DEF ConsumerRegisters
  <2> QED
    BY <2>6, <2>7, <2>8
<1>3. ASSUME NEW p \in Producers, PushBegin(p)
      PROVE  Bounded' /\ ProducerRegisters' /\ ConsumerRegisters'
  <2>1. Distance' = Distance
    BY <1>3 DEF PushBegin, Distance
  <2>2. pc'[p] = "spin" /\ \A u \in Threads \ {p} : pc'[u] = pc[u]
    BY <1>0, <1>3, <1>t DEF PushBegin
  <2>3. \A q \in Producers \ {p} : arg'[q] = arg[q]
    BY <1>3, <1>0, <1>t DEF PushBegin, TypeOK
  <2>4. UNCHANGED <<head, tail, data, len, index, tmp>>
    BY <1>3 DEF PushBegin
  <2> QED
    BY <1>0, <1>t, <2>1, <2>2, <2>3, <2>4 DEF Bounded, ProducerRegisters, ConsumerRegisters
<1>4. ASSUME NEW p \in Producers, Push(p)
      PROVE  Bounded' /\ ProducerRegisters' /\ ConsumerRegisters'
  <2>0. /\ pc[p] \in Holding
        /\ p \in Threads
        /\ \A u \in Threads \ {p} : pc'[u] = pc[u] /\ pc[u] \notin Holding
    <3>1. pc[p] \in Holding /\ p \in Threads
      BY <1>4, <1>t DEF Push, PushFull, PushLoad, PushData, PushLen, PushPublish, Holding
    <3>2. \A u \in Threads \ {p} : pc'[u] = pc[u]
      BY <1>4, <1>0 DEF Push, PushFull, PushLoad, PushData, PushLen, PushPublish
    <3> QED
      BY <1>0, <3>1, <3>2, OneInside
  <2>c. ConsumerRegisters'
    BY <2>0, <1>t DEF ConsumerRegisters, Holding
  <2>q. \A q \in Producers \ {p} : pc'[q] \notin {"data", "len", "publish"}
    BY <2>0, <1>t DEF Holding
  <2>1. CASE PushFull(p)
    <3>1. Distance' = Distance
      BY <2>1 DEF PushFull, Distance
    <3>2. pc'[p] = "unlock"
      BY <1>0, <1>t, <2>1 DEF PushFull
    <3> QED
      BY <1>0, <2>c, <2>q, <3>1, <3>2 DEF Bounded, ProducerRegisters
  <2>2. CASE PushLoad(p)
    <3>1. Distance' = Distance
      BY <2>2 DEF PushLoad, Distance
    <3>2. pc'[p] = "data" /\ index'[p] = head /\ head' = head
      BY <1>0, <1>t, <2>2 DEF PushLoad, TypeOK
    <3>3. Distance < Capacity
      BY <2>2, <1>0, HeadIsTailPlusDistance, Positive DEF PushLoad, Full
    <3> QED
      BY <1>0, <2>c, <2>q, <3>1, <3>2, <3>3 DEF Bounded, ProducerRegisters
  <2>3. CASE PushData(p)
    <3>1. Distance' = Distance /\ head' = head
      BY <2>3 DEF PushData, Distance
    <3>2. pc[p] = "data" /\ pc'[p] = "len" /\ index'[p] = index[p] /\ arg' = arg
      BY <1>0, <1>t, <2>3 DEF PushData
    <3>3. index[p] = head /\ Distance < Capacity
      BY <1>0, <3>2 DEF ProducerRegisters
    <3>4. data'[head % Capacity] = arg[p].body
      BY <1>0, <2>3, <3>3, SlotInRange DEF PushData, TypeOK
    <3> QED
      BY <1>0, <2>c, <2>q, <3>1, <3>2, <3>3, <3>4 DEF Bounded, ProducerRegisters
  <2>4. CASE PushLen(p)
    <3>1. Distance' = Distance /\ head' = head
      BY <2>4 DEF PushLen, Distance
    <3>2. pc[p] = "len" /\ pc'[p] = "publish" /\ index'[p] = index[p] /\ arg' = arg /\ data' = data
      BY <1>0, <1>t, <2>4 DEF PushLen
    <3>3. index[p] = head /\ Distance < Capacity /\ data[head % Capacity] = arg[p].body
      BY <1>0, <3>2 DEF ProducerRegisters
    <3>4. len'[head % Capacity] = arg[p].len
      BY <1>0, <2>4, <3>3, SlotInRange DEF PushLen, TypeOK
    <3> QED
      BY <1>0, <2>c, <2>q, <3>1, <3>2, <3>3, <3>4 DEF Bounded, ProducerRegisters
  <2>5. CASE PushPublish(p)
    <3>1. pc[p] = "publish" /\ pc'[p] = "unlock"
      BY <1>0, <1>t, <2>5 DEF PushPublish
    <3>2. index[p] = head /\ Distance < Capacity
      BY <1>0, <3>1 DEF ProducerRegisters
    <3>3. Distance' = Distance + 1
      BY <1>0, <2>5, <3>2, DistanceAfterPush DEF PushPublish
    <3>4. Bounded'
      BY <1>0, <3>2, <3>3, HeadIsTailPlusDistance, Positive DEF Bounded
    <3> QED
      BY <2>c, <2>q, <3>1, <3>4 DEF ProducerRegisters
  <2> QED
    BY <1>4, <2>1, <2>2, <2>3, <2>4, <2>5 DEF Push
<1>5. ASSUME PopBegin(Consumer)
      PROVE  Bounded' /\ ProducerRegisters' /\ ConsumerRegisters'
  <2>1. Distance' = Distance
    BY <1>5 DEF PopBegin, Distance
  <2> QED
    BY <1>0, <1>5, <1>t, <2>1 DEF PopBegin, Bounded, ProducerRegisters, ConsumerRegisters
<1>6. ASSUME Pop(Consumer)
      PROVE  Bounded' /\ ProducerRegisters' /\ ConsumerRegisters'
  <2>0. \A u \in Threads \ {Consumer} : pc'[u] = pc[u] /\ pc[u] \notin Holding
    <3>1. pc[Consumer] \in Holding
      BY <1>6 DEF Pop, PopEmpty, PopLoad, PopCopy, PopAdvance, Holding
    <3>2. \A u \in Threads \ {Consumer} : pc'[u] = pc[u]
      BY <1>6, <1>0 DEF Pop, PopEmpty, PopLoad, PopCopy, PopAdvance
    <3> QED
      BY <1>0, <1>t, <3>1, <3>2, OneInside
  <2>p. ProducerRegisters'
    BY <2>0, <1>t DEF ProducerRegisters, Holding
  <2>1. CASE PopEmpty(Consumer)
    <3>1. Distance' = Distance
      BY <2>1 DEF PopEmpty, Distance
    <3>2. pc'[Consumer] = "unlock"
      BY <1>0, <1>t, <2>1 DEF PopEmpty
    <3> QED
      BY <1>0, <2>p, <3>1, <3>2 DEF Bounded, ConsumerRegisters
  <2>2. CASE PopLoad(Consumer)
    <3>1. Distance' = Distance
      BY <2>2 DEF PopLoad, Distance
    <3>2. /\ pc'[Consumer] = "copy"
          /\ index'[Consumer] = tail
          /\ tail # head
          /\ UNCHANGED <<tail, head, len>>
      BY <1>0, <1>t, <2>2 DEF PopLoad, TypeOK
    <3>3. Clip(len[tail % Capacity]) = len[tail % Capacity]
      <4>1. len[tail % Capacity] \in 0 .. SlotSize - 1
        BY <1>0, SlotInRange DEF TypeOK
      <4> QED
        BY <4>1, QueueAssumption DEF Clip
    <3>4. tmp'.len = len[tail % Capacity]
      BY <1>0, <2>2, <3>3 DEF PopLoad, TypeOK, Copies
    <3> QED
      BY <1>0, <2>p, <3>1, <3>2, <3>4 DEF Bounded, ConsumerRegisters
  <2>3. CASE PopCopy(Consumer)
    <3>1. Distance' = Distance
      BY <2>3 DEF PopCopy, Distance
    <3>2. /\ pc[Consumer] = "copy" /\ pc'[Consumer] = "advance"
          /\ UNCHANGED <<tail, head, len, data, index>>
      BY <1>0, <1>t, <2>3 DEF PopCopy
    <3>3. index[Consumer] = tail /\ tail # head /\ tmp.len = len[tail % Capacity]
      BY <1>0, <3>2 DEF ConsumerRegisters
    <3>4. tmp'.len = tmp.len /\ tmp'.body = data[tail % Capacity]
      BY <1>0, <2>3, <3>3 DEF PopCopy, TypeOK, Copies
    <3> QED
      BY <1>0, <2>p, <3>1, <3>2, <3>3, <3>4 DEF Bounded, ConsumerRegisters
  <2>4. CASE PopAdvance(Consumer)
    <3>1. pc[Consumer] = "advance" /\ pc'[Consumer] = "unlockTaken"
      BY <1>0, <1>t, <2>4 DEF PopAdvance
    <3>2. index[Consumer] = tail /\ tail # head
      BY <1>0, <3>1 DEF ConsumerRegisters
    <3>3. Distance' = Distance - 1
      BY <1>0, <2>4, <3>2, DistanceAfterPop DEF PopAdvance
    <3>4. Bounded'
      BY <1>0, <3>3, HeadIsTailPlusDistance, Positive DEF Bounded
    <3> QED
      BY <2>p, <3>1, <3>4 DEF ConsumerRegisters
  <2> QED
    BY <1>6, <2>1, <2>2, <2>3, <2>4 DEF Pop
<1>7. ASSUME PopAssign(Consumer)
      PROVE  Bounded' /\ ProducerRegisters' /\ ConsumerRegisters'
  <2>1. Distance' = Distance
    BY <1>7 DEF PopAssign, Distance
  <2>2. pc'[Consumer] = "idle" /\ \A u \in Threads \ {Consumer} : pc'[u] = pc[u]
    BY <1>0, <1>t, <1>7 DEF PopAssign
  <2>3. UNCHANGED <<head, tail, data, len, arg, index>>
    BY <1>7 DEF PopAssign
  <2> QED
    BY <1>0, <1>t, <2>1, <2>2, <2>3 DEF Bounded, ProducerRegisters, ConsumerRegisters
<1>8. CASE UNCHANGED vars
  <2>1. Distance' = Distance
    BY <1>8 DEF vars, Distance
  <2> QED
    BY <1>0, <1>8, <2>1 DEF vars, Bounded, ProducerRegisters, ConsumerRegisters
<1> QED
  BY <1>1, <1>2, <1>3, <1>4, <1>5, <1>6, <1>7, <1>8 DEF Next

LEMMA InitIInv == Init => IInv
<1> SUFFICES ASSUME Init PROVE IInv
  OBVIOUS
<1>1. head \in 0 .. IndexMod - 1 /\ tail \in 0 .. IndexMod - 1 /\ tail = head
  BY Positive DEF Init
<1>2. Distance = 0
  BY <1>1, HeadIsTailPlusDistance
<1> QED
  BY <1>2, TypeInit, Positive, ThreadAssumption
  DEF Init, IInv, MutualExclusion, Holding, Bounded, ProducerRegisters, ConsumerRegisters, Threads

THEOREM IInvHolds == Spec => []IInv
<1>1. Init => IInv
  BY InitIInv
<1>2. IInv /\ [Next]_vars => IInv'
  BY TypeStep, MutexStep, RegistersStep DEF IInv
<1> QED
  BY <1>1, <1>2, PTL DEF Spec

\* A producer never writes a slot that holds a waiting packet and the worker copies the oldest one.
THEOREM SlotsAreDisjoint == Spec => []SlotsDisjoint
<1>1. IInv => SlotsDisjoint
  <2> SUFFICES ASSUME IInv PROVE SlotsDisjoint
    OBVIOUS
  <2>1. head \in 0 .. IndexMod - 1 /\ tail \in 0 .. IndexMod - 1
    BY DEF IInv, TypeOK
  <2>2. ASSUME NEW p \in Producers, pc[p] \in {"data", "len", "publish"},
               NEW i \in 1 .. Distance
        PROVE  index[p] % Capacity # ((tail + i - 1) % IndexMod) % Capacity
    <3>1. index[p] = head /\ Distance < Capacity
      BY <2>2 DEF IInv, ProducerRegisters
    <3> QED
      BY <2>1, <3>1, HeadSlotIsFree
  <2>3. pc[Consumer] \in {"copy", "advance"} => index[Consumer] = tail /\ Distance > 0
    BY <2>1, HeadIsTailPlusDistance DEF IInv, ConsumerRegisters
  <2> QED
    BY <2>2, <2>3 DEF IInv, Bounded, SlotsDisjoint
<1> QED
  BY <1>1, IInvHolds, PTL

-----------------------------------------------------------------------------
(* PacketQueue implements BoundedFifo for every value of its constants.    *)
(* The buffer is Contents, the slots from tail to head; a push takes       *)
(* effect when it stores head, a pop when it stores tail, and a refused    *)
(* push when it counts itself.  Every other step leaves the buffer as it   *)
(* is: the two that write a slot do so because that slot is not one of     *)
(* the waiting ones (HeadSlotIsFree), the copy steps because the worker's  *)
(* stack copy only stands for the packet taken once tail has moved.        *)

Copy(p) == [body |-> arg[p].body, len |-> arg[p].len]

LEMMA SlotAtType ==
  ASSUME TypeOK, NEW i \in Int
  PROVE  SlotAt(i) \in Copies
<1>1. i % Capacity \in Slots
  BY SlotInRange
<1> QED
  BY <1>1 DEF TypeOK, SlotAt, Copies

\* Contents is a sequence of as many slots as the distance of the indices.
ContentsOK ==
  /\ Contents \in Seq(Copies)
  /\ Len(Contents) = Distance
  /\ Distance \in Nat
  /\ \A i \in 1 .. Distance : Contents[i] = SlotAt((tail + i - 1) % IndexMod)

LEMMA ContentsIsSeq == TypeOK => ContentsOK
<1> SUFFICES ASSUME TypeOK PROVE ContentsOK
  OBVIOUS
<1>1. Distance \in Nat
  BY HeadIsTailPlusDistance, Positive DEF TypeOK
<1>2. ASSUME NEW i \in 1 .. Distance
      PROVE  SlotAt((tail + i - 1) % IndexMod) \in Copies
  <2>1. tail + i - 1 \in Int
    BY <1>1 DEF TypeOK
  <2>2. (tail + i - 1) % IndexMod \in Int
    BY <2>1, IndexInRange
  <2> QED
    BY <2>2, SlotAtType
<1>3. Contents \in [1 .. Distance -> Copies]
  BY <1>2 DEF Contents
<1> QED
  BY <1>1, <1>3 DEF Contents, ContentsOK

LEMMA ContentsIsSeqNext == TypeOK' => ContentsOK'
  BY ContentsIsSeq, PTL

\* A step that moves no index and writes no waiting slot leaves the buffer as it is.
LEMMA ContentsUnchanged ==
  ASSUME TypeOK, UNCHANGED <<head, tail>>,
         \A i \in 1 .. Distance :
           (SlotAt((tail + i - 1) % IndexMod))' = SlotAt((tail + i - 1) % IndexMod)
  PROVE  Contents' = Contents
<1>1. Distance' = Distance
  BY DEF Distance
<1> QED
  BY <1>1 DEF Contents

LEMMA ContentsSameSlots ==
  ASSUME TypeOK, UNCHANGED <<head, tail, data, len>>
  PROVE  Contents' = Contents
<1>1. Distance' = Distance
  BY DEF Distance
<1> QED
  BY <1>1 DEF Contents, SlotAt

\* Storing head appends the text the producer copied into the slot.
LEMMA PublishAppends ==
  ASSUME IInv, NEW p \in Producers, PushPublish(p), TypeOK'
  PROVE  /\ Len(Contents) < Capacity
         /\ Copy(p) \in Copies
         /\ Contents' = Append(Contents, Copy(p))
<1>0. TypeOK /\ head \in 0 .. IndexMod - 1 /\ tail \in 0 .. IndexMod - 1
  BY DEF IInv, TypeOK
<1>1. /\ index[p] = head /\ Distance < Capacity
      /\ data[head % Capacity] = arg[p].body
      /\ len[head % Capacity] = arg[p].len
  BY DEF IInv, ProducerRegisters, PushPublish, Goto
<1>2. Distance' = Distance + 1 /\ tail' = tail /\ data' = data /\ len' = len
  BY <1>0, <1>1, DistanceAfterPush DEF PushPublish
<1>3. /\ Contents \in Seq(Copies) /\ Len(Contents) = Distance /\ Distance \in Nat
      /\ \A i \in 1 .. Distance : Contents[i] = SlotAt((tail + i - 1) % IndexMod)
  BY <1>0, ContentsIsSeq DEF ContentsOK
<1>4. /\ Contents' \in Seq(Copies) /\ Len(Contents') = Distance + 1
      /\ \A i \in 1 .. Distance + 1 : Contents'[i] = SlotAt((tail + i - 1) % IndexMod)
  <2>1. /\ Contents' \in Seq(Copies) /\ Len(Contents') = Distance'
        /\ \A i \in 1 .. Distance' : Contents'[i] = (SlotAt((tail + i - 1) % IndexMod))'
    BY ContentsIsSeqNext DEF ContentsOK
  <2> QED
    BY <1>2, <2>1 DEF SlotAt
<1>5. Copy(p) \in Copies
  BY <1>0 DEF TypeOK, Copy, Copies
<1>6. SlotAt((tail + (Distance + 1) - 1) % IndexMod) = Copy(p)
  <2>1. tail + (Distance + 1) - 1 = tail + Distance
    BY <1>0, <1>3
  <2>2. (tail + Distance) % IndexMod = head
    BY <1>0, HeadIsTailPlusDistance
  <2> QED
    BY <1>1, <2>1, <2>2 DEF SlotAt, Copy
<1>7. /\ Append(Contents, Copy(p)) \in Seq(Copies)
      /\ Len(Append(Contents, Copy(p))) = Distance + 1
      /\ \A i \in 1 .. Distance : Append(Contents, Copy(p))[i] = Contents[i]
      /\ Append(Contents, Copy(p))[Distance + 1] = Copy(p)
  BY <1>3, <1>5, AppendProperties
<1>8. ASSUME NEW i \in 1 .. Distance + 1
      PROVE  Contents'[i] = Append(Contents, Copy(p))[i]
  <2>1. CASE i = Distance + 1
    BY <1>3, <1>4, <1>6, <1>7, <2>1
  <2>2. CASE i # Distance + 1
    <3>1. i \in 1 .. Distance
      BY <1>3, <2>2
    <3> QED
      BY <1>3, <1>4, <1>7, <3>1
  <2> QED
    BY <2>1, <2>2
<1> QED
  BY <1>1, <1>3, <1>4, <1>5, <1>7, <1>8, SeqEqual

\* Storing tail takes the oldest packet, the one the worker copied.
LEMMA AdvanceDelivers ==
  ASSUME IInv, PopAdvance(Consumer), TypeOK'
  PROVE  /\ Contents # <<>>
         /\ tmp = Head(Contents)
         /\ Contents' = Tail(Contents)
<1>0. TypeOK /\ head \in 0 .. IndexMod - 1 /\ tail \in 0 .. IndexMod - 1 /\ tmp \in Copies
  BY DEF IInv, TypeOK
<1>1. /\ index[Consumer] = tail /\ tail # head
      /\ tmp.len = len[tail % Capacity] /\ tmp.body = data[tail % Capacity]
  BY DEF IInv, ConsumerRegisters, PopAdvance, Goto
<1>2. Distance' = Distance - 1 /\ tail' = (tail + 1) % IndexMod /\ data' = data /\ len' = len
  BY <1>0, <1>1, DistanceAfterPop DEF PopAdvance
<1>3. /\ Contents \in Seq(Copies) /\ Len(Contents) = Distance /\ Distance \in Nat /\ Distance # 0
      /\ \A i \in 1 .. Distance : Contents[i] = SlotAt((tail + i - 1) % IndexMod)
  BY <1>0, <1>1, ContentsIsSeq, HeadIsTailPlusDistance DEF ContentsOK
<1>4. Contents # <<>>
  BY <1>3, EmptySeq
<1>5. tmp = Head(Contents)
  <2>1. (tail + 1 - 1) % IndexMod = tail
    <3>1. tail + 1 - 1 = tail
      BY <1>0
    <3> QED
      BY <1>0, <3>1, ModSmall, Positive
  <2>2. Contents[1] = SlotAt(tail)
    BY <1>3, <2>1
  <2>3. tmp = SlotAt(tail)
    BY <1>0, <1>1 DEF SlotAt, Copies
  <2> QED
    BY <1>3, <1>4, <2>2, <2>3
<1>6. /\ Contents' \in Seq(Copies) /\ Len(Contents') = Distance - 1
      /\ \A i \in 1 .. Distance - 1 : Contents'[i] = SlotAt((tail' + i - 1) % IndexMod)
  <2>1. /\ Contents' \in Seq(Copies) /\ Len(Contents') = Distance'
        /\ \A i \in 1 .. Distance' : Contents'[i] = (SlotAt((tail + i - 1) % IndexMod))'
    BY ContentsIsSeqNext DEF ContentsOK
  <2> QED
    BY <1>2, <2>1 DEF SlotAt
<1>7. /\ Tail(Contents) \in Seq(Copies)
      /\ Len(Tail(Contents)) = Distance - 1
      /\ \A i \in 1 .. Distance - 1 : Tail(Contents)[i] = Contents[i + 1]
  BY <1>3, <1>4, HeadTailProperties
<1>8. ASSUME NEW i \in 1 .. Distance - 1
      PROVE  Contents'[i] = Tail(Contents)[i]
  <2>1. (tail' + i - 1) % IndexMod = (tail + (i + 1) - 1) % IndexMod
    <3>0. Distance < IndexMod
      BY <1>0, HeadIsTailPlusDistance, Positive
    <3>1. PICK j \in 0 .. IndexMod : j = i - 1
      BY <1>3, <3>0, Positive
    <3>2. PICK k \in 0 .. IndexMod : k = i
      BY <1>3, <3>0, Positive
    <3>3. tail' = IF tail + 1 < IndexMod THEN tail + 1 ELSE (tail + 1) - IndexMod
      <4>1. 1 \in 0 .. IndexMod
        BY Positive
      <4>2. ((tail + 1) % IndexMod) = IF tail + 1 < IndexMod THEN tail + 1 ELSE (tail + 1) - IndexMod
        BY <1>0, <4>1, PlusCases, Positive
      <4> QED
        BY <1>2, <4>2
    <3>4. tail' \in 0 .. IndexMod - 1
      BY <1>0, <3>3, Positive
    <3>5. ((tail' + j) % IndexMod) = IF tail' + j < IndexMod THEN tail' + j ELSE (tail' + j) - IndexMod
      BY <3>4, PlusCases, Positive
    <3>6. ((tail + k) % IndexMod) = IF tail + k < IndexMod THEN tail + k ELSE (tail + k) - IndexMod
      BY <1>0, PlusCases, Positive
    <3>7. tail' + i - 1 = tail' + j /\ tail + (i + 1) - 1 = tail + k
      BY <1>0, <3>1, <3>2, <3>4
    <3>8. ((tail' + j) % IndexMod) = ((tail + k) % IndexMod)
      BY <1>0, <3>0, <1>3, <3>1, <3>2, <3>3, <3>5, <3>6, Positive
    <3> QED
      BY <3>7, <3>8
  <2>2. i + 1 \in 1 .. Distance /\ i \in 1 .. Distance - 1
    BY <1>3
  <2> QED
    BY <1>3, <1>6, <1>7, <2>1, <2>2
<1> QED
  BY <1>4, <1>5, <1>6, <1>7, <1>8, SeqEqual

-----------------------------------------------------------------------------
(* Initial states map to initial states. *)

LEMMA InitMaps == Init => Fifo!Init
<1> SUFFICES ASSUME Init PROVE Fifo!Init
  OBVIOUS
<1>1. TypeOK /\ tail = head
  BY TypeInit DEF Init
<1>2. Distance = 0
  BY <1>1, HeadIsTailPlusDistance DEF TypeOK
<1>3. Contents \in Seq(Copies) /\ Len(Contents) = 0
  BY <1>1, <1>2, ContentsIsSeq DEF ContentsOK
<1>4. Contents = <<>>
  BY <1>3, EmptySeq
<1>5. Consumer \in Threads
  BY DEF Threads
<1>6. Taken = NoText
  BY <1>5 DEF Init, Taken
<1> QED
  BY <1>4, <1>6 DEF Init, Fifo!Init

\* A step that changes neither the buffer, nor the counter, nor the packet taken stutters.
LEMMA Stutters ==
  ASSUME Contents' = Contents, dropped' = dropped, Taken' = Taken
  PROVE  [Fifo!Next]_(Fifo!vars)
  BY DEF Fifo!vars

\* A step of a thread that stays outside pop's last two points keeps Taken.
LEMMA TakenUnchanged ==
  ASSUME UNCHANGED <<tmp, out>>,
         pc[Consumer] \in {"unlockTaken", "assign"} <=> pc'[Consumer] \in {"unlockTaken", "assign"}
  PROVE  Taken' = Taken
  BY DEF Taken

\* Every step of the ring maps to a step of the buffer or to a stutter.
LEMMA StepMaps == IInv /\ TypeOK' /\ [Next]_vars => [Fifo!Next]_(Fifo!vars)
<1> SUFFICES ASSUME IInv, TypeOK', [Next]_vars PROVE [Fifo!Next]_(Fifo!vars)
  OBVIOUS
<1>0. /\ TypeOK
      /\ head \in 0 .. IndexMod - 1 /\ tail \in 0 .. IndexMod - 1
      /\ pc \in [Threads -> Holding \cup {"idle", "spin", "assign"}]
      /\ Consumer \in Threads /\ Producers \subseteq Threads /\ Consumer \notin Producers
  BY ThreadAssumption DEF IInv, TypeOK, Threads
<1>1. ASSUME NEW t \in Threads, Acquire(t) PROVE [Fifo!Next]_(Fifo!vars)
  <2>1. Contents' = Contents /\ dropped' = dropped
    BY <1>0, <1>1, ContentsSameSlots DEF Acquire
  <2>2. Taken' = Taken
    BY <1>0, <1>1, TakenUnchanged DEF Acquire, Goto
  <2> QED
    BY <2>1, <2>2, Stutters
<1>2. ASSUME NEW t \in Threads, Release(t) PROVE [Fifo!Next]_(Fifo!vars)
  <2>1. Contents' = Contents /\ dropped' = dropped
    BY <1>0, <1>2, ContentsSameSlots DEF Release
  <2>2. Taken' = Taken
    BY <1>0, <1>2, TakenUnchanged DEF Release, Goto
  <2> QED
    BY <2>1, <2>2, Stutters
<1>3. ASSUME NEW p \in Producers, PushBegin(p) PROVE [Fifo!Next]_(Fifo!vars)
  <2>1. Contents' = Contents /\ dropped' = dropped
    BY <1>0, <1>3, ContentsSameSlots DEF PushBegin
  <2>2. Taken' = Taken
    BY <1>0, <1>3, TakenUnchanged DEF PushBegin, Goto
  <2> QED
    BY <2>1, <2>2, Stutters
<1>4. ASSUME NEW p \in Producers, Push(p) PROVE [Fifo!Next]_(Fifo!vars)
  <2>0. pc'[Consumer] = pc[Consumer] /\ UNCHANGED <<tmp, out>>
    BY <1>0, <1>4 DEF Push, PushFull, PushLoad, PushData, PushLen, PushPublish, Goto
  <2>t. Taken' = Taken
    BY <2>0 DEF Taken
  <2>1. CASE PushFull(p)
    <3>1. Contents' = Contents
      BY <1>0, <2>1, ContentsSameSlots DEF PushFull
    <3>2. Len(Contents) >= Capacity
      BY <1>0, <2>1, ContentsIsSeq DEF ContentsOK, PushFull, Full
    <3>3. dropped' = (dropped + 1) % IndexMod
      BY <2>1 DEF PushFull
    <3> QED
      BY <2>t, <3>1, <3>2, <3>3 DEF Fifo!Next, Fifo!Refuse
  <2>2. CASE PushLoad(p)
    <3>1. Contents' = Contents /\ dropped' = dropped
      BY <1>0, <2>2, ContentsSameSlots DEF PushLoad
    <3> QED
      BY <2>t, <3>1, Stutters
  <2>3. CASE PushData(p)
    <3>1. index[p] = head /\ Distance < Capacity
      BY <2>3 DEF IInv, ProducerRegisters, PushData, Goto
    <3>2. ASSUME NEW i \in 1 .. Distance
          PROVE  (SlotAt((tail + i - 1) % IndexMod))' = SlotAt((tail + i - 1) % IndexMod)
      <4>1. /\ (tail + i - 1) % IndexMod \in 0 .. IndexMod - 1
            /\ ((tail + i - 1) % IndexMod) % Capacity # head % Capacity
        BY <1>0, <3>1, HeadSlotIsFree
      <4>2. ((tail + i - 1) % IndexMod) % Capacity \in Slots
        BY <4>1, SlotInRange
      <4> QED
        BY <1>0, <2>3, <3>1, <4>1, <4>2 DEF PushData, SlotAt, TypeOK
    <3>3. Contents' = Contents /\ dropped' = dropped
      BY <1>0, <2>3, <3>2, ContentsUnchanged DEF PushData
    <3> QED
      BY <2>t, <3>3, Stutters
  <2>4. CASE PushLen(p)
    <3>1. index[p] = head /\ Distance < Capacity
      BY <2>4 DEF IInv, ProducerRegisters, PushLen, Goto
    <3>2. ASSUME NEW i \in 1 .. Distance
          PROVE  (SlotAt((tail + i - 1) % IndexMod))' = SlotAt((tail + i - 1) % IndexMod)
      <4>1. /\ (tail + i - 1) % IndexMod \in 0 .. IndexMod - 1
            /\ ((tail + i - 1) % IndexMod) % Capacity # head % Capacity
        BY <1>0, <3>1, HeadSlotIsFree
      <4>2. ((tail + i - 1) % IndexMod) % Capacity \in Slots
        BY <4>1, SlotInRange
      <4> QED
        BY <1>0, <2>4, <3>1, <4>1, <4>2 DEF PushLen, SlotAt, TypeOK
    <3>3. Contents' = Contents /\ dropped' = dropped
      BY <1>0, <2>4, <3>2, ContentsUnchanged DEF PushLen
    <3> QED
      BY <2>t, <3>3, Stutters
  <2>5. CASE PushPublish(p)
    <3>1. /\ Len(Contents) < Capacity
          /\ Copy(p) \in Copies
          /\ Contents' = Append(Contents, Copy(p))
      BY <2>5, PublishAppends
    <3>2. dropped' = dropped
      BY <2>5 DEF PushPublish
    <3> QED
      BY <2>t, <3>1, <3>2 DEF Fifo!Next, Fifo!Accept
  <2> QED
    BY <1>4, <2>1, <2>2, <2>3, <2>4, <2>5 DEF Push
<1>5. ASSUME PopBegin(Consumer) PROVE [Fifo!Next]_(Fifo!vars)
  <2>1. Contents' = Contents /\ dropped' = dropped
    BY <1>0, <1>5, ContentsSameSlots DEF PopBegin
  <2>2. Taken' = Taken
    BY <1>0, <1>5 DEF PopBegin, Goto, Taken
  <2> QED
    BY <2>1, <2>2, Stutters
<1>6. ASSUME Pop(Consumer) PROVE [Fifo!Next]_(Fifo!vars)
  <2>1. CASE PopEmpty(Consumer)
    <3>1. Contents' = Contents /\ dropped' = dropped
      BY <1>0, <2>1, ContentsSameSlots DEF PopEmpty
    <3>2. Taken' = Taken
      BY <1>0, <2>1 DEF PopEmpty, Goto, Taken
    <3> QED
      BY <3>1, <3>2, Stutters
  <2>2. CASE PopLoad(Consumer)
    <3>1. Contents' = Contents /\ dropped' = dropped
      BY <1>0, <2>2, ContentsSameSlots DEF PopLoad
    <3>2. Taken' = Taken
      BY <1>0, <2>2 DEF PopLoad, Goto, Taken
    <3> QED
      BY <3>1, <3>2, Stutters
  <2>3. CASE PopCopy(Consumer)
    <3>1. Contents' = Contents /\ dropped' = dropped
      BY <1>0, <2>3, ContentsSameSlots DEF PopCopy
    <3>2. Taken' = Taken
      BY <1>0, <2>3 DEF PopCopy, Goto, Taken
    <3> QED
      BY <3>1, <3>2, Stutters
  <2>4. CASE PopAdvance(Consumer)
    <3>1. /\ Contents # <<>>
          /\ tmp = Head(Contents)
          /\ Contents' = Tail(Contents)
      BY <2>4, AdvanceDelivers
    <3>2. dropped' = dropped
      BY <2>4 DEF PopAdvance
    <3>3. Taken' = tmp
      BY <1>0, <2>4 DEF PopAdvance, Goto, Taken
    <3> QED
      BY <3>1, <3>2, <3>3 DEF Fifo!Next, Fifo!Deliver
  <2> QED
    BY <1>6, <2>1, <2>2, <2>3, <2>4 DEF Pop
<1>7. ASSUME PopAssign(Consumer) PROVE [Fifo!Next]_(Fifo!vars)
  <2>1. Contents' = Contents /\ dropped' = dropped
    BY <1>0, <1>7, ContentsSameSlots DEF PopAssign
  <2>2. Taken' = Taken
    BY <1>0, <1>7 DEF PopAssign, Goto, Taken
  <2> QED
    BY <2>1, <2>2, Stutters
<1>8. CASE UNCHANGED vars
  <2>1. Contents' = Contents /\ dropped' = dropped
    BY <1>0, <1>8, ContentsSameSlots DEF vars
  <2>2. Taken' = Taken
    BY <1>8 DEF vars, Taken
  <2> QED
    BY <2>1, <2>2, Stutters
<1> QED
  BY <1>1, <1>2, <1>3, <1>4, <1>5, <1>6, <1>7, <1>8 DEF Next

\* The ring is a bounded FIFO: no push is lost, torn, doubled or reordered, and none is refused
\* while a slot is free, for any number of hook threads and over any number of index wraps.
THEOREM RingImplementsFifo == Spec => RefinesFifo
<1>1. Init => Fifo!Init
  BY InitMaps
<1>2. IInv /\ IInv' /\ [Next]_vars => [Fifo!Next]_(Fifo!vars)
  BY StepMaps DEF IInv
<1> QED
  BY <1>1, <1>2, IInvHolds, PTL DEF Spec, RefinesFifo, Fifo!Spec

=============================================================================
