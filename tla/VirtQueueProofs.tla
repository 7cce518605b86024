-------------------------- MODULE VirtQueueProofs --------------------------
(***************************************************************************)
(* What the index arithmetic of the rings in VirtQueue amounts to, for     *)
(* every ring size and every width of the indices: the entries between two *)
(* indices are a sequence, publishing an entry appends to it, taking one   *)
(* removes its first.                                                      *)
(***************************************************************************)
EXTENDS VirtQueue, Sequences, FiniteSetTheorems, TLAPS

-----------------------------------------------------------------------------
(* Remainders                                                              *)

LEMMA ModRange ==
    ASSUME NEW m \in Nat \ {0}, NEW x \in Int
    PROVE  x % m \in 0 .. m - 1
  OBVIOUS

LEMMA ModExists ==
    ASSUME NEW m \in Nat \ {0}, NEW x \in Int
    PROVE  \E q \in Int : x = q * m + (x % m)
<1>1. x \div m \in Int /\ x = (x \div m) * m + (x % m)
  OBVIOUS
<1> QED
  BY <1>1

LEMMA ModUnique ==
    ASSUME NEW m \in Nat \ {0}, NEW x \in Int, NEW q \in Int, NEW r \in 0 .. m - 1,
           x = q * m + r
    PROVE  x % m = r
  OBVIOUS

\* A multiple of the modulus does not matter.
LEMMA ModShift ==
    ASSUME NEW m \in Nat \ {0}, NEW x \in Int, NEW k \in Int
    PROVE  (x + k * m) % m = x % m
<1>1. PICK q \in Int : x = q * m + (x % m)
  BY ModExists
<1>2. x % m \in 0 .. m - 1
  BY ModRange
<1>3. (q + k) * m = q * m + k * m /\ q * m \in Int /\ k * m \in Int
  OBVIOUS
<1>4. x + k * m = (q + k) * m + (x % m)
  BY <1>1, <1>2, <1>3
<1>5. x + k * m \in Int /\ q + k \in Int
  BY <1>3
<1> QED
  BY <1>2, <1>4, <1>5, ModUnique

\* Numbers with the same remainder differ by a multiple of the modulus.
LEMMA ModEqual ==
    ASSUME NEW m \in Nat \ {0}, NEW x \in Int, NEW y \in Int, x % m = y % m
    PROVE  \E k \in Int : x - y = k * m
<1>1. PICK p \in Int : x = p * m + (x % m)
  BY ModExists
<1>2. PICK q \in Int : y = q * m + (y % m)
  BY ModExists
<1>3. (p - q) * m = p * m - q * m /\ p * m \in Int /\ q * m \in Int
  OBVIOUS
<1>4. x % m \in Int
  BY ModRange
<1>5. x - y = (p - q) * m /\ p - q \in Int
  BY <1>1, <1>2, <1>3, <1>4
<1> QED
  BY <1>5

\* The remainder modulo a multiple of n has the same remainder modulo n.
LEMMA ModMod ==
    ASSUME NEW n \in Nat \ {0}, NEW m \in Nat \ {0}, m % n = 0, NEW x \in Int
    PROVE  (x % m) % n = x % n
<1> DEFINE r == x % m
<1>1. \E q \in Int : x = q * m + (x % m)
  BY ModExists, Zenon
<1>2. \E c \in Int : m = c * n + (m % n)
  <2>1. m \in Int
    OBVIOUS
  <2> QED
    BY <2>1, ModExists, Zenon
<1>3. PICK q \in Int : x = q * m + r
  BY <1>1
<1>4. PICK c \in Int : m = c * n
  BY <1>2
<1> DEFINE k == q * c
<1>5. k \in Int /\ q * m = k * n
  BY <1>4
<1>6. r \in Int
  BY ModRange
<1> HIDE DEF r, k
<1>7. x = r + k * n
  BY <1>3, <1>5, <1>6
<1>8. (r + k * n) % n = r % n
  BY <1>5, <1>6, ModShift
<1> QED
  BY <1>7, <1>8 DEF r

\* Remainders may be taken of the parts of a sum.
LEMMA ModSum ==
    ASSUME NEW m \in Nat \ {0}, NEW x \in Int, NEW y \in Int
    PROVE  /\ ((x % m) + y) % m = (x + y) % m
           /\ (y - (x % m)) % m = (y - x) % m
<1> DEFINE r == x % m
<1>1. PICK q \in Int : x = q * m + r
  BY ModExists
<1>2. r \in Int
  BY ModRange
<1>3. q * m \in Int /\ (0 - q) * m = 0 - q * m /\ 0 - q \in Int
  OBVIOUS
<1> HIDE DEF r
<1>4. r + y = (x + y) + (0 - q) * m
  BY <1>1, <1>2, <1>3
<1>5. y - r = (y - x) + q * m
  BY <1>1, <1>2, <1>3
<1>6. ((x + y) + (0 - q) * m) % m = (x + y) % m
  <2>1. x + y \in Int
    OBVIOUS
  <2> QED
    BY <1>3, <2>1, ModShift
<1>7. ((y - x) + q * m) % m = (y - x) % m
  <2>1. y - x \in Int
    OBVIOUS
  <2> QED
    BY <2>1, ModShift
<1> QED
  BY <1>4, <1>5, <1>6, <1>7 DEF r

-----------------------------------------------------------------------------
(* Indices                                                                 *)

\* The number of entries from index a up to, not including, index b.
Dist(a, b) == (b - a) % IdxMod

LEMMA Sizes ==
    /\ QNum \in Nat \ {0} /\ IdxMod \in Nat \ {0}
    /\ QNum < IdxMod /\ IdxMod % QNum = 0
  BY QNumAssumption, IdxModAssumption

LEMMA IdxIsInt == \A i \in Idx : i \in Nat /\ i < IdxMod
  BY Sizes DEF Idx

LEMMA SmallMod == ASSUME NEW m \in Nat \ {0}, NEW x \in 0 .. m - 1 PROVE x % m = x
  OBVIOUS

LEMMA IncType == \A i \in Idx : Inc(i) \in Idx
  BY Sizes, ModRange DEF Idx, Inc

LEMMA DistType == \A a, b \in Idx : Dist(a, b) \in Idx
  BY Sizes, ModRange DEF Idx, Dist

LEMMA DistZero ==
    ASSUME NEW a \in Idx, NEW b \in Idx
    PROVE  Dist(a, b) = 0 <=> a = b
<1> USE Sizes, IdxIsInt
<1>1. b - a >= 0 => Dist(a, b) = b - a
  BY SmallMod DEF Dist
<1>2. b - a < 0 => Dist(a, b) = b - a + IdxMod
  <2> SUFFICES ASSUME b - a < 0 PROVE Dist(a, b) = b - a + IdxMod
    OBVIOUS
  <2> DEFINE r == b - a + IdxMod
  <2>1. r \in 0 .. IdxMod - 1 /\ b - a = (0 - 1) * IdxMod + r /\ b - a \in Int /\ 0 - 1 \in Int
    OBVIOUS
  <2> QED
    BY <2>1, ModUnique DEF Dist
<1> QED
  BY <1>1, <1>2

\* One more entry at the end, one less at the beginning.
LEMMA DistPush ==
    ASSUME NEW a \in Idx, NEW b \in Idx, Dist(a, b) + 1 < IdxMod
    PROVE  Dist(a, Inc(b)) = Dist(a, b) + 1
<1> USE Sizes, IdxIsInt
<1>1. Dist(a, Inc(b)) = ((b + 1) + (0 - a)) % IdxMod
  <2>0. b + 1 \in Int /\ 0 - a \in Int
    OBVIOUS
  <2>1. (b + 1) % IdxMod \in Int
    BY <2>0, ModRange
  <2>2. (((b + 1) % IdxMod) + (0 - a)) % IdxMod = ((b + 1) + (0 - a)) % IdxMod
    BY <2>0, ModSum
  <2>3. ((b + 1) % IdxMod) + (0 - a) = ((b + 1) % IdxMod) - a
    BY <2>1
  <2> QED
    BY <2>2, <2>3 DEF Dist, Inc
<1>2. ((b - a) + 1) % IdxMod = (Dist(a, b) + 1) % IdxMod
  <2>1. b - a \in Int
    OBVIOUS
  <2> QED
    BY <2>1, ModSum DEF Dist
<1>3. (b + 1) + (0 - a) = (b - a) + 1
  OBVIOUS
<1>4. Dist(a, b) + 1 \in 0 .. IdxMod - 1
  BY DistType
<1> QED
  BY <1>1, <1>2, <1>3, <1>4, SmallMod

LEMMA DistPop ==
    ASSUME NEW a \in Idx, NEW b \in Idx, a # b
    PROVE  Dist(a, b) > 0 /\ Dist(Inc(a), b) = Dist(a, b) - 1
<1> USE Sizes, IdxIsInt
<1>1. Dist(Inc(a), b) = (b - (a + 1)) % IdxMod
  <2>1. a + 1 \in Int /\ b \in Int
    OBVIOUS
  <2> QED
    BY <2>1, ModSum DEF Dist, Inc
<1>2. ((b - a) + (0 - 1)) % IdxMod = (Dist(a, b) + (0 - 1)) % IdxMod
  <2>1. b - a \in Int /\ 0 - 1 \in Int
    OBVIOUS
  <2> QED
    BY <2>1, ModSum DEF Dist
<1>3. b - (a + 1) = (b - a) + (0 - 1)
  OBVIOUS
<1>4. Dist(a, b) \in Nat /\ Dist(a, b) < IdxMod /\ Dist(a, b) # 0
  BY DistType, DistZero
<1>5. Dist(a, b) + (0 - 1) \in 0 .. IdxMod - 1 /\ Dist(a, b) + (0 - 1) = Dist(a, b) - 1
  BY <1>4
<1> QED
  BY <1>1, <1>2, <1>3, <1>4, <1>5, SmallMod

-----------------------------------------------------------------------------
(* Slots                                                                   *)

LEMMA SlotType == \A i \in Int : SlotOf(i) \in Slot
  BY Sizes, ModRange DEF SlotOf, Slot

\* The wrapping of the indices does not disturb the slots.
LEMMA SlotWrap == ASSUME NEW i \in Int PROVE SlotOf(i % IdxMod) = SlotOf(i)
  BY Sizes, ModMod DEF SlotOf

LEMMA SlotEnd ==
    ASSUME NEW a \in Idx, NEW b \in Idx
    PROVE  SlotOf(a + Dist(a, b)) = SlotOf(b)
<1> USE Sizes, IdxIsInt
<1>1. b - a \in Int /\ Dist(a, b) \in Int
  BY DistType
<1>2. (Dist(a, b) + a) % IdxMod = ((b - a) + a) % IdxMod
  BY <1>1, ModSum DEF Dist
<1>3. (b - a) + a = b /\ Dist(a, b) + a = a + Dist(a, b) /\ a + Dist(a, b) \in Int
  BY <1>1
<1> QED
  BY <1>2, <1>3, SlotWrap

LEMMA SlotInc ==
    ASSUME NEW a \in Idx, NEW k \in Nat
    PROVE  SlotOf(Inc(a) + k) = SlotOf(a + (k + 1))
<1> USE Sizes, IdxIsInt
<1>0. a + 1 \in Int /\ k \in Int
  OBVIOUS
<1>1. (((a + 1) % IdxMod) + k) % IdxMod = ((a + 1) + k) % IdxMod
  BY <1>0, ModSum
<1>2. ((a + 1) % IdxMod) + k \in Int /\ (a + 1) + k \in Int /\ (a + 1) + k = a + (k + 1)
  <2>1. (a + 1) % IdxMod \in Int
    BY <1>0, ModRange
  <2> QED
    BY <1>0, <2>1
<1> QED
  BY <1>1, <1>2, SlotWrap DEF Inc

\* Entries less than a ring apart lie in different slots.
LEMMA SlotsDiffer ==
    ASSUME NEW a \in Idx, NEW j \in Nat, NEW k \in Nat, j < k, k - j < QNum
    PROVE  SlotOf(a + j) # SlotOf(a + k)
<1> USE Sizes, IdxIsInt
<1> SUFFICES ASSUME (a + k) % QNum = (a + j) % QNum PROVE FALSE
  BY DEF SlotOf
<1>1. PICK c \in Int : (a + k) - (a + j) = c * QNum
  <2>1. a + k \in Int /\ a + j \in Int
    OBVIOUS
  <2> QED
    BY <2>1, ModEqual
<1>2. c * QNum = k - j
  BY <1>1
<1>3. c <= 0 => c * QNum <= 0
  OBVIOUS
<1>4. c >= 1 => c * QNum >= QNum
  OBVIOUS
<1> QED
  BY <1>2, <1>3, <1>4

-----------------------------------------------------------------------------
(* Rings as sequences                                                      *)

\* The entries of a ring from index a up to, not including, index b.
Entries(ring, a, b) == [k \in 1 .. Dist(a, b) |-> ring[SlotOf(a + (k - 1))]]

LEMMA EntriesType ==
    ASSUME NEW ring \in [Slot -> Heads], NEW a \in Idx, NEW b \in Idx
    PROVE  Entries(ring, a, b) \in Seq(Heads) /\ Len(Entries(ring, a, b)) = Dist(a, b)
<1>1. Dist(a, b) \in Nat
  BY DistType, IdxIsInt
<1>2. \A k \in 1 .. Dist(a, b) : ring[SlotOf(a + (k - 1))] \in Heads
  <2> SUFFICES ASSUME NEW k \in 1 .. Dist(a, b) PROVE ring[SlotOf(a + (k - 1))] \in Heads
    OBVIOUS
  <2>1. a + (k - 1) \in Int
    BY <1>1, IdxIsInt
  <2> QED
    BY <2>1, SlotType
<1>3. Entries(ring, a, b) \in [1 .. Dist(a, b) -> Heads]
  BY <1>2 DEF Entries
<1> QED
  BY <1>1, <1>3

LEMMA EntriesEmpty ==
    ASSUME NEW ring \in [Slot -> Heads], NEW a \in Idx, NEW b \in Idx
    PROVE  Entries(ring, a, b) = << >> <=> a = b
  BY EntriesType, DistZero

\* Publishing an entry.
LEMMA EntriesPush ==
    ASSUME NEW ring \in [Slot -> Heads], NEW a \in Idx, NEW b \in Idx, NEW h \in Heads,
           Dist(a, b) < QNum
    PROVE  Entries([ring EXCEPT ![SlotOf(b)] = h], a, Inc(b)) = Append(Entries(ring, a, b), h)
<1> DEFINE ring2 == [ring EXCEPT ![SlotOf(b)] = h]
           e     == Entries(ring, a, b)
           e2    == Entries(ring2, a, Inc(b))
           d     == Dist(a, b)
<1>1. d \in Nat /\ d < QNum /\ a \in Nat /\ b \in Nat
  BY DistType, IdxIsInt
<1>2. Dist(a, Inc(b)) = d + 1
  BY <1>1, DistPush, Sizes
<1>3. SlotOf(b) \in Slot /\ ring2 \in [Slot -> Heads]
  BY <1>1, SlotType
<1>4. e \in Seq(Heads) /\ Len(e) = d
  BY EntriesType
<1>5. e2 \in Seq(Heads) /\ Len(e2) = d + 1
  <2> HIDE DEF ring2
  <2> QED
    BY <1>2, <1>3, IncType, EntriesType
<1>6. \A k \in 1 .. d : e2[k] = e[k]
  <2> SUFFICES ASSUME NEW k \in 1 .. d PROVE e2[k] = e[k]
    OBVIOUS
  <2>1. SlotOf(a + (k - 1)) # SlotOf(a + d)
    <3>1. k - 1 \in Nat /\ k - 1 < d /\ d - (k - 1) < QNum
      BY <1>1, Sizes
    <3> QED
      BY <1>1, <3>1, SlotsDiffer
  <2>2. SlotOf(a + d) = SlotOf(b)
    BY SlotEnd
  <2>3. SlotOf(a + (k - 1)) \in Slot
    BY <1>1, SlotType
  <2>4. ring2[SlotOf(a + (k - 1))] = ring[SlotOf(a + (k - 1))]
    BY <2>1, <2>2, <2>3
  <2>5. k \in 1 .. d + 1
    BY <1>1
  <2> QED
    BY <1>2, <2>4, <2>5 DEF Entries
<1>7. e2[d + 1] = h
  <2>1. e2[d + 1] = ring2[SlotOf(a + ((d + 1) - 1))]
    BY <1>1, <1>2 DEF Entries
  <2>2. (d + 1) - 1 = d
    BY <1>1
  <2>3. SlotOf(a + d) = SlotOf(b)
    BY SlotEnd
  <2> QED
    BY <1>3, <2>1, <2>2, <2>3
<1> HIDE DEF e, e2, d
<1>8. e2 = Append(e, h)
  BY <1>1, <1>4, <1>5, <1>6, <1>7
<1> QED
  BY <1>8 DEF e, e2

\* Taking the first entry.
LEMMA EntriesPop ==
    ASSUME NEW ring \in [Slot -> Heads], NEW a \in Idx, NEW b \in Idx, a # b
    PROVE  /\ Entries(ring, a, b) # << >>
           /\ Head(Entries(ring, a, b)) = ring[SlotOf(a)]
           /\ Entries(ring, Inc(a), b) = Tail(Entries(ring, a, b))
<1> DEFINE e  == Entries(ring, a, b)
           e2 == Entries(ring, Inc(a), b)
           d  == Dist(a, b)
<1>1. d \in Nat /\ d > 0 /\ a \in Nat /\ b \in Nat /\ Dist(Inc(a), b) = d - 1
  BY DistType, IdxIsInt, DistPop
<1>2. e \in Seq(Heads) /\ Len(e) = d
  BY EntriesType
<1>3. e2 \in Seq(Heads) /\ Len(e2) = d - 1
  BY <1>1, IncType, EntriesType
<1>4. \A k \in 1 .. d - 1 : e2[k] = e[k + 1]
  <2> SUFFICES ASSUME NEW k \in 1 .. d - 1 PROVE e2[k] = e[k + 1]
    OBVIOUS
  <2>1. SlotOf(Inc(a) + (k - 1)) = SlotOf(a + ((k - 1) + 1))
    BY <1>1, SlotInc
  <2>2. e2[k] = ring[SlotOf(Inc(a) + (k - 1))]
    BY <1>1 DEF Entries
  <2>3. e[k + 1] = ring[SlotOf(a + ((k + 1) - 1))]
    BY <1>1 DEF Entries
  <2>4. (k + 1) - 1 = (k - 1) + 1
    BY <1>1
  <2> QED
    BY <2>1, <2>2, <2>3, <2>4
<1>5. e[1] = ring[SlotOf(a)]
  <2>1. e[1] = ring[SlotOf(a + (1 - 1))]
    BY <1>1 DEF Entries
  <2>2. a + (1 - 1) = a
    BY <1>1
  <2> QED
    BY <2>1, <2>2
<1> HIDE DEF e, e2, d
<1>6. e # << >> /\ Head(e) = e[1] /\ e2 = Tail(e)
  BY <1>1, <1>2, <1>3, <1>4
<1> QED
  BY <1>5, <1>6 DEF e, e2

-----------------------------------------------------------------------------
(* Types                                                                   *)

LEMMA SlotOfIdx == \A i \in Idx : SlotOf(i) \in Slot
  BY SlotType, IdxIsInt

LEMMA AHead == (CHOOSE h \in Heads : TRUE) \in Heads
  BY HeadsAssumption

LEMMA EmptyRingsType == EmptyRings \in [Queues -> [Slot -> Heads]]
  BY AHead DEF EmptyRings

\* Zero is an index.
LEMMA ZeroInIdx == 0 \in Idx
  BY Sizes DEF Idx

\* The shared queue state starts well typed.
LEMMA QueueInitType == QueueInit => QueueTypeOK
<1> SUFFICES ASSUME QueueInit PROVE QueueTypeOK
  OBVIOUS
<1>1. handler \in [pc : {"out", "read", "ack"}, isr : SUBSET IntBits]
  BY DEF QueueInit
<1>2. avail_idx \in [Queues -> Idx] /\ used_idx \in [Queues -> Idx]
  BY ZeroInIdx DEF QueueInit
<1>3. last_avail_idx \in [Queues -> Idx] /\ seen \in [Queues -> Idx]
  BY ZeroInIdx DEF QueueInit
<1>4. int_status \in SUBSET IntBits /\ irq \in BOOLEAN /\ kick \in SUBSET Queues
  BY DEF QueueInit
<1>5. free \in [Queues -> SUBSET Heads]
  BY DEF QueueInit
<1>6. avail \in [Queues -> [Slot -> Heads]] /\ used \in [Queues -> [Slot -> Heads]]
  BY EmptyRingsType DEF QueueInit
<1> QED
  BY <1>1, <1>2, <1>3, <1>4, <1>5, <1>6 DEF QueueTypeOK

\* Completing a chain keeps the used ring and the interrupt well typed.
LEMMA ConsumeType ==
    ASSUME QueueTypeOK, NEW q \in Queues, NEW h \in Heads, virtio_consume_desc(q, h)
    PROVE  /\ used' \in [Queues -> [Slot -> Heads]]
           /\ used_idx' \in [Queues -> Idx]
           /\ int_status' \in SUBSET IntBits
           /\ irq' \in BOOLEAN
  BY IncType, SlotOfIdx DEF QueueTypeOK, virtio_consume_desc, IntBits

\* So does stepping over an entry of the available ring.
LEMMA AdvanceType ==
    ASSUME QueueTypeOK, NEW q \in Queues, Advance(q)
    PROVE  last_avail_idx' \in [Queues -> Idx]
  BY IncType DEF QueueTypeOK, Advance

\* The chain the device takes is a chain.
LEMMA NextHeadType ==
    ASSUME QueueTypeOK, NEW q \in Queues PROVE NextHead(q) \in Heads
  BY SlotOfIdx DEF QueueTypeOK, NextHead

\* Every step of the driver's interrupt handler preserves the types.
LEMMA DriverIrqType == ASSUME QueueTypeOK, DriverIrq PROVE QueueTypeOK'
<1>1. CASE DriverIrqRead
  <2>1. handler' \in [pc : {"out", "read", "ack"}, isr : SUBSET IntBits]
    <3>1. int_status \in SUBSET IntBits
      BY DEF QueueTypeOK
    <3>2. \/ handler' = [pc |-> "read", isr |-> int_status]
          \/ handler' = [pc |-> "ack", isr |-> int_status]
      BY <1>1, Zenon DEF DriverIrqRead
    <3> QED
      BY <3>1, <3>2
  <2>2. int_status' \in SUBSET IntBits
    BY <1>1 DEF DriverIrqRead, IsrRead, QueueTypeOK
  <2>3. irq' \in BOOLEAN
    BY <1>1 DEF DriverIrqRead, IsrRead, QueueTypeOK
  <2> QED
    BY <1>1, <2>1, <2>2, <2>3 DEF QueueTypeOK, DriverIrqRead, ringVars
<1>2. CASE DriverIrqAck
  BY <1>2 DEF QueueTypeOK, DriverIrqAck, InterruptAck, IntBits, ringVars
<1>3. CASE \E q \in Queues : DriverGetUsed(q)
  <2>1. PICK q \in Queues : DriverGetUsed(q)
    BY <1>3
  <2>2. used[q][SlotOf(seen[q])] \in Heads
    BY SlotOfIdx DEF QueueTypeOK
  <2>3. Inc(seen[q]) \in Idx
    BY IncType DEF QueueTypeOK
  <2>4. free' \in [Queues -> SUBSET Heads] /\ seen' \in [Queues -> Idx]
    BY <2>1, <2>2, <2>3 DEF DriverGetUsed, QueueTypeOK
  <2> QED
    BY <2>1, <2>4 DEF QueueTypeOK, DriverGetUsed, ringVars, deviceVars
<1>4. CASE DriverIrqReturn
  BY <1>4 DEF QueueTypeOK, DriverIrqReturn, ringVars, deviceVars
<1> QED
  BY <1>1, <1>2, <1>3, <1>4 DEF DriverIrq

\* Publishing a chain.
LEMMA DriverAddType ==
    ASSUME QueueTypeOK, NEW q \in Queues, NEW h \in Heads, DriverAdd(q, h)
    PROVE  QueueTypeOK'
<1>1. SlotOf(avail_idx[q]) \in Slot /\ Inc(avail_idx[q]) \in Idx
  BY IncType, SlotOfIdx DEF QueueTypeOK
<1>2. avail' \in [Queues -> [Slot -> Heads]] /\ avail_idx' \in [Queues -> Idx]
  BY <1>1 DEF DriverAdd, QueueTypeOK
<1>3. free' \in [Queues -> SUBSET Heads] /\ kick' \in SUBSET Queues
  BY DEF DriverAdd, QueueTypeOK
<1> QED
  BY <1>2, <1>3 DEF DriverAdd, QueueTypeOK, deviceVars

\* Resetting the device.
LEMMA DriverResetType == ASSUME QueueTypeOK, DriverReset PROVE QueueTypeOK'
  BY ZeroInIdx, EmptyRingsType DEF DriverReset, virtio_reset, QueueTypeOK, IntBits

-----------------------------------------------------------------------------
(* Where the chains are                                                    *)

Members(s)    == {s[k] : k \in 1 .. Len(s)}
IsDistinct(s) == \A i, j \in 1 .. Len(s) : s[i] = s[j] => i = j

\* The chains published (w), returned (r), held by the device (b) and owned
\* by the driver (f) are different chains, and no more than there are.
Placed(w, r, b, f) ==
    /\ w \in Seq(Heads) /\ r \in Seq(Heads) /\ b \in SUBSET Heads /\ f \in SUBSET Heads
    /\ IsDistinct(w) /\ IsDistinct(r)
    /\ Members(w) \cap (Members(r) \cup b \cup f) = {}
    /\ Members(r) \cap (b \cup f) = {}
    /\ b \cap f = {}
    /\ Len(w) + Len(r) + Cardinality(b) + Cardinality(f) <= Cardinality(Heads)

LEMMA AppendMembers ==
    ASSUME NEW s \in Seq(Heads), NEW h \in Heads
    PROVE  /\ Members(Append(s, h)) = Members(s) \cup {h}
           /\ Len(Append(s, h)) = Len(s) + 1
           /\ IsDistinct(s) /\ h \notin Members(s) => IsDistinct(Append(s, h))
<1> DEFINE t == Append(s, h)
<1>1. t \in Seq(Heads) /\ Len(t) = Len(s) + 1 /\ Len(s) \in Nat
  OBVIOUS
<1>2. \A k \in 1 .. Len(s) : t[k] = s[k]
  OBVIOUS
<1>3. t[Len(s) + 1] = h
  OBVIOUS
<1> HIDE DEF t
<1>4. 1 .. Len(t) = (1 .. Len(s)) \cup {Len(s) + 1}
  BY <1>1
<1>5. Members(t) = Members(s) \cup {h}
  BY <1>2, <1>3, <1>4 DEF Members
<1>6. ASSUME IsDistinct(s), h \notin Members(s) PROVE IsDistinct(t)
  <2> SUFFICES ASSUME NEW i \in 1 .. Len(t), NEW j \in 1 .. Len(t), t[i] = t[j] PROVE i = j
    BY DEF IsDistinct
  <2>1. \A k \in 1 .. Len(s) : t[k] # h
    BY <1>2, <1>6 DEF Members
  <2> QED
    BY <1>2, <1>3, <1>4, <1>6, <2>1 DEF IsDistinct
<1> QED
  BY <1>1, <1>5, <1>6 DEF t

LEMMA TailMembers ==
    ASSUME NEW s \in Seq(Heads), s # << >>, IsDistinct(s)
    PROVE  /\ Head(s) \in Heads /\ Head(s) \in Members(s)
           /\ Tail(s) \in Seq(Heads) /\ Len(Tail(s)) = Len(s) - 1
           /\ Members(Tail(s)) = Members(s) \ {Head(s)}
           /\ IsDistinct(Tail(s))
<1> DEFINE t == Tail(s)
           n == Len(s)
<1>1. n \in Nat /\ n > 0 /\ t \in Seq(Heads) /\ Len(t) = n - 1 /\ Head(s) = s[1] /\ s[1] \in Heads
  OBVIOUS
<1>2. \A k \in 1 .. n - 1 : t[k] = s[k + 1]
  OBVIOUS
<1> HIDE DEF t, n
<1>3. \A i, j \in 1 .. n : s[i] = s[j] => i = j
  BY DEF IsDistinct, n
<1>4. Members(s) = {s[k] : k \in 1 .. n}
  BY DEF Members, n
<1>5. Members(t) = {t[k] : k \in 1 .. n - 1}
  BY <1>1 DEF Members
<1>6. Members(t) \subseteq Members(s) \ {s[1]}
  <2> SUFFICES ASSUME NEW k \in 1 .. n - 1 PROVE t[k] \in Members(s) /\ t[k] # s[1]
    BY <1>5
  <2>1. k + 1 \in 1 .. n /\ 1 \in 1 .. n /\ k + 1 # 1
    BY <1>1
  <2> QED
    BY <1>2, <1>3, <1>4, <2>1
<1>7. Members(s) \ {s[1]} \subseteq Members(t)
  <2> SUFFICES ASSUME NEW k \in 1 .. n, k # 1 PROVE s[k] \in Members(t)
    BY <1>4
  <2>1. k - 1 \in 1 .. n - 1 /\ (k - 1) + 1 = k
    BY <1>1
  <2> QED
    BY <1>2, <1>5, <2>1
<1>8. IsDistinct(t)
  <2> SUFFICES ASSUME NEW i \in 1 .. n - 1, NEW j \in 1 .. n - 1, t[i] = t[j] PROVE i = j
    BY <1>1 DEF IsDistinct
  <2>1. i + 1 \in 1 .. n /\ j + 1 \in 1 .. n /\ s[i + 1] = s[j + 1]
    BY <1>1, <1>2
  <2> QED
    BY <1>3, <2>1
<1>9. s[1] \in Members(s)
  BY <1>1, <1>4
<1> QED
  BY <1>1, <1>6, <1>7, <1>8, <1>9 DEF t, n

LEMMA SubsetFinite ==
    ASSUME NEW s \in SUBSET Heads
    PROVE  IsFiniteSet(s) /\ Cardinality(s) \in Nat
  BY HeadsAssumption, FS_Subset, FS_CardinalityType

LEMMA HeadsFinite == Cardinality(Heads) \in Nat
  BY HeadsAssumption, FS_CardinalityType

\* The driver publishes a chain ...
LEMMA PlacedPost ==
    ASSUME NEW w, NEW r, NEW b, NEW f, Placed(w, r, b, f), NEW h \in f
    PROVE  Placed(Append(w, h), r, b, f \ {h}) /\ Len(w) + Len(r) < Cardinality(Heads)
<1> USE DEF Placed
<1>1. Cardinality(f \ {h}) = Cardinality(f) - 1 /\ Cardinality(f) \in Nat
  BY SubsetFinite, FS_RemoveElement
<1>2. Cardinality(f \ {h}) \in Nat /\ Cardinality(b) \in Nat
  BY SubsetFinite
<1>3. Append(w, h) \in Seq(Heads) /\ Len(w) \in Nat /\ Len(r) \in Nat
  OBVIOUS
<1>4. /\ Members(Append(w, h)) = Members(w) \cup {h}
      /\ Len(Append(w, h)) = Len(w) + 1
      /\ IsDistinct(Append(w, h))
  BY AppendMembers
<1> QED
  BY <1>1, <1>2, <1>3, <1>4, HeadsFinite

\* ... the device takes it ...
LEMMA PlacedTake ==
    ASSUME NEW w, NEW r, NEW b, NEW f, Placed(w, r, b, f), w # << >>
    PROVE  Placed(Tail(w), r, b \cup {Head(w)}, f)
<1> USE DEF Placed
<1>1. /\ Head(w) \in Heads /\ Head(w) \in Members(w)
      /\ Tail(w) \in Seq(Heads) /\ Len(Tail(w)) = Len(w) - 1
      /\ Members(Tail(w)) = Members(w) \ {Head(w)}
      /\ IsDistinct(Tail(w))
  BY TailMembers
<1>2. Head(w) \notin b
  BY <1>1
<1>3. Cardinality(b \cup {Head(w)}) = Cardinality(b) + 1
  BY <1>2, SubsetFinite, FS_AddElement
<1>4. Cardinality(b) \in Nat /\ Cardinality(f) \in Nat /\ Len(w) \in Nat /\ Len(r) \in Nat
  BY SubsetFinite
<1> QED
  BY <1>1, <1>3, <1>4, HeadsFinite

\* ... or steps over it ...
LEMMA PlacedDrop ==
    ASSUME NEW w, NEW r, NEW b, NEW f, Placed(w, r, b, f), w # << >>
    PROVE  Placed(Tail(w), r, b, f)
<1> USE DEF Placed
<1>1. /\ Tail(w) \in Seq(Heads) /\ Len(Tail(w)) = Len(w) - 1
      /\ Members(Tail(w)) = Members(w) \ {Head(w)}
      /\ IsDistinct(Tail(w))
  BY TailMembers
<1>2. Cardinality(b) \in Nat /\ Cardinality(f) \in Nat /\ Len(w) \in Nat /\ Len(r) \in Nat
  BY SubsetFinite
<1> QED
  BY <1>1, <1>2, HeadsFinite

\* ... returns it ...
LEMMA PlacedDone ==
    ASSUME NEW w, NEW r, NEW b, NEW f, Placed(w, r, b, f), NEW h \in b
    PROVE  Placed(w, Append(r, h), b \ {h}, f) /\ Len(w) + Len(r) < Cardinality(Heads)
<1> USE DEF Placed
<1>1. Cardinality(b \ {h}) = Cardinality(b) - 1 /\ Cardinality(b) \in Nat
  BY SubsetFinite, FS_RemoveElement
<1>2. Cardinality(b \ {h}) \in Nat /\ Cardinality(f) \in Nat
  BY SubsetFinite
<1>3. Append(r, h) \in Seq(Heads) /\ Len(w) \in Nat /\ Len(r) \in Nat
  OBVIOUS
<1>4. /\ Members(Append(r, h)) = Members(r) \cup {h}
      /\ Len(Append(r, h)) = Len(r) + 1
      /\ IsDistinct(Append(r, h))
  BY AppendMembers
<1> QED
  BY <1>1, <1>2, <1>3, <1>4, HeadsFinite

\* ... and the driver takes it back.
LEMMA PlacedBack ==
    ASSUME NEW w, NEW r, NEW b, NEW f, Placed(w, r, b, f), r # << >>
    PROVE  Placed(w, Tail(r), b, f \cup {Head(r)})
<1> USE DEF Placed
<1>1. /\ Head(r) \in Heads /\ Head(r) \in Members(r)
      /\ Tail(r) \in Seq(Heads) /\ Len(Tail(r)) = Len(r) - 1
      /\ Members(Tail(r)) = Members(r) \ {Head(r)}
      /\ IsDistinct(Tail(r))
  BY TailMembers
<1>2. Head(r) \notin f
  BY <1>1
<1>3. Cardinality(f \cup {Head(r)}) = Cardinality(f) + 1
  BY <1>2, SubsetFinite, FS_AddElement
<1>4. Cardinality(b) \in Nat /\ Cardinality(f) \in Nat /\ Len(w) \in Nat /\ Len(r) \in Nat
  BY SubsetFinite
<1> QED
  BY <1>1, <1>3, <1>4, HeadsFinite

LEMMA PlacedFresh == Placed(<< >>, << >>, {}, Heads)
<1>1. << >> \in Seq(Heads) /\ Len(<< >>) = 0
  OBVIOUS
<1>2. Members(<< >>) = {} /\ IsDistinct(<< >>)
  BY <1>1 DEF Members, IsDistinct
<1> QED
  BY <1>1, <1>2, HeadsFinite, FS_EmptySet DEF Placed

-----------------------------------------------------------------------------
(* What the operations of a queue do to its sequences                      *)

WaitingSeq(q)  == Entries(avail[q], last_avail_idx[q], avail_idx[q])
ReturnedSeq(q) == Entries(used[q], seen[q], used_idx[q])

\* No chain of queue q is in two places; b are the ones the device holds.
QueuePlaced(q, b) == Placed(WaitingSeq(q), ReturnedSeq(q), b, free[q])

LEMMA SeqLengths ==
    ASSUME QueueTypeOK, NEW q \in Queues
    PROVE  /\ WaitingSeq(q) \in Seq(Heads)
           /\ Len(WaitingSeq(q)) = Dist(last_avail_idx[q], avail_idx[q])
           /\ ReturnedSeq(q) \in Seq(Heads)
           /\ Len(ReturnedSeq(q)) = Dist(seen[q], used_idx[q])
<1>1. avail[q] \in [Slot -> Heads] /\ last_avail_idx[q] \in Idx /\ avail_idx[q] \in Idx
  BY DEF QueueTypeOK
<1>2. used[q] \in [Slot -> Heads] /\ seen[q] \in Idx /\ used_idx[q] \in Idx
  BY DEF QueueTypeOK
<1> QED
  BY <1>1, <1>2, EntriesType DEF WaitingSeq, ReturnedSeq

LEMMA RoomInRings ==
    ASSUME QueueTypeOK, NEW q \in Queues, Len(WaitingSeq(q)) + Len(ReturnedSeq(q)) < Cardinality(Heads)
    PROVE  /\ Dist(last_avail_idx[q], avail_idx[q]) < QNum
           /\ Dist(seen[q], used_idx[q]) < QNum
<1>1. Len(WaitingSeq(q)) \in Nat /\ Len(ReturnedSeq(q)) \in Nat
  BY SeqLengths
<1> QED
  BY <1>1, SeqLengths, HeadsAssumption, HeadsFinite, Sizes

\* The driver publishes a chain: it is last in the available ring.
LEMMA AddStep ==
    ASSUME QueueTypeOK, NEW q \in Queues, NEW h \in Heads, NEW b, QueuePlaced(q, b), DriverAdd(q, h)
    PROVE  /\ WaitingSeq(q)' = Append(WaitingSeq(q), h)
           /\ ReturnedSeq(q)' = ReturnedSeq(q)
           /\ h \in free[q] /\ free'[q] = free[q] \ {h}
           /\ Len(WaitingSeq(q)) + Len(ReturnedSeq(q)) < Cardinality(Heads)
<1>1. h \in free[q] /\ free'[q] = free[q] \ {h}
  BY DEF DriverAdd, QueueTypeOK
<1>2. Len(WaitingSeq(q)) + Len(ReturnedSeq(q)) < Cardinality(Heads)
  BY <1>1, PlacedPost DEF QueuePlaced
<1>3. Dist(last_avail_idx[q], avail_idx[q]) < QNum
  BY <1>2, RoomInRings
<1>4. avail[q] \in [Slot -> Heads] /\ last_avail_idx[q] \in Idx /\ avail_idx[q] \in Idx
  BY DEF QueueTypeOK
<1>5. /\ avail'[q] = [avail[q] EXCEPT ![SlotOf(avail_idx[q])] = h]
      /\ avail_idx'[q] = Inc(avail_idx[q])
      /\ last_avail_idx'[q] = last_avail_idx[q]
  BY DEF DriverAdd, QueueTypeOK, deviceVars
<1>6. WaitingSeq(q)' = Append(WaitingSeq(q), h)
  <2>1. Entries([avail[q] EXCEPT ![SlotOf(avail_idx[q])] = h], last_avail_idx[q], Inc(avail_idx[q]))
          = Append(Entries(avail[q], last_avail_idx[q], avail_idx[q]), h)
    BY <1>3, <1>4, EntriesPush
  <2> QED
    BY <1>5, <2>1 DEF WaitingSeq
<1>7. ReturnedSeq(q)' = ReturnedSeq(q)
  BY DEF DriverAdd, ReturnedSeq
<1> QED
  BY <1>1, <1>2, <1>6, <1>7

\* The device steps over the first chain of the available ring.
LEMMA TakeStep ==
    ASSUME QueueTypeOK, NEW q \in Queues, HasAvail(q), Advance(q), UNCHANGED <<avail, avail_idx>>
    PROVE  /\ WaitingSeq(q) # << >>
           /\ Head(WaitingSeq(q)) = NextHead(q)
           /\ WaitingSeq(q)' = Tail(WaitingSeq(q))
<1>1. avail[q] \in [Slot -> Heads] /\ last_avail_idx[q] \in Idx /\ avail_idx[q] \in Idx
  BY DEF QueueTypeOK
<1>2. last_avail_idx'[q] = Inc(last_avail_idx[q])
  BY DEF Advance, QueueTypeOK
<1> QED
  BY <1>1, <1>2, EntriesPop DEF WaitingSeq, NextHead, HasAvail

\* virtio_consume_desc: the chain is last in the used ring.
LEMMA ConsumeStep ==
    ASSUME QueueTypeOK, NEW q \in Queues, NEW h \in Heads, virtio_consume_desc(q, h), UNCHANGED seen,
           Dist(seen[q], used_idx[q]) < QNum
    PROVE  ReturnedSeq(q)' = Append(ReturnedSeq(q), h)
<1>1. used[q] \in [Slot -> Heads] /\ seen[q] \in Idx /\ used_idx[q] \in Idx
  BY DEF QueueTypeOK
<1>2. /\ used'[q] = [used[q] EXCEPT ![SlotOf(used_idx[q])] = h]
      /\ used_idx'[q] = Inc(used_idx[q])
  BY DEF virtio_consume_desc, QueueTypeOK
<1>3. Entries([used[q] EXCEPT ![SlotOf(used_idx[q])] = h], seen[q], Inc(used_idx[q]))
        = Append(Entries(used[q], seen[q], used_idx[q]), h)
  BY <1>1, EntriesPush
<1> QED
  BY <1>2, <1>3 DEF ReturnedSeq

\* The driver takes the first chain of the used ring back.
LEMMA GetUsedStep ==
    ASSUME QueueTypeOK, NEW q \in Queues, DriverGetUsed(q)
    PROVE  /\ ReturnedSeq(q) # << >>
           /\ ReturnedSeq(q)' = Tail(ReturnedSeq(q))
           /\ WaitingSeq(q)' = WaitingSeq(q)
           /\ free'[q] = free[q] \cup {Head(ReturnedSeq(q))}
<1>1. used[q] \in [Slot -> Heads] /\ seen[q] \in Idx /\ used_idx[q] \in Idx
  BY DEF QueueTypeOK
<1>2. seen'[q] = Inc(seen[q]) /\ seen[q] # used_idx[q] /\ UNCHANGED ringVars
  BY DEF DriverGetUsed, QueueTypeOK
<1>3. /\ ReturnedSeq(q) # << >>
      /\ Head(ReturnedSeq(q)) = used[q][SlotOf(seen[q])]
      /\ ReturnedSeq(q)' = Tail(ReturnedSeq(q))
  BY <1>1, <1>2, EntriesPop DEF ReturnedSeq, ringVars
<1>4. WaitingSeq(q)' = WaitingSeq(q)
  BY DEF DriverGetUsed, ringVars, deviceVars, WaitingSeq
<1>5. free'[q] = free[q] \cup {used[q][SlotOf(seen[q])]}
  BY DEF DriverGetUsed, QueueTypeOK
<1> QED
  BY <1>3, <1>4, <1>5

\* The rest of the driver's interrupt handler moves no chain.
LEMMA OtherIrqStep ==
    ASSUME DriverIrqRead \/ DriverIrqAck \/ DriverIrqReturn
    PROVE  UNCHANGED <<ringVars, last_avail_idx, free, seen>>
  BY DEF DriverIrqRead, DriverIrqAck, DriverIrqReturn, deviceVars

LEMMA FrameStep ==
    ASSUME UNCHANGED <<ringVars, last_avail_idx, free, seen>>
    PROVE  \A q : WaitingSeq(q)' = WaitingSeq(q) /\ ReturnedSeq(q)' = ReturnedSeq(q) /\ free'[q] = free[q]
  BY DEF WaitingSeq, ReturnedSeq, ringVars

\* After a reset, and at the beginning, the driver owns every chain.
LEMMA FreshRings ==
    ASSUME NEW q \in Queues, QueueInit
    PROVE  WaitingSeq(q) = << >> /\ ReturnedSeq(q) = << >> /\ free[q] = Heads
<1>1. EmptyRings[q] \in [Slot -> Heads]
  BY EmptyRingsType
<1>2. Entries(EmptyRings[q], 0, 0) = << >>
  BY <1>1, ZeroInIdx, EntriesEmpty
<1> QED
  BY <1>2 DEF QueueInit, WaitingSeq, ReturnedSeq

LEMMA ResetStep ==
    ASSUME NEW q \in Queues, DriverReset
    PROVE  WaitingSeq(q)' = << >> /\ ReturnedSeq(q)' = << >> /\ free'[q] = Heads
<1>1. EmptyRings[q] \in [Slot -> Heads]
  BY EmptyRingsType
<1>2. Entries(EmptyRings[q], 0, 0) = << >>
  BY <1>1, ZeroInIdx, EntriesEmpty
<1> QED
  BY <1>2 DEF DriverReset, virtio_reset, WaitingSeq, ReturnedSeq

-----------------------------------------------------------------------------
(* The sets of chains that VirtQueue names                                 *)

LEMMA EntriesMembers ==
    ASSUME NEW ring \in [Slot -> Heads], NEW a \in Idx, NEW b \in Idx
    PROVE  Members(Entries(ring, a, b)) = {ring[SlotOf(i)] : i \in Span(a, b)}
<1> DEFINE d == Dist(a, b)
           S == {ring[SlotOf(i)] : i \in Span(a, b)}
<1>1. d \in Nat /\ a \in Nat /\ IdxMod \in Nat \ {0}
  BY DistType, IdxIsInt, Sizes
<1>2. Span(a, b) = {(a + k) % IdxMod : k \in 0 .. d - 1}
  BY DEF Span, Dist
<1>3. Members(Entries(ring, a, b)) = {ring[SlotOf(a + (k - 1))] : k \in 1 .. d}
  <2>1. Len(Entries(ring, a, b)) = d
    BY EntriesType
  <2>2. \A k \in 1 .. d : Entries(ring, a, b)[k] = ring[SlotOf(a + (k - 1))]
    BY DEF Entries
  <2> QED
    BY <2>1, <2>2 DEF Members
<1>4. \A k \in Nat : SlotOf((a + k) % IdxMod) = SlotOf(a + k)
  BY <1>1, SlotWrap
<1> HIDE DEF d
<1>5. ASSUME NEW k \in 1 .. d PROVE ring[SlotOf(a + (k - 1))] \in S
  <2>1. k - 1 \in 0 .. d - 1 /\ k - 1 \in Nat
    BY <1>1
  <2>2. (a + (k - 1)) % IdxMod \in Span(a, b)
    BY <1>2, <2>1
  <2> QED
    BY <1>4, <2>1, <2>2
<1>6. ASSUME NEW i \in Span(a, b) PROVE \E k \in 1 .. d : ring[SlotOf(i)] = ring[SlotOf(a + (k - 1))]
  <2>1. PICK k \in 0 .. d - 1 : i = (a + k) % IdxMod
    BY <1>2
  <2>2. k + 1 \in 1 .. d /\ (k + 1) - 1 = k /\ k \in Nat
    BY <1>1
  <2>3. ring[SlotOf(i)] = ring[SlotOf(a + ((k + 1) - 1))]
    BY <1>4, <2>1, <2>2
  <2> QED
    BY <2>2, <2>3
<1> QED
  BY <1>3, <1>5, <1>6

LEMMA MembersCount ==
    ASSUME NEW s \in Seq(Heads), IsDistinct(s)
    PROVE  Cardinality(Members(s)) = Len(s)
<1> DEFINE f == [k \in 1 .. Len(s) |-> s[k]]
<1>1. f \in [1 .. Len(s) -> Members(s)]
  BY DEF Members
<1>2. f \in Injection(1 .. Len(s), Members(s))
  BY <1>1 DEF Injection, IsInjective, IsDistinct
<1>3. f \in Surjection(1 .. Len(s), Members(s))
  BY <1>1 DEF Surjection, Members
<1>4. ExistsBijection(1 .. Len(s), Members(s)) /\ Len(s) \in Nat
  BY <1>2, <1>3 DEF ExistsBijection, Bijection
<1> QED
  BY <1>4, FS_CountingElements

LEMMA QueueSets ==
    ASSUME QueueTypeOK, NEW q \in Queues
    PROVE  /\ Waiting(q) = Members(WaitingSeq(q))
           /\ Returned(q) = Members(ReturnedSeq(q))
           /\ IsDistinct(WaitingSeq(q)) /\ IsDistinct(ReturnedSeq(q)) => Distinct(q)
<1>1. avail[q] \in [Slot -> Heads] /\ last_avail_idx[q] \in Idx /\ avail_idx[q] \in Idx
  BY DEF QueueTypeOK
<1>2. used[q] \in [Slot -> Heads] /\ seen[q] \in Idx /\ used_idx[q] \in Idx
  BY DEF QueueTypeOK
<1>3. Waiting(q) = Members(WaitingSeq(q))
  BY <1>1, EntriesMembers DEF Waiting, WaitingSeq
<1>4. Returned(q) = Members(ReturnedSeq(q))
  BY <1>2, EntriesMembers DEF Returned, ReturnedSeq
<1>5. ASSUME IsDistinct(WaitingSeq(q)), IsDistinct(ReturnedSeq(q)) PROVE Distinct(q)
  BY <1>3, <1>4, <1>5, MembersCount, SeqLengths DEF Distinct, Dist
<1> QED
  BY <1>3, <1>4, <1>5
=============================================================================
