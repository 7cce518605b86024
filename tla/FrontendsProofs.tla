--------------------------- MODULE FrontendsProofs ---------------------------
(***************************************************************************)
(* Proofs about the front ends, as Frontends composes them:                *)
(*                                                                         *)
(*   - the ring of the browser's console (JsConsole) keeps the characters  *)
(*     and gives them to the guest in order;                               *)
(*   - the native loop (TemuLoop) loses no packet of the tap interface     *)
(*     that fits a buffer;                                                 *)
(*   - it gives the guest what was typed, without the escapes, however the *)
(*     input is cut into reads;                                            *)
(*   - what is typed and pressed in the PDF (PdfKeyboard) arrives as it    *)
(*     was meant.                                                          *)
(*                                                                         *)
(* All of it for rings, buffers, queues and inputs of any size.            *)
(***************************************************************************)
EXTENDS Frontends, TLAPS, WellFoundedInduction

-----------------------------------------------------------------------------
(* The ring of the browser's console                                       *)

\* The next free place follows the last character.
IndicesAgree == console_fifo_windex = Wrap(console_fifo_rindex + console_fifo_count)

RingTypes ==
    /\ console_fifo \in [FifoIndices -> Chars]
    /\ console_fifo_windex \in FifoIndices
    /\ console_fifo_rindex \in FifoIndices
    /\ console_fifo_count \in 0 .. FifoSize
    /\ queued \in Seq(Chars)
    /\ filled \in Seq(Seq(Chars))

RingInv == RingTypes /\ IndicesAgree /\ CharsKept

(* Wrapping keeps an index inside the ring, as long as it is less than one *)
(* turn too large.                                                         *)
LEMMA WrapInRange ==
    ASSUME NEW i \in 0 .. (2 * FifoSize - 1)
    PROVE  Wrap(i) \in FifoIndices
  BY FifoAssumption DEF Wrap, FifoIndices

(* Reading characters of the ring gives a sequence of them.                *)
LEMMA NextCharsType ==
    ASSUME RingTypes, NEW n \in 0 .. FifoSize
    PROVE  /\ NextChars(n) \in Seq(Chars)
           /\ Len(NextChars(n)) = n
           /\ \A k \in 1 .. n :
                NextChars(n)[k] = console_fifo[Wrap(console_fifo_rindex + k - 1)]
  <1>1. \A k \in 1 .. n : console_fifo[Wrap(console_fifo_rindex + k - 1)] \in Chars
    <2>1. TAKE k \in 1 .. n
    <2>2. console_fifo_rindex + k - 1 \in 0 .. (2 * FifoSize - 1)
      BY FifoAssumption DEF RingTypes, FifoIndices
    <2> QED BY <2>2, WrapInRange DEF RingTypes
  <1> QED BY <1>1, FifoAssumption DEF NextChars

(* Appending to a sequence and taking its tail stay within its type.       *)
LEMMA AppendTail ==
    ASSUME NEW S, NEW s \in Seq(S)
    PROVE  /\ \A x \in S : Append(s, x) \in Seq(S)
           /\ << >> \in Seq(S) /\ Len(<< >>) = 0
           /\ Len(s) \in Nat
           /\ s # << >> => Tail(s) \in Seq(S) /\ Len(Tail(s)) = Len(s) - 1
  OBVIOUS

(* The ring starts empty.                                                  *)
LEMMA InitRing == Init => RingInv
  <1> SUFFICES ASSUME Init PROVE RingInv
    OBVIOUS
  <1>1. RingTypes
    BY FifoAssumption DEF Init, RxInit, RingTypes, FifoIndices
  <1>2. IndicesAgree
    BY FifoAssumption DEF Init, IndicesAgree, Wrap
  <1>3. CharsKept
    BY <1>1, NextCharsType, FifoAssumption DEF Init, CharsKept
  <1> QED BY <1>1, <1>2, <1>3 DEF RingInv

(* A character that is queued becomes the last one of the ring.            *)
LEMMA QueueStep ==
    ASSUME RingInv, NEW c \in Chars, console_queue_char(c)
    PROVE  RingInv'
  <1> USE DEF RingInv
  <1>1. CASE console_fifo_count >= FifoSize
    BY <1>1, FifoAssumption
    DEF console_queue_char, RingTypes, IndicesAgree, CharsKept, NextChars, fifoVars, rxVars, Wrap
  <1>2. CASE console_fifo_count < FifoSize
    <2>1. /\ console_fifo' = [console_fifo EXCEPT ![console_fifo_windex] = c]
          /\ console_fifo_windex' = Wrap(console_fifo_windex + 1)
          /\ console_fifo_count' = console_fifo_count + 1
          /\ queued' = Append(queued, c)
          /\ console_fifo_rindex' = console_fifo_rindex
          /\ filled' = filled
      BY <1>2, FifoAssumption DEF console_queue_char, rxVars, RingTypes
    <2>2. RingTypes'
      <3>1. Wrap(console_fifo_windex + 1) \in FifoIndices
        BY FifoAssumption DEF Wrap, FifoIndices, RingTypes
      <3> QED BY <2>1, <3>1, <1>2, FifoAssumption DEF RingTypes, FifoIndices
    <2>3. IndicesAgree'
      BY <2>1, <1>2, FifoAssumption DEF IndicesAgree, Wrap, RingTypes, FifoIndices
    <2>4. CharsKept'
      <3> DEFINE m == console_fifo_count
                 N == [k \in 1 .. m + 1 |-> console_fifo'[Wrap(console_fifo_rindex + k - 1)]]
      <3>1. m \in 0 .. FifoSize /\ m + 1 \in 0 .. FifoSize
        BY <1>2, FifoAssumption DEF RingTypes
      <3>2. /\ queued \in Seq(Chars) /\ Len(queued) = m
            /\ \A k \in 1 .. m : queued[k] = console_fifo[Wrap(console_fifo_rindex + k - 1)]
        BY <3>1, NextCharsType DEF CharsKept
      <3>3. /\ N \in Seq(Chars) /\ Len(N) = m + 1
            /\ \A k \in 1 .. m + 1 : N[k] = console_fifo'[Wrap(console_fifo_rindex + k - 1)]
        <4>1. \A k \in 1 .. m + 1 : console_fifo'[Wrap(console_fifo_rindex + k - 1)] \in Chars
          <5>1. TAKE k \in 1 .. m + 1
          <5>2. console_fifo_rindex + k - 1 \in 0 .. (2 * FifoSize - 1)
            BY <3>1, FifoAssumption DEF RingTypes, FifoIndices
          <5> QED BY <5>2, <2>2, WrapInRange DEF RingTypes
        <4> QED BY <4>1, <3>1
      <3>4. \A k \in 1 .. m :
              console_fifo'[Wrap(console_fifo_rindex + k - 1)] =
                  console_fifo[Wrap(console_fifo_rindex + k - 1)]
        <4>1. TAKE k \in 1 .. m
        <4>2. Wrap(console_fifo_rindex + k - 1) # console_fifo_windex
          BY <1>2, FifoAssumption DEF IndicesAgree, Wrap, RingTypes, FifoIndices
        <4>3. Wrap(console_fifo_rindex + k - 1) \in FifoIndices
          BY <1>2, FifoAssumption DEF Wrap, RingTypes, FifoIndices
        <4> QED BY <4>2, <4>3, <2>1 DEF RingTypes
      <3>5. console_fifo'[Wrap(console_fifo_rindex + m)] = c
        BY <2>1, <1>2 DEF IndicesAgree, RingTypes
      <3>6. N = Append(queued, c)
        <4> HIDE DEF N
        <4>1. /\ Append(queued, c) \in Seq(Chars) /\ Len(Append(queued, c)) = m + 1
              /\ \A k \in 1 .. m : Append(queued, c)[k] = queued[k]
              /\ Append(queued, c)[m + 1] = c
          BY <3>2, <3>1
        <4>2. \A k \in 1 .. m : N[k] = Append(queued, c)[k]
          BY <4>1, <3>1, <3>2, <3>3, <3>4
        <4>3. N[m + 1] = c
          <5>1. m + 1 \in 1 .. m + 1 /\ console_fifo_rindex + (m + 1) - 1 = console_fifo_rindex + m
            BY <3>1, FifoAssumption DEF RingTypes, FifoIndices
          <5> QED BY <5>1, <3>3, <3>5
        <4> QED BY <4>1, <4>2, <4>3, <3>1, <3>3
      <3>7. NextChars(console_fifo_count)' = N
        BY <2>1 DEF NextChars, Wrap
      <3> QED BY <3>6, <3>7, <2>1 DEF CharsKept
    <2> QED BY <2>2, <2>3, <2>4
  <1> QED BY <1>1, <1>2, FifoAssumption DEF RingTypes

(* What is left of a sequence without its first n elements.                *)
LEMMA RestOfSeq ==
    ASSUME NEW V, NEW s \in Seq(V), NEW n \in 0 .. Len(s)
    PROVE  /\ SubSeq(s, n + 1, Len(s)) \in Seq(V)
           /\ Len(SubSeq(s, n + 1, Len(s))) = Len(s) - n
           /\ \A k \in 1 .. Len(s) - n : SubSeq(s, n + 1, Len(s))[k] = s[n + k]
  <1> DEFINE a == n + 1
             l == Len(s)
  <1>1. /\ a \in Nat \ {0} /\ l \in Nat /\ a <= l + 1 /\ l + 1 - a = l - n
        /\ \A k \in 1 .. l - n : a + k - 1 = n + k
        /\ \A k \in a .. l : k \in 1 .. Len(s)
    OBVIOUS
  <1> HIDE DEF a
  <1>2. SubSeq(s, a, l) \in Seq(V) /\ Len(SubSeq(s, a, l)) = l - n
    BY <1>1
  <1>3. \A k \in 1 .. l - n : SubSeq(s, a, l)[k] = s[a + k - 1]
    BY <1>1
  <1> QED BY <1>1, <1>2, <1>3 DEF a

(* A read takes the oldest characters out of the ring.                     *)
LEMMA ReadStep ==
    ASSUME RingInv, NEW w \in 1 .. BufSize, virt_machine_run(w)
    PROVE  /\ RingInv'
           /\ \/ filled' = filled
              \/ \E n \in 1 .. Len(queued) : /\ filled' = Append(filled, SubSeq(queued, 1, n))
                                            /\ queued' = SubSeq(queued, n + 1, Len(queued))
  <1> USE DEF RingInv
  <1> DEFINE m == console_fifo_count
             n == Least(w, m)
             rest == SubSeq(queued, n + 1, Len(queued))
  <1>1. /\ m \in 0 .. FifoSize /\ n \in 0 .. m /\ n <= BufSize /\ n \in 0 .. FifoSize
        /\ m - n \in 0 .. FifoSize
    BY FifoAssumption DEF RingTypes, Least
  <1>2. /\ console_fifo_count' = m - n
        /\ console_fifo_rindex' = Wrap(console_fifo_rindex + n)
        /\ queued' = rest
        /\ console_fifo' = console_fifo
        /\ console_fifo_windex' = console_fifo_windex
        /\ \/ n > 0 /\ filled' = Append(filled, NextChars(n))
           \/ filled' = filled
    BY DEF virt_machine_run, Put, rxVars
  <1>3. /\ queued \in Seq(Chars) /\ Len(queued) = m
        /\ \A k \in 1 .. m : queued[k] = console_fifo[Wrap(console_fifo_rindex + k - 1)]
    BY <1>1, NextCharsType DEF CharsKept
  <1>4. /\ NextChars(n) \in Seq(Chars) /\ Len(NextChars(n)) = n
        /\ \A k \in 1 .. n : NextChars(n)[k] = console_fifo[Wrap(console_fifo_rindex + k - 1)]
    BY <1>1, NextCharsType
  <1> HIDE DEF n, m
  <1>5. NextChars(n) = SubSeq(queued, 1, n)
    <2>1. /\ SubSeq(queued, 1, n) \in Seq(Chars) /\ Len(SubSeq(queued, 1, n)) = n
          /\ \A k \in 1 .. n : SubSeq(queued, 1, n)[k] = queued[k]
      BY <1>1, <1>3
    <2>2. \A k \in 1 .. n : NextChars(n)[k] = SubSeq(queued, 1, n)[k]
      BY <2>1, <1>1, <1>3, <1>4
    <2> QED BY <2>1, <2>2, <1>1, <1>4
  <1>6. /\ rest \in Seq(Chars) /\ Len(rest) = m - n
        /\ \A k \in 1 .. m - n : rest[k] = queued[n + k]
    <2>1. queued \in Seq(Chars) /\ n \in 0 .. Len(queued) /\ Len(queued) = m
      BY <1>1, <1>3
    <2>2. /\ rest \in Seq(Chars) /\ Len(rest) = Len(queued) - n
          /\ \A k \in 1 .. Len(queued) - n : rest[k] = queued[n + k]
      BY <2>1, RestOfSeq, Zenon
    <2> QED BY <2>1, <2>2, Zenon
  <1>7. RingTypes'
    <2>1. Wrap(console_fifo_rindex + n) \in FifoIndices
      BY <1>1, FifoAssumption DEF Wrap, FifoIndices, RingTypes
    <2>2. filled' \in Seq(Seq(Chars))
      BY <1>2, <1>4, AppendTail DEF RingTypes
    <2> QED BY <1>1, <1>2, <1>6, <2>1, <2>2 DEF RingTypes
  <1>8. IndicesAgree'
    BY <1>1, <1>2, FifoAssumption DEF m, IndicesAgree, Wrap, RingTypes, FifoIndices
  <1>9. CharsKept'
    <2> HIDE DEF rest
    <2> DEFINE N == [k \in 1 .. m - n |-> console_fifo[Wrap(Wrap(console_fifo_rindex + n) + k - 1)]]
    <2>1. \A k \in 1 .. m - n :
            /\ Wrap(Wrap(console_fifo_rindex + n) + k - 1) = Wrap(console_fifo_rindex + (n + k) - 1)
            /\ n + k \in 1 .. m
      BY <1>1, FifoAssumption DEF Wrap, RingTypes, FifoIndices
    <2>2. \A k \in 1 .. m - n : N[k] = rest[k]
      BY <2>1, <1>3, <1>6
    <2>3. N = rest
      BY <2>2, <1>6, <1>1
    <2>4. NextChars(console_fifo_count)' = N
      BY <1>2 DEF NextChars, Wrap
    <2> QED BY <2>3, <2>4, <1>2 DEF CharsKept
  <1>10. \/ filled' = filled
         \/ \E i \in 1 .. Len(queued) : /\ filled' = Append(filled, SubSeq(queued, 1, i))
                                       /\ queued' = SubSeq(queued, i + 1, Len(queued))
    <2>1. CASE n > 0 /\ filled' = Append(filled, NextChars(n))
      <3>1. n \in 1 .. Len(queued)
        BY <2>1, <1>1, <1>3
      <3> QED BY <3>1, <2>1, <1>2, <1>5, Zenon DEF rest
    <2> QED BY <2>1, <1>2
  <1> QED BY <1>7, <1>8, <1>9, <1>10

(* The guest's own steps do not touch the ring and never make the sequence *)
(* of filled buffers longer.                                               *)
LEMMA GuestStep ==
    ASSUME RingInv, Post \/ SetReady \/ Take \/ Reset \/ UNCHANGED vars
    PROVE  RingInv' /\ ~(Len(filled') > Len(filled))
  <1> USE DEF RingInv
  <1>1. /\ UNCHANGED <<console_fifo, console_fifo_windex, console_fifo_rindex,
                       console_fifo_count, queued>>
        /\ \/ filled' = filled
           \/ filled # << >> /\ filled' = Tail(filled)
           \/ filled' = << >>
    BY DEF Post, SetReady, Take, Reset, RxPost, RxReady, RxTake, RxReset, vars, fifoVars, rxVars
  <1>2. filled' \in Seq(Seq(Chars)) /\ Len(filled') <= Len(filled) /\ Len(filled) \in Nat
    <2> DEFINE S == Seq(Chars)
    <2>1. filled \in Seq(S)
      BY DEF RingTypes
    <2> HIDE DEF S
    <2>2. /\ << >> \in Seq(S) /\ Len(<< >>) = 0
          /\ Len(filled) \in Nat
          /\ filled # << >> => Tail(filled) \in Seq(S) /\ Len(Tail(filled)) = Len(filled) - 1
      BY <2>1, AppendTail
    <2>3. filled' \in Seq(S) /\ Len(filled') <= Len(filled)
      <3>1. CASE filled' = filled
        BY <3>1, <2>1, <2>2
      <3>2. CASE filled # << >> /\ filled' = Tail(filled)
        <4>1. Tail(filled) \in Seq(S) /\ Len(Tail(filled)) = Len(filled) - 1
          BY <3>2, <2>2
        <4> QED BY <4>1, <3>2, <2>2
      <3>3. CASE filled' = << >>
        BY <3>3, <2>2
      <3> QED BY <3>1, <3>2, <3>3, <1>1
    <2> QED BY <2>2, <2>3 DEF S
  <1>3. RingTypes'
    BY <1>1, <1>2 DEF RingTypes
  <1>4. IndicesAgree' /\ CharsKept'
    BY <1>1 DEF IndicesAgree, CharsKept, NextChars, Wrap
  <1> QED BY <1>2, <1>3, <1>4

(* In every front end, the steps are those of the ring or leave it alone.  *)
LEMMA RingSteps ==
    ASSUME [JsStep \/ PdfStep \/ TemuStep]_<<unit, vars, pdfVars, temuVars>>
    PROVE  [Next]_vars
  BY DEF JsStep, PdfStep, TemuStep

(* The ring keeps the accepted characters (console_fifo of jsemu.c), each  *)
(* once and in order, for every size of the ring.                          *)
THEOREM RingKeepsChars == FrontSpec => []CharsKept
  <1>1. RingInv /\ [Next]_vars => RingInv'
    BY QueueStep, ReadStep, GuestStep DEF Next
  <1>2. RingInv => CharsKept
    BY DEF RingInv
  <1>3. FrontInit => RingInv
    BY InitRing DEF FrontInit
  <1> QED BY <1>1, <1>2, <1>3, RingSteps, PTL DEF FrontSpec

(* virt_machine_run gives the guest the oldest accepted characters and     *)
(* removes exactly these from the ring.                                    *)
THEOREM OldestFirst == FrontSpec => ReadsInOrder
  <1>1. RingInv /\ [Next]_vars => RingInv'
    BY QueueStep, ReadStep, GuestStep DEF Next
  <1>2. RingInv /\ [Next]_vars => [OldestRead]_vars
    <2> SUFFICES ASSUME RingInv, Next PROVE OldestRead
      BY DEF vars
    <2>1. CASE \E c \in Chars : console_queue_char(c)
      <3>1. filled' = filled
        BY <2>1 DEF console_queue_char, rxVars
      <3> QED BY <3>1 DEF RingInv, RingTypes, OldestRead
    <2>2. CASE \E w \in 1 .. BufSize : virt_machine_run(w)
      <3>1. \/ filled' = filled
            \/ \E n \in 1 .. Len(queued) : /\ filled' = Append(filled, SubSeq(queued, 1, n))
                                          /\ queued' = SubSeq(queued, n + 1, Len(queued))
        BY <2>2, ReadStep
      <3>2. ~(Len(filled) > Len(filled))
        BY DEF RingInv, RingTypes
      <3> QED BY <3>1, <3>2, Zenon DEF OldestRead
    <2>3. CASE Post \/ SetReady \/ Take \/ Reset
      BY <2>3, GuestStep DEF OldestRead
    <2> QED BY <2>1, <2>2, <2>3 DEF Next
  <1>3. FrontInit => RingInv
    BY InitRing DEF FrontInit
  <1> QED BY <1>1, <1>2, <1>3, RingSteps, PTL DEF FrontSpec, ReadsInOrder

-----------------------------------------------------------------------------
(* Naturals                                                                *)

Below == {ss \in Nat \X Nat : ss[1] < ss[2]}

(* A set of naturals has a least element.                                  *)
LEMMA LeastNat ==
    ASSUME NEW T, T \subseteq Nat, T # {}
    PROVE  \E x \in T : \A y \in T : x <= y
<1>1. IsWellFoundedOn(Below, Nat)
  BY NatLessThanWellFounded, Zenon DEF OpToRel, Below
<1>2. PICK x \in T : \A y \in T : ~ (<<y, x>> \in Below)
  BY <1>1, WFMin, Zenon
<1>3. ASSUME NEW y \in T PROVE x <= y
  <2>1. <<y, x>> \notin Below
    BY <1>2
  <2> QED BY <2>1 DEF Below
<1> QED BY <1>3

(* Induction, for membership in a set.                                     *)
LEMMA Induct ==
    ASSUME NEW S, 0 \in S, \A n \in Nat : n \in S => n + 1 \in S
    PROVE  \A n \in Nat : n \in S
<1> DEFINE T == {m \in Nat : m \notin S}
<1>1. SUFFICES ASSUME T # {} PROVE FALSE
  OBVIOUS
<1>2. PICK x \in T : \A y \in T : x <= y
  <2>1. T \subseteq Nat
    OBVIOUS
  <2> HIDE DEF T
  <2> QED BY <1>1, <2>1, LeastNat
<1>3. x \in Nat /\ x # 0 /\ x \notin S
  OBVIOUS
<1>4. x - 1 \in Nat /\ ~ (x <= x - 1) /\ (x - 1) + 1 = x
  BY <1>3
<1>5. x - 1 \in S
  BY <1>2, <1>4
<1> QED BY <1>3, <1>4, <1>5

-----------------------------------------------------------------------------
(* Escapes                                                                 *)

Esc(s, i) == Temu!StartsEscape(s, i)

(* Nothing before the first character starts an escape.                    *)
LEMMA NoEscapeYet == ASSUME NEW s PROVE ~ Esc(s, 0)
  BY DEF Esc, Temu!StartsEscape

(* A C-a starts an escape unless it is the command of one: what            *)
(* StartsEscape says of a whole run of C-a is what console_read's state    *)
(* says of one character after the other.                                  *)
LEMMA EscapeStep ==
    ASSUME NEW s, NEW i \in Nat \ {0}
    PROVE  Esc(s, i) <=> s[i] = "^A" /\ ~ Esc(s, i - 1)
<1> DEFINE Starts(k) == /\ \A j \in k .. i : s[j] = "^A"
                        /\ k > 1 => s[k - 1] # "^A"
<1>1. ASSUME Esc(s, i) PROVE s[i] = "^A" /\ ~ Esc(s, i - 1)
  <2>1. PICK k \in 1 .. i : Starts(k) /\ (i - k) % 2 = 0
    BY <1>1 DEF Esc, Temu!StartsEscape
  <2>2. s[i] = "^A"
    BY <2>1
  <2>3. SUFFICES ASSUME Esc(s, i - 1) PROVE FALSE
    BY <2>2
  <2>4. PICK m \in 1 .. (i - 1) : /\ \A j \in m .. (i - 1) : s[j] = "^A"
                                  /\ m > 1 => s[m - 1] # "^A"
                                  /\ ((i - 1) - m) % 2 = 0
    BY <2>3 DEF Esc, Temu!StartsEscape
  <2>5. s[i - 1] = "^A"
    BY <2>4
  <2>6. k # i
    BY <2>1, <2>4, <2>5
  <2>7. ~ (k < m)
    <3>1. SUFFICES ASSUME k < m PROVE FALSE
      OBVIOUS
    <3>2. m - 1 \in k .. i /\ m > 1
      BY <3>1
    <3> QED BY <2>1, <2>4, <3>2
  <2>8. ~ (m < k)
    <3>1. SUFFICES ASSUME m < k PROVE FALSE
      OBVIOUS
    <3>2. k - 1 \in m .. (i - 1) /\ k > 1
      BY <3>1
    <3> QED BY <2>1, <2>4, <3>2
  <2>9. k = m
    BY <2>7, <2>8
  <2>10. (i - k) % 2 = 0 /\ ((i - 1) - k) % 2 = 0 /\ i - k \in Int
    BY <2>1, <2>4, <2>9
  <2> QED BY <2>10
<1>2. ASSUME s[i] = "^A", ~ Esc(s, i - 1) PROVE Esc(s, i)
  <2> DEFINE T == {k \in 1 .. i : \A j \in k .. i : s[j] = "^A"}
  <2>1. i \in T
    BY <1>2
  <2>2. PICK k \in T : \A y \in T : k <= y
    <3>1. T \subseteq Nat /\ T # {}
      BY <2>1
    <3> HIDE DEF T
    <3> QED BY <3>1, LeastNat
  <2>3. ASSUME k > 1, s[k - 1] = "^A" PROVE FALSE
    <3>1. k - 1 \in 1 .. i /\ ~ (k <= k - 1)
      BY <2>2, <2>3
    <3>2. \A j \in (k - 1) .. i : j = k - 1 \/ j \in k .. i
      BY <2>2
    <3>3. k - 1 \in T
      BY <2>2, <2>3, <3>1, <3>2
    <3> QED BY <2>2, <3>1, <3>3
  <2>4. k \in 1 .. i /\ Starts(k)
    BY <2>2, <2>3
  <2>5. CASE (i - k) % 2 = 0
    BY <2>4, <2>5 DEF Esc, Temu!StartsEscape
  <2>6. CASE (i - k) % 2 # 0
    <3>1. i - k \in Nat
      BY <2>4
    <3>2. ((i - 1) - k) % 2 = 0 /\ k # i
      BY <2>6, <3>1, <2>4
    <3>3. k \in 1 .. (i - 1) /\ i - 1 > 0
      BY <2>4, <3>2
    <3>4. Esc(s, i - 1)
      BY <2>4, <3>2, <3>3 DEF Esc, Temu!StartsEscape
    <3> QED BY <1>2, <3>4
  <2> QED BY <2>5, <2>6
<1> QED BY <1>1, <1>2

(* Whether a character starts an escape is told by those up to it.         *)
LEMMA EscapeLocal ==
    ASSUME NEW s, NEW t, NEW n \in Nat, \A i \in 1 .. n : s[i] = t[i], NEW i \in 0 .. n
    PROVE  Esc(s, i) <=> Esc(t, i)
<1>1. \A k \in 1 .. i : \A j \in k .. i : s[j] = t[j]
  OBVIOUS
<1>2. \A k \in 1 .. i : k > 1 => s[k - 1] = t[k - 1]
  OBVIOUS
<1> QED BY <1>1, <1>2 DEF Esc, Temu!StartsEscape

-----------------------------------------------------------------------------
(* Selections                                                              *)

(* Nothing is selected from no places.                                     *)
LEMMA SelectNone == ASSUME NEW s PROVE Temu!IsSelection(<< >>, s, {})
<1> DEFINE f == [k \in DOMAIN << >> |-> k]
<1>1. DOMAIN << >> = {}
  OBVIOUS
<1>2. f \in [DOMAIN << >> -> {}]
  BY <1>1
<1> QED BY <1>1, <1>2 DEF Temu!IsSelection

(* A selection depends on the selected places only.                        *)
LEMMA SelectSame ==
    ASSUME NEW out, NEW s, NEW t, NEW P, \A i \in P : s[i] = t[i], Temu!IsSelection(out, s, P)
    PROVE  Temu!IsSelection(out, t, P)
<1>1. PICK place \in [DOMAIN out -> P] :
        /\ P = {place[k] : k \in DOMAIN out}
        /\ \A j, k \in DOMAIN out : j < k => place[j] < place[k]
        /\ \A k \in DOMAIN out : out[k] = s[place[k]]
  BY Zenon DEF Temu!IsSelection
<1>2. \A k \in DOMAIN out : out[k] = t[place[k]]
  BY <1>1
<1> QED BY <1>1, <1>2, Zenon DEF Temu!IsSelection

(* What lies behind all the selected places is selected last.              *)
LEMMA SelectMore ==
    ASSUME NEW V, NEW out \in Seq(V), NEW s, NEW P, P \subseteq Nat,
           NEW n \in Nat, \A i \in P : i < n, s[n] \in V, Temu!IsSelection(out, s, P)
    PROVE  Temu!IsSelection(Append(out, s[n]), s, P \cup {n})
<1>1. PICK place \in [DOMAIN out -> P] :
        /\ P = {place[k] : k \in DOMAIN out}
        /\ \A j, k \in DOMAIN out : j < k => place[j] < place[k]
        /\ \A k \in DOMAIN out : out[k] = s[place[k]]
  BY Zenon DEF Temu!IsSelection
<1> DEFINE l == Len(out)
           o == Append(out, s[n])
           p == [k \in 1 .. (l + 1) |-> IF k = l + 1 THEN n ELSE place[k]]
<1>2. /\ l \in Nat /\ DOMAIN out = 1 .. l /\ DOMAIN o = 1 .. (l + 1)
      /\ o[l + 1] = s[n] /\ \A k \in 1 .. l : o[k] = out[k]
  OBVIOUS
<1>3. \A k \in 1 .. (l + 1) : k = l + 1 \/ k \in 1 .. l
  BY <1>2
<1>4. l + 1 \notin 1 .. l /\ l + 1 \in 1 .. (l + 1) /\ \A k \in 1 .. l : k \in 1 .. (l + 1)
  BY <1>2
<1> HIDE DEF l, o
<1>5. p[l + 1] = n /\ \A k \in 1 .. l : p[k] = place[k] /\ place[k] \in P
  BY <1>1, <1>2, <1>4
<1>6. p \in [DOMAIN o -> P \cup {n}]
  BY <1>2, <1>3, <1>5
<1> HIDE DEF p
<1>7. P \cup {n} = {p[k] : k \in DOMAIN o}
  <2>1. ASSUME NEW x \in P PROVE \E k \in DOMAIN o : x = p[k]
    <3>1. PICK k \in DOMAIN out : x = place[k]
      BY <1>1
    <3> QED BY <1>2, <1>4, <1>5, <3>1
  <2>2. \E k \in DOMAIN o : n = p[k]
    BY <1>2, <1>4, <1>5
  <2>3. \A k \in DOMAIN o : p[k] \in P \cup {n}
    BY <1>2, <1>3, <1>5
  <2> QED BY <2>1, <2>2, <2>3
<1>8. ASSUME NEW j \in DOMAIN o, NEW k \in DOMAIN o, j < k PROVE p[j] < p[k]
  <2>1. j \in 1 .. l
    BY <1>2, <1>8
  <2>2. CASE k = l + 1
    BY <1>5, <2>1, <2>2
  <2>3. CASE k \in 1 .. l
    <3>1. place[j] < place[k]
      BY <1>1, <1>2, <1>8, <2>1, <2>3
    <3> QED BY <1>5, <2>1, <2>3, <3>1
  <2> QED BY <1>2, <1>3, <2>2, <2>3
<1>9. ASSUME NEW k \in DOMAIN o PROVE o[k] = s[p[k]]
  <2>2. CASE k = l + 1
    BY <1>2, <1>5, <2>2
  <2>3. CASE k \in 1 .. l
    BY <1>1, <1>2, <1>5, <2>3
  <2> QED BY <1>2, <1>3, <2>2, <2>3
<1>10. Temu!IsSelection(o, s, P \cup {n})
  BY <1>6, <1>7, <1>8, <1>9, Zenon DEF Temu!IsSelection
<1> QED BY <1>10 DEF o

-----------------------------------------------------------------------------
(* The packets of the tap interface                                        *)

Fit(s, n) == {i \in 1 .. n : s[i] <= NetBuf}

(* While the loop is on its way to reading a packet the guest has a buffer *)
(* for it: only virt_machine_interp, at another point, lets the guest act. *)
TunInv ==
    /\ tun \in Seq(Packets) /\ received \in Seq(Packets) /\ ntaken \in 0 .. Len(tun)
    /\ pc \in {"gotsize", "select"} /\ "tun" \in rfds => Temu!Net!CanPut
    /\ NoPacketDropped

(* The assumption on the constants of TemuLoop.                            *)
LEMMA TemuConstants ==
    /\ {TypeMax, PacketMax, ResizeMax, NetBuf} \subseteq Nat
    /\ {ReadMax, TermRxMax} \subseteq Nat \ {0}
    /\ Packets \subseteq Nat
  BY FrontendAssumption DEF Temu!LoopAssumption

(* No packet has arrived at the start.                                     *)
LEMMA TunStart == FrontInit => TunInv
<1> SUFFICES ASSUME FrontInit PROVE TunInv
  OBVIOUS
<1>1. tun = << >> /\ received = << >> /\ ntaken = 0 /\ pc = "top"
  BY DEF FrontInit, Temu!Init
<1>2. {i \in 1 .. ntaken : tun[i] <= NetBuf} = {}
  BY <1>1
<1>3. NoPacketDropped
  BY <1>1, <1>2, SelectNone DEF NoPacketDropped, Temu!NoPacketDropped
<1> QED BY <1>1, <1>3 DEF TunInv

(* A packet is read.                                                       *)
LEMMA TunPoll ==
    ASSUME TunInv, Temu!Poll
    PROVE  TunInv'
<1>0. pc = "select" /\ pc' = "interp" /\ Temu!tun_select_poll("tun" \in Temu!Readable)
  BY DEF Temu!Poll
<1>1. CASE "tun" \notin Temu!Readable
  <2>1. UNCHANGED <<tun, ntaken, received>>
    BY <1>0, <1>1 DEF Temu!tun_select_poll, Temu!tunVars
  <2> QED BY <1>0, <2>1 DEF TunInv, NoPacketDropped, Temu!NoPacketDropped
<1>2. CASE "tun" \in Temu!Readable
  <2> DEFINE n == ntaken + 1
             p == tun[n]
  <2>1. "tun" \in rfds /\ ntaken < Len(tun)
    BY <1>2 DEF Temu!Readable
  <2>2. Temu!Net!CanPut
    BY <1>0, <2>1 DEF TunInv
  <2>3. /\ ntaken' = n /\ tun' = tun
        /\ IF p <= NetBuf THEN received' = Append(received, p) ELSE received' = received
    BY <1>0, <1>2, <2>2 DEF Temu!tun_select_poll, Temu!netVars
  <2>4. /\ n \in Nat /\ n \in 1 .. Len(tun) /\ p \in Packets /\ received \in Seq(Packets)
        /\ tun \in Seq(Packets) /\ ntaken \in Nat
    BY <2>1 DEF TunInv
  <2>5. Temu!IsSelection(received, tun, Fit(tun, ntaken))
    BY DEF TunInv, NoPacketDropped, Temu!NoPacketDropped, Fit
  <2>6. CASE p <= NetBuf
    <3>1. Fit(tun, n) = Fit(tun, ntaken) \cup {n}
      BY <2>4, <2>6 DEF Fit
    <3>2. Fit(tun, ntaken) \subseteq Nat /\ \A i \in Fit(tun, ntaken) : i < n
      BY <2>4 DEF Fit
    <3>3. Temu!IsSelection(received', tun, Fit(tun, n))
      <4>1. received' = Append(received, tun[n])
        BY <2>3, <2>6
      <4>2. n \in Nat /\ tun[n] \in Packets
        BY <2>4
      <4> HIDE DEF n
      <4>3. Temu!IsSelection(Append(received, tun[n]), tun, Fit(tun, ntaken) \cup {n})
        BY <2>4, <2>5, <3>2, <4>2, SelectMore, Zenon
      <4> QED BY <3>1, <4>1, <4>3
    <3>4. NoPacketDropped'
      BY <2>3, <3>3 DEF NoPacketDropped, Temu!NoPacketDropped, Fit
    <3>5. received' \in Seq(Packets)
      BY <2>3, <2>4, <2>6
    <3> QED BY <1>0, <2>3, <2>4, <3>4, <3>5 DEF TunInv
  <2>7. CASE ~ (p <= NetBuf)
    <3>1. Fit(tun, n) = Fit(tun, ntaken)
      BY <2>4, <2>7 DEF Fit
    <3>2. NoPacketDropped'
      BY <2>3, <2>5, <2>7, <3>1 DEF NoPacketDropped, Temu!NoPacketDropped, Fit
    <3> QED BY <1>0, <2>3, <2>4, <2>7, <3>2 DEF TunInv
  <2> QED BY <2>6, <2>7
<1> QED BY <1>1, <1>2

(* A packet arrives.                                                       *)
LEMMA TunArrive ==
    ASSUME TunInv, NEW p \in Packets, Temu!Arrive(p)
    PROVE  TunInv'
<1>1. /\ tun' = Append(tun, p)
      /\ UNCHANGED <<pc, rfds, nready, nposted, ntaken, received>>
  BY DEF Temu!Arrive, Temu!loopVars, Temu!netVars
<1>2. tun \in Seq(Packets) /\ ntaken \in 0 .. Len(tun)
  BY DEF TunInv
<1>3. tun' \in Seq(Packets) /\ Len(tun') = Len(tun) + 1
      /\ \A i \in 1 .. Len(tun) : tun'[i] = tun[i]
  BY <1>1, <1>2
<1>4. Fit(tun', ntaken) = Fit(tun, ntaken) /\ \A i \in Fit(tun, ntaken) : tun[i] = tun'[i]
  BY <1>2, <1>3 DEF Fit
<1>5. Temu!IsSelection(received, tun, Fit(tun, ntaken))
  BY DEF TunInv, NoPacketDropped, Temu!NoPacketDropped, Fit
<1>6. Temu!IsSelection(received, tun', Fit(tun', ntaken))
  BY <1>4, <1>5, SelectSame
<1>7. NoPacketDropped'
  BY <1>1, <1>6 DEF NoPacketDropped, Temu!NoPacketDropped, Fit
<1>8. ntaken \in 0 .. Len(tun')
  BY <1>2, <1>3
<1>9. Temu!Net!CanPut' <=> Temu!Net!CanPut
  BY <1>1 DEF Temu!Net!CanPut
<1> QED BY <1>1, <1>3, <1>7, <1>8, <1>9 DEF TunInv

(* The other steps leave the packets alone; those that take the guest's    *)
(* buffers away happen in virt_machine_interp.                             *)
LEMMA TunOther ==
    ASSUME TunInv,
           \/ Temu!FillSets \/ Temu!virtio_console_resize_event \/ Temu!SelectInterrupted
           \/ Temu!InterpEnds \/ Temu!Hangup
           \/ Temu!ConPost \/ Temu!ConTake \/ Temu!ConReady \/ Temu!ConReset \/ Temu!NetStep
           \/ \E c \in TermChars : Temu!Type(c)
           \/ Temu!term_resize_handler
           \/ UNCHANGED temuVars
    PROVE  TunInv'
<1>1. UNCHANGED <<tun, ntaken, received>>
  BY DEF Temu!FillSets, Temu!virtio_console_resize_event, Temu!SelectInterrupted,
     Temu!InterpEnds, Temu!Hangup, Temu!ConPost, Temu!ConTake, Temu!ConReady, Temu!ConReset, Temu!NetStep, Temu!InGuest,
     Temu!Type, Temu!term_resize_handler, Temu!tunVars, temuVars
<1>2. \/ pc' \in {"top", "interp"}
      \/ pc = "top" /\ ("tun" \in rfds' => Temu!Net!CanPut) /\ UNCHANGED <<nready, nposted>>
      \/ pc \in {"gotsize", "select"} /\ UNCHANGED <<rfds, nready, nposted>>
      \/ UNCHANGED <<pc, rfds, nready, nposted>>
  BY DEF Temu!FillSets, Temu!tun_select_fill, Temu!virtio_console_resize_event, Temu!SelectInterrupted,
     Temu!InterpEnds, Temu!Hangup, Temu!ConPost, Temu!ConTake, Temu!ConReady, Temu!ConReset, Temu!NetStep,
     Temu!InGuest, Temu!Type, Temu!term_resize_handler, Temu!loopVars, Temu!netVars, temuVars
<1>3. (pc' \in {"gotsize", "select"} /\ "tun" \in rfds' => Temu!Net!CanPut')
  BY <1>2 DEF TunInv, Temu!Net!CanPut
<1> QED BY <1>1, <1>3 DEF TunInv, NoPacketDropped, Temu!NoPacketDropped

(* Every step of every front end keeps the packets.                        *)
LEMMA TunStep ==
    ASSUME TunInv, [JsStep \/ PdfStep \/ TemuStep]_<<unit, vars, pdfVars, temuVars>>
    PROVE  TunInv'
<1>1. CASE Temu!Next
  BY <1>1, TunPoll, TunArrive, TunOther DEF Temu!Next, Temu!Loop
<1>2. CASE UNCHANGED temuVars
  BY <1>2, TunOther
<1> QED BY <1>1, <1>2 DEF JsStep, PdfStep, TemuStep

(* Every packet read from the tap interface that fits a buffer of the      *)
(* guest reaches it, once and in order, for all sizes of packets, buffers  *)
(* and queues.                                                             *)
THEOREM PacketsReachGuest == FrontSpec => []NoPacketDropped
<1>1. TunInv => NoPacketDropped
  BY DEF TunInv
<1> QED BY TunStart, TunStep, <1>1, PTL DEF FrontSpec

-----------------------------------------------------------------------------
(* The states of console_read's filter                                     *)

Begin(e) == [esc |-> e, exit |-> FALSE, out |-> << >>]

FilterStep(f, e, chars, i) ==
    IF i = 0 THEN [esc |-> e, exit |-> FALSE, out |-> << >>] ELSE Temu!Filter(f[i - 1], chars[i])

(* The recursive definition of the filter's states has a solution.         *)
LEMMA FilterStates ==
    ASSUME NEW e, NEW chars
    PROVE  \A n \in Nat : \E f : f = [i \in 0 .. n |-> FilterStep(f, e, chars, i)]
<1> DEFINE S == {n \in Nat : \E f : f = [i \in 0 .. n |-> FilterStep(f, e, chars, i)]}
<1>1. 0 \in S
  <2> DEFINE f == [i \in 0 .. 0 |-> Begin(e)]
  <2>1. \A i \in 0 .. 0 : FilterStep(f, e, chars, i) = Begin(e)
    BY DEF FilterStep, Begin
  <2>2. f = [i \in 0 .. 0 |-> FilterStep(f, e, chars, i)]
    BY <2>1
  <2> QED BY <2>2
<1>2. ASSUME NEW n \in Nat, n \in S PROVE n + 1 \in S
  <2>1. PICK f : f = [i \in 0 .. n |-> FilterStep(f, e, chars, i)]
    BY <1>2
  <2> DEFINE v == FilterStep(f, e, chars, n + 1)
             g == [i \in 0 .. (n + 1) |-> IF i = n + 1 THEN v ELSE f[i]]
  <2>2. ASSUME NEW i \in 0 .. (n + 1) PROVE g[i] = FilterStep(g, e, chars, i)
    <3> HIDE DEF v
    <3>1. i = 0 \/ (i - 1 \in 0 .. (n + 1) /\ i - 1 # n + 1)
      OBVIOUS
    <3>2. i = 0 \/ g[i - 1] = f[i - 1]
      BY <3>1
    <3>3. FilterStep(g, e, chars, i) = FilterStep(f, e, chars, i)
      BY <3>2 DEF FilterStep
    <3>4. CASE i = n + 1
      BY <3>3, <3>4 DEF v
    <3>5. CASE i # n + 1
      <4>1. i \in 0 .. n
        BY <3>5
      <4>2. f[i] = FilterStep(f, e, chars, i)
        BY <2>1, <4>1, Zenon
      <4>3. g[i] = f[i]
        BY <3>5
      <4> QED BY <4>2, <4>3, <3>3
    <3> QED BY <3>4, <3>5
  <2>3. g = [i \in 0 .. (n + 1) |-> FilterStep(g, e, chars, i)]
    <3>1. g = [i \in 0 .. (n + 1) |-> g[i]]
      OBVIOUS
    <3> HIDE DEF g
    <3> QED BY <2>2, <3>1
  <2>4. \E h : h = [i \in 0 .. (n + 1) |-> FilterStep(h, e, chars, i)]
    BY <2>3
  <2> QED BY <2>4
<1> HIDE DEF S
<1>3. \A n \in Nat : n \in S
  BY <1>1, <1>2, Induct
<1> QED BY <1>3 DEF S

(* What FilterFrom returns is the last of these states.                    *)
LEMMA FilterRuns ==
    ASSUME NEW e, NEW chars, Len(chars) \in Nat
    PROVE  \E f : /\ f[0] = Begin(e)
                  /\ \A i \in 1 .. Len(chars) : f[i] = Temu!Filter(f[i - 1], chars[i])
                  /\ Temu!FilterFrom(e, chars) = f[Len(chars)]
<1> DEFINE f == CHOOSE g : g = [i \in 0 .. Len(chars) |->
                  IF i = 0 THEN [esc |-> e, exit |-> FALSE, out |-> << >>]
                  ELSE Temu!Filter(g[i - 1], chars[i])]
<1>1. f = [i \in 0 .. Len(chars) |-> FilterStep(f, e, chars, i)]
  <2>1. \E g : g = [i \in 0 .. Len(chars) |-> FilterStep(g, e, chars, i)]
    BY FilterStates
  <2> QED BY <2>1, Zenon DEF FilterStep
<1>2. Temu!FilterFrom(e, chars) = f[Len(chars)]
  BY Zenon DEF Temu!FilterFrom
<1> HIDE DEF f
<1>3. f[0] = Begin(e)
  BY <1>1 DEF FilterStep, Begin
<1>4. ASSUME NEW i \in 1 .. Len(chars) PROVE f[i] = Temu!Filter(f[i - 1], chars[i])
  <2>1. i \in 0 .. Len(chars) /\ i # 0
    OBVIOUS
  <2>2. f[i] = FilterStep(f, e, chars, i)
    BY <1>1, <2>1, Zenon
  <2> QED BY <2>1, <2>2 DEF FilterStep
<1> QED BY <1>2, <1>3, <1>4

FilterRecord == [esc : BOOLEAN, exit : BOOLEAN, out : Seq(TermChars)]

DataIn(s, n) == {i \in 1 .. n : Temu!IsData(s, i)}

(* State r of the filter after character m, when it began after character  *)
(* a and out is what the guest got of the characters up to a.              *)
Filters(r, s, a, m, out) ==
    /\ r \in FilterRecord
    /\ r.esc <=> Esc(s, m)
    /\ r.exit <=> \E k \in (a + 1) .. m : s[k] = "x" /\ Esc(s, k - 1)
    /\ Temu!IsSelection(out \o r.out, s, DataIn(s, m))

(* One character, field by field.                                          *)
LEMMA FilterFields ==
    ASSUME NEW r \in FilterRecord, NEW ch \in TermChars
    PROVE  LET q == Temu!Filter(r, ch)
           IN  /\ q \in FilterRecord
               /\ q.esc <=> ch = "^A" /\ ~ r.esc
               /\ q.exit <=> r.exit \/ (r.esc /\ ch = "x")
               /\ q.out = IF (r.esc <=> ch = "^A") THEN Append(r.out, ch) ELSE r.out
<1>1. r.out \in Seq(TermChars) /\ Append(r.out, ch) \in Seq(TermChars)
      /\ r.esc \in BOOLEAN /\ r.exit \in BOOLEAN
  BY DEF FilterRecord
<1>2. r = [esc |-> r.esc, exit |-> r.exit, out |-> r.out]
  BY DEF FilterRecord
<1>3. CASE r.esc
  <2> DEFINE x == r.exit \/ ch = "x"
             o == IF ch = "^A" THEN Append(r.out, ch) ELSE r.out
  <2>1. Temu!Filter(r, ch) = [esc |-> FALSE, exit |-> x, out |-> o]
    BY <1>2, <1>3 DEF Temu!Filter
  <2>2. x \in BOOLEAN /\ o \in Seq(TermChars)
    BY <1>1
  <2> HIDE DEF x, o
  <2>3. [esc |-> FALSE, exit |-> x, out |-> o] \in FilterRecord
    BY <2>2 DEF FilterRecord
  <2>4. /\ Temu!Filter(r, ch).esc = FALSE /\ Temu!Filter(r, ch).exit = x
        /\ Temu!Filter(r, ch).out = o
    BY <2>1
  <2>5. Temu!Filter(r, ch) \in FilterRecord
    BY <2>1, <2>3
  <2>6. (Temu!Filter(r, ch).exit <=> r.exit \/ (r.esc /\ ch = "x")) /\ ~ Temu!Filter(r, ch).esc
    BY <1>3, <2>4, Zenon DEF x
  <2>7. Temu!Filter(r, ch).out = IF (r.esc <=> ch = "^A") THEN Append(r.out, ch) ELSE r.out
    BY <1>3, <2>4, Zenon DEF o
  <2> QED BY <1>3, <2>5, <2>6, <2>7, Zenon
<1>4. CASE ~ r.esc /\ ch = "^A"
  <2>1. Temu!Filter(r, ch) = [esc |-> TRUE, exit |-> r.exit, out |-> r.out]
    BY <1>2, <1>4 DEF Temu!Filter
  <2>2. [esc |-> TRUE, exit |-> r.exit, out |-> r.out] \in FilterRecord
    BY <1>1 DEF FilterRecord
  <2>3. /\ Temu!Filter(r, ch).esc = TRUE /\ Temu!Filter(r, ch).exit = r.exit
        /\ Temu!Filter(r, ch).out = r.out /\ Temu!Filter(r, ch) \in FilterRecord
    BY <2>1, <2>2
  <2> QED BY <1>4, <2>3, Zenon
<1>5. CASE ~ r.esc /\ ch # "^A"
  <2> DEFINE o == Append(r.out, ch)
  <2>1. Temu!Filter(r, ch) = [esc |-> r.esc, exit |-> r.exit, out |-> o]
    BY <1>2, <1>5 DEF Temu!Filter
  <2> HIDE DEF o
  <2>2. [esc |-> r.esc, exit |-> r.exit, out |-> o] \in FilterRecord
    BY <1>1 DEF FilterRecord, o
  <2>3. /\ Temu!Filter(r, ch).esc = r.esc /\ Temu!Filter(r, ch).exit = r.exit
        /\ Temu!Filter(r, ch).out = o /\ Temu!Filter(r, ch) \in FilterRecord
    BY <2>1, <2>2
  <2> QED BY <1>5, <2>3, Zenon DEF o
<1> QED BY <1>3, <1>4, <1>5

(* Which characters are data, in terms of the escape before them.          *)
LEMMA DataStep ==
    ASSUME NEW s, NEW m \in Nat
    PROVE  DataIn(s, m + 1) = IF (Esc(s, m) <=> s[m + 1] = "^A")
                              THEN DataIn(s, m) \cup {m + 1} ELSE DataIn(s, m)
<1>1. Esc(s, m + 1) <=> s[m + 1] = "^A" /\ ~ Esc(s, m)
  <2>1. m + 1 \in Nat \ {0} /\ (m + 1) - 1 = m
    OBVIOUS
  <2> QED BY <2>1, EscapeStep
<1>2. Temu!IsData(s, m + 1) <=> ~ Esc(s, m + 1) /\ (Esc(s, m) => s[m + 1] = "^A")
  <2>1. (m + 1) - 1 = m
    OBVIOUS
  <2> QED BY <2>1 DEF Temu!IsData, Esc
<1>3. Temu!IsData(s, m + 1) <=> (Esc(s, m) <=> s[m + 1] = "^A")
  BY <1>1, <1>2
<1>4. 1 .. (m + 1) = (1 .. m) \cup {m + 1}
  OBVIOUS
<1> QED BY <1>3, <1>4, Zenon DEF DataIn

(* Appending to the second part of a sequence.                             *)
LEMMA ConcatAppend ==
    ASSUME NEW V, NEW s \in Seq(V), NEW t \in Seq(V), NEW x \in V
    PROVE  /\ s \o Append(t, x) = Append(s \o t, x)
           /\ s \o t \in Seq(V)
  OBVIOUS

(* The filter takes one more character.                                    *)
LEMMA FilterOne ==
    ASSUME NEW s \in Seq(TermChars), NEW a \in Nat, NEW m \in Nat, a <= m, m < Len(s),
           NEW out \in Seq(TermChars), NEW r, Filters(r, s, a, m, out)
    PROVE  Filters(Temu!Filter(r, s[m + 1]), s, a, m + 1, out)
<1> DEFINE ch == s[m + 1]
           q == Temu!Filter(r, ch)
<1>1. ch \in TermChars /\ m + 1 \in Nat \ {0} /\ (m + 1) - 1 = m
  OBVIOUS
<1>2. /\ r \in FilterRecord /\ (r.esc <=> Esc(s, m))
      /\ r.out \in Seq(TermChars)
      /\ (r.exit <=> \E k \in (a + 1) .. m : s[k] = "x" /\ Esc(s, k - 1))
      /\ Temu!IsSelection(out \o r.out, s, DataIn(s, m))
  BY DEF Filters, FilterRecord
<1>3. /\ q \in FilterRecord
      /\ q.esc <=> ch = "^A" /\ ~ r.esc
      /\ q.exit <=> r.exit \/ (r.esc /\ ch = "x")
      /\ q.out = IF (r.esc <=> ch = "^A") THEN Append(r.out, ch) ELSE r.out
  BY <1>1, <1>2, FilterFields
<1> HIDE DEF q
<1>4. q.esc <=> Esc(s, m + 1)
  <2>1. Esc(s, m + 1) <=> s[m + 1] = "^A" /\ ~ Esc(s, m)
    BY <1>1, EscapeStep
  <2> QED BY <1>2, <1>3, <2>1
<1>5. q.exit <=> \E k \in (a + 1) .. (m + 1) : s[k] = "x" /\ Esc(s, k - 1)
  <2>1. (a + 1) .. (m + 1) = ((a + 1) .. m) \cup {m + 1}
    OBVIOUS
  <2>2. (\E k \in (a + 1) .. (m + 1) : s[k] = "x" /\ Esc(s, k - 1))
        <=> (\E k \in (a + 1) .. m : s[k] = "x" /\ Esc(s, k - 1)) \/ (ch = "x" /\ Esc(s, m))
    BY <1>1, <2>1
  <2> QED BY <1>2, <1>3, <2>2
<1>6. Temu!IsSelection(out \o q.out, s, DataIn(s, m + 1))
  <2>1. CASE ~ (Esc(s, m) <=> ch = "^A")
    <3>1. DataIn(s, m + 1) = DataIn(s, m)
      BY <2>1, DataStep
    <3>2. q.out = r.out
      BY <1>2, <1>3, <2>1
    <3> QED BY <1>2, <3>1, <3>2
  <2>2. CASE Esc(s, m) <=> ch = "^A"
    <3>1. DataIn(s, m + 1) = DataIn(s, m) \cup {m + 1}
      BY <2>2, DataStep
    <3>2. q.out = Append(r.out, ch)
      BY <1>2, <1>3, <2>2
    <3>3. out \o q.out = Append(out \o r.out, ch) /\ out \o r.out \in Seq(TermChars)
      <4>1. out \o Append(r.out, ch) = Append(out \o r.out, ch) /\ out \o r.out \in Seq(TermChars)
        BY <1>1, <1>2, ConcatAppend, Zenon
      <4> QED BY <3>2, <4>1
    <3>4. DataIn(s, m) \subseteq Nat /\ \A i \in DataIn(s, m) : i < m + 1
      BY DEF DataIn
    <3>5. m + 1 \in Nat
      OBVIOUS
    <3>6. Temu!IsSelection(Append(out \o r.out, s[m + 1]), s, DataIn(s, m) \cup {m + 1})
      BY <1>1, <1>2, <3>3, <3>4, <3>5, SelectMore, Zenon
    <3> QED BY <3>1, <3>3, <3>6
  <2> QED BY <2>1, <2>2
<1>7. Filters(q, s, a, m + 1, out)
  BY <1>3, <1>4, <1>5, <1>6 DEF Filters
<1> QED BY <1>7 DEF q

(* The n elements after the first a.                                       *)
LEMMA SubSeqAfter ==
    ASSUME NEW V, NEW s \in Seq(V), NEW a \in Nat, NEW n \in Nat, a + n <= Len(s)
    PROVE  /\ Len(SubSeq(s, a + 1, a + n)) = n
           /\ \A i \in 1 .. n : SubSeq(s, a + 1, a + n)[i] = s[a + i]
<1> DEFINE m == a + 1
           k == a + n
<1>1. /\ m \in Nat \ {0} /\ k \in Nat /\ k <= Len(s) /\ m <= k + 1 /\ k + 1 - m = n
      /\ \A i \in 1 .. n : i + m - 1 = a + i /\ m + i - 1 = a + i
  OBVIOUS
<1> HIDE DEF m, k
<1>2. Len(SubSeq(s, m, k)) = n
  BY <1>1
<1>3. \A i \in 1 .. n : SubSeq(s, m, k)[i] = s[m + i - 1]
  BY <1>1
<1> QED BY <1>1, <1>2, <1>3 DEF m, k

(* All the characters of one read.                                         *)
LEMMA FilterAll ==
    ASSUME NEW s \in Seq(TermChars), NEW a \in Nat, NEW n \in Nat, a + n <= Len(s),
           NEW e \in BOOLEAN, e <=> Esc(s, a),
           NEW out \in Seq(TermChars), Temu!IsSelection(out, s, DataIn(s, a))
    PROVE  Filters(Temu!FilterFrom(e, SubSeq(s, a + 1, a + n)), s, a, a + n, out)
<1> DEFINE chars == SubSeq(s, a + 1, a + n)
<1>1. Len(chars) = n /\ \A i \in 1 .. n : chars[i] = s[a + i]
  <2> QED BY SubSeqAfter, Zenon DEF chars
<1> HIDE DEF chars
<1>2. PICK f : /\ f[0] = Begin(e)
               /\ \A i \in 1 .. n : f[i] = Temu!Filter(f[i - 1], chars[i])
               /\ Temu!FilterFrom(e, chars) = f[n]
  BY <1>1, FilterRuns
<1> DEFINE S == {i \in Nat : i <= n => Filters(f[i], s, a, a + i, out)}
<1>3. 0 \in S
  <2> DEFINE b == Begin(e)
  <2>1. b \in FilterRecord /\ b.esc = e /\ b.exit = FALSE /\ b.out = << >>
    BY DEF Begin, FilterRecord
  <2>2. out \o << >> = out
    OBVIOUS
  <2>3. ~ \E k \in (a + 1) .. a : s[k] = "x" /\ Esc(s, k - 1)
    OBVIOUS
  <2> HIDE DEF b
  <2>4. Filters(b, s, a, a, out)
    BY <2>1, <2>2, <2>3 DEF Filters
  <2>5. a + 0 = a
    OBVIOUS
  <2> QED BY <1>2, <2>4, <2>5 DEF b
<1>4. ASSUME NEW i \in Nat, i \in S PROVE i + 1 \in S
  <2>1. SUFFICES ASSUME i + 1 <= n PROVE Filters(f[i + 1], s, a, a + (i + 1), out)
    OBVIOUS
  <2>2. /\ i <= n /\ i + 1 \in 1 .. n /\ (i + 1) - 1 = i /\ a + (i + 1) = (a + i) + 1
        /\ a + i \in Nat /\ a <= a + i
    BY <2>1
  <2>3. a + i < Len(s)
    BY <2>1
  <2>4. Filters(f[i], s, a, a + i, out)
    BY <1>4, <2>2
  <2>5. Filters(Temu!Filter(f[i], s[(a + i) + 1]), s, a, (a + i) + 1, out)
    BY <2>2, <2>3, <2>4, FilterOne, Zenon
  <2>6. f[i + 1] = Temu!Filter(f[i], s[(a + i) + 1])
    BY <1>1, <1>2, <2>2
  <2> QED BY <2>2, <2>5, <2>6
<1> HIDE DEF S
<1>5. \A i \in Nat : i \in S
  BY <1>3, <1>4, Induct
<1>6. Filters(f[n], s, a, a + n, out)
  <2>1. n \in S
    BY <1>5
  <2> QED BY <2>1 DEF S
<1> QED BY <1>2, <1>6 DEF chars

-----------------------------------------------------------------------------
(* The characters of the terminal                                          *)

(* The escape state is that of the characters read so far, over all reads. *)
TtyInv ==
    /\ typed \in Seq(TermChars) /\ delivered \in Seq(TermChars) /\ nread \in 0 .. Len(typed)
    /\ console_esc_state \in BOOLEAN
    /\ console_esc_state <=> Esc(typed, nread)
    /\ InputIntact

(* Nothing has been typed at the start.                                    *)
LEMMA TtyStart == FrontInit => TtyInv
<1> SUFFICES ASSUME FrontInit PROVE TtyInv
  OBVIOUS
<1>1. /\ typed = << >> /\ delivered = << >> /\ nread = 0 /\ exited = "no"
      /\ console_esc_state = FALSE
  BY DEF FrontInit, Temu!Init
<1>2. {i \in 1 .. nread : Temu!IsData(typed, i)} = {}
  BY <1>1
<1>3. ~ Temu!AsksToExit(typed, nread)
  BY <1>1 DEF Temu!AsksToExit
<1>4. InputIntact
  BY <1>1, <1>2, <1>3, SelectNone DEF InputIntact, Temu!InputIntact
<1>5. ~ Esc(typed, nread)
  BY <1>1, NoEscapeYet
<1>6. console_esc_state \in BOOLEAN /\ (console_esc_state <=> Esc(typed, nread))
  BY <1>1, <1>5, Zenon
<1>7. typed \in Seq(TermChars) /\ delivered \in Seq(TermChars) /\ nread \in 0 .. Len(typed)
  BY <1>1
<1> QED BY <1>4, <1>6, <1>7 DEF TtyInv

(* What one read may return.                                               *)
LEMMA ReadFits ==
    ASSUME TtyInv, NEW n \in Temu!ReadSizes
    PROVE  n \in Nat /\ nread + n <= Len(typed) /\ (~ Temu!Con!CanPut => n = 0)
<1> DEFINE unread == Len(typed) - nread
           len    == IF Temu!Con!CanPut THEN ReadMax ELSE 0
           most   == IF unread < len THEN unread ELSE len
<1>1. unread \in Nat /\ nread \in Nat /\ Len(typed) \in Nat /\ nread + unread = Len(typed)
  BY DEF TtyInv
<1>2. len \in Nat /\ (~ Temu!Con!CanPut => len = 0)
  BY TemuConstants
<1>3. n \in IF most = 0 THEN {0} ELSE 1 .. most
  BY DEF Temu!ReadSizes, Temu!virtio_console_get_write_len
<1> HIDE DEF unread, len
<1>4. most \in Nat /\ most <= unread /\ most <= len
  BY <1>1, <1>2
<1> HIDE DEF most
<1>5. n \in Nat /\ n <= most
  BY <1>3, <1>4
<1> QED BY <1>1, <1>2, <1>4, <1>5

(* Being asked to exit, before a character and up to it.                   *)
LEMMA ExitSplit ==
    ASSUME NEW s, NEW a \in Nat, NEW b \in Nat, a <= b
    PROVE  Temu!AsksToExit(s, b) <=>
             \/ Temu!AsksToExit(s, a)
             \/ \E k \in (a + 1) .. b : s[k] = "x" /\ Esc(s, k - 1)
<1>1. 1 .. b = (1 .. a) \cup ((a + 1) .. b)
  OBVIOUS
<1> QED BY <1>1, Zenon DEF Temu!AsksToExit, Esc

(* The terminal is read.                                                   *)
LEMMA TtyRead ==
    ASSUME TtyInv, exited = "no", NEW n \in Temu!ReadSizes, Temu!console_read(n)
    PROVE  TtyInv'
<1> DEFINE b == nread + n
           r == Temu!FilterFrom(console_esc_state, SubSeq(typed, nread + 1, nread + n))
<1>1. n \in Nat /\ b <= Len(typed) /\ (~ Temu!Con!CanPut => n = 0)
  BY ReadFits
<1>2. /\ typed \in Seq(TermChars) /\ delivered \in Seq(TermChars) /\ nread \in Nat
      /\ Len(typed) \in Nat
      /\ console_esc_state \in BOOLEAN /\ (console_esc_state <=> Esc(typed, nread))
      /\ ~ Temu!AsksToExit(typed, nread)
      /\ Temu!IsSelection(delivered, typed, DataIn(typed, nread))
  BY DEF TtyInv, InputIntact, Temu!InputIntact, DataIn
<1>3. Filters(r, typed, nread, b, delivered)
  BY <1>1, <1>2, FilterAll, Zenon
<1>4. /\ nread' = b /\ typed' = typed /\ console_esc_state' = r.esc
      /\ exited' = IF r.exit THEN "command" ELSE "no"
      /\ \/ (r.exit \/ r.out = << >> \/ ~ Temu!Con!CanPut) /\ delivered' = delivered
         \/ delivered' = delivered \o r.out
  BY DEF Temu!console_read, Temu!Filtered, Temu!conVars
<1> HIDE DEF r
<1>5. /\ r.esc \in BOOLEAN /\ r.exit \in BOOLEAN /\ r.out \in Seq(TermChars)
      /\ (r.esc <=> Esc(typed, b))
      /\ (r.exit <=> \E k \in (nread + 1) .. b : typed[k] = "x" /\ Esc(typed, k - 1))
      /\ Temu!IsSelection(delivered \o r.out, typed, DataIn(typed, b))
  BY <1>3 DEF Filters, FilterRecord
<1>6. b \in Nat /\ nread <= b /\ b \in 0 .. Len(typed)
  BY <1>1, <1>2
<1>7. r.exit <=> Temu!AsksToExit(typed, b)
  BY <1>2, <1>5, <1>6, ExitSplit, Zenon
<1>8. exited' = "command" <=> r.exit
  BY <1>4
<1>9. ~ r.exit => Temu!IsSelection(delivered', typed, DataIn(typed, b))
  <2>1. CASE ~ Temu!Con!CanPut /\ delivered' = delivered
    <3>1. b = nread
      BY <1>1, <1>2, <2>1
    <3> QED BY <1>2, <2>1, <3>1
  <2>2. CASE r.out = << >> /\ delivered' = delivered
    <3>1. delivered \o r.out = delivered
      BY <1>2, <2>2
    <3> QED BY <1>5, <2>2, <3>1
  <2>3. CASE delivered' = delivered \o r.out
    BY <1>5, <2>3
  <2> QED BY <1>4, <2>1, <2>2, <2>3, Zenon
<1>10. delivered' \in Seq(TermChars)
  <2>1. delivered \o r.out \in Seq(TermChars)
    BY <1>2, <1>5
  <2> QED BY <1>2, <1>4, <2>1
<1> HIDE DEF b
<1>11. InputIntact'
  <2>1. exited' = "no" => ~ r.exit
    BY <1>4
  <2> QED BY <1>4, <1>7, <1>8, <1>9, <2>1 DEF InputIntact, Temu!InputIntact, DataIn
<1> QED BY <1>2, <1>4, <1>5, <1>6, <1>10, <1>11 DEF TtyInv

(* A key is typed.                                                         *)
LEMMA TtyType ==
    ASSUME TtyInv, NEW c \in TermChars, Temu!Type(c)
    PROVE  TtyInv'
<1>1. /\ typed' = Append(typed, c)
      /\ UNCHANGED <<exited, nread, console_esc_state, delivered>>
  BY DEF Temu!Type, Temu!loopVars
<1>2. typed \in Seq(TermChars) /\ nread \in 0 .. Len(typed)
  BY DEF TtyInv
<1>3. /\ typed' \in Seq(TermChars) /\ nread \in 0 .. Len(typed')
      /\ \A i \in 1 .. nread : typed[i] = typed'[i]
  BY <1>1, <1>2
<1>4. ASSUME NEW i \in 0 .. nread PROVE Esc(typed, i) <=> Esc(typed', i)
  <2>1. nread \in Nat
    BY <1>2
  <2> HIDE DEF Esc
  <2> QED BY <1>3, <2>1, EscapeLocal, Zenon
<1>5. ASSUME NEW i \in 1 .. nread PROVE Temu!IsData(typed', i) <=> Temu!IsData(typed, i)
  <2>1. i \in 0 .. nread /\ i - 1 \in 0 .. nread
    BY <1>2
  <2> QED BY <1>3, <1>4, <2>1 DEF Temu!IsData, Esc
<1>6. DataIn(typed', nread) = DataIn(typed, nread)
  BY <1>5, Zenon DEF DataIn
<1>7. Temu!AsksToExit(typed', nread) <=> Temu!AsksToExit(typed, nread)
  <2>1. \A i \in 1 .. nread : i - 1 \in 0 .. nread
    BY <1>2
  <2> QED BY <1>3, <1>4, <2>1, Zenon DEF Temu!AsksToExit, Esc
<1>8. /\ exited = "command" <=> Temu!AsksToExit(typed, nread)
      /\ exited = "no" => Temu!IsSelection(delivered, typed, DataIn(typed, nread))
  BY DEF TtyInv, InputIntact, Temu!InputIntact, DataIn
<1>9. exited = "no" => Temu!IsSelection(delivered, typed', DataIn(typed', nread))
  <2>1. \A i \in DataIn(typed, nread) : typed[i] = typed'[i]
    BY <1>3 DEF DataIn
  <2> QED BY <1>6, <1>8, <2>1, SelectSame
<1>10. InputIntact'
  BY <1>1, <1>7, <1>8, <1>9 DEF InputIntact, Temu!InputIntact, DataIn
<1>11. console_esc_state <=> Esc(typed', nread)
  <2>1. nread \in 0 .. nread
    BY <1>2
  <2> QED BY <1>4, <2>1 DEF TtyInv
<1> QED BY <1>1, <1>3, <1>10, <1>11 DEF TtyInv

(* The other steps leave the terminal alone, or end the program.           *)
LEMMA TtyOther ==
    ASSUME TtyInv, typed' = typed, nread' = nread, delivered' = delivered,
           console_esc_state' = console_esc_state,
           exited' = exited \/ (exited = "no" /\ exited' = "hangup")
    PROVE  TtyInv'
<1>1. exited' = "command" <=> exited = "command"
  OBVIOUS
<1>2. exited' = "no" => exited = "no"
  OBVIOUS
<1>3. InputIntact'
  BY <1>1, <1>2 DEF TtyInv, InputIntact, Temu!InputIntact
<1> QED BY <1>3 DEF TtyInv

(* Every step of every front end keeps the characters.                     *)
LEMMA TtyStep ==
    ASSUME TtyInv, [JsStep \/ PdfStep \/ TemuStep]_<<unit, vars, pdfVars, temuVars>>
    PROVE  TtyInv'
<1>1. CASE Temu!Next
  <2>1. exited = "no"
    BY <1>1 DEF Temu!Next
  <2>2. CASE Temu!Poll
    <3>1. \/ \E n \in Temu!ReadSizes : Temu!console_read(n)
          \/ /\ typed' = typed /\ nread' = nread /\ delivered' = delivered
             /\ console_esc_state' = console_esc_state /\ exited' = exited
      BY <2>2 DEF Temu!Poll, Temu!ttyVars
    <3> QED BY <2>1, <3>1, TtyRead, TtyOther, Zenon
  <2>3. CASE \E c \in TermChars : Temu!Type(c)
    BY <2>3, TtyType
  <2>4. CASE \/ Temu!FillSets \/ Temu!virtio_console_resize_event \/ Temu!InterpEnds
             \/ Temu!SelectInterrupted \/ Temu!Hangup
             \/ Temu!ConPost \/ Temu!ConTake \/ Temu!ConReady \/ Temu!ConReset \/ Temu!NetStep
             \/ \E p \in Packets : Temu!Arrive(p)
             \/ Temu!term_resize_handler
    <3>1. /\ typed' = typed /\ nread' = nread /\ delivered' = delivered
          /\ console_esc_state' = console_esc_state
          /\ exited' = exited \/ exited' = "hangup"
      BY <2>4 DEF Temu!FillSets, Temu!virtio_console_resize_event,
         Temu!InterpEnds, Temu!SelectInterrupted, Temu!Hangup,
         Temu!ConPost, Temu!ConTake, Temu!ConReady, Temu!ConReset, Temu!NetStep, Temu!InGuest,
         Temu!Arrive, Temu!term_resize_handler, Temu!ttyVars, Temu!loopVars
    <3> QED BY <2>1, <3>1, TtyOther, Zenon
  <2> QED BY <1>1, <2>2, <2>3, <2>4 DEF Temu!Next, Temu!Loop
<1>2. CASE UNCHANGED temuVars
  <2>1. /\ typed' = typed /\ nread' = nread /\ delivered' = delivered
        /\ console_esc_state' = console_esc_state /\ exited' = exited
    BY <1>2 DEF temuVars
  <2> QED BY <2>1, TtyOther, Zenon
<1> QED BY <1>1, <1>2 DEF JsStep, PdfStep, TemuStep

(* Whatever is typed and however it is cut into reads, the guest gets the  *)
(* characters that are not part of an escape of console_read, once and in  *)
(* order, and the program ends on C-a x only.                              *)
THEOREM TypedReachesGuest == FrontSpec => []InputIntact
<1>1. TtyInv => InputIntact
  BY DEF TtyInv
<1> QED BY TtyStart, TtyStep, <1>1, PTL DEF FrontSpec

-----------------------------------------------------------------------------
(* The keyboard of the PDF                                                 *)

\* Characters of the layout.
Text == {"a", "A", "3", "#", "4", "$", " "}

\* held[i] is what the guest holds to be pressed after i of the events es,
\* and rest[i] the characters it still makes then.
Trace(held, rest, p, es, out, down) ==
    /\ held[0] = p /\ rest[0] = out
    /\ held[Len(es)] = down /\ rest[Len(es)] = << >>
    /\ \A i \in 0 .. Len(es) : rest[i] \in Seq(Text)
    /\ \A i \in 1 .. Len(es) : /\ held[i] = Pdf!Dev!Apply(held[i - 1], es[i])
                              /\ rest[i - 1] = Pdf!CharsOf(held[i - 1], es[i]) \o rest[i]

\* With p pressed, events es make the characters out and leave down pressed.
Makes(p, es, out, down) == \E held, rest : Trace(held, rest, p, es, out, down)

(* What the guest makes of an event are characters.                        *)
LEMMA CharsType == ASSUME NEW p, NEW e PROVE Pdf!CharsOf(p, e) \in Seq(Text)
<1>1. ASSUME NEW c, NEW s \in BOOLEAN
      PROVE  Pdf!Layout(c, s) \in Text \cup {""}
  BY DEF Pdf!Layout, Text
<1>2. (Pdf!ShiftCode \in p) \in BOOLEAN
  OBVIOUS
<1>3. Pdf!Layout(e.code, Pdf!ShiftCode \in p) \in Text \cup {""}
  BY <1>1, <1>2
<1>4. << >> \in Seq(Text) /\ \A x \in Text : <<x>> \in Seq(Text)
  OBVIOUS
<1> QED BY <1>3, <1>4, Zenon DEF Pdf!CharsOf

(* The guest takes an event.                                               *)
LEMMA MakesTake ==
    ASSUME NEW V, NEW es \in Seq(V), es # << >>, NEW p, NEW out, NEW down,
           Makes(p, es, out, down)
    PROVE  LET x == Pdf!CharsOf(p, Head(es))
           IN  /\ out \in Seq(Text)
               /\ Makes(Pdf!Dev!Apply(p, Head(es)), Tail(es), SubSeq(out, 1 + Len(x), Len(out)), down)
<1>1. PICK held, rest : Trace(held, rest, p, es, out, down)
  BY DEF Makes
<1> DEFINE n == Len(es)
           t == Tail(es)
           x == Pdf!CharsOf(p, es[1])
           q == Pdf!Dev!Apply(p, es[1])
           h == [i \in 0 .. (n - 1) |-> held[i + 1]]
           r == [i \in 0 .. (n - 1) |-> rest[i + 1]]
<1>2. /\ n \in Nat \ {0} /\ Len(t) = n - 1 /\ Head(es) = es[1]
      /\ \A i \in 1 .. (n - 1) : t[i] = es[i + 1]
  OBVIOUS
<1>3. /\ 1 \in 1 .. n /\ 1 - 1 = 0 /\ 0 \in 0 .. n /\ 1 \in 0 .. n /\ 0 \in 0 .. (n - 1)
      /\ n - 1 \in 0 .. (n - 1) /\ (n - 1) + 1 = n /\ 0 + 1 = 1
      /\ \A i \in 0 .. (n - 1) : i + 1 \in 0 .. n
      /\ \A i \in 1 .. (n - 1) : /\ i + 1 \in 1 .. n /\ i \in 0 .. (n - 1)
                                /\ i - 1 \in 0 .. (n - 1) /\ (i + 1) - 1 = i
                                /\ (i - 1) + 1 = i
  BY <1>2
<1>4. held[1] = q /\ out = x \o rest[1] /\ rest[1] \in Seq(Text) /\ out \in Seq(Text)
  BY <1>1, <1>3 DEF Trace
<1>5. x \in Seq(Text)
  BY CharsType
<1>6. SubSeq(out, 1 + Len(x), Len(out)) = rest[1]
  <2> DEFINE u == rest[1]
  <2> HIDE DEF x, u
  <2>1. ASSUME NEW xx \in Seq(Text), NEW uu \in Seq(Text)
        PROVE SubSeq(xx \o uu, 1 + Len(xx), Len(xx \o uu)) = uu
    OBVIOUS
  <2> QED BY <1>4, <1>5, <2>1 DEF u
<1> HIDE DEF n, t, x, q
<1>7. h[0] = q /\ r[0] = rest[1] /\ h[n - 1] = down /\ r[n - 1] = << >>
  BY <1>1, <1>3, <1>4 DEF Trace, n
<1>8. \A i \in 0 .. (n - 1) : h[i] = held[i + 1] /\ r[i] = rest[i + 1]
  OBVIOUS
<1> HIDE DEF h, r
<1>9. \A i \in 0 .. (n - 1) : r[i] \in Seq(Text)
  BY <1>1, <1>3, <1>8 DEF Trace, n
<1>10. ASSUME NEW i \in 1 .. (n - 1)
       PROVE  /\ h[i] = Pdf!Dev!Apply(h[i - 1], t[i])
              /\ r[i - 1] = Pdf!CharsOf(h[i - 1], t[i]) \o r[i]
  <2>1. /\ held[i + 1] = Pdf!Dev!Apply(held[i], es[i + 1])
        /\ rest[i] = Pdf!CharsOf(held[i], es[i + 1]) \o rest[i + 1]
    BY <1>1, <1>3 DEF Trace, n
  <2>2. /\ h[i] = held[i + 1] /\ h[i - 1] = held[i] /\ r[i] = rest[i + 1] /\ r[i - 1] = rest[i]
        /\ t[i] = es[i + 1]
    BY <1>2, <1>3, <1>8
  <2> QED BY <2>1, <2>2
<1>11. Trace(h, r, q, t, rest[1], down)
  BY <1>2, <1>7, <1>9, <1>10 DEF Trace
<1>12. Makes(q, t, rest[1], down)
  BY <1>11, Zenon DEF Makes
<1> QED BY <1>2, <1>4, <1>6, <1>12 DEF q, t, x

(* Nothing is made of no event.                                            *)
LEMMA MakesNone == ASSUME NEW p PROVE Makes(p, << >>, << >>, p)
<1> DEFINE h == [i \in {0} |-> p]
           r == [i \in {0} |-> << >>]
<1>1. Len(<< >>) = 0 /\ << >> \in Seq(Text) /\ 0 .. 0 = {0} /\ 1 .. 0 = {}
  OBVIOUS
<1>2. Trace(h, r, p, << >>, << >>, p)
  BY <1>1 DEF Trace
<1> QED BY <1>2, Zenon DEF Makes

(* Another event comes.                                                    *)
LEMMA MakesMore ==
    ASSUME NEW V, NEW es \in Seq(V), NEW e \in V, NEW p, NEW out, NEW down,
           Makes(p, es, out, down)
    PROVE  /\ out \in Seq(Text)
           /\ Makes(p, Append(es, e), out \o Pdf!CharsOf(down, e), Pdf!Dev!Apply(down, e))
<1>1. PICK held, rest : Trace(held, rest, p, es, out, down)
  BY DEF Makes
<1> DEFINE n == Len(es)
           t == Append(es, e)
           x == Pdf!CharsOf(down, e)
           q == Pdf!Dev!Apply(down, e)
           h == [i \in 0 .. (n + 1) |-> IF i = n + 1 THEN q ELSE held[i]]
           r == [i \in 0 .. (n + 1) |-> IF i = n + 1 THEN << >> ELSE rest[i] \o x]
<1>2. n \in Nat /\ Len(t) = n + 1 /\ t[n + 1] = e /\ \A i \in 1 .. n : t[i] = es[i]
  OBVIOUS
<1>3. /\ 0 \in 0 .. n /\ n \in 0 .. n /\ n + 1 \in 0 .. (n + 1) /\ (n + 1) - 1 = n
      /\ \A i \in 0 .. n : i \in 0 .. (n + 1) /\ i # n + 1
      /\ \A i \in 0 .. (n + 1) : i \in 0 .. n \/ i = n + 1
      /\ \A i \in 1 .. (n + 1) : i \in 1 .. n \/ i = n + 1
      /\ \A i \in 1 .. n : i \in 0 .. n /\ i - 1 \in 0 .. n
  BY <1>2
<1>4. x \in Seq(Text)
  BY CharsType
<1>5. /\ held[0] = p /\ rest[0] = out /\ held[n] = down /\ rest[n] = << >>
      /\ \A i \in 0 .. n : rest[i] \in Seq(Text)
  BY <1>1 DEF Trace
<1>6. /\ h[n + 1] = q /\ r[n + 1] = << >>
      /\ \A i \in 0 .. n : h[i] = held[i] /\ r[i] = rest[i] \o x
  BY <1>3
<1>7. << >> \in Seq(Text) /\ << >> \o x = x /\ x \o << >> = x
  BY <1>4
<1>8. \A i \in 0 .. n : rest[i] \o x \in Seq(Text)
  BY <1>4, <1>5
<1> HIDE DEF n, t, x, q, h, r
<1>9. /\ h[0] = p /\ r[0] = out \o x /\ h[n + 1] = q /\ r[n + 1] = << >>
      /\ \A i \in 0 .. (n + 1) : r[i] \in Seq(Text)
  BY <1>3, <1>5, <1>6, <1>7, <1>8
<1>10. ASSUME NEW i \in 1 .. (n + 1)
       PROVE  /\ h[i] = Pdf!Dev!Apply(h[i - 1], t[i])
              /\ r[i - 1] = Pdf!CharsOf(h[i - 1], t[i]) \o r[i]
  <2>1. CASE i \in 1 .. n
    <3>1. /\ held[i] = Pdf!Dev!Apply(held[i - 1], es[i])
          /\ rest[i - 1] = Pdf!CharsOf(held[i - 1], es[i]) \o rest[i]
      BY <1>1, <2>1 DEF Trace, n
    <3>2. /\ h[i] = held[i] /\ h[i - 1] = held[i - 1]
          /\ r[i] = rest[i] \o x /\ r[i - 1] = rest[i - 1] \o x
          /\ t[i] = es[i] /\ rest[i] \in Seq(Text)
      BY <1>2, <1>3, <1>5, <1>6, <2>1
    <3>3. Pdf!CharsOf(held[i - 1], es[i]) \in Seq(Text)
      BY CharsType
    <3>4. ASSUME NEW a \in Seq(Text), NEW b \in Seq(Text), NEW c \in Seq(Text)
          PROVE  (a \o b) \o c = a \o (b \o c)
      OBVIOUS
    <3>5. (Pdf!CharsOf(held[i - 1], es[i]) \o rest[i]) \o x
            = Pdf!CharsOf(held[i - 1], es[i]) \o (rest[i] \o x)
      BY <1>4, <3>2, <3>3, <3>4
    <3> QED BY <3>1, <3>2, <3>5
  <2>2. CASE i = n + 1
    <3>1. i - 1 = n /\ t[i] = e /\ h[i - 1] = down /\ r[i - 1] = x /\ h[i] = q /\ r[i] = << >>
      BY <1>2, <1>3, <1>5, <1>6, <1>7, <2>2
    <3> QED BY <1>7, <3>1 DEF q, x
  <2> QED BY <1>3, <2>1, <2>2
<1>11. Trace(h, r, p, t, out \o x, q)
  BY <1>2, <1>9, <1>10 DEF Trace
<1>12. out \in Seq(Text)
  BY <1>3, <1>5
<1> QED BY <1>11, <1>12, Zenon DEF Makes, t, x, q

(* The functions that Held and Coming define are the ones of a trace.      *)
LEMMA TraceIsHeld ==
    ASSUME NEW held, NEW rest, NEW n \in Nat, Len(kfilled) = n,
           Trace(held, rest, pressed, kfilled, expect, key_status_map)
    PROVE  \A i \in 0 .. n : Pdf!Held[i] = held[i]
<1> DEFINE f == CHOOSE g : g = [i \in 0 .. Len(kfilled) |->
                   IF i = 0 THEN pressed ELSE Pdf!Dev!Apply(g[i - 1], kfilled[i])]
           h == [i \in 0 .. Len(kfilled) |-> held[i]]
<1>1. Pdf!Held = f
  BY Zenon DEF Pdf!Held
<1>2. h = [i \in 0 .. Len(kfilled) |->
             IF i = 0 THEN pressed ELSE Pdf!Dev!Apply(h[i - 1], kfilled[i])]
  <2>1. ASSUME NEW i \in 0 .. n
        PROVE  held[i] = IF i = 0 THEN pressed ELSE Pdf!Dev!Apply(h[i - 1], kfilled[i])
    <3>1. CASE i = 0
      BY <3>1 DEF Trace
    <3>2. CASE i # 0
      <4>1. i \in 1 .. n /\ i - 1 \in 0 .. n
        BY <3>2
      <4>2. h[i - 1] = held[i - 1]
        BY <4>1
      <4>3. held[i] = Pdf!Dev!Apply(held[i - 1], kfilled[i])
        BY <4>1 DEF Trace
      <4> QED BY <3>2, <4>2, <4>3
    <3> QED BY <3>1, <3>2
  <2> QED BY <2>1, Zenon
<1>3. f = [i \in 0 .. Len(kfilled) |->
             IF i = 0 THEN pressed ELSE Pdf!Dev!Apply(f[i - 1], kfilled[i])]
  <2> HIDE DEF h
  <2> QED BY <1>2, Zenon
<1> HIDE DEF f
<1> DEFINE S == {i \in Nat : i \in 0 .. n => f[i] = held[i]}
<1>4. 0 \in S
  <2>1. f[0] = pressed
    BY <1>3
  <2> QED BY <2>1 DEF Trace
<1>5. ASSUME NEW i \in Nat, i \in S PROVE i + 1 \in S
  <2>1. CASE i + 1 \in 0 .. n
    <3>1. i \in 0 .. n /\ i + 1 \in 1 .. n /\ (i + 1) - 1 = i /\ i + 1 # 0
      BY <2>1
    <3>2. f[i + 1] = Pdf!Dev!Apply(f[i], kfilled[i + 1])
      BY <1>3, <2>1, <3>1
    <3>3. held[i + 1] = Pdf!Dev!Apply(held[i], kfilled[i + 1])
      BY <3>1 DEF Trace
    <3>4. f[i] = held[i]
      BY <1>5, <3>1
    <3> QED BY <3>2, <3>3, <3>4
  <2> QED BY <2>1
<1>6. \A i \in Nat : i \in S
  <2> HIDE DEF S
  <2> QED BY <1>4, <1>5, Induct
<1> QED BY <1>1, <1>6

LEMMA TraceIsComing ==
    ASSUME NEW held, NEW rest, NEW n \in Nat, Len(kfilled) = n,
           Trace(held, rest, pressed, kfilled, expect, key_status_map)
    PROVE  Pdf!Coming = expect
<1>0. \A i \in 0 .. n : Pdf!Held[i] = held[i]
  BY TraceIsHeld
<1> DEFINE Step(g, i) == IF i = Len(kfilled) THEN << >>
                         ELSE Pdf!CharsOf(Pdf!Held[i], kfilled[i + 1]) \o g[i + 1]
           f == CHOOSE g : g = [i \in 0 .. Len(kfilled) |-> Step(g, i)]
           r == [i \in 0 .. Len(kfilled) |-> rest[i]]
<1>1. Pdf!Coming = f[0]
  BY Zenon DEF Pdf!Coming
<1>2. r = [i \in 0 .. Len(kfilled) |-> Step(r, i)]
  <2>1. ASSUME NEW i \in 0 .. n PROVE rest[i] = Step(r, i)
    <3>1. CASE i = n
      BY <3>1 DEF Trace
    <3>2. CASE i # n
      <4>1. i + 1 \in 1 .. n /\ i + 1 \in 0 .. n /\ (i + 1) - 1 = i
        BY <3>2
      <4>2. r[i + 1] = rest[i + 1]
        BY <4>1
      <4>3. rest[i] = Pdf!CharsOf(held[i], kfilled[i + 1]) \o rest[i + 1]
        BY <4>1 DEF Trace
      <4> QED BY <1>0, <3>2, <4>2, <4>3
    <3> QED BY <3>1, <3>2
  <2> HIDE DEF Step
  <2> QED BY <2>1, Zenon
<1>3. f = [i \in 0 .. Len(kfilled) |-> Step(f, i)]
  <2> HIDE DEF r, Step
  <2> QED BY <1>2, Zenon
<1> HIDE DEF f
<1> DEFINE S == {k \in Nat : k \in 0 .. n => f[n - k] = rest[n - k]}
<1>4. 0 \in S
  <2>1. n \in 0 .. n /\ n - 0 = n
    OBVIOUS
  <2>2. f[n] = << >>
    BY <1>3, <2>1
  <2> QED BY <2>1, <2>2 DEF Trace
<1>5. ASSUME NEW k \in Nat, k \in S PROVE k + 1 \in S
  <2>1. CASE k + 1 \in 0 .. n
    <3> DEFINE i == n - (k + 1)
    <3>1. /\ k \in 0 .. n /\ i \in 0 .. n /\ i # n /\ i + 1 = n - k
          /\ i + 1 \in 1 .. n /\ (i + 1) - 1 = i
      BY <2>1
    <3> HIDE DEF i
    <3>2. f[i] = Pdf!CharsOf(Pdf!Held[i], kfilled[i + 1]) \o f[i + 1]
      BY <1>3, <3>1
    <3>3. rest[i] = Pdf!CharsOf(held[i], kfilled[i + 1]) \o rest[i + 1]
      BY <3>1 DEF Trace
    <3>4. f[i + 1] = rest[i + 1]
      BY <1>5, <3>1
    <3>5. f[i] = rest[i]
      BY <1>0, <3>1, <3>2, <3>3, <3>4
    <3> QED BY <3>5 DEF i
  <2> QED BY <2>1
<1>6. \A k \in Nat : k \in S
  <2> HIDE DEF S
  <2> QED BY <1>4, <1>5, Induct
<1>7. f[0] = rest[0]
  <2>1. n \in S /\ n \in 0 .. n /\ n - n = 0
    BY <1>6
  <2> QED BY <2>1
<1> QED BY <1>1, <1>7 DEF Trace

(* What the guest makes of the events on their way is Coming, and what it  *)
(* then holds is the last of Held.                                         *)
LEMMA MakesTells ==
    ASSUME NEW V, kfilled \in Seq(V), Makes(pressed, kfilled, expect, key_status_map)
    PROVE  Pdf!Coming = expect /\ Pdf!Held[Len(kfilled)] = key_status_map
<1>1. PICK held, rest : Trace(held, rest, pressed, kfilled, expect, key_status_map)
  BY DEF Makes
<1> DEFINE n == Len(kfilled)
<1>2. n \in Nat /\ n \in 0 .. n
  OBVIOUS
<1>3. Pdf!Coming = expect /\ \A i \in 0 .. n : Pdf!Held[i] = held[i]
  BY <1>1, <1>2, TraceIsComing, TraceIsHeld
<1> QED BY <1>1, <1>2, <1>3 DEF Trace

-----------------------------------------------------------------------------
(* Reports of keys                                                         *)

Pair(c, v) == <<Pdf!Dev!Key(c, v), Pdf!Dev!Syn>>

(* The events of a key are events.                                         *)
LEMMA PairType ==
    ASSUME NEW c \in Pdf!Codes, NEW v \in BOOLEAN
    PROVE  /\ Pdf!Dev!Key(c, v) \in Pdf!KeyEvents
           /\ Pdf!Dev!Syn \in Pdf!KeyEvents
           /\ Pair(c, v) \in Seq(Pdf!KeyEvents)
<1>1. Pdf!Dev!Key(c, v) \in Pdf!KeyEvents
  BY DEF Pdf!Dev!Key, Pdf!KeyEvents
<1>2. 0 \in Pdf!Codes
  BY DEF Pdf!Codes, Pdf!key_to_input_map
<1>3. Pdf!Dev!Syn \in Pdf!KeyEvents
  BY <1>2 DEF Pdf!Dev!Syn, Pdf!Dev!Motion, Pdf!KeyEvents
<1> QED BY <1>1, <1>3 DEF Pair

\* What pressing c makes while down is pressed.
CharOf(c, down) ==
    LET x == Pdf!Layout(c, Pdf!ShiftCode \in down) IN IF x = "" THEN << >> ELSE <<x>>

(* A key goes down or up, and SYN follows.                                 *)
LEMMA MakesPair ==
    ASSUME NEW es \in Seq(Pdf!KeyEvents), NEW c \in Pdf!Codes, NEW v \in BOOLEAN,
           NEW p, NEW out, NEW down, Makes(p, es, out, down)
    PROVE  /\ es \o Pair(c, v) \in Seq(Pdf!KeyEvents)
           /\ v => Makes(p, es \o Pair(c, v), out \o CharOf(c, down), down \cup {c})
           /\ ~v => Makes(p, es \o Pair(c, v), out, down \ {c})
<1> DEFINE k == Pdf!Dev!Key(c, v)
           s == Pdf!Dev!Syn
           x == Pdf!CharsOf(down, k)
           q == Pdf!Dev!Apply(down, k)
<1>1. k \in Pdf!KeyEvents /\ s \in Pdf!KeyEvents
  BY PairType
<1>2. x = (IF v THEN CharOf(c, down) ELSE << >>) /\ q = (IF v THEN down \cup {c} ELSE down \ {c})
  BY DEF Pdf!CharsOf, CharOf, Pdf!Dev!Apply, Pdf!Dev!Key
<1>3. Pdf!CharsOf(q, s) = << >> /\ Pdf!Dev!Apply(q, s) = q
  BY DEF Pdf!CharsOf, Pdf!Dev!Apply, Pdf!Dev!Syn, Pdf!Dev!Motion
<1> HIDE DEF k, s, x, q
<1>4. out \in Seq(Text) /\ Makes(p, Append(es, k), out \o x, q)
  BY <1>1, MakesMore DEF x, q
<1>5. Append(es, k) \in Seq(Pdf!KeyEvents)
  BY <1>1
<1>6. out \o x \in Seq(Text) /\ Makes(p, Append(Append(es, k), s), (out \o x) \o << >>, q)
  BY <1>1, <1>3, <1>4, <1>5, MakesMore
<1>7. es \o <<k, s>> = Append(Append(es, k), s) /\ es \o <<k, s>> \in Seq(Pdf!KeyEvents)
  BY <1>1
<1>8. (out \o x) \o << >> = out \o x
  BY <1>6
<1>9. out \o << >> = out
  BY <1>4
<1>10. Pair(c, v) = <<k, s>>
  BY DEF Pair, k, s
<1>11. Makes(p, es \o Pair(c, v), out \o x, q)
  BY <1>6, <1>7, <1>8, <1>10
<1> QED BY <1>2, <1>7, <1>9, <1>10, <1>11

(* Joining sequences of events.                                            *)
LEMMA Joined ==
    ASSUME NEW a \in Seq(Pdf!KeyEvents), NEW b \in Seq(Pdf!KeyEvents),
           NEW c \in Seq(Pdf!KeyEvents)
    PROVE  (a \o b) \o c = a \o (b \o c) /\ a \o b \in Seq(Pdf!KeyEvents)
  OBVIOUS

\* The events of pressing c while down is pressed.
Press(c, down) == IF c \in down THEN << >> ELSE Pair(c, TRUE)
Typed(c, down) == IF c \in down THEN << >> ELSE CharOf(c, down)

LEMMA MakesPress ==
    ASSUME NEW es \in Seq(Pdf!KeyEvents), NEW c \in Pdf!Codes,
           NEW p, NEW out, NEW down, Makes(p, es, out, down)
    PROVE  /\ Press(c, down) \in Seq(Pdf!KeyEvents)
           /\ es \o Press(c, down) \in Seq(Pdf!KeyEvents)
           /\ Makes(p, es \o Press(c, down), out \o Typed(c, down), down \cup {c})
<1>1. CASE c \in down
  <2>1. Press(c, down) = << >> /\ Typed(c, down) = << >> /\ down \cup {c} = down
    BY <1>1 DEF Press, Typed
  <2>2. out \in Seq(Text)
    BY MakesMore, PairType
  <2>3. es \o << >> = es /\ << >> \in Seq(Pdf!KeyEvents)
    OBVIOUS
  <2>4. out \o << >> = out
    BY <2>2
  <2> QED BY <2>1, <2>3, <2>4
<1>2. CASE c \notin down
  BY <1>2, MakesPair, PairType DEF Press, Typed
<1> QED BY <1>1, <1>2

-----------------------------------------------------------------------------
(* The handlers of the PDF                                                 *)

\* The inductive invariant.
KeyTypes ==
    /\ kposted \in Nat /\ kfilled \in Seq(Pdf!KeyEvents) /\ lost \in BOOLEAN
    /\ pressed_list \in Seq(Pdf!ToggleKeys)

GuestFollows == ~lost => Makes(pressed, kfilled, expect, key_status_map)

ListHasToggles ==
    \A k \in Pdf!ToggleKeys : Pdf!key_to_input_map(k) \in key_status_map =>
        \E i \in DOMAIN pressed_list : pressed_list[i] = k

KeyInv == KeyTypes /\ GuestFollows /\ ListHasToggles

(* The events of a handler arrive, or one of them is lost.                 *)
LEMMA Display ==
    ASSUME KeyTypes, NEW ev \in Seq(Pdf!KeyEvents), NEW chars, NEW down,
           Pdf!display_key_events(ev, chars),
           ~lost => Makes(pressed, kfilled \o ev, expect \o chars, down)
    PROVE  /\ kposted' \in Nat /\ kfilled' \in Seq(Pdf!KeyEvents) /\ lost' \in BOOLEAN
           /\ ~lost' => Makes(pressed', kfilled', expect', down)
<1> DEFINE n == Pdf!Dev!Accepted(ev)
<1>0. kposted \in Nat /\ kfilled \in Seq(Pdf!KeyEvents) /\ Len(ev) \in Nat
  BY DEF KeyTypes
<1>1. n \in 0 .. Len(ev) /\ n <= kposted
  BY <1>0 DEF Pdf!Dev!Accepted
<1>2. pressed' = pressed
  BY DEF Pdf!display_key_events
<1>3. lost' \in BOOLEAN /\ (~lost' => ~lost /\ (ev = << >> \/ (global_vm /\ ~(n < Len(ev)))))
  BY DEF Pdf!display_key_events
<1>4. ~lost' => expect' = expect \o chars
  BY DEF Pdf!display_key_events
<1>5. CASE global_vm
  <2>1. kposted' = kposted - n /\ kfilled' = kfilled \o SubSeq(ev, 1, n)
    BY <1>5 DEF Pdf!display_key_events, Pdf!Dev!virtio_input_queue_events
  <2> HIDE DEF n
  <2>2. SubSeq(ev, 1, n) \in Seq(Pdf!KeyEvents) /\ (n = Len(ev) => SubSeq(ev, 1, n) = ev)
    BY <1>0, <1>1
  <2>3. kposted' \in Nat
    BY <1>0, <1>1, <2>1
  <2>4. kfilled' \in Seq(Pdf!KeyEvents)
    BY <1>0, <2>1, <2>2
  <2>5. ev = << >> => Len(ev) = 0
    OBVIOUS
  <2>6. ~lost' => n = Len(ev)
    BY <1>0, <1>1, <1>3, <2>5
  <2>7. ~lost' => kfilled' = kfilled \o ev
    BY <2>1, <2>2, <2>6
  <2> QED BY <1>2, <1>3, <1>4, <2>3, <2>4, <2>7
<1>6. CASE ~global_vm
  <2>1. kposted' = kposted /\ kfilled' = kfilled
    BY <1>6 DEF Pdf!display_key_events
  <2>2. ~lost' => ev = << >>
    BY <1>3, <1>6
  <2>3. kfilled \o << >> = kfilled
    BY <1>0
  <2> QED BY <1>0, <1>2, <1>3, <1>4, <2>1, <2>2, <2>3
<1> QED BY <1>5, <1>6

(* The codes of the keys.                                                  *)
LEMMA KeyCodesOf ==
    /\ \A k : Pdf!key_to_input_map(k) \in Pdf!Codes
    /\ Pdf!ShiftCode = 42 /\ Pdf!key_to_input_map("Shift") = 42
    /\ Pdf!key_to_input_map("Ctrl") = 29 /\ Pdf!key_to_input_map("a") = 30
    /\ Pdf!key_to_input_map("Space") = 57
    /\ Pdf!key_to_input_map("3") = 4 /\ Pdf!key_to_input_map("4") = 5
    /\ Pdf!ToggleKeys = {"Shift", "Ctrl"}
<1>1. ASSUME NEW k PROVE Pdf!key_to_input_map(k) \in Pdf!Codes
  <2>1. Pdf!key_to_input_map(k) \in {4, 5, 30, 57, 42, 29, 0}
    BY DEF Pdf!key_to_input_map
  <2>2. \A i \in {"3", "4", "a", "Space", "Shift", "Ctrl", ""} : Pdf!key_to_input_map(i) \in Pdf!Codes
    BY Zenon DEF Pdf!Codes
  <2>3. /\ Pdf!key_to_input_map("3") = 4 /\ Pdf!key_to_input_map("4") = 5
        /\ Pdf!key_to_input_map("a") = 30 /\ Pdf!key_to_input_map("Space") = 57
        /\ Pdf!key_to_input_map("Shift") = 42 /\ Pdf!key_to_input_map("Ctrl") = 29
        /\ Pdf!key_to_input_map("") = 0
    BY DEF Pdf!key_to_input_map
  <2> QED BY <2>1, <2>2, <2>3
<1> QED BY <1>1 DEF Pdf!key_to_input_map, Pdf!ShiftCode, Pdf!ToggleKeys

(* An ordinary button goes down ...                                        *)
LEMMA ButtonDown ==
    ASSUME KeyInv, NEW k \in ButtonKeys, Pdf!button_down(k)
    PROVE  KeyInv'
<1> DEFINE c == Pdf!key_to_input_map(k)
<1>1. /\ Pdf!display_key_events(Pdf!DownEvents(c),
              IF c \in key_status_map THEN << >> ELSE Pdf!Meant(c))
      /\ key_status_map' = key_status_map \cup {c} /\ pressed_list' = pressed_list
      /\ k \in ButtonKeys \ Pdf!ToggleKeys
  BY DEF Pdf!button_down
<1>2. Pdf!DownEvents(c) = Press(c, key_status_map)
  BY DEF Pdf!DownEvents, Press, Pair
<1>3. (IF c \in key_status_map THEN << >> ELSE Pdf!Meant(c)) = Typed(c, key_status_map)
  BY DEF Pdf!Meant, Typed, CharOf
<1>4. c \in Pdf!Codes /\ kfilled \in Seq(Pdf!KeyEvents)
  BY KeyCodesOf DEF KeyInv, KeyTypes
<1>5. Press(c, key_status_map) \in Seq(Pdf!KeyEvents)
  <2>1. << >> \in Seq(Pdf!KeyEvents)
    OBVIOUS
  <2> QED BY <1>4, <2>1, PairType DEF Press
<1> HIDE DEF c
<1>6. ~lost => Makes(pressed, kfilled \o Press(c, key_status_map),
                     expect \o Typed(c, key_status_map), key_status_map \cup {c})
  BY <1>4, MakesPress DEF KeyInv, GuestFollows
<1>7. KeyTypes' /\ GuestFollows'
  BY <1>1, <1>2, <1>3, <1>5, <1>6, Display DEF KeyInv, KeyTypes, GuestFollows
<1>8. ListHasToggles'
  <2>1. k \in {"a", "3", "4"}
    BY <1>1, FrontendAssumption, KeyCodesOf DEF Pdf!KeyboardAssumption
  <2>2. \A t \in Pdf!ToggleKeys : Pdf!key_to_input_map(t) # c
    BY <2>1, KeyCodesOf DEF c
  <2> QED BY <1>1, <2>2 DEF KeyInv, ListHasToggles
<1> QED BY <1>7, <1>8 DEF KeyInv

(* A key that is recorded as down is released.                             *)
LEMMA MakesRelease ==
    ASSUME KeyInv, NEW c \in Pdf!Codes
    PROVE  /\ Pdf!UpEvents(c) \in Seq(Pdf!KeyEvents)
           /\ ~lost => Makes(pressed, kfilled \o Pdf!UpEvents(c), expect \o << >>,
                             key_status_map \ {c})
<1>1. kfilled \in Seq(Pdf!KeyEvents) /\ kfilled \o << >> = kfilled /\ << >> \in Seq(Pdf!KeyEvents)
  BY DEF KeyInv, KeyTypes
<1>2. ~lost => expect \in Seq(Text)
  BY <1>1, MakesMore, PairType DEF KeyInv, GuestFollows
<1>3. ~lost => expect \o << >> = expect
  BY <1>2
<1>4. CASE c \in key_status_map
  <2>1. Pdf!UpEvents(c) = Pair(c, FALSE)
    BY <1>4 DEF Pdf!UpEvents, Pair
  <2> QED BY <1>1, <1>3, <2>1, MakesPair, PairType DEF KeyInv, GuestFollows
<1>5. CASE c \notin key_status_map
  <2>1. Pdf!UpEvents(c) = << >> /\ key_status_map \ {c} = key_status_map
    BY <1>5 DEF Pdf!UpEvents
  <2> QED BY <1>1, <1>3, <2>1 DEF KeyInv, GuestFollows
<1> QED BY <1>4, <1>5

(* ... and up.                                                             *)
LEMMA ButtonUp ==
    ASSUME KeyInv, NEW k \in ButtonKeys, Pdf!button_up(k)
    PROVE  KeyInv'
<1> DEFINE c == Pdf!key_to_input_map(k)
<1>1. /\ Pdf!display_key_events(Pdf!UpEvents(c), << >>)
      /\ key_status_map' = key_status_map \ {c} /\ pressed_list' = pressed_list
  BY DEF Pdf!button_up
<1>2. c \in Pdf!Codes
  BY KeyCodesOf
<1> HIDE DEF c
<1>3. KeyTypes' /\ GuestFollows'
  BY <1>1, <1>2, MakesRelease, Display DEF KeyInv, KeyTypes, GuestFollows
<1>4. ListHasToggles'
  BY <1>1 DEF KeyInv, ListHasToggles
<1> QED BY <1>3, <1>4 DEF KeyInv

(* Taking an entry out of the list leaves the others.                      *)
LEMMA SplicedKeeps ==
    ASSUME NEW V, pressed_list \in Seq(V), NEW k, NEW i \in DOMAIN pressed_list,
           pressed_list[i] = k
    PROVE  /\ Pdf!Spliced(k) \in Seq(V)
           /\ \A j \in DOMAIN pressed_list : pressed_list[j] # k =>
                 \E m \in DOMAIN Pdf!Spliced(k) : Pdf!Spliced(k)[m] = pressed_list[j]
<1> DEFINE at == {x \in DOMAIN pressed_list : pressed_list[x] = k}
           f == CHOOSE x \in at : \A y \in at : x <= y
           n == Len(pressed_list)
<1>1. n \in Nat /\ DOMAIN pressed_list = 1 .. n
  OBVIOUS
<1>2. at # {} /\ at \subseteq Nat
  BY <1>1
<1>3. \E x \in at : \A y \in at : x <= y
  <2> HIDE DEF at
  <2> QED BY <1>2, LeastNat
<1>4. f \in at
  BY <1>3, Zenon
<1>5. f \in 1 .. n /\ pressed_list[f] = k
  BY <1>1, <1>4
<1>6. Pdf!Spliced(k) = Pdf!RemoveAt(pressed_list, f)
  BY <1>2, Zenon DEF Pdf!Spliced
<1> HIDE DEF f, at
<1> DEFINE a == SubSeq(pressed_list, 1, f - 1)
           b == SubSeq(pressed_list, f + 1, n)
<1>7. Pdf!RemoveAt(pressed_list, f) = a \o b
  BY DEF Pdf!RemoveAt
<1>8. /\ a \in Seq(V) /\ Len(a) = f - 1 /\ \A x \in 1 .. (f - 1) : a[x] = pressed_list[x]
  BY <1>1, <1>5
<1>9. /\ b \in Seq(V) /\ Len(b) = n - f /\ \A x \in 1 .. (n - f) : b[x] = pressed_list[f + x]
  <2>1. f \in 0 .. Len(pressed_list)
    BY <1>1, <1>5
  <2> QED BY <2>1, RestOfSeq
<1> HIDE DEF a, b
<1>10. a \o b \in Seq(V) /\ DOMAIN (a \o b) = 1 .. (f - 1) + (n - f)
  <2>1. a \o b \in Seq(V) /\ DOMAIN (a \o b) = 1 .. (Len(a) + Len(b))
    BY <1>8, <1>9
  <2> QED BY <1>8, <1>9, <2>1
<1>11. ASSUME NEW j \in 1 .. n, pressed_list[j] # k
       PROVE  \E m \in DOMAIN (a \o b) : (a \o b)[m] = pressed_list[j]
  <2>1. CASE j < f
    <3>1. j \in 1 .. (f - 1) /\ j \in 1 .. (f - 1) + (n - f)
      BY <1>1, <1>5, <2>1
    <3>2. (a \o b)[j] = a[j]
      BY <1>8, <1>9, <3>1
    <3> QED BY <1>8, <1>10, <3>1, <3>2
  <2>2. CASE j > f
    <3> DEFINE x == j - f
    <3>1. x \in 1 .. (n - f) /\ f + x = j /\ (f - 1) + x \in 1 .. (f - 1) + (n - f)
      BY <1>1, <1>5, <2>2
    <3>2. (a \o b)[(f - 1) + x] = b[x]
      BY <1>1, <1>5, <1>8, <1>9, <3>1
    <3> QED BY <1>9, <1>10, <3>1, <3>2
  <2>3. CASE j = f
    BY <1>5, <1>11, <2>3
  <2> QED BY <1>1, <1>5, <2>1, <2>2, <2>3
<1> QED BY <1>1, <1>6, <1>7, <1>10, <1>11

(* A toggle button.                                                        *)
LEMMA ButtonToggle ==
    ASSUME KeyInv, NEW k \in ButtonKeys, Pdf!button_toggle(k)
    PROVE  KeyInv'
<1> DEFINE c == Pdf!key_to_input_map(k)
           l == pressed_list
<1>1. c \in Pdf!Codes /\ k \in Pdf!ToggleKeys
  BY KeyCodesOf DEF Pdf!button_toggle
<1>2. l \in Seq(Pdf!ToggleKeys) /\ kfilled \in Seq(Pdf!KeyEvents)
  BY DEF KeyInv, KeyTypes
<1>3. \A t \in Pdf!ToggleKeys : t # k => Pdf!key_to_input_map(t) # c
  BY <1>1, KeyCodesOf
<1>4. CASE c \in key_status_map
  <2>1. /\ pressed_list' = Pdf!Spliced(k) /\ Pdf!display_key_events(Pdf!UpEvents(c), << >>)
        /\ key_status_map' = key_status_map \ {c}
    BY <1>4 DEF Pdf!button_toggle
  <2>2. PICK i \in DOMAIN l : l[i] = k
    BY <1>1, <1>4 DEF KeyInv, ListHasToggles
  <2> HIDE DEF c
  <2>3. /\ Pdf!Spliced(k) \in Seq(Pdf!ToggleKeys)
        /\ \A j \in DOMAIN l : l[j] # k =>
              \E m \in DOMAIN Pdf!Spliced(k) : Pdf!Spliced(k)[m] = l[j]
    BY <1>2, <2>2, SplicedKeeps
  <2>4. KeyTypes' /\ GuestFollows'
    BY <1>1, <2>1, <2>3, MakesRelease, Display DEF KeyInv, KeyTypes, GuestFollows
  <2>5. ASSUME NEW t \in Pdf!ToggleKeys, Pdf!key_to_input_map(t) \in key_status_map'
        PROVE  \E m \in DOMAIN pressed_list' : pressed_list'[m] = t
    <3>1. Pdf!key_to_input_map(t) \in key_status_map /\ t # k
      BY <2>1, <2>5 DEF c
    <3>2. PICK j \in DOMAIN l : l[j] = t
      BY <3>1 DEF KeyInv, ListHasToggles
    <3> QED BY <2>1, <2>3, <3>1, <3>2
  <2> QED BY <2>4, <2>5 DEF KeyInv, ListHasToggles
<1>5. CASE c \notin key_status_map
  <2>1. /\ pressed_list' = Append(l, k) /\ Pdf!display_key_events(Pdf!DownEvents(c), << >>)
        /\ key_status_map' = key_status_map \cup {c}
    BY <1>5 DEF Pdf!button_toggle
  <2>2. Pdf!DownEvents(c) = Press(c, key_status_map)
    BY DEF Pdf!DownEvents, Press, Pair
  <2>3. Typed(c, key_status_map) = << >>
    BY <1>1, KeyCodesOf DEF Typed, CharOf, Pdf!Layout
  <2> HIDE DEF c
  <2>4. /\ Press(c, key_status_map) \in Seq(Pdf!KeyEvents)
        /\ ~lost => Makes(pressed, kfilled \o Press(c, key_status_map),
                          expect \o << >>, key_status_map \cup {c})
    BY <1>1, <1>2, <1>5, <2>3, MakesPress, PairType DEF KeyInv, GuestFollows, Press
  <2>5. /\ Append(l, k) \in Seq(Pdf!ToggleKeys)
        /\ \A j \in DOMAIN l : j \in DOMAIN Append(l, k) /\ Append(l, k)[j] = l[j]
        /\ Len(l) + 1 \in DOMAIN Append(l, k) /\ Append(l, k)[Len(l) + 1] = k
    BY <1>1, <1>2
  <2>6. KeyTypes' /\ GuestFollows'
    BY <2>1, <2>2, <2>4, <2>5, Display DEF KeyInv, KeyTypes, GuestFollows
  <2>7. ASSUME NEW t \in Pdf!ToggleKeys, Pdf!key_to_input_map(t) \in key_status_map'
        PROVE  \E m \in DOMAIN pressed_list' : pressed_list'[m] = t
    <3>1. CASE t = k
      BY <2>1, <2>5, <3>1
    <3>2. CASE t # k
      <4>1. Pdf!key_to_input_map(t) \in key_status_map
        BY <1>3, <2>1, <2>7, <3>2 DEF c
      <4>2. PICK j \in DOMAIN l : l[j] = t
        BY <4>1 DEF KeyInv, ListHasToggles
      <4> QED BY <2>1, <2>5, <4>2
    <3> QED BY <3>1, <3>2
  <2> QED BY <2>6, <2>7 DEF KeyInv, ListHasToggles
<1> QED BY <1>4, <1>5

(* A key is pressed and released.                                          *)
LEMMA MakesStroke ==
    ASSUME NEW es \in Seq(Pdf!KeyEvents), NEW c \in Pdf!Codes,
           NEW p, NEW out, NEW down, Makes(p, es, out, down)
    PROVE  /\ Press(c, down) \o Pair(c, FALSE) \in Seq(Pdf!KeyEvents)
           /\ Makes(p, es \o (Press(c, down) \o Pair(c, FALSE)), out \o Typed(c, down), down \ {c})
<1> DEFINE a == Press(c, down)
           b == Pair(c, FALSE)
           d == down \cup {c}
<1>1. /\ a \in Seq(Pdf!KeyEvents) /\ es \o a \in Seq(Pdf!KeyEvents)
      /\ Makes(p, es \o a, out \o Typed(c, down), d)
  BY MakesPress
<1>2. b \in Seq(Pdf!KeyEvents)
  BY PairType
<1>3. d \ {c} = down \ {c}
  OBVIOUS
<1> HIDE DEF a, b, d
<1>4. Makes(p, (es \o a) \o b, out \o Typed(c, down), d \ {c})
  BY <1>1, MakesPair DEF b
<1>5. (es \o a) \o b = es \o (a \o b) /\ a \o b \in Seq(Pdf!KeyEvents)
  BY <1>1, <1>2, Joined
<1> QED BY <1>3, <1>4, <1>5 DEF a, b

(* What is pressed with shift.                                             *)
LEMMA MakesShifted ==
    ASSUME NEW es \in Seq(Pdf!KeyEvents), NEW c \in Pdf!Codes, c # Pdf!ShiftCode,
           NEW p, NEW out, NEW down, Makes(p, es, out, down)
    PROVE  LET S == Pdf!ShiftCode
               ev == ((Press(S, down) \o Press(c, down)) \o Pair(c, FALSE)) \o Pair(S, FALSE)
           IN  /\ ev \in Seq(Pdf!KeyEvents)
               /\ Makes(p, es \o ev, out \o Typed(c, down \cup {S}), down \ {c, S})
<1> DEFINE S == Pdf!ShiftCode
           a == Press(S, down)
           b == Press(c, down)
           x == Pair(c, FALSE)
           y == Pair(S, FALSE)
           d == down \cup {S}
<1>1. S \in Pdf!Codes /\ S = 42
  BY KeyCodesOf DEF Pdf!ShiftCode
<1>2. Typed(S, down) = << >>
  BY <1>1 DEF Typed, CharOf, Pdf!Layout
<1>3. out \in Seq(Text) /\ out \o << >> = out
  <2>1. out \in Seq(Text)
    BY MakesMore, PairType
  <2> QED BY <2>1
<1>4. b = Press(c, d)
  BY DEF Press
<1>5. (d \ {c}) \ {S} = down \ {c, S}
  OBVIOUS
<1>6. x \in Seq(Pdf!KeyEvents) /\ y \in Seq(Pdf!KeyEvents) /\ b \in Seq(Pdf!KeyEvents)
  <2>1. << >> \in Seq(Pdf!KeyEvents)
    OBVIOUS
  <2> QED BY <1>1, <2>1, PairType DEF Press
<1> HIDE DEF S, a, b, x, y, d
<1>7. a \in Seq(Pdf!KeyEvents) /\ es \o a \in Seq(Pdf!KeyEvents) /\ Makes(p, es \o a, out, d)
  <2>1. /\ a \in Seq(Pdf!KeyEvents) /\ es \o a \in Seq(Pdf!KeyEvents)
        /\ Makes(p, es \o a, out \o Typed(S, down), d)
    BY <1>1, MakesPress DEF a, d
  <2> QED BY <1>2, <1>3, <2>1
<1>8. b \o x \in Seq(Pdf!KeyEvents) /\ Makes(p, (es \o a) \o (b \o x), out \o Typed(c, d), d \ {c})
  BY <1>4, <1>7, MakesStroke DEF x
<1>9. (es \o a) \o (b \o x) \in Seq(Pdf!KeyEvents)
  BY <1>7, <1>8
<1>10. Makes(p, ((es \o a) \o (b \o x)) \o y, out \o Typed(c, d), (d \ {c}) \ {S})
  BY <1>1, <1>8, <1>9, MakesPair DEF y
<1>11. /\ ((es \o a) \o (b \o x)) \o y = es \o (((a \o b) \o x) \o y)
       /\ ((a \o b) \o x) \o y \in Seq(Pdf!KeyEvents)
  <2>1. (a \o b) \o x = a \o (b \o x) /\ (a \o b) \o x \in Seq(Pdf!KeyEvents)
    BY <1>6, <1>7, Joined
  <2>2. (es \o a) \o (b \o x) = es \o (a \o (b \o x))
    BY <1>7, <1>8, Joined
  <2>3. (es \o ((a \o b) \o x)) \o y = es \o (((a \o b) \o x) \o y)
        /\ ((a \o b) \o x) \o y \in Seq(Pdf!KeyEvents)
    BY <1>6, <2>1, Joined
  <2> QED BY <2>1, <2>2, <2>3
<1> QED BY <1>5, <1>10, <1>11 DEF S, a, b, x, y, d

(* A character is typed in the text box.                                   *)
LEMMA KeyPressed ==
    ASSUME KeyInv, NEW c \in TextChars, Pdf!key_pressed(c)
    PROVE  KeyInv'
<1> DEFINE s == Pdf!ShiftedKey(c) # ""
           k == Pdf!key_to_input_map(IF s THEN Pdf!ShiftedKey(c) ELSE Pdf!PlainKey(c))
           S == Pdf!ShiftCode
           m == key_status_map
           ev == (IF s THEN Pdf!DownEvents(S) ELSE << >>)
                   \o Pdf!DownEvents(k) \o Pair(k, FALSE)
                   \o (IF s THEN Pair(S, FALSE) ELSE << >>)
           chars == IF k \in m THEN << >> ELSE IF s THEN <<c>> ELSE Pdf!Meant(k)
           down == m \ (IF s THEN {k, S} ELSE {k})
<1>1. /\ Pdf!display_key_events(ev, chars)
      /\ key_status_map' = down /\ pressed_list' = pressed_list
  BY DEF Pdf!key_pressed, Pair
<1>2. c \in {"a", "A", "3", "4", " "}
  BY FrontendAssumption DEF Pdf!KeyboardAssumption
<1>3. k \in Pdf!Codes /\ S = 42
  BY KeyCodesOf DEF Pdf!ShiftCode
<1>4. s <=> c = "A"
  BY <1>2 DEF Pdf!ShiftedKey
<1>5. s => k = 30
  BY <1>2, <1>4, KeyCodesOf DEF Pdf!ShiftedKey
<1>6. kfilled \in Seq(Pdf!KeyEvents)
  BY DEF KeyInv, KeyTypes
<1>7. Pdf!DownEvents(k) = Press(k, m) /\ Pdf!DownEvents(S) = Press(S, m)
  BY DEF Pdf!DownEvents, Press, Pair
<1>8. Press(k, m) \in Seq(Pdf!KeyEvents) /\ Press(S, m) \in Seq(Pdf!KeyEvents)
      /\ Pair(k, FALSE) \in Seq(Pdf!KeyEvents) /\ Pair(S, FALSE) \in Seq(Pdf!KeyEvents)
  <2>1. << >> \in Seq(Pdf!KeyEvents) /\ S \in Pdf!Codes
    BY KeyCodesOf DEF Pdf!ShiftCode
  <2> QED BY <1>3, <2>1, PairType DEF Press
<1>9. /\ ev \in Seq(Pdf!KeyEvents)
      /\ ~lost => Makes(pressed, kfilled \o ev, expect \o chars, down)
  <2>1. CASE s
    <3>1. ev = ((Press(S, m) \o Press(k, m)) \o Pair(k, FALSE)) \o Pair(S, FALSE)
      BY <1>7, <2>1
    <3>2. chars = Typed(k, m \cup {S})
      <4>1. k = 30 /\ c = "A"
        BY <1>4, <1>5, <2>1
      <4> HIDE DEF k, S, m
      <4>2. CharOf(k, m \cup {S}) = <<"A">>
        <5>1. Pdf!ShiftCode \in m \cup {S}
          BY DEF S
        <5>2. Pdf!Layout(30, TRUE) = "A" /\ "A" # ""
          BY DEF Pdf!Layout
        <5>3. Pdf!Layout(k, Pdf!ShiftCode \in m \cup {S}) = "A"
          BY <4>1, <5>1, <5>2
        <5> QED BY <5>2, <5>3 DEF CharOf
      <4>3. k \in m \cup {S} <=> k \in m
        BY <1>3, <4>1
      <4> QED BY <2>1, <4>1, <4>2, <4>3 DEF Typed
    <3>3. down = m \ {k, S} /\ k # S
      <4> HIDE DEF k, S, m, s
      <4> QED BY <1>3, <1>5, <2>1 DEF down
    <3> HIDE DEF s, k, S, m, ev, chars, down
    <3>4. ev \in Seq(Pdf!KeyEvents)
      BY <1>8, <3>1, Joined
    <3>5. ~lost => Makes(pressed, kfilled, expect, m)
      BY DEF KeyInv, GuestFollows, m
    <3>6. ~lost => Makes(pressed, kfilled \o ev, expect \o Typed(k, m \cup {S}), m \ {k, S})
      BY <1>3, <1>6, <3>1, <3>3, <3>5, MakesShifted DEF S
    <3> QED BY <3>2, <3>3, <3>4, <3>6
  <2>2. CASE ~s
    <3>1. ev = ((<< >> \o Press(k, m)) \o Pair(k, FALSE)) \o << >>
      BY <1>7, <2>2
    <3>2. chars = Typed(k, m)
      BY <2>2 DEF Typed, CharOf, Pdf!Meant
    <3>3. down = m \ {k}
      BY <2>2
    <3> HIDE DEF s, k, S, m, ev, chars, down
    <3>4. ev = Press(k, m) \o Pair(k, FALSE) /\ ev \in Seq(Pdf!KeyEvents)
      <4>1. ASSUME NEW a \in Seq(Pdf!KeyEvents), NEW b \in Seq(Pdf!KeyEvents)
            PROVE  ((<< >> \o a) \o b) \o << >> = a \o b /\ a \o b \in Seq(Pdf!KeyEvents)
        OBVIOUS
      <4> QED BY <1>8, <3>1, <4>1
    <3>5. ~lost => Makes(pressed, kfilled, expect, m)
      BY DEF KeyInv, GuestFollows, m
    <3>6. ~lost => Makes(pressed, kfilled \o ev, expect \o Typed(k, m), m \ {k})
      BY <1>3, <1>6, <3>4, <3>5, MakesStroke
    <3> QED BY <3>2, <3>3, <3>4, <3>6
  <2> QED BY <2>1, <2>2
<1>10. down \subseteq m
  OBVIOUS
<1> HIDE DEF s, k, S, ev, chars, down
<1>11. KeyTypes' /\ GuestFollows'
  BY <1>1, <1>9, Display DEF KeyInv, KeyTypes, GuestFollows
<1>12. ListHasToggles'
  BY <1>1, <1>10 DEF KeyInv, ListHasToggles
<1> QED BY <1>11, <1>12 DEF KeyInv

(* The guest takes an event, starts, or the machine is made.               *)
LEMMA KeyGuest ==
    ASSUME KeyInv, Pdf!GuestTake \/ Pdf!GuestReady \/ Pdf!init_vm \/ UNCHANGED pdfVars
    PROVE  KeyInv'
<1>1. KeyTypes /\ GuestFollows /\ ListHasToggles
  BY DEF KeyInv
<1>2. CASE Pdf!GuestTake
  <2>1. /\ kfilled # << >> /\ kfilled' = Tail(kfilled) /\ kposted' = kposted + 1
        /\ pressed' = Pdf!Dev!Apply(pressed, Head(kfilled))
        /\ UNCHANGED <<key_status_map, pressed_list, lost>>
        /\ ~lost => expect' = SubSeq(expect, 1 + Len(Pdf!CharsOf(pressed, Head(kfilled))), Len(expect))
    BY <1>2 DEF Pdf!GuestTake
  <2>2. kfilled' \in Seq(Pdf!KeyEvents) /\ kposted' \in Nat
    BY <1>1, <2>1 DEF KeyTypes
  <2>3. ~lost => Makes(Pdf!Dev!Apply(pressed, Head(kfilled)), Tail(kfilled),
                       SubSeq(expect, 1 + Len(Pdf!CharsOf(pressed, Head(kfilled))), Len(expect)),
                       key_status_map)
    BY <1>1, <2>1, MakesTake DEF KeyTypes, GuestFollows
  <2>4. GuestFollows'
    BY <2>1, <2>3 DEF GuestFollows
  <2> QED BY <1>1, <2>1, <2>2, <2>4 DEF KeyInv, KeyTypes, ListHasToggles
<1>3. CASE Pdf!GuestReady \/ Pdf!init_vm \/ UNCHANGED pdfVars
  <2>1. /\ UNCHANGED <<kfilled, pressed, key_status_map, pressed_list, lost, expect>>
        /\ kposted' = kposted \/ kposted' = KeyBuffers
    BY <1>3 DEF Pdf!GuestReady, Pdf!init_vm, pdfVars, Pdf!deviceVars, Pdf!inputVars, Pdf!keyVars
  <2>2. KeyBuffers \in Nat
    BY FrontendAssumption DEF Pdf!KeyboardAssumption
  <2>3. KeyTypes'
    BY <1>1, <2>1, <2>2 DEF KeyTypes
  <2> QED BY <1>1, <2>1, <2>3 DEF KeyInv, GuestFollows, ListHasToggles
<1> QED BY <1>2, <1>3

(* No step of the front ends breaks it.                                    *)
LEMMA KeyStep ==
    ASSUME KeyInv, [JsStep \/ PdfStep \/ TemuStep]_<<unit, vars, pdfVars, temuVars>>
    PROVE  KeyInv'
<1>1. Pdf!Next \/ UNCHANGED pdfVars
  BY DEF JsStep, PdfStep, TemuStep
<1>2. CASE UNCHANGED pdfVars
  BY <1>2, KeyGuest
<1>3. CASE Pdf!Next
  BY <1>3, ButtonDown, ButtonUp, ButtonToggle, KeyPressed, KeyGuest DEF Pdf!Next
<1> QED BY <1>1, <1>2, <1>3

LEMMA KeyStart == FrontInit => KeyInv
<1> SUFFICES ASSUME FrontInit PROVE KeyInv
  OBVIOUS
<1>1. /\ kposted = 0 /\ kfilled = << >> /\ pressed = {} /\ lost = FALSE
      /\ key_status_map = {} /\ pressed_list = << >> /\ expect = << >>
  BY DEF FrontInit, Pdf!Init, Pdf!Dev!Init, Pdf!Dev!RxInit
<1>2. << >> \in Seq(Pdf!KeyEvents) /\ << >> \in Seq(Pdf!ToggleKeys)
  OBVIOUS
<1> QED BY <1>1, <1>2, MakesNone DEF KeyInv, KeyTypes, GuestFollows, ListHasToggles

(* What is typed or pressed in the PDF (key_pressed, button_down,          *)
(* button_up and button_toggle of pdflinux.js) arrives in the guest as the *)
(* characters that were meant, as long as no event was lost, and no key    *)
(* gets stuck: for every number of buffers, set of buttons and length of   *)
(* the list.                                                               *)
THEOREM KeysReachGuest == FrontSpec => []TypedArrives
<1>1. KeyInv => TypedArrives
  <2> SUFFICES ASSUME KeyInv PROVE Pdf!TypedArrives
    BY DEF TypedArrives
  <2>1. ~lost => Pdf!Coming = expect /\ Pdf!Held[Len(kfilled)] = key_status_map
    BY MakesTells DEF KeyInv, KeyTypes, GuestFollows
  <2>2. \A k \in Pdf!ToggleKeys : Pdf!key_to_input_map(k) \in key_status_map =>
            k \in Pdf!ToSet(pressed_list)
    BY DEF KeyInv, ListHasToggles, Pdf!ToSet
  <2> QED BY <2>1, <2>2, Zenon DEF Pdf!TypedArrives
<1> QED BY <1>1, KeyStart, KeyStep, PTL DEF FrontSpec
=============================================================================
