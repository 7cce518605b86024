------------------------- MODULE VirtioDevicesProofs -------------------------
(***************************************************************************)
(* Proofs about the devices of a machine, as VirtioDevices composes them:  *)
(*                                                                         *)
(*   - guest and device agree on the buttons of the mouse (VirtioInput),   *)
(*     for every number of buttons and of buffers, however reports are cut *)
(*     off;                                                                *)
(*   - the rings that the host fills are a queue, by ManualQueueProofs.    *)
(***************************************************************************)
EXTENDS VirtioDevices, Sequences, TLAPS, WellFoundedInduction

-----------------------------------------------------------------------------
(* Naturals                                                                *)

Smaller == {ss \in Nat \X Nat : ss[1] < ss[2]}

(* A set of naturals has a least element.                                  *)
LEMMA LeastNat ==
    ASSUME NEW T, T \subseteq Nat, T # {}
    PROVE  \E x \in T : \A y \in T : x <= y
<1>1. IsWellFoundedOn(Smaller, Nat)
  BY NatLessThanWellFounded, Zenon DEF OpToRel, Smaller
<1>2. PICK x \in T : \A y \in T : ~ (<<y, x>> \in Smaller)
  BY <1>1, WFMin, Zenon
<1>3. ASSUME NEW y \in T PROVE x <= y
  <2>1. <<y, x>> \notin Smaller
    BY <1>2
  <2> QED BY <2>1 DEF Smaller
<1> QED BY <1>3

(* A bounded set of naturals that is not empty has a greatest element.     *)
LEMMA GreatestNat ==
    ASSUME NEW n \in Nat, NEW X, X \subseteq 1 .. n, X # {}
    PROVE  \E x \in X : \A y \in X : y <= x
<1> DEFINE T == {m \in Nat : n - m \in X}
<1>1. PICK z \in X : TRUE
  OBVIOUS
<1>2. \A y \in X : n - y \in Nat /\ n - (n - y) = y /\ y \in Nat
  OBVIOUS
<1>3. n - z \in T
  BY <1>1, <1>2
<1>4. PICK m \in T : \A k \in T : m <= k
  <2>1. T \subseteq Nat /\ T # {}
    BY <1>3
  <2> HIDE DEF T
  <2> QED BY <2>1, LeastNat
<1>5. n - m \in X /\ m \in Nat
  OBVIOUS
<1>6. ASSUME NEW y \in X PROVE y <= n - m
  <2>1. n - y \in T
    BY <1>2
  <2>2. m <= n - y
    BY <1>4, <2>1
  <2>3. y \in Nat
    BY <1>2
  <2> QED BY <1>5, <2>2, <2>3
<1> QED BY <1>5, <1>6

(* Induction, for membership in a set.                                     *)
LEMMA Induct ==
    ASSUME NEW S, 0 \in S, \A n \in Nat : n \in S => n + 1 \in S
    PROVE  \A n \in Nat : n \in S
<1> DEFINE T == {m \in Nat : m \notin S}
<1>1. SUFFICES ASSUME T # {} PROVE FALSE
  OBVIOUS
<1>2. PICK x \in T : \A y \in T : x <= y
  <2>1. T \subseteq Nat
    OBVIOUS
  <2> HIDE DEF T
  <2> QED BY <1>1, <2>1, LeastNat
<1>3. x \in Nat /\ x # 0 /\ x \notin S
  OBVIOUS
<1>4. x - 1 \in Nat /\ ~ (x <= x - 1) /\ (x - 1) + 1 = x
  BY <1>3
<1>5. x - 1 \in S
  BY <1>2, <1>4
<1> QED BY <1>3, <1>4, <1>5

-----------------------------------------------------------------------------
(* What the guest will hold to be pressed                                  *)

(* The guest takes the oldest event: what it will hold in the end stays.   *)
LEMMA HeldTake ==
    ASSUME NEW V, NEW es \in Seq(V), es # << >>, NEW p, NEW b
    PROVE  Input!HeldAfter(b, Input!Apply(p, Head(es)), Tail(es)) <=> Input!HeldAfter(b, p, es)
<1> DEFINE n == Len(es)
           q == Input!Apply(p, es[1])
           t == Tail(es)
           K(i) == Input!IsKey(es[i], b)
<1>1. /\ n \in Nat \ {0} /\ DOMAIN es = 1 .. n /\ DOMAIN t = 1 .. (n - 1)
      /\ Head(es) = es[1] /\ \A i \in 1 .. (n - 1) : t[i] = es[i + 1]
  OBVIOUS
<1>2. K(1) => (b \in q <=> es[1].value)
  BY DEF Input!Apply, Input!IsKey
<1>3. ~ K(1) => (b \in q <=> b \in p)
  BY DEF Input!Apply, Input!IsKey
<1> HIDE DEF n, q, t
<1>4. 1 \in 1 .. n /\ \A i \in 1 .. n : i = 1 \/ (i - 1 \in 1 .. (n - 1) /\ (i - 1) + 1 = i)
  BY <1>1
<1>5. \A i \in 1 .. (n - 1) : i + 1 \in 1 .. n /\ i + 1 > 1
  BY <1>1
<1>6. ASSUME Input!HeldAfter(b, q, t) PROVE Input!HeldAfter(b, p, es)
  <2>1. CASE \E i \in DOMAIN t : /\ Input!IsKey(t[i], b) /\ t[i].value
                                 /\ \A j \in DOMAIN t : j > i => ~ Input!IsKey(t[j], b)
    <3>1. PICK i \in 1 .. (n - 1) : /\ K(i + 1) /\ es[i + 1].value
                                    /\ \A j \in 1 .. (n - 1) : j > i => ~ K(j + 1)
      BY <1>1, <2>1
    <3>2. ASSUME NEW j \in 1 .. n, j > i + 1 PROVE ~ K(j)
      <4>1. j - 1 \in 1 .. (n - 1) /\ j - 1 > i /\ (j - 1) + 1 = j
        BY <1>1, <3>2
      <4> QED BY <3>1, <4>1
    <3> QED BY <1>1, <1>5, <3>1, <3>2 DEF Input!HeldAfter
  <2>2. CASE b \in q /\ \A i \in DOMAIN t : ~ Input!IsKey(t[i], b)
    <3>1. \A j \in 1 .. n : j = 1 \/ ~ K(j)
      BY <1>1, <1>4, <2>2
    <3>2. CASE K(1)
      <4>1. \A j \in 1 .. n : j > 1 => ~ K(j)
        BY <3>1
      <4> QED BY <1>1, <1>2, <1>4, <2>2, <3>2, <4>1 DEF Input!HeldAfter
    <3>3. CASE ~ K(1)
      BY <1>1, <1>3, <2>2, <3>1, <3>3 DEF Input!HeldAfter
    <3> QED BY <3>2, <3>3
  <2> QED BY <1>6, <2>1, <2>2 DEF Input!HeldAfter
<1>7. ASSUME Input!HeldAfter(b, p, es) PROVE Input!HeldAfter(b, q, t)
  <2>1. CASE \E i \in 1 .. n : K(i) /\ es[i].value /\ \A j \in 1 .. n : j > i => ~ K(j)
    <3>1. PICK i \in 1 .. n : K(i) /\ es[i].value /\ \A j \in 1 .. n : j > i => ~ K(j)
      BY <2>1
    <3>2. CASE i = 1
      <4>1. \A j \in 1 .. (n - 1) : ~ K(j + 1)
        BY <1>5, <3>1, <3>2
      <4> QED BY <1>1, <1>2, <3>1, <3>2, <4>1 DEF Input!HeldAfter
    <3>3. CASE i # 1
      <4>1. i - 1 \in 1 .. (n - 1) /\ (i - 1) + 1 = i
        BY <1>4, <3>3
      <4>2. ASSUME NEW j \in 1 .. (n - 1), j > i - 1 PROVE ~ K(j + 1)
        <5>1. j + 1 \in 1 .. n /\ j + 1 > i
          BY <1>1, <4>2
        <5> QED BY <3>1, <5>1
      <4> QED BY <1>1, <3>1, <4>1, <4>2 DEF Input!HeldAfter
    <3> QED BY <3>2, <3>3
  <2>2. CASE b \in p /\ \A i \in 1 .. n : ~ K(i)
    <3>1. b \in q
      BY <1>3, <1>4, <2>2
    <3>2. \A j \in 1 .. (n - 1) : ~ K(j + 1)
      BY <1>5, <2>2
    <3> QED BY <1>1, <3>1, <3>2 DEF Input!HeldAfter
  <2> QED BY <1>1, <1>7, <2>1, <2>2 DEF Input!HeldAfter
<1> QED BY <1>1, <1>6, <1>7 DEF q, t

(* A sequence that is continued.                                           *)
LEMMA Continued ==
    ASSUME NEW V, NEW es \in Seq(V), NEW new \in Seq(V)
    PROVE  /\ es \o new \in Seq(V)
           /\ DOMAIN es = 1 .. Len(es) /\ DOMAIN new = 1 .. Len(new)
           /\ DOMAIN (es \o new) = 1 .. (Len(es) + Len(new))
           /\ Len(es \o new) = Len(es) + Len(new)
           /\ Len(es) \in Nat /\ Len(new) \in Nat
           /\ \A i \in 1 .. Len(es) : (es \o new)[i] = es[i]
           /\ \A i \in 1 .. Len(new) : (es \o new)[Len(es) + i] = new[i]
  OBVIOUS

(* Where an index of it lies.                                              *)
LEMMA ContinuedIndex ==
    ASSUME NEW l \in Nat, NEW m \in Nat
    PROVE  /\ \A i \in 1 .. l : i \in 1 .. (l + m)
           /\ \A i \in 1 .. m : l + i \in 1 .. (l + m)
           /\ \A i \in 1 .. (l + m) : i \in 1 .. l \/ \E k \in 1 .. m : i = l + k
<1>1. ASSUME NEW i \in 1 .. (l + m), ~ (i \in 1 .. l) PROVE \E k \in 1 .. m : i = l + k
  <2>1. i - l \in 1 .. m /\ i = l + (i - l)
    BY <1>1
  <2> QED BY <2>1
<1> QED BY <1>1

(* Events that are not about b change nothing for b.                       *)
LEMMA HeldNone ==
    ASSUME NEW V, NEW es \in Seq(V), NEW new \in Seq(V), NEW p, NEW b,
           \A i \in DOMAIN new : ~ Input!IsKey(new[i], b)
    PROVE  Input!HeldAfter(b, p, es \o new) <=> Input!HeldAfter(b, p, es)
<1> DEFINE c == es \o new
           l == Len(es)
           m == Len(new)
<1>1. /\ DOMAIN es = 1 .. l /\ DOMAIN new = 1 .. m /\ DOMAIN c = 1 .. (l + m)
      /\ l \in Nat /\ m \in Nat
      /\ \A i \in 1 .. l : c[i] = es[i]
      /\ \A i \in 1 .. m : c[l + i] = new[i]
  BY Continued
<1> HIDE DEF c, l, m
<1>2. /\ \A i \in 1 .. l : i \in 1 .. (l + m)
      /\ \A i \in 1 .. (l + m) : i \in 1 .. l \/ \E k \in 1 .. m : i = l + k
  BY <1>1, ContinuedIndex
<1>3. \A i \in 1 .. (l + m) : i \in 1 .. l \/ ~ Input!IsKey(c[i], b)
  BY <1>1, <1>2, Zenon
<1>4. Input!HeldAfter(b, p, c) <=> Input!HeldAfter(b, p, es)
  BY <1>1, <1>2, <1>3, Zenon DEF Input!HeldAfter
<1> QED BY <1>4 DEF c

(* When new events are about b and all say the same, they decide.          *)
LEMMA HeldLast ==
    ASSUME NEW V, NEW es \in Seq(V), NEW new \in Seq(V), NEW p, NEW b, NEW v \in BOOLEAN,
           \A i \in DOMAIN new : Input!IsKey(new[i], b) => (new[i].value <=> v),
           \E i \in DOMAIN new : Input!IsKey(new[i], b)
    PROVE  Input!HeldAfter(b, p, es \o new) <=> v
<1> DEFINE c == es \o new
           l == Len(es)
           m == Len(new)
           X == {i \in 1 .. m : Input!IsKey(new[i], b)}
<1>1. /\ DOMAIN es = 1 .. l /\ DOMAIN new = 1 .. m /\ DOMAIN c = 1 .. (l + m)
      /\ l \in Nat /\ m \in Nat
      /\ \A i \in 1 .. l : c[i] = es[i]
      /\ \A i \in 1 .. m : c[l + i] = new[i]
  BY Continued
<1> HIDE DEF c, l, m
<1>2. /\ \A i \in 1 .. m : l + i \in 1 .. (l + m)
      /\ \A i \in 1 .. (l + m) : i \in 1 .. l \/ \E k \in 1 .. m : i = l + k
  BY <1>1, ContinuedIndex
<1>3. PICK x \in X : \A y \in X : y <= x
  <2>1. X \subseteq 1 .. m /\ X # {}
    BY <1>1
  <2> HIDE DEF X
  <2> QED BY <1>1, <2>1, GreatestNat
<1>4. l + x \in 1 .. (l + m) /\ Input!IsKey(c[l + x], b) /\ (c[l + x].value <=> v)
  BY <1>1, <1>2
<1>5. \A i \in 1 .. (l + m) : i > l + x => ~ Input!IsKey(c[i], b)
  <2>1. ASSUME NEW i \in 1 .. (l + m), i > l + x PROVE ~ Input!IsKey(c[i], b)
    <3>1. x \in Nat
      BY <1>1
    <3>2. i \notin 1 .. l
      BY <1>1, <2>1, <3>1
    <3>3. PICK k \in 1 .. m : i = l + k
      BY <1>2, <3>2
    <3>4. ~ (k <= x)
      BY <1>1, <2>1, <3>1, <3>3
    <3>5. k \notin X
      BY <1>3, <3>4
    <3> QED BY <1>1, <3>3, <3>5
  <2> QED BY <2>1
<1>6. ASSUME v PROVE Input!HeldAfter(b, p, c)
  BY <1>1, <1>4, <1>5, <1>6, Zenon DEF Input!HeldAfter
<1>7. ASSUME ~ v, Input!HeldAfter(b, p, c) PROVE FALSE
  <2>1. PICK i \in 1 .. (l + m) : /\ Input!IsKey(c[i], b) /\ c[i].value
                                  /\ \A j \in 1 .. (l + m) : j > i => ~ Input!IsKey(c[j], b)
    BY <1>1, <1>4, <1>7, Zenon DEF Input!HeldAfter
  <2>2. ~ (i > l + x) /\ ~ (l + x > i)
    BY <1>4, <1>5, <2>1
  <2>3. i \in Int /\ l + x \in Int
    BY <1>4
  <2>4. i = l + x
    BY <2>2, <2>3
  <2> QED BY <1>4, <1>7, <2>1, <2>4
<1> QED BY <1>6, <1>7, Zenon DEF c

-----------------------------------------------------------------------------
(* The reports of the mouse                                                *)

EventRecords == [type : {"X", "Y", "WHEEL", "SYN", "KEY"}, code : Nat, value : BOOLEAN]

(* What a button's event is.                                               *)
LEMMA KeyFields ==
    ASSUME NEW c \in Nat, NEW v \in BOOLEAN
    PROVE  LET e == Input!Key(c, v)
           IN  e \in EventRecords /\ e.type = "KEY" /\ e.code = c /\ e.value = v
  BY DEF Input!Key, EventRecords

(* What the event of a motion is.                                          *)
LEMMA MotionFields ==
    ASSUME NEW t \in {"X", "Y", "WHEEL", "SYN"}
    PROVE  Input!Motion(t) \in EventRecords /\ Input!Motion(t).type # "KEY"
  BY DEF Input!Motion, EventRecords

ButtonStep(f, b, i) ==
    IF i = 0 THEN << >>
    ELSE IF i \in b <=> i \in buttons_state THEN f[i - 1]
    ELSE Append(f[i - 1], Input!Key(i, i \in b))

(* The loop over buttons_list has a result.                                *)
LEMMA ButtonStates ==
    ASSUME NEW b
    PROVE  \A n \in Nat : \E f : f = [i \in 0 .. n |-> ButtonStep(f, b, i)]
<1> DEFINE S == {n \in Nat : \E f : f = [i \in 0 .. n |-> ButtonStep(f, b, i)]}
<1>1. 0 \in S
  <2> DEFINE f == [i \in 0 .. 0 |-> << >>]
  <2>1. \A i \in 0 .. 0 : ButtonStep(f, b, i) = << >>
    BY DEF ButtonStep
  <2>2. f = [i \in 0 .. 0 |-> ButtonStep(f, b, i)]
    BY <2>1
  <2> QED BY <2>2
<1>2. ASSUME NEW n \in Nat, n \in S PROVE n + 1 \in S
  <2>1. PICK f : f = [i \in 0 .. n |-> ButtonStep(f, b, i)]
    BY <1>2
  <2> DEFINE v == ButtonStep(f, b, n + 1)
             g == [i \in 0 .. (n + 1) |-> IF i = n + 1 THEN v ELSE f[i]]
  <2>2. ASSUME NEW i \in 0 .. (n + 1) PROVE g[i] = ButtonStep(g, b, i)
    <3> HIDE DEF v
    <3>1. i = 0 \/ (i - 1 \in 0 .. (n + 1) /\ i - 1 # n + 1)
      OBVIOUS
    <3>2. i = 0 \/ g[i - 1] = f[i - 1]
      BY <3>1
    <3> HIDE DEF g
    <3>3. ButtonStep(g, b, i) = ButtonStep(f, b, i)
      BY <3>2 DEF ButtonStep
    <3> USE DEF g
    <3>4. CASE i = n + 1
      BY <3>3, <3>4 DEF v
    <3>5. CASE i # n + 1
      <4>1. i \in 0 .. n
        BY <3>5
      <4>2. f[i] = ButtonStep(f, b, i)
        BY <2>1, <4>1, Zenon
      <4>3. g[i] = f[i]
        BY <3>5
      <4> QED BY <4>2, <4>3, <3>3
    <3> QED BY <3>4, <3>5
  <2>3. g = [i \in 0 .. (n + 1) |-> ButtonStep(g, b, i)]
    <3>1. g = [i \in 0 .. (n + 1) |-> g[i]]
      OBVIOUS
    <3> HIDE DEF g
    <3> QED BY <2>2, <3>1
  <2>4. \E h : h = [i \in 0 .. (n + 1) |-> ButtonStep(h, b, i)]
    BY <2>3
  <2> QED BY <2>4
<1> HIDE DEF S
<1>3. \A n \in Nat : n \in S
  BY <1>1, <1>2, Induct
<1> QED BY <1>3 DEF S

(* What ButtonEvents returns is the last state of the loop.                *)
LEMMA ButtonRuns ==
    ASSUME NEW b, Buttons \in Nat
    PROVE  \E f : /\ f[0] = << >>
                  /\ \A i \in 1 .. Buttons : f[i] = ButtonStep(f, b, i)
                  /\ Input!ButtonEvents(b) = f[Buttons]
<1> DEFINE f == CHOOSE g : g = [i \in 0 .. Buttons |->
                  IF i = 0 THEN << >>
                  ELSE IF i \in b <=> i \in buttons_state THEN g[i - 1]
                  ELSE Append(g[i - 1], Input!Key(i, i \in b))]
<1>1. f = [i \in 0 .. Buttons |-> ButtonStep(f, b, i)]
  <2>1. \E g : g = [i \in 0 .. Buttons |-> ButtonStep(g, b, i)]
    BY ButtonStates
  <2> QED BY <2>1, Zenon DEF ButtonStep
<1>2. Input!ButtonEvents(b) = f[Buttons]
  BY Zenon DEF Input!ButtonEvents
<1> HIDE DEF f
<1>3. f[0] = << >>
  BY <1>1 DEF ButtonStep
<1>4. ASSUME NEW i \in 1 .. Buttons PROVE f[i] = ButtonStep(f, b, i)
  <2>1. i \in 0 .. Buttons
    OBVIOUS
  <2> QED BY <1>1, <2>1, Zenon
<1> QED BY <1>2, <1>3, <1>4

Moves(c, b) == ~ (c \in b <=> c \in buttons_state)

(* es holds the events of the buttons up to n that change, and no others.  *)
TellsUpTo(es, b, n) ==
    /\ es \in Seq(EventRecords)
    /\ \A k \in DOMAIN es : \E c \in 1 .. n : Moves(c, b) /\ es[k] = Input!Key(c, c \in b)
    /\ \A c \in 1 .. n : Moves(c, b) => \E k \in DOMAIN es : es[k] = Input!Key(c, c \in b)

(* ButtonEvents tells of all the buttons that change.                      *)
LEMMA ButtonsTell ==
    ASSUME NEW b, Buttons \in Nat
    PROVE  TellsUpTo(Input!ButtonEvents(b), b, Buttons)
<1>1. PICK f : /\ f[0] = << >>
               /\ \A i \in 1 .. Buttons : f[i] = ButtonStep(f, b, i)
               /\ Input!ButtonEvents(b) = f[Buttons]
  BY ButtonRuns
<1> DEFINE S == {i \in Nat : i <= Buttons => TellsUpTo(f[i], b, i)}
<1>2. 0 \in S
  <2>1. TellsUpTo(<< >>, b, 0)
    BY DEF TellsUpTo
  <2> QED BY <1>1, <2>1
<1>3. ASSUME NEW i \in Nat, i \in S PROVE i + 1 \in S
  <2> DEFINE n == i + 1
             e == Input!Key(n, n \in b)
  <2>1. SUFFICES ASSUME n <= Buttons PROVE TellsUpTo(f[n], b, n)
    OBVIOUS
  <2>2. n \in 1 .. Buttons /\ n # 0 /\ n - 1 = i /\ i <= Buttons /\ n \in Nat
    BY <2>1
  <2>3. TellsUpTo(f[i], b, i)
    BY <1>3, <2>2
  <2>4. 1 .. n = (1 .. i) \cup {n} /\ n \in 1 .. n
    OBVIOUS
  <2> HIDE DEF n
  <2>5. f[n] = IF n \in b <=> n \in buttons_state THEN f[i] ELSE Append(f[i], e)
    <3>1. f[n] = ButtonStep(f, b, n)
      BY <1>1, <2>2
    <3> QED BY <2>2, <3>1 DEF ButtonStep
  <2>6. CASE ~ Moves(n, b)
    <3>1. f[n] = f[i]
      BY <2>5, <2>6 DEF Moves
    <3> QED BY <2>3, <2>4, <2>6, <3>1, Zenon DEF TellsUpTo
  <2>7. CASE Moves(n, b)
    <3>1. f[n] = Append(f[i], e)
      BY <2>5, <2>7 DEF Moves
    <3>2. e \in EventRecords
      <4>1. (n \in b) \in BOOLEAN
        OBVIOUS
      <4> QED BY <2>2, <4>1, KeyFields
    <3>3. f[i] \in Seq(EventRecords)
      BY <2>3 DEF TellsUpTo
    <3> DEFINE l == Len(f[i])
    <3>4. /\ f[n] \in Seq(EventRecords) /\ DOMAIN f[n] = (DOMAIN f[i]) \cup {l + 1}
          /\ f[n][l + 1] = e /\ \A k \in DOMAIN f[i] : f[n][k] = f[i][k]
      <4> HIDE DEF e
      <4>1. Append(f[i], e) \in Seq(EventRecords) /\ l \in Nat /\ DOMAIN f[i] = 1 .. l
        BY <3>2, <3>3
      <4>2. DOMAIN Append(f[i], e) = 1 .. (l + 1) /\ Append(f[i], e)[l + 1] = e
            /\ \A k \in 1 .. l : Append(f[i], e)[k] = f[i][k]
        BY <3>2, <3>3
      <4>3. 1 .. (l + 1) = (1 .. l) \cup {l + 1}
        BY <4>1
      <4> QED BY <3>1, <4>1, <4>2, <4>3
    <3> HIDE DEF l
    <3>5. ASSUME NEW k \in DOMAIN f[n]
          PROVE  \E c \in 1 .. n : Moves(c, b) /\ f[n][k] = Input!Key(c, c \in b)
      BY <2>3, <2>4, <2>7, <3>4, Zenon DEF TellsUpTo
    <3>6. ASSUME NEW c \in 1 .. n, Moves(c, b)
          PROVE  \E k \in DOMAIN f[n] : f[n][k] = Input!Key(c, c \in b)
      <4>1. CASE c = n
        BY <3>4, <4>1, Zenon
      <4>2. CASE c \in 1 .. i
        <5>1. PICK k \in DOMAIN f[i] : f[i][k] = Input!Key(c, c \in b)
          BY <2>3, <3>6, <4>2, Zenon DEF TellsUpTo
        <5> QED BY <3>4, <5>1, Zenon
      <4> QED BY <2>4, <4>1, <4>2
    <3> QED BY <3>4, <3>5, <3>6, Zenon DEF TellsUpTo
  <2> QED BY <2>6, <2>7
<1> HIDE DEF S
<1>4. \A i \in Nat : i \in S
  BY <1>2, <1>3, Induct
<1>5. TellsUpTo(f[Buttons], b, Buttons)
  <2>1. Buttons \in S
    BY <1>4
  <2> QED BY <2>1 DEF S
<1> QED BY <1>1, <1>5

(* A report tells of the buttons that change, and of them before SYN.      *)
Tells(r, b) ==
    /\ r \in Seq(EventRecords) /\ Len(r) > 0
    /\ \A k \in DOMAIN r : r[k].type = "KEY" =>
          \E c \in 1 .. Buttons : Moves(c, b) /\ r[k] = Input!Key(c, c \in b)
    /\ \A c \in 1 .. Buttons : Moves(c, b) =>
          \E k \in 1 .. (Len(r) - 1) : r[k] = Input!Key(c, c \in b)

(* The event of a button, when b are the buttons that are now pressed.     *)
LEMMA ButtonFields ==
    ASSUME NEW c \in Nat, NEW b
    PROVE  /\ Input!Key(c, c \in b).type = "KEY" /\ Input!Key(c, c \in b).code = c
           /\ (Input!Key(c, c \in b).value <=> c \in b)
<1> DEFINE v == c \in b
<1>1. v \in BOOLEAN
  OBVIOUS
<1> HIDE DEF v
<1>2. /\ Input!Key(c, v).type = "KEY" /\ Input!Key(c, v).code = c
      /\ Input!Key(c, v).value = v
  BY <1>1, KeyFields
<1> QED BY <1>2, Zenon DEF v

(* The part of a report before the buttons is only motion.                 *)
LEMMA MotionPart ==
    ASSUME NEW dz \in BOOLEAN
    PROVE  LET a == <<Input!Motion("X"), Input!Motion("Y")>>
                        \o (IF dz THEN <<Input!Motion("WHEEL")>> ELSE << >>)
           IN  a \in Seq(EventRecords) /\ \A i \in DOMAIN a : a[i].type # "KEY"
<1> DEFINE x == Input!Motion("X")
           y == Input!Motion("Y")
           w == Input!Motion("WHEEL")
           NoKey == {e \in EventRecords : e.type # "KEY"}
           a == <<x, y>> \o (IF dz THEN <<w>> ELSE << >>)
<1>1. x \in NoKey /\ y \in NoKey /\ w \in NoKey
  BY MotionFields
<1> HIDE DEF x, y, w
<1>2. /\ <<x, y>> \in Seq(NoKey)
      /\ (IF dz THEN <<w>> ELSE << >>) \in Seq(NoKey)
  <2> HIDE DEF NoKey
  <2> QED BY <1>1
<1>3. a \in Seq(NoKey)
  <2> HIDE DEF NoKey
  <2> DEFINE s == <<x, y>>
             t == IF dz THEN <<w>> ELSE << >>
  <2>1. s \in Seq(NoKey) /\ t \in Seq(NoKey)
    BY <1>2
  <2> HIDE DEF s, t
  <2>2. s \o t \in Seq(NoKey)
    BY <2>1
  <2> QED BY <2>2 DEF s, t
<1> HIDE DEF a
<1>4. \A i \in DOMAIN a : a[i] \in NoKey
  <2> HIDE DEF NoKey
  <2> QED BY <1>3
<1>5. a \in Seq(EventRecords)
  <2>1. NoKey \subseteq EventRecords
    OBVIOUS
  <2> HIDE DEF NoKey
  <2> QED BY <1>3, <2>1
<1>6. \A i \in DOMAIN a : a[i].type # "KEY"
  BY <1>4
<1> QED BY <1>5, <1>6 DEF a, x, y, w

(* So does every report of virtio_input_send_mouse_event.                  *)
LEMMA ReportTells ==
    ASSUME NEW dz \in BOOLEAN, NEW b, Buttons \in Nat
    PROVE  Tells(Input!Report(dz, b), b)
<1> DEFINE a == <<Input!Motion("X"), Input!Motion("Y")>>
                    \o (IF dz THEN <<Input!Motion("WHEEL")>> ELSE << >>)
           e == Input!ButtonEvents(b)
           z == <<Input!Syn>>
           h == a \o e
           r == h \o z
           l == Len(a)
           m == Len(e)
<1>1. r = Input!Report(dz, b)
  BY DEF Input!Report
<1>2. a \in Seq(EventRecords) /\ \A i \in DOMAIN a : a[i].type # "KEY"
  BY MotionPart
<1>3. TellsUpTo(e, b, Buttons)
  BY ButtonsTell
<1>4. z \in Seq(EventRecords) /\ Len(z) = 1 /\ z[1].type # "KEY"
  <2> DEFINE s == Input!Motion("SYN")
  <2>1. s \in EventRecords /\ s.type # "KEY"
    BY MotionFields
  <2> HIDE DEF s
  <2>2. <<s>> \in Seq(EventRecords) /\ Len(<<s>>) = 1 /\ <<s>>[1] = s
    BY <2>1
  <2> QED BY <2>1, <2>2 DEF s, Input!Syn
<1> HIDE DEF a, e, z
<1>5. e \in Seq(EventRecords)
  BY <1>3 DEF TellsUpTo
<1>6. /\ h \in Seq(EventRecords) /\ DOMAIN a = 1 .. l /\ DOMAIN e = 1 .. m
      /\ Len(h) = l + m /\ l \in Nat /\ m \in Nat
      /\ \A i \in 1 .. l : h[i] = a[i]
      /\ \A i \in 1 .. m : h[l + i] = e[i]
  BY <1>2, <1>5, Continued
<1> HIDE DEF h
<1>7. /\ r \in Seq(EventRecords) /\ DOMAIN r = 1 .. (l + m + 1) /\ Len(r) = l + m + 1
      /\ \A i \in 1 .. (l + m) : r[i] = h[i]
      /\ r[l + m + 1] = z[1]
  <2>1. /\ r \in Seq(EventRecords) /\ Len(r) = Len(h) + Len(z)
        /\ DOMAIN r = 1 .. (Len(h) + Len(z))
        /\ \A i \in 1 .. Len(h) : r[i] = h[i]
        /\ \A i \in 1 .. Len(z) : r[Len(h) + i] = z[i]
    <3>1. h \in Seq(EventRecords) /\ z \in Seq(EventRecords)
      BY <1>4, <1>6
    <3> QED BY <3>1, Continued
  <2>2. 1 \in 1 .. Len(z)
    BY <1>4
  <2> HIDE DEF r
  <2> QED BY <1>4, <1>6, <2>1, <2>2
<1> HIDE DEF r, l, m
<1>8. /\ \A i \in 1 .. l : i \in 1 .. (l + m)
      /\ \A i \in 1 .. m : l + i \in 1 .. (l + m)
      /\ \A i \in 1 .. (l + m) : i \in 1 .. l \/ \E k \in 1 .. m : i = l + k
  BY <1>6, ContinuedIndex
<1>9. \A i \in 1 .. (l + m + 1) : i \in 1 .. (l + m) \/ i = l + m + 1
  BY <1>6
<1>10. (l + m + 1) - 1 = l + m /\ l + m + 1 > 0
  BY <1>6
<1>11. ASSUME NEW k \in DOMAIN r, r[k].type = "KEY"
       PROVE  \E c \in 1 .. Buttons : Moves(c, b) /\ r[k] = Input!Key(c, c \in b)
  <2>1. k # l + m + 1
    BY <1>4, <1>7, <1>11
  <2>2. k \in 1 .. (l + m) /\ r[k] = h[k]
    BY <1>7, <1>9, <2>1
  <2>3. k \notin 1 .. l
    BY <1>2, <1>6, <1>11, <2>2
  <2>4. PICK i \in 1 .. m : k = l + i
    BY <1>8, <2>2, <2>3
  <2>5. r[k] = e[i]
    BY <1>6, <2>2, <2>4
  <2>6. i \in DOMAIN e
    BY <1>6
  <2>7. \E c \in 1 .. Buttons : Moves(c, b) /\ e[i] = Input!Key(c, c \in b)
    BY <1>3, <2>6, Zenon DEF TellsUpTo
  <2> QED BY <2>5, <2>7
<1>12. ASSUME NEW c \in 1 .. Buttons, Moves(c, b)
       PROVE  \E k \in 1 .. (Len(r) - 1) : r[k] = Input!Key(c, c \in b)
  <2>1. PICK i \in 1 .. m : e[i] = Input!Key(c, c \in b)
    BY <1>3, <1>6, <1>12, Zenon DEF TellsUpTo
  <2>2. l + i \in 1 .. (l + m) /\ r[l + i] = e[i]
    BY <1>6, <1>7, <1>8
  <2>3. Len(r) - 1 = l + m
    BY <1>7, <1>10
  <2> QED BY <2>1, <2>2, <2>3, Zenon
<1>13. Len(r) > 0
  BY <1>7, <1>10
<1> QED BY <1>1, <1>7, <1>11, <1>12, <1>13, Zenon DEF Tells

-----------------------------------------------------------------------------
(* Guest and device agree                                                  *)

Agree(u, p, es, s) ==
    \A b \in (1 .. Buttons) \ u : Input!HeldAfter(b, p, es) <=> b \in s

ViewsInv ==
    type # "keyboard" =>
        /\ ifilled \in Seq(EventRecords) /\ iposted \in Nat
        /\ Agree(unsure, pressed, ifilled, buttons_state)

(* The invariant says what ViewsAgree says.                                *)
LEMMA InvViews == ViewsInv => ViewsAgree
<1>1. \A b \in 1 .. Buttons : b \in Input!Inputs
  BY DEF Input!Inputs
<1> QED BY <1>1, Zenon
    DEF ViewsInv, Agree, ViewsAgree, Input!ViewsAgree, Input!PressedAfterFilled

(* The first n elements of a sequence.                                     *)
LEMMA FirstOf ==
    ASSUME NEW V, NEW s \in Seq(V), NEW n \in 0 .. Len(s)
    PROVE  /\ SubSeq(s, 1, n) \in Seq(V) /\ DOMAIN SubSeq(s, 1, n) = 1 .. n
           /\ \A k \in 1 .. n : SubSeq(s, 1, n)[k] = s[k] /\ k \in DOMAIN s
           /\ Len(s) \in Nat
<1>1. Len(s) \in Nat /\ n \in Nat /\ n <= Len(s) /\ \A k \in 1 .. n : k \in 1 .. Len(s)
  OBVIOUS
<1>2. SubSeq(s, 1, n) \in Seq(V) /\ Len(SubSeq(s, 1, n)) = n
  BY <1>1
<1>3. \A k \in 1 .. n : SubSeq(s, 1, n)[k] = s[k]
  BY <1>1
<1> QED BY <1>1, <1>2, <1>3

(* A report of the mouse: the buttons that it told of before it was cut    *)
(* off are in doubt, all others are as they were.                          *)
LEMMA MouseStep ==
    ASSUME ViewsInv, Buttons \in Nat, NEW dz \in BOOLEAN, NEW b,
           Input!virtio_input_send_mouse_event(dz, b)
    PROVE  ViewsInv'
<1> DEFINE r == Input!Report(dz, b)
           n == Input!Accepted(r)
           new == SubSeq(r, 1, n)
           gone == {e.code : e \in {e \in Input!ToSet(new) : e.type = "KEY"}}
           commit == n + 1 >= Len(r)
<1>1. /\ ifilled \in Seq(EventRecords) /\ iposted \in Nat
      /\ Agree(unsure, pressed, ifilled, buttons_state)
  BY DEF ViewsInv, Input!virtio_input_send_mouse_event
<1>2. Tells(r, b)
  BY ReportTells
<1>3. /\ iposted' = iposted - n /\ ifilled' = ifilled \o new /\ pressed' = pressed
      /\ buttons_state' = IF commit THEN b ELSE buttons_state
      /\ unsure' = IF commit THEN unsure \ gone ELSE unsure \cup gone
  BY DEF Input!virtio_input_send_mouse_event, Input!virtio_input_queue_events
<1> HIDE DEF r
<1>4. r \in Seq(EventRecords)
  BY <1>2 DEF Tells
<1>5. n \in 0 .. Len(r) /\ n <= iposted /\ n \in Nat /\ Len(r) \in Nat
  <2>1. Len(r) \in Nat
    BY <1>4
  <2> QED BY <1>1, <2>1 DEF Input!Accepted
<1> HIDE DEF n
<1>6. /\ new \in Seq(EventRecords) /\ DOMAIN new = 1 .. n
      /\ \A k \in 1 .. n : new[k] = r[k] /\ k \in DOMAIN r
  BY <1>4, <1>5, FirstOf
<1> HIDE DEF new
<1>7. gone = {new[k].code : k \in {k \in 1 .. n : new[k].type = "KEY"}}
  BY <1>6 DEF Input!ToSet
<1> HIDE DEF gone
<1>8. ASSUME NEW k \in 1 .. n, new[k].type = "KEY"
      PROVE  \E c \in 1 .. Buttons : /\ Moves(c, b) /\ new[k] = Input!Key(c, c \in b)
                                     /\ new[k].code = c /\ (new[k].value <=> c \in b)
  <2>1. PICK c \in 1 .. Buttons : Moves(c, b) /\ new[k] = Input!Key(c, c \in b)
    BY <1>2, <1>6, <1>8 DEF Tells
  <2>2. c \in Nat
    OBVIOUS
  <2>3. new[k].code = c /\ (new[k].value <=> c \in b)
    <3> DEFINE e == Input!Key(c, c \in b)
    <3>1. e.code = c /\ (e.value <=> c \in b)
      BY <2>2, ButtonFields
    <3>2. new[k] = e
      BY <2>1
    <3> HIDE DEF e
    <3> QED BY <3>1, <3>2, Zenon
  <2> QED BY <2>1, <2>3, Zenon
<1>9. ASSUME NEW c, c \notin gone, NEW k \in DOMAIN new PROVE ~ Input!IsKey(new[k], c)
  BY <1>6, <1>7, <1>9 DEF Input!IsKey
<1>10. ASSUME NEW c \in (1 .. Buttons) \ unsure'
       PROVE  Input!HeldAfter(c, pressed, ifilled \o new) <=> c \in buttons_state'
  <2>1. CASE c \notin gone
    <3>1. c \notin unsure
      BY <1>3, <1>10, <2>1
    <3>2. Input!HeldAfter(c, pressed, ifilled) <=> c \in buttons_state
      BY <1>1, <3>1 DEF Agree
    <3>3. Input!HeldAfter(c, pressed, ifilled \o new) <=> Input!HeldAfter(c, pressed, ifilled)
      <4>1. \A k \in DOMAIN new : ~ Input!IsKey(new[k], c)
        BY <1>9, <2>1
      <4> QED BY <1>1, <1>6, <4>1, HeldNone, Zenon
    <3>4. c \in buttons_state' <=> c \in buttons_state
      <4>1. CASE commit
        <5>1. ~ Moves(c, b)
          <6>1. SUFFICES ASSUME Moves(c, b) PROVE FALSE
            OBVIOUS
          <6>2. PICK k \in 1 .. (Len(r) - 1) : r[k] = Input!Key(c, c \in b)
            BY <1>2, <1>10, <6>1, Zenon DEF Tells
          <6>3. k \in 1 .. n
            BY <1>5, <4>1
          <6>4. new[k] = Input!Key(c, c \in b)
            BY <1>6, <6>2, <6>3
          <6>5. c \in Nat
            BY <1>10
          <6>6. new[k].type = "KEY" /\ new[k].code = c
            <7> DEFINE e == Input!Key(c, c \in b)
            <7>1. e.type = "KEY" /\ e.code = c
              BY <6>5, ButtonFields
            <7>2. new[k] = e
              BY <6>4
            <7> HIDE DEF e
            <7> QED BY <7>1, <7>2
          <6>7. c \in gone
            BY <1>7, <6>3, <6>6
          <6> QED BY <2>1, <6>7
        <5> QED BY <1>3, <4>1, <5>1 DEF Moves
      <4>2. CASE ~ commit
        BY <1>3, <4>2
      <4> QED BY <4>1, <4>2
    <3> QED BY <3>2, <3>3, <3>4
  <2>2. CASE c \in gone
    <3>1. commit /\ buttons_state' = b
      BY <1>3, <1>10, <2>2
    <3>2. PICK i \in 1 .. n : new[i].type = "KEY" /\ new[i].code = c
      BY <1>7, <2>2
    <3>3. \E k \in DOMAIN new : Input!IsKey(new[k], c)
      BY <1>6, <3>2 DEF Input!IsKey
    <3>4. \A k \in DOMAIN new : Input!IsKey(new[k], c) => (new[k].value <=> c \in b)
      BY <1>6, <1>8, Zenon DEF Input!IsKey
    <3>5. (c \in b) \in BOOLEAN
      OBVIOUS
    <3>6. Input!HeldAfter(c, pressed, ifilled \o new) <=> c \in b
      BY <1>1, <1>6, <3>3, <3>4, <3>5, HeldLast, Zenon
    <3> QED BY <3>1, <3>6
  <2> QED BY <2>1, <2>2
<1>11. ifilled' \in Seq(EventRecords)
  <2>1. ifilled \o new \in Seq(EventRecords)
    BY <1>1, <1>6, Continued
  <2> QED BY <1>3, <2>1
<1>12. iposted' \in Nat
  BY <1>1, <1>3, <1>5
<1>13. \A c \in (1 .. Buttons) \ unsure' :
         Input!HeldAfter(c, pressed', ifilled') <=> c \in buttons_state'
  BY <1>3, <1>10
<1> QED BY <1>11, <1>12, <1>13 DEF ViewsInv, Agree

(* The guest takes an event, posts a buffer, or resets the device.         *)
LEMMA GuestSteps ==
    ASSUME ViewsInv, Input!Take \/ Input!Post \/ Input!Reset \/ Input!SetReady
    PROVE  ViewsInv'
<1>0. type' = type
  BY DEF Input!Take, Input!Post, Input!Reset, Input!SetReady, Input!inputVars
<1> SUFFICES ASSUME type # "keyboard"
             PROVE  /\ ifilled' \in Seq(EventRecords) /\ iposted' \in Nat
                    /\ Agree(unsure, pressed, ifilled, buttons_state)'
  BY <1>0 DEF ViewsInv
<1>1. /\ ifilled \in Seq(EventRecords) /\ iposted \in Nat
      /\ Agree(unsure, pressed, ifilled, buttons_state)
  BY DEF ViewsInv
<1>2. CASE Input!Take
  <2>1. /\ ifilled # << >> /\ ifilled' = Tail(ifilled)
        /\ pressed' = Input!Apply(pressed, Head(ifilled))
        /\ UNCHANGED <<iposted, unsure, buttons_state>>
    BY <1>2 DEF Input!Take, Input!RxTake
  <2>2. Tail(ifilled) \in Seq(EventRecords)
    <3> DEFINE V == EventRecords
    <3>1. ifilled \in Seq(V)
      BY <1>1
    <3> HIDE DEF V
    <3>2. Tail(ifilled) \in Seq(V)
      BY <2>1, <3>1
    <3> QED BY <3>2 DEF V
  <2>3. \A b : Input!HeldAfter(b, pressed', ifilled') <=> Input!HeldAfter(b, pressed, ifilled)
    BY <1>1, <2>1, HeldTake, Zenon
  <2>4. Agree(unsure, pressed', ifilled', buttons_state)
    BY <1>1, <2>3, Zenon DEF Agree
  <2> QED BY <1>1, <2>1, <2>2, <2>4 DEF Agree
<1>3. CASE Input!Post \/ Input!SetReady
  <2>1. /\ UNCHANGED <<ifilled, pressed, unsure, buttons_state>>
        /\ iposted' = iposted \/ iposted' = iposted + 1
    BY <1>3 DEF Input!Post, Input!SetReady, Input!RxPost, Input!RxReady, Input!inputVars
  <2> QED BY <1>1, <2>1 DEF Agree
<1>4. CASE Input!Reset
  <2>1. /\ ifilled' = << >> /\ iposted' = 0 /\ pressed' = {}
        /\ unsure' = buttons_state /\ buttons_state' = buttons_state
    BY <1>4 DEF Input!Reset, Input!RxReset
  <2>2. \A b : ~ Input!HeldAfter(b, {}, << >>)
    BY DEF Input!HeldAfter
  <2>3. << >> \in Seq(EventRecords)
    OBVIOUS
  <2>4. Agree(buttons_state, {}, << >>, buttons_state)
    BY <2>2 DEF Agree
  <2> QED BY <2>1, <2>3, <2>4 DEF Agree
<1> QED BY <1>2, <1>3, <1>4

(* The devices start in agreement.                                         *)
LEMMA ViewsStart == DevicesInit => ViewsInv
<1> SUFFICES ASSUME DevicesInit PROVE ViewsInv
  OBVIOUS
<1>1. ifilled = << >> /\ iposted = 0 /\ pressed = {} /\ unsure = {} /\ buttons_state = {}
  BY DEF DevicesInit, Input!Init, Input!RxInit
<1>2. \A b : ~ Input!HeldAfter(b, {}, << >>)
  BY DEF Input!HeldAfter
<1>3. Agree({}, {}, << >>, {})
  BY <1>2 DEF Agree
<1> QED BY <1>1, <1>3 DEF ViewsInv

(* Every step of every device keeps the agreement.                         *)
LEMMA ViewsStep ==
    ASSUME ViewsInv, [BlockStep \/ RxStep \/ InputStep]_allVars
    PROVE  ViewsInv'
<1>0. Buttons \in Nat
  BY DevicesAssumption DEF Input!InputAssumption
<1>1. CASE Input!Next
  <2>1. CASE \E d \in BOOLEAN, c \in KeyCodes : Input!virtio_input_send_key_event(d, c)
    <3>1. type' = "keyboard"
      BY <2>1 DEF Input!virtio_input_send_key_event
    <3> QED BY <3>1 DEF ViewsInv
  <2>2. CASE \E dz \in BOOLEAN, b \in SUBSET (1 .. Buttons) :
                Input!virtio_input_send_mouse_event(dz, b)
    BY <1>0, <2>2, MouseStep, Zenon
  <2>3. CASE Input!Take \/ Input!Post \/ Input!Reset \/ Input!SetReady
    BY <2>3, GuestSteps
  <2> QED BY <1>1, <2>1, <2>2, <2>3 DEF Input!Next, Input!Host
<1>2. CASE UNCHANGED inputVars
  BY <1>2 DEF ViewsInv, Agree, inputVars
<1> QED BY <1>1, <1>2 DEF BlockStep, RxStep, InputStep, allVars

(* Guest and device agree on every button whose last change did not go     *)
(* out in a report that virtio_input_send_mouse_event had to cut off, for  *)
(* all numbers of buttons and of buffers.                                  *)
THEOREM ButtonsAgree == DevicesSpec => []ViewsAgree
  BY ViewsStart, ViewsStep, InvViews, PTL DEF DevicesSpec

-----------------------------------------------------------------------------
(* The rings that the host fills                                           *)

\* ManualQueueProofs, for the rings of this composition.
RxP == INSTANCE ManualQueueProofs WITH
    Data <- RxData, avail <- ravail, avail_idx <- ravail_idx,
    used <- rused, used_idx <- rused_idx, last_avail_idx <- rlast_avail_idx,
    int_status <- rint_status, irq <- rirq, free <- rfree, seen <- rseen,
    kick <- rkick, handler <- rhandler, ready <- rready

(* What that module assumes holds here.                                    *)
LEMMA RxPAssumptions ==
    /\ RxP!RxAssumption
    /\ QNum \in Nat \ {0} /\ IdxMod \in Nat /\ IdxMod > QNum /\ IdxMod % QNum = 0
    /\ Heads # {} /\ RxP!IsFiniteSet(Heads) /\ RxP!Cardinality(Heads) <= QNum
    /\ Transports \subseteq {"mmio", "pci"}
<1>1. RxP!RxAssumption
  BY DevicesAssumption DEF Rx!RxAssumption, RxP!RxAssumption, Rx!RX, RxP!RX
<1>2. RxP!IsFiniteSet(Heads)
  BY HeadsAssumption DEF RxP!IsFiniteSet, IsFiniteSet
<1>3. RxP!Cardinality(Heads) = Cardinality(Heads)
  BY DEF RxP!Cardinality, Cardinality, RxP!IsFiniteSet, IsFiniteSet
<1> QED
  BY <1>1, <1>2, <1>3, QNumAssumption, IdxModAssumption, HeadsAssumption, TransportAssumption

(* What it proves of the rings, for this composition.                      *)
LEMMA RxFacts ==
    /\ RxP!Init => RxP!RxInv /\ RxP!Rx!RxInit
    /\ RxP!RxInv /\ [RxP!Next]_(RxP!vars) => RxP!RxInv'
    /\ RxP!RxInv /\ [RxP!Next]_(RxP!vars) => [RxP!Rx!RxNext]_(RxP!Rx!rxVars)
<1>1. RxP!Init => RxP!RxInv
  BY RxPAssumptions, RxP!InitRx
<1>2. RxP!Init => RxP!Rx!RxInit
  BY RxPAssumptions, RxP!RxInitImplies
<1>3. RxP!RxInv /\ [RxP!Next]_(RxP!vars) => RxP!RxInv'
  BY RxPAssumptions, RxP!NextRx
<1>4. RxP!RxInv /\ [RxP!Next]_(RxP!vars) => [RxP!Rx!RxNext]_(RxP!Rx!rxVars)
  BY RxPAssumptions, RxP!RxStepImplies
<1> QED BY <1>1, <1>2, <1>3, <1>4

(* The rings of VirtioDevices and those of the proofs start and step       *)
(* alike: the two instances differ in their names only.                    *)
LEMMA RxSameInit == Rx!Init => RxP!Init
  BY Zenon DEF Rx!Init, RxP!Init, Rx!QueueInit, RxP!QueueInit, Rx!EmptyRings, RxP!EmptyRings,
     Rx!Slot, RxP!Slot

LEMMA RxSameWrite == ASSUME NEW x PROVE Rx!Write(x) => RxP!Write(x)
  BY Zenon DEF Rx!Write, RxP!Write, Rx!HasAvail, RxP!HasAvail, Rx!NextHead, RxP!NextHead,
     Rx!SlotOf, RxP!SlotOf, Rx!virtio_consume_desc, RxP!virtio_consume_desc, Rx!Inc, RxP!Inc,
     Rx!Advance, RxP!Advance, Rx!driverVars, RxP!driverVars, Rx!RX, RxP!RX

LEMMA RxSamePost == ASSUME NEW h PROVE Rx!Post(h) => RxP!Post(h)
  BY Zenon DEF Rx!Post, RxP!Post, Rx!DriverAdd, RxP!DriverAdd, Rx!SlotOf, RxP!SlotOf,
     Rx!Inc, RxP!Inc, Rx!deviceVars, RxP!deviceVars, Rx!RX, RxP!RX

LEMMA RxSameDriver == Rx!DriverStep => RxP!DriverStep
  BY Zenon DEF Rx!DriverStep, RxP!DriverStep, Rx!DriverIrq, RxP!DriverIrq,
     Rx!DriverIrqRead, RxP!DriverIrqRead, Rx!DriverIrqAck, RxP!DriverIrqAck,
     Rx!DriverGetUsed, RxP!DriverGetUsed, Rx!DriverIrqReturn, RxP!DriverIrqReturn,
     Rx!InterruptAck, RxP!InterruptAck, Rx!IsrRead, RxP!IsrRead,
     Rx!SlotOf, RxP!SlotOf, Rx!Inc, RxP!Inc, Rx!ringVars, RxP!ringVars,
     Rx!deviceVars, RxP!deviceVars

LEMMA RxSameRest ==
    /\ Rx!ConfigChange => RxP!ConfigChange
    /\ Rx!QueueNotify => RxP!QueueNotify
    /\ Rx!Reset => RxP!Reset
    /\ Rx!SetReady => RxP!SetReady
    /\ UNCHANGED rxVars => UNCHANGED RxP!vars
<1>1. Rx!ConfigChange => RxP!ConfigChange
  BY Zenon DEF Rx!ConfigChange, RxP!ConfigChange, Rx!virtio_config_change_notify,
     RxP!virtio_config_change_notify, Rx!ringVars, RxP!ringVars, Rx!driverVars, RxP!driverVars
<1>2. Rx!QueueNotify => RxP!QueueNotify
  BY Zenon DEF Rx!QueueNotify, RxP!QueueNotify, Rx!ringVars, RxP!ringVars,
     Rx!deviceVars, RxP!deviceVars
<1>3. Rx!Reset => RxP!Reset
  BY Zenon DEF Rx!Reset, RxP!Reset, Rx!DriverReset, RxP!DriverReset,
     Rx!virtio_reset, RxP!virtio_reset, Rx!EmptyRings, RxP!EmptyRings, Rx!Slot, RxP!Slot
<1>4. Rx!SetReady => RxP!SetReady
  BY Zenon DEF Rx!SetReady, RxP!SetReady, Rx!queueVars, RxP!queueVars, Rx!ringVars, RxP!ringVars,
     Rx!deviceVars, RxP!deviceVars, Rx!driverVars, RxP!driverVars
<1>5. UNCHANGED rxVars => UNCHANGED RxP!vars
  BY DEF rxVars, RxP!vars, RxP!queueVars, RxP!ringVars, RxP!deviceVars, RxP!driverVars
<1> QED BY <1>1, <1>2, <1>3, <1>4, <1>5

LEMMA RxSameStep == Rx!Next \/ UNCHANGED rxVars => [RxP!Next]_(RxP!vars)
  BY RxSameWrite, RxSamePost, RxSameDriver, RxSameRest DEF Rx!Next, RxP!Next

(* So do the queues they implement.                                        *)
LEMMA RxSameQueue ==
    /\ RxP!Rx!RxInit => Rx!Rx!RxInit
    /\ [RxP!Rx!RxNext]_(RxP!Rx!rxVars) => [Rx!Rx!RxNext]_(Rx!Rx!rxVars)
<1>1. RxP!InFlight = Rx!InFlight
  BY Zenon DEF RxP!InFlight, Rx!InFlight, RxP!SlotOf, Rx!SlotOf, RxP!RX, Rx!RX
<1>2. RxP!Rx!RxInit => Rx!Rx!RxInit
  BY <1>1, Zenon DEF RxP!Rx!RxInit, Rx!Rx!RxInit, RxP!RX, Rx!RX
<1>3. RxP!InFlight' = Rx!InFlight'
  BY Zenon DEF RxP!InFlight, Rx!InFlight, RxP!SlotOf, Rx!SlotOf, RxP!RX, Rx!RX
<1>4. RxP!Cardinality(Heads) = Rx!Cardinality(Heads)
  BY DEF RxP!Cardinality, Rx!Cardinality, RxP!IsFiniteSet, Rx!IsFiniteSet
<1> USE DEF RxP!RX, Rx!RX
<1>5. ASSUME NEW x \in RxData PROVE RxP!Rx!Put(x) => Rx!Rx!Put(x)
  BY <1>1, <1>3, Zenon DEF RxP!Rx!Put, Rx!Rx!Put, RxP!Rx!CanPut, Rx!Rx!CanPut
<1>6. RxP!Rx!RxPost => Rx!Rx!RxPost
  BY <1>1, <1>3, <1>4, Zenon DEF RxP!Rx!RxPost, Rx!Rx!RxPost
<1>7. RxP!Rx!RxTake => Rx!Rx!RxTake
  BY <1>1, <1>3, Zenon DEF RxP!Rx!RxTake, Rx!Rx!RxTake
<1>8. RxP!Rx!RxReset => Rx!Rx!RxReset
  BY <1>1, <1>3, Zenon DEF RxP!Rx!RxReset, Rx!Rx!RxReset
<1>9. RxP!Rx!RxReady => Rx!Rx!RxReady
  BY <1>1, <1>3, Zenon DEF RxP!Rx!RxReady, Rx!Rx!RxReady
<1>10. UNCHANGED RxP!Rx!rxVars => UNCHANGED Rx!Rx!rxVars
  BY <1>1, <1>3, Zenon DEF RxP!Rx!rxVars, Rx!Rx!rxVars
<1> QED BY <1>2, <1>5, <1>6, <1>7, <1>8, <1>9, <1>10 DEF RxP!Rx!RxNext, Rx!Rx!RxNext

(* The rings that the host fills (virtio_input_queue_event,                *)
(* virtio_console_write_data and virtio_net_write_packet of virtio.c) are  *)
(* a first-in first-out queue, next to the other devices of a machine: for *)
(* every ring size, index width, set of chains and kind of data.           *)
THEOREM RingsAreQueue == DevicesSpec => RefinesRxQueue
<1>1. DevicesInit => RxP!Init
  BY RxSameInit DEF DevicesInit
<1>2. [BlockStep \/ RxStep \/ InputStep]_allVars => [RxP!Next]_(RxP!vars)
  <2>1. [BlockStep \/ RxStep \/ InputStep]_allVars => Rx!Next \/ UNCHANGED rxVars
    BY DEF BlockStep, RxStep, InputStep, allVars
  <2> QED BY <2>1, RxSameStep
<1>3. RxP!Init => RxP!RxInv /\ Rx!Rx!RxInit
  BY RxFacts, RxSameQueue
<1>4. RxP!RxInv /\ [RxP!Next]_(RxP!vars) => RxP!RxInv'
  BY RxFacts
<1>5. RxP!RxInv /\ [RxP!Next]_(RxP!vars) => [Rx!Rx!RxNext]_(Rx!Rx!rxVars)
  BY RxFacts, RxSameQueue
<1> QED BY <1>1, <1>2, <1>3, <1>4, <1>5, PTL
    DEF DevicesSpec, RefinesRxQueue, Rx!RefinesRxQueue, Rx!Rx!RxSpec
=============================================================================
