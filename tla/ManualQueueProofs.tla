------------------------- MODULE ManualQueueProofs -------------------------
(***************************************************************************)
(* The rings that the host fills implement RxQueue, for every ring size,   *)
(* index width, set of chains and kind of data.                            *)
(***************************************************************************)
EXTENDS ManualQueue, VirtQueueProofs

-----------------------------------------------------------------------------
(* The inductive invariant                                                 *)

\* Every chain is published, returned or free, and in one place only.
RxInv == TypeOK /\ QueuePlaced(RX, {})

LEMMA RXisQueue == ASSUME RxAssumption PROVE RX \in Queues
  BY DEF RxAssumption

LEMMA InitRx == ASSUME RxAssumption PROVE Init => RxInv
<1> SUFFICES ASSUME Init PROVE RxInv
  OBVIOUS
<1>1. QueueInit
  BY DEF Init
<1>2. contents \in [Heads -> Data] /\ ready \in BOOLEAN
  BY DEF Init, RxAssumption
<1>3. QueuePlaced(RX, {})
  BY <1>1, FreshRings, RXisQueue, PlacedFresh DEF QueuePlaced
<1> QED
  BY <1>1, <1>2, <1>3, QueueInitType DEF RxInv, TypeOK

\* What moves no chain keeps them where they are.
LEMMA FramePlaced ==
    ASSUME QueuePlaced(RX, {}), UNCHANGED <<ringVars, last_avail_idx, free, seen>>
    PROVE  QueuePlaced(RX, {})'
<1>1. WaitingSeq(RX)' = WaitingSeq(RX) /\ ReturnedSeq(RX)' = ReturnedSeq(RX) /\ free'[RX] = free[RX]
  BY FrameStep
<1> QED
  BY <1>1 DEF QueuePlaced

\* The chain that is written goes from the available to the used ring.
LEMMA WriteStep ==
    ASSUME RxAssumption, RxInv, NEW x \in Data, Write(x)
    PROVE  /\ NextHead(RX) \in Heads /\ NextHead(RX) \notin Members(ReturnedSeq(RX))
           /\ WaitingSeq(RX) # << >> /\ WaitingSeq(RX)' = Tail(WaitingSeq(RX))
           /\ ReturnedSeq(RX)' = Append(ReturnedSeq(RX), NextHead(RX))
           /\ QueuePlaced(RX, {})'
<1> DEFINE h == NextHead(RX)
           w == WaitingSeq(RX)
           r == ReturnedSeq(RX)
<1>1. QueueTypeOK /\ RX \in Queues /\ h \in Heads
  BY RXisQueue, NextHeadType DEF RxInv, TypeOK
<1>2. HasAvail(RX) /\ Advance(RX) /\ UNCHANGED <<avail, avail_idx>>
  BY DEF Write
<1>3. w # << >> /\ Head(w) = h /\ WaitingSeq(RX)' = Tail(w)
  BY <1>1, <1>2, TakeStep
<1>4. Placed(Tail(w), r, {h}, free[RX])
  <2>1. Placed(w, r, {}, free[RX])
    BY DEF RxInv, QueuePlaced
  <2> HIDE DEF w, r, h
  <2>2. Placed(Tail(w), r, {} \cup {Head(w)}, free[RX])
    BY <1>3, <2>1, PlacedTake
  <2>3. {} \cup {Head(w)} = {h}
    BY <1>3
  <2> QED
    BY <2>2, <2>3
<1>5. Placed(Tail(w), Append(r, h), {}, free[RX])
  <2> HIDE DEF w, r, h
  <2>1. Placed(Tail(w), Append(r, h), {h} \ {h}, free[RX])
    BY <1>4, PlacedDone
  <2>2. {h} \ {h} = {}
    OBVIOUS
  <2> QED
    BY <2>1, <2>2
<1>6. Dist(seen[RX], used_idx[RX]) < QNum
  <2> HIDE DEF w, r, h
  <2>1. Len(Tail(w)) + Len(r) < Cardinality(Heads)
    BY <1>4, PlacedDone
  <2>2. Len(Tail(w)) \in Nat /\ Len(r) \in Nat
    BY <1>4 DEF Placed
  <2>3. Len(r) = Dist(seen[RX], used_idx[RX])
    BY <1>1, SeqLengths DEF r
  <2> QED
    BY <2>1, <2>2, <2>3, HeadsAssumption, HeadsFinite, Sizes
<1>7. ReturnedSeq(RX)' = Append(r, h)
  BY <1>1, <1>6, ConsumeStep DEF Write, driverVars
<1>8. free'[RX] = free[RX]
  BY DEF Write, driverVars
<1>9. h \notin Members(r)
  BY <1>4 DEF Placed
<1> HIDE DEF w, r, h
<1>10. QueuePlaced(RX, {})'
  BY <1>3, <1>5, <1>7, <1>8 DEF QueuePlaced
<1> QED
  BY <1>1, <1>3, <1>7, <1>9, <1>10 DEF w, r, h

LEMMA PostStep ==
    ASSUME RxAssumption, RxInv, NEW h \in Heads, Post(h)
    PROVE  /\ WaitingSeq(RX)' = Append(WaitingSeq(RX), h)
           /\ ReturnedSeq(RX)' = ReturnedSeq(RX)
           /\ Len(WaitingSeq(RX)) + Len(ReturnedSeq(RX)) < Cardinality(Heads)
           /\ QueuePlaced(RX, {})'
<1>1. QueueTypeOK /\ RX \in Queues /\ QueuePlaced(RX, {}) /\ DriverAdd(RX, h)
  BY RXisQueue DEF RxInv, TypeOK, Post
<1>2. /\ WaitingSeq(RX)' = Append(WaitingSeq(RX), h)
      /\ ReturnedSeq(RX)' = ReturnedSeq(RX)
      /\ h \in free[RX] /\ free'[RX] = free[RX] \ {h}
      /\ Len(WaitingSeq(RX)) + Len(ReturnedSeq(RX)) < Cardinality(Heads)
  BY <1>1, AddStep
<1>3. Placed(Append(WaitingSeq(RX), h), ReturnedSeq(RX), {}, free[RX] \ {h})
  BY <1>1, <1>2, PlacedPost DEF QueuePlaced
<1> QED
  BY <1>2, <1>3 DEF QueuePlaced

LEMMA TakenStep ==
    ASSUME RxAssumption, RxInv, DriverGetUsed(RX)
    PROVE  /\ ReturnedSeq(RX) # << >> /\ ReturnedSeq(RX)' = Tail(ReturnedSeq(RX))
           /\ WaitingSeq(RX)' = WaitingSeq(RX)
           /\ QueuePlaced(RX, {})'
<1>1. QueueTypeOK /\ RX \in Queues /\ QueuePlaced(RX, {})
  BY RXisQueue DEF RxInv, TypeOK
<1>2. /\ ReturnedSeq(RX) # << >>
      /\ ReturnedSeq(RX)' = Tail(ReturnedSeq(RX))
      /\ WaitingSeq(RX)' = WaitingSeq(RX)
      /\ free'[RX] = free[RX] \cup {Head(ReturnedSeq(RX))}
  BY <1>1, GetUsedStep
<1>3. Placed(WaitingSeq(RX), Tail(ReturnedSeq(RX)), {}, free[RX] \cup {Head(ReturnedSeq(RX))})
  BY <1>1, <1>2, PlacedBack DEF QueuePlaced
<1> QED
  BY <1>2, <1>3 DEF QueuePlaced

LEMMA NextRxType == ASSUME RxAssumption PROVE TypeOK /\ [Next]_vars => TypeOK'
<1> SUFFICES ASSUME TypeOK, [Next]_vars PROVE TypeOK'
  OBVIOUS
<1> USE DEF TypeOK
<1>0. QueueTypeOK /\ RX \in Queues /\ NextHead(RX) \in Heads
  BY RXisQueue, NextHeadType
<1>1. ASSUME NEW x \in Data, Write(x) PROVE TypeOK'
  <2>1. contents' \in [Heads -> Data] /\ ready' \in BOOLEAN
    BY <1>0, <1>1 DEF Write
  <2> QED
    BY <1>0, <1>1, <2>1, ConsumeType, AdvanceType DEF Write, QueueTypeOK, driverVars
<1>2. CASE ConfigChange
  BY <1>2 DEF ConfigChange, virtio_config_change_notify, QueueTypeOK, IntBits, ringVars, driverVars
<1>3. CASE QueueNotify
  BY <1>3 DEF QueueNotify, QueueTypeOK, ringVars, deviceVars
<1>4. ASSUME NEW h \in Heads, Post(h) PROVE TypeOK'
  BY <1>0, <1>4, DriverAddType DEF Post
<1>5. CASE DriverStep
  BY <1>5, DriverIrqType DEF DriverStep
<1>6. CASE Reset
  BY <1>6, DriverResetType DEF Reset
<1>7. CASE SetReady
  BY <1>7 DEF SetReady, QueueTypeOK, queueVars, ringVars, deviceVars, driverVars
<1>8. CASE UNCHANGED vars
  BY <1>8 DEF vars, QueueTypeOK, queueVars, ringVars, deviceVars, driverVars
<1> QED
  BY <1>1, <1>2, <1>3, <1>4, <1>5, <1>6, <1>7, <1>8 DEF Next

LEMMA NextRx == ASSUME RxAssumption PROVE RxInv /\ [Next]_vars => RxInv'
<1> SUFFICES ASSUME RxInv, [Next]_vars PROVE QueuePlaced(RX, {})'
  BY NextRxType DEF RxInv
<1>0. QueuePlaced(RX, {})
  BY DEF RxInv
<1>1. ASSUME NEW x \in Data, Write(x) PROVE QueuePlaced(RX, {})'
  BY <1>1, WriteStep
<1>2. CASE ConfigChange \/ QueueNotify \/ SetReady \/ UNCHANGED vars
  BY <1>0, <1>2, FramePlaced
     DEF ConfigChange, QueueNotify, SetReady, vars, queueVars, driverVars, deviceVars
<1>3. ASSUME NEW h \in Heads, Post(h) PROVE QueuePlaced(RX, {})'
  BY <1>3, PostStep
<1>4. CASE DriverStep
  <2>1. CASE \E q \in Queues : DriverGetUsed(q)
    BY <2>1, TakenStep DEF RxAssumption
  <2>2. CASE DriverIrqRead \/ DriverIrqAck \/ DriverIrqReturn
    BY <1>0, <2>2, OtherIrqStep, FramePlaced
  <2> QED
    BY <1>4, <2>1, <2>2 DEF DriverStep, DriverIrq
<1>5. CASE Reset
  BY <1>5, RXisQueue, ResetStep, PlacedFresh DEF Reset, QueuePlaced
<1> QED
  BY <1>1, <1>2, <1>3, <1>4, <1>5 DEF Next

-----------------------------------------------------------------------------
(* The refinement                                                          *)

\* What the chains of a sequence hold.
Held(r, c) == [k \in 1 .. Len(r) |-> c[r[k]]]

LEMMA HeldType ==
    ASSUME NEW r \in Seq(Heads), NEW c \in [Heads -> Data]
    PROVE  Held(r, c) \in Seq(Data) /\ Len(Held(r, c)) = Len(r)
<1>1. Len(r) \in Nat /\ \A k \in 1 .. Len(r) : c[r[k]] \in Data
  OBVIOUS
<1> QED
  BY <1>1 DEF Held

LEMMA HeldAppend ==
    ASSUME NEW r \in Seq(Heads), NEW c \in [Heads -> Data], NEW h \in Heads, NEW x \in Data,
           h \notin Members(r)
    PROVE  Held(Append(r, h), [c EXCEPT ![h] = x]) = Append(Held(r, c), x)
<1> DEFINE c2 == [c EXCEPT ![h] = x]
           r2 == Append(r, h)
           n  == Len(r)
<1>1. n \in Nat /\ r2 \in Seq(Heads) /\ Len(r2) = n + 1 /\ r2[n + 1] = h /\ \A k \in 1 .. n : r2[k] = r[k]
  OBVIOUS
<1>2. c2 \in [Heads -> Data] /\ c2[h] = x
  OBVIOUS
<1>3. \A k \in 1 .. n : c2[r[k]] = c[r[k]]
  BY DEF Members
<1>4. /\ Held(r, c) \in Seq(Data) /\ Len(Held(r, c)) = n
      /\ \A k \in 1 .. n : Held(r, c)[k] = c[r[k]]
  BY HeldType DEF Held
<1> HIDE DEF c2, r2
<1>5. /\ Held(r2, c2) \in Seq(Data) /\ Len(Held(r2, c2)) = n + 1
      /\ \A k \in 1 .. n + 1 : Held(r2, c2)[k] = c2[r2[k]]
  BY <1>1, <1>2, HeldType DEF Held
<1> HIDE DEF n
<1> DEFINE s == Held(r, c)
           t == Held(r2, c2)
<1>6. \A k \in 1 .. n : t[k] = s[k]
  BY <1>1, <1>3, <1>4, <1>5
<1>7. t[n + 1] = x
  BY <1>1, <1>2, <1>5
<1>8. s \in Seq(Data) /\ t \in Seq(Data) /\ Len(s) = n /\ Len(t) = n + 1 /\ n \in Nat
  BY <1>1, <1>4, <1>5
<1> HIDE DEF s, t
<1>9. t = Append(s, x)
  BY <1>6, <1>7, <1>8
<1> QED
  BY <1>9 DEF s, t, r2, c2

LEMMA HeldTail ==
    ASSUME NEW r \in Seq(Heads), NEW c \in [Heads -> Data], r # << >>
    PROVE  Held(r, c) # << >> /\ Held(Tail(r), c) = Tail(Held(r, c))
<1> DEFINE n == Len(r)
           q == Tail(r)
           s == Held(r, c)
           t == Held(q, c)
<1>1. n \in Nat /\ n > 0 /\ q \in Seq(Heads) /\ Len(q) = n - 1 /\ \A k \in 1 .. n - 1 : q[k] = r[k + 1]
  OBVIOUS
<1>2. s \in Seq(Data) /\ Len(s) = n /\ \A k \in 1 .. n : s[k] = c[r[k]]
  BY HeldType DEF Held
<1> HIDE DEF q
<1>3. t \in Seq(Data) /\ Len(t) = n - 1 /\ \A k \in 1 .. n - 1 : t[k] = c[q[k]]
  BY <1>1, HeldType DEF Held
<1> HIDE DEF n, s, t
<1>4. \A k \in 1 .. n - 1 : t[k] = s[k + 1]
  BY <1>1, <1>2, <1>3
<1>5. s # << >> /\ t = Tail(s)
  BY <1>1, <1>2, <1>3, <1>4
<1> QED
  BY <1>5 DEF s, t, q

\* The refinement mapping in terms of the sequences of chains.
Posted == (avail_idx[RX] - last_avail_idx[RX]) % IdxMod

LEMMA Mapping ==
    ASSUME RxAssumption, TypeOK
    PROVE  /\ Posted = Len(WaitingSeq(RX))
           /\ InFlight = Held(ReturnedSeq(RX), contents)
<1>1. QueueTypeOK /\ RX \in Queues /\ seen[RX] \in Nat
  BY RXisQueue, IdxIsInt DEF TypeOK, QueueTypeOK
<1> DEFINE d == (used_idx[RX] - seen[RX]) % IdxMod
<1>2. Len(ReturnedSeq(RX)) = d /\ Len(WaitingSeq(RX)) = Posted /\ d \in Nat
  <2>1. ReturnedSeq(RX) \in Seq(Heads)
    BY <1>1, SeqLengths
  <2> QED
    BY <1>1, <2>1, SeqLengths DEF Dist, Posted
<1>3. ASSUME NEW k \in 1 .. d
      PROVE  contents[used[RX][SlotOf(seen[RX] + k - 1)]] = contents[ReturnedSeq(RX)[k]]
  <2>1. seen[RX] + k - 1 = seen[RX] + (k - 1)
    BY <1>1, <1>2
  <2>2. ReturnedSeq(RX)[k] = used[RX][SlotOf(seen[RX] + (k - 1))]
    BY <1>2 DEF ReturnedSeq, Entries, Dist
  <2> QED
    BY <2>1, <2>2
<1> QED
  BY <1>2, <1>3 DEF InFlight, Held

LEMMA MappingNext ==
    ASSUME RxAssumption, TypeOK'
    PROVE  /\ Posted' = Len(WaitingSeq(RX)')
           /\ InFlight' = Held(ReturnedSeq(RX)', contents')
<1>1. (TypeOK => /\ Posted = Len(WaitingSeq(RX))
                 /\ InFlight = Held(ReturnedSeq(RX), contents))'
  BY Mapping, PTL
<1> QED
  BY <1>1

\* A step that moves no chain and changes no contents stutters.
LEMMA StutterRx ==
    ASSUME UNCHANGED <<ringVars, last_avail_idx, free, seen, contents, ready>>
    PROVE  UNCHANGED Rx!rxVars
  BY DEF Rx!rxVars, InFlight, ringVars

LEMMA RxInitImplies == ASSUME RxAssumption PROVE Init => Rx!RxInit
<1> SUFFICES ASSUME Init PROVE Rx!RxInit
  OBVIOUS
<1>1. RxInv /\ TypeOK
  BY InitRx DEF RxInv
<1>2. WaitingSeq(RX) = << >> /\ ReturnedSeq(RX) = << >>
  BY FreshRings, RXisQueue DEF Init
<1>3. Posted = 0 /\ InFlight = << >>
  BY <1>1, <1>2, Mapping DEF Held
<1> QED
  BY <1>3 DEF Rx!RxInit, Posted, Init

LEMMA RxStepImplies ==
    ASSUME RxAssumption PROVE RxInv /\ [Next]_vars => [Rx!RxNext]_(Rx!rxVars)
<1> SUFFICES ASSUME RxInv, [Next]_vars PROVE Rx!RxNext \/ UNCHANGED Rx!rxVars
  OBVIOUS
<1> DEFINE w == WaitingSeq(RX)
           r == ReturnedSeq(RX)
<1>0. TypeOK /\ TypeOK' /\ w \in Seq(Heads) /\ r \in Seq(Heads) /\ contents \in [Heads -> Data]
  BY NextRxType, SeqLengths, RXisQueue DEF RxInv, TypeOK
<1>m. Posted = Len(w) /\ InFlight = Held(r, contents) /\ Len(InFlight) = Len(r)
  BY <1>0, Mapping, HeldType
<1>n. Posted' = Len(WaitingSeq(RX)') /\ InFlight' = Held(ReturnedSeq(RX)', contents')
  BY <1>0, MappingNext
<1>1. ASSUME NEW x \in Data, Write(x) PROVE Rx!RxNext
  <2>1. /\ NextHead(RX) \in Heads /\ NextHead(RX) \notin Members(r)
        /\ w # << >> /\ WaitingSeq(RX)' = Tail(w)
        /\ ReturnedSeq(RX)' = Append(r, NextHead(RX))
    BY <1>1, WriteStep
  <2>2. contents' = [contents EXCEPT ![NextHead(RX)] = x] /\ ready /\ ready' = ready
    BY <1>1 DEF Write
  <2> HIDE DEF w, r
  <2>3. InFlight' = Append(InFlight, x)
    <3>1. Held(Append(r, NextHead(RX)), [contents EXCEPT ![NextHead(RX)] = x])
            = Append(Held(r, contents), x)
      BY <1>0, <2>1, HeldAppend
    <3> QED
      BY <1>m, <1>n, <2>1, <2>2, <3>1, Zenon
  <2>4. Posted > 0 /\ Posted' = Posted - 1
    BY <1>0, <1>m, <1>n, <2>1
  <2>5. Rx!Put(x)
    BY <2>2, <2>3, <2>4 DEF Rx!Put, Rx!CanPut, Posted
  <2> QED
    BY <2>5 DEF Rx!RxNext
<1>2. CASE ConfigChange \/ QueueNotify \/ UNCHANGED vars
  BY <1>2, StutterRx
     DEF ConfigChange, QueueNotify, vars, queueVars, driverVars, deviceVars
<1>3. ASSUME NEW h \in Heads, Post(h) PROVE Rx!RxNext
  <2>1. /\ WaitingSeq(RX)' = Append(w, h)
        /\ ReturnedSeq(RX)' = r
        /\ Len(w) + Len(r) < Cardinality(Heads)
    BY <1>3, PostStep
  <2>2. ready /\ ready' = ready /\ contents' = contents
    BY <1>3 DEF Post
  <2> HIDE DEF w, r
  <2>3. InFlight' = InFlight
    BY <1>m, <1>n, <2>1, <2>2
  <2>4. Posted' = Posted + 1 /\ Posted + Len(InFlight) < Cardinality(Heads)
    BY <1>0, <1>m, <1>n, <2>1
  <2>5. Rx!RxPost
    BY <2>2, <2>3, <2>4 DEF Rx!RxPost, Posted
  <2> QED
    BY <2>5 DEF Rx!RxNext
<1>4. CASE DriverStep
  <2>1. CASE DriverIrqRead \/ DriverIrqAck \/ DriverIrqReturn
    BY <1>4, <2>1, OtherIrqStep, StutterRx DEF DriverStep
  <2>2. CASE \E q \in Queues : DriverGetUsed(q)
    <3>1. r # << >> /\ ReturnedSeq(RX)' = Tail(r) /\ WaitingSeq(RX)' = w
      BY <2>2, TakenStep DEF RxAssumption
    <3>2. ready' = ready /\ contents' = contents
      BY <1>4 DEF DriverStep
    <3> HIDE DEF w, r
    <3>3. InFlight # << >> /\ InFlight' = Tail(InFlight)
      BY <1>0, <1>m, <1>n, <3>1, <3>2, HeldTail
    <3>4. Posted' = Posted
      BY <1>m, <1>n, <3>1
    <3>5. Rx!RxTake
      BY <3>2, <3>3, <3>4 DEF Rx!RxTake, Posted
    <3> QED
      BY <3>5 DEF Rx!RxNext
  <2> QED
    BY <1>4, <2>1, <2>2 DEF DriverStep, DriverIrq
<1>5. CASE Reset
  <2>1. WaitingSeq(RX)' = << >> /\ ReturnedSeq(RX)' = << >>
    BY <1>5, ResetStep, RXisQueue DEF Reset
  <2>2. Posted' = 0 /\ InFlight' = << >>
    BY <1>n, <2>1 DEF Held
  <2>3. Rx!RxReset
    BY <1>5, <2>2 DEF Rx!RxReset, Posted, Reset
  <2> QED
    BY <2>3 DEF Rx!RxNext
<1>6. CASE SetReady
  <2>1. Posted' = Posted /\ InFlight' = InFlight /\ ~ready /\ ready' = TRUE
    BY <1>6 DEF SetReady, Posted, InFlight, queueVars, ringVars, deviceVars, driverVars
  <2>2. Rx!RxReady
    BY <2>1 DEF Rx!RxReady, Posted
  <2> QED
    BY <2>2 DEF Rx!RxNext
<1> QED
  BY <1>1, <1>2, <1>3, <1>4, <1>5, <1>6 DEF Next

(* The rings implement the queue: what the host writes with                *)
(* virtio_console_write_data, virtio_net_write_packet or                   *)
(* virtio_input_queue_event reaches the guest in order, each write once    *)
(* and unchanged, whatever wraps, returns or is reset.                     *)
THEOREM RingsImplementQueue ==
    ASSUME RxAssumption PROVE Spec => RefinesRxQueue
<1>1. RxInv /\ [Next]_vars => [Rx!RxNext]_(Rx!rxVars)
  BY RxStepImplies
<1>2. RxInv /\ [Next]_vars => RxInv'
  BY NextRx
<1>3. Init => RxInv /\ Rx!RxInit
  BY InitRx, RxInitImplies
<1> QED
  BY <1>1, <1>2, <1>3, PTL DEF Spec, RefinesRxQueue, Rx!RxSpec
=============================================================================
