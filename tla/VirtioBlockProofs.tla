------------------------- MODULE VirtioBlockProofs -------------------------
(***************************************************************************)
(* Proofs about VirtioBlock, for every ring size, index width, set of      *)
(* chains, transport and reset policy.                                     *)
(***************************************************************************)
EXTENDS VirtioBlock, VirtQueueProofs

-----------------------------------------------------------------------------
(* Type correctness                                                        *)

\* The queue's number.
LEMMA RQisQueue == RQ \in Queues
  BY QueuesAssumption

\* Init establishes the type invariant.
LEMMA InitType == Init => TypeOK
  BY QueueInitType, ZeroInIdx, AHead DEF Init, TypeOK, Kinds

\* Every step preserves it.
LEMMA NextType == TypeOK /\ [Next]_vars => TypeOK'
<1> SUFFICES ASSUME TypeOK, [Next]_vars PROVE TypeOK'
  OBVIOUS
<1> USE DEF TypeOK, ringVars, deviceVars, driverVars, queueVars, blockVars
<1>0. QueueTypeOK /\ NextHead(RQ) \in Heads
  BY NextHeadType, RQisQueue
<1>1. ASSUME NEW h \in Heads, NEW k \in Kinds, Submit(h, k) PROVE TypeOK'
  <2>1. SlotOf(avail_idx[RQ]) \in Slot /\ Inc(avail_idx[RQ]) \in Idx
    BY IncType, SlotOfIdx, QueuesAssumption DEF QueueTypeOK
  <2>2. avail' \in [Queues -> [Slot -> Heads]] /\ avail_idx' \in [Queues -> Idx]
    BY <1>1, <2>1, QueuesAssumption DEF Submit, DriverAdd, QueueTypeOK
  <2>3. free' \in [Queues -> SUBSET Heads] /\ kick' \in SUBSET Queues
    BY <1>1, QueuesAssumption DEF Submit, DriverAdd, QueueTypeOK
  <2>4. QueueTypeOK'
    BY <1>1, <2>2, <2>3 DEF Submit, DriverAdd, QueueTypeOK
  <2> QED
    BY <1>1, <2>4 DEF Submit
<1>2. CASE QueueNotify
  BY <1>2, QueuesAssumption DEF QueueNotify, EnterNotify, QueueTypeOK
<1>3. CASE RecvBusy
  BY <1>3 DEF RecvBusy, QueueTypeOK
<1>4. CASE RecvMalformed
  BY <1>4, <1>0, RQisQueue, AdvanceType DEF RecvMalformed, QueueTypeOK
<1>5. CASE RecvUnknown
  BY <1>5, <1>0, RQisQueue, AdvanceType DEF RecvUnknown, QueueTypeOK
<1>6. CASE RecvSync
  BY <1>6, <1>0, RQisQueue, AdvanceType, ConsumeType DEF RecvSync, QueueTypeOK
<1>7. CASE RecvAsync
  BY <1>7, <1>0, RQisQueue, AdvanceType DEF RecvAsync, QueueTypeOK
<1>8. CASE NotifyDone
  BY <1>8 DEF NotifyDone, QueueTypeOK
<1>9. CASE virtio_block_req_cb
  BY <1>9, <1>0, RQisQueue, ConsumeType, QueuesAssumption
     DEF virtio_block_req_cb, EnterNotify, QueueTypeOK
<1>10. CASE DriverStep
  BY <1>10, DriverIrqType DEF DriverStep
<1>11. CASE Reset
  BY <1>11, ZeroInIdx, EmptyRingsType
     DEF Reset, DriverReset, virtio_reset, QueueTypeOK, IntBits
<1>12. CASE UNCHANGED vars
  BY <1>12 DEF vars, QueueTypeOK
<1> QED
  BY <1>1, <1>2, <1>3, <1>4, <1>5, <1>6, <1>7, <1>8, <1>9, <1>10, <1>11, <1>12
     DEF Next, Loop

(* Type correctness: the device and its rings are always well formed.      *)
THEOREM TypeCorrect == Spec => []TypeOK
  BY InitType, NextType, PTL DEF Spec

-----------------------------------------------------------------------------
(* Safety                                                                  *)

\* Completing a chain raises the line together with its bit.
LEMMA ConsumeIrq ==
    ASSUME NEW h, virtio_consume_desc(RQ, h)
    PROVE  irq' = TRUE /\ "vring" \in int_status' /\ int_status' # {}
  BY DEF virtio_consume_desc

\* The line follows the status bits.
LEMMA NextIrqLine ==
    IrqLineMatchesStatus /\ [Next]_vars => IrqLineMatchesStatus'
<1> SUFFICES ASSUME IrqLineMatchesStatus, [Next]_vars PROVE IrqLineMatchesStatus'
  OBVIOUS
<1> USE DEF IrqLineMatchesStatus
<1>1. CASE UNCHANGED <<int_status, irq>>
  BY <1>1
<1>2. CASE RecvSync \/ virtio_block_req_cb
  BY <1>2, ConsumeIrq DEF RecvSync, virtio_block_req_cb
<1>3. CASE DriverIrqRead
  BY <1>3 DEF DriverIrqRead, IsrRead
<1>4. CASE DriverIrqAck
  BY <1>4 DEF DriverIrqAck, InterruptAck
<1>5. CASE Reset
  BY <1>5 DEF Reset, DriverReset, virtio_reset
<1>6. CASE \E h \in Heads, k \in Kinds : Submit(h, k)
  BY <1>6, <1>1 DEF Submit, DriverAdd, deviceVars
<1>7. CASE QueueNotify \/ RecvBusy \/ NotifyDone
  BY <1>7, <1>1 DEF QueueNotify, RecvBusy, NotifyDone, queueVars, deviceVars
<1>8. CASE RecvMalformed \/ RecvUnknown \/ RecvAsync
  BY <1>8, <1>1 DEF RecvMalformed, RecvUnknown, RecvAsync
<1>9. CASE (\E q \in Queues : DriverGetUsed(q)) \/ DriverIrqReturn
  BY <1>9, <1>1 DEF DriverGetUsed, DriverIrqReturn, deviceVars
<1>10. CASE UNCHANGED vars
  BY <1>10, <1>1 DEF vars, queueVars, deviceVars
<1> QED
  BY <1>2, <1>3, <1>4, <1>5, <1>6, <1>7, <1>8, <1>9, <1>10
     DEF Next, Loop, DriverStep, DriverIrq

\* A completion the driver has not seen stays announced.
LEMMA NextAnnounced ==
    TypeOK /\ UsedIsAnnounced /\ [Next]_vars => UsedIsAnnounced'
<1> SUFFICES ASSUME TypeOK, UsedIsAnnounced, [Next]_vars PROVE UsedIsAnnounced'
  OBVIOUS
<1> USE DEF UsedIsAnnounced
<1>1. CASE UNCHANGED <<seen, used_idx, int_status, handler>>
  BY <1>1
<1>2. CASE RecvSync \/ virtio_block_req_cb
  BY <1>2, ConsumeIrq DEF RecvSync, virtio_block_req_cb
<1>3. CASE DriverIrqRead
  <2>1. UNCHANGED <<seen, used_idx>> /\ handler.pc = "out"
    BY <1>3 DEF DriverIrqRead, ringVars
  <2>2. \/ UNCHANGED int_status
        \/ handler' = [pc |-> "ack", isr |-> int_status]
    BY <1>3, Zenon DEF DriverIrqRead
  <2> QED
    BY <2>1, <2>2
<1>4. CASE DriverIrqAck
  BY <1>4 DEF DriverIrqAck, InterruptAck, ringVars, TypeOK, QueueTypeOK
<1>5. CASE Reset
  BY <1>5 DEF Reset, DriverReset
<1>6. CASE \E h \in Heads, k \in Kinds : Submit(h, k)
  BY <1>6, <1>1 DEF Submit, DriverAdd, deviceVars
<1>7. CASE QueueNotify \/ RecvBusy \/ NotifyDone
  BY <1>7, <1>1
     DEF QueueNotify, RecvBusy, NotifyDone, queueVars, ringVars, deviceVars, driverVars
<1>8. CASE RecvMalformed \/ RecvUnknown \/ RecvAsync
  BY <1>8, <1>1 DEF RecvMalformed, RecvUnknown, RecvAsync, ringVars, driverVars
<1>9. CASE \E q \in Queues : DriverGetUsed(q)
  BY <1>9 DEF DriverGetUsed, ringVars, deviceVars
<1>10. CASE DriverIrqReturn
  BY <1>10 DEF DriverIrqReturn, ringVars, deviceVars
<1>11. CASE UNCHANGED vars
  BY <1>11, <1>1 DEF vars, queueVars, ringVars, deviceVars, driverVars
<1> QED
  BY <1>2, <1>3, <1>4, <1>5, <1>6, <1>7, <1>8, <1>9, <1>10, <1>11
     DEF Next, Loop, DriverStep, DriverIrq

\* The device's flag follows the block device, and no request is stranded.
LEMMA NextProgress ==
    Inv /\ [Next]_vars =>
        ProgressFlagMatchesBackend' /\ SnapIsCurrent' /\ NoStrandedRequest'
<1> SUFFICES ASSUME Inv, [Next]_vars
             PROVE  ProgressFlagMatchesBackend' /\ SnapIsCurrent' /\ NoStrandedRequest'
  OBVIOUS
<1> USE DEF Inv, ProgressFlagMatchesBackend, SnapIsCurrent, NoStrandedRequest, HasAvail
<1>1. CASE UNCHANGED <<backend, req_in_progress, pc, snap, avail_idx, last_avail_idx, kick>>
  BY <1>1
<1>2. CASE \E h \in Heads, k \in Kinds : Submit(h, k)
  BY <1>2, QueuesAssumption DEF Submit, DriverAdd, deviceVars
<1>3. CASE QueueNotify
  BY <1>3 DEF QueueNotify, EnterNotify, ringVars
<1>4. CASE RecvBusy
  BY <1>4 DEF RecvBusy, queueVars, ringVars, deviceVars, driverVars
<1>5. CASE RecvMalformed
  BY <1>5 DEF RecvMalformed, InLoop, ringVars, driverVars, blockVars
<1>6. CASE RecvUnknown
  BY <1>6 DEF RecvUnknown, CanRecv, InLoop, ringVars, driverVars
<1>7. CASE RecvSync
  BY <1>7 DEF RecvSync, CanRecv, InLoop, driverVars
<1>8. CASE RecvAsync
  BY <1>8 DEF RecvAsync, CanRecv, InLoop, ringVars, driverVars
<1>9. CASE NotifyDone
  BY <1>9 DEF NotifyDone, queueVars, ringVars, deviceVars, driverVars
<1>10. CASE virtio_block_req_cb
  BY <1>10 DEF virtio_block_req_cb, EnterNotify, driverVars
<1>11. CASE DriverStep
  BY <1>11, <1>1 DEF DriverStep, DriverIrq, DriverIrqRead, DriverIrqAck,
     DriverGetUsed, DriverIrqReturn, ringVars, deviceVars, blockVars
<1>12. CASE Reset
  BY <1>12, QueuesAssumption DEF Reset, DriverReset, virtio_reset, blockVars
<1>13. CASE UNCHANGED vars
  BY <1>13, <1>1 DEF vars, queueVars, ringVars, deviceVars, driverVars, blockVars
<1> QED
  BY <1>2, <1>3, <1>4, <1>5, <1>6, <1>7, <1>8, <1>9, <1>10, <1>11, <1>12, <1>13
     DEF Next, Loop

LEMMA InitInv == Init => Inv
<1> SUFFICES ASSUME Init PROVE Inv
  OBVIOUS
<1>1. TypeOK
  BY InitType
<1>2. IrqLineMatchesStatus /\ UsedIsAnnounced
  BY DEF Init, QueueInit, IrqLineMatchesStatus, UsedIsAnnounced
<1>3. ProgressFlagMatchesBackend /\ SnapIsCurrent /\ NoStrandedRequest
  BY QueuesAssumption DEF Init, QueueInit, ProgressFlagMatchesBackend, SnapIsCurrent,
     NoStrandedRequest, HasAvail
<1> QED
  BY <1>1, <1>2, <1>3 DEF Inv

(* The inductive invariant holds of every behaviour, for every ring size,  *)
(* index width, transport and reset policy.                                *)
THEOREM Invariance == Spec => []Inv
<1>1. Inv /\ [Next]_vars => Inv'
  BY NextType, NextIrqLine, NextAnnounced, NextProgress DEF Inv
<1> QED
  BY InitInv, <1>1, PTL DEF Spec

(* A completion the driver has not taken back is always announced to it,   *)
(* and the interrupt line is up exactly while a status bit is set.         *)
THEOREM CompletionsAlwaysAnnounced == Spec => []CompletionsAnnounced
<1>1. Inv => CompletionsAnnounced
  BY DEF Inv, CompletionsAnnounced
<1> QED
  BY Invariance, <1>1, PTL

(* req_in_progress says exactly whether the block device owes an answer,   *)
(* even across resets.                                                     *)
THEOREM ProgressFlagCorrect == Spec => []ProgressFlagMatchesBackend
<1>1. Inv => ProgressFlagMatchesBackend
  BY DEF Inv
<1> QED
  BY Invariance, <1>1, PTL

(* No published request is left without a kick or an answer that will      *)
(* make the device look at it.                                             *)
THEOREM NothingStranded == Spec => []NoStrandedRequest
<1>1. Inv => NoStrandedRequest
  BY DEF Inv
<1> QED
  BY Invariance, <1>1, PTL

-----------------------------------------------------------------------------
(* Where the chains are                                                    *)

\* An I/O chain is free, waiting, with the block device or returned.
IoPlaced ==
    \A h \in Heads : kind[h] = "io" =>
        h \in free[RQ] \cup Members(WaitingSeq(RQ)) \cup Busy \cup Members(ReturnedSeq(RQ))

\* Every chain is in one place, and no I/O chain is in none.
ChainInv == QueuePlaced(RQ, Busy) /\ IoPlaced

LEMMA InitChain == Init => ChainInv
<1> SUFFICES ASSUME Init PROVE ChainInv
  OBVIOUS
<1>1. WaitingSeq(RQ) = << >> /\ ReturnedSeq(RQ) = << >> /\ free[RQ] = Heads
  BY FreshRings, RQisQueue DEF Init
<1>2. Busy = {}
  BY DEF Busy, Init
<1> QED
  BY <1>1, <1>2, PlacedFresh DEF ChainInv, QueuePlaced, IoPlaced

\* What moves no chain.
LEMMA FrameChain ==
    ASSUME ChainInv, UNCHANGED <<ringVars, last_avail_idx, free, seen, kind>>, Busy' = Busy
    PROVE  ChainInv'
<1>1. WaitingSeq(RQ)' = WaitingSeq(RQ) /\ ReturnedSeq(RQ)' = ReturnedSeq(RQ) /\ free'[RQ] = free[RQ]
  BY FrameStep
<1> QED
  BY <1>1 DEF ChainInv, QueuePlaced, IoPlaced

\* What the loop of queue_notify does with the first chain that waits.
LEMMA LoopTakes ==
    ASSUME Inv, InLoop, Advance(RQ), UNCHANGED <<avail, avail_idx>>
    PROVE  /\ WaitingSeq(RQ) # << >> /\ Head(WaitingSeq(RQ)) = NextHead(RQ)
           /\ WaitingSeq(RQ)' = Tail(WaitingSeq(RQ))
<1>1. HasAvail(RQ)
  BY DEF Inv, SnapIsCurrent, InLoop, HasAvail
<1> QED
  BY <1>1, TakeStep, RQisQueue DEF Inv, TypeOK

\* A chain that is stepped over was no I/O request.
LEMMA DropChain ==
    ASSUME Inv, ChainInv, InLoop, kind[NextHead(RQ)] # "io", Advance(RQ),
           UNCHANGED <<ringVars, free, seen, kind>>, Busy' = Busy
    PROVE  ChainInv'
<1> DEFINE w == WaitingSeq(RQ)
           r == ReturnedSeq(RQ)
<1>1. w # << >> /\ Head(w) = NextHead(RQ) /\ WaitingSeq(RQ)' = Tail(w)
  BY LoopTakes DEF ringVars
<1>2. ReturnedSeq(RQ)' = r /\ free'[RQ] = free[RQ]
  BY DEF ReturnedSeq, ringVars
<1>3. Placed(w, r, Busy, free[RQ])
  BY DEF ChainInv, QueuePlaced
<1> HIDE DEF w, r
<1>4. Placed(Tail(w), r, Busy, free[RQ])
  BY <1>1, <1>3, PlacedDrop
<1>5. Members(Tail(w)) = Members(w) \ {NextHead(RQ)}
  BY <1>1, <1>3, TailMembers DEF Placed
<1>6. IoPlaced'
  BY <1>1, <1>2, <1>5 DEF ChainInv, IoPlaced, w, r
<1> QED
  BY <1>1, <1>2, <1>4, <1>6 DEF ChainInv, QueuePlaced

\* A chain the block device answers at once goes to the used ring.
LEMMA SyncChain == ASSUME Inv, ChainInv, RecvSync PROVE ChainInv'
<1> DEFINE w == WaitingSeq(RQ)
           r == ReturnedSeq(RQ)
           h == NextHead(RQ)
<1>0. QueueTypeOK /\ RQ \in Queues /\ h \in Heads
  BY RQisQueue, NextHeadType DEF Inv, TypeOK
<1>1. w # << >> /\ Head(w) = h /\ WaitingSeq(RQ)' = Tail(w)
  BY LoopTakes DEF RecvSync, CanRecv
<1>2. Busy = {} /\ Busy' = {}
  BY DEF RecvSync, CanRecv, Busy
<1>3. Placed(w, r, {}, free[RQ])
  BY <1>2 DEF ChainInv, QueuePlaced
<1> HIDE DEF w, r, h
<1>4. Placed(Tail(w), r, {h}, free[RQ])
  <2>1. Placed(Tail(w), r, {} \cup {Head(w)}, free[RQ])
    BY <1>1, <1>3, PlacedTake
  <2>2. {} \cup {Head(w)} = {h}
    BY <1>1
  <2> QED
    BY <2>1, <2>2
<1>5. Placed(Tail(w), Append(r, h), {}, free[RQ]) /\ Len(Tail(w)) + Len(r) < Cardinality(Heads)
  <2>1. Placed(Tail(w), Append(r, h), {h} \ {h}, free[RQ])
    BY <1>4, PlacedDone
  <2>2. {h} \ {h} = {}
    OBVIOUS
  <2>3. Len(Tail(w)) + Len(r) < Cardinality(Heads)
    BY <1>4, PlacedDone
  <2> QED
    BY <2>1, <2>2, <2>3
<1>6. Dist(seen[RQ], used_idx[RQ]) < QNum
  <2>1. Len(Tail(w)) \in Nat /\ Len(r) \in Nat
    BY <1>4 DEF Placed
  <2>2. Len(r) = Dist(seen[RQ], used_idx[RQ])
    BY <1>0, SeqLengths DEF r
  <2> QED
    BY <1>5, <2>1, <2>2, HeadsAssumption, HeadsFinite, Sizes
<1>7. ReturnedSeq(RQ)' = Append(r, h)
  BY <1>0, <1>6, ConsumeStep DEF RecvSync, driverVars, r, h
<1>8. free'[RQ] = free[RQ] /\ kind' = kind
  BY DEF RecvSync, driverVars
<1>9. Members(Tail(w)) = Members(w) \ {h}
  BY <1>1, <1>3, TailMembers DEF Placed
<1>10. Members(Append(r, h)) = Members(r) \cup {h}
  BY <1>0, <1>3, AppendMembers DEF Placed
<1>11. IoPlaced'
  BY <1>1, <1>2, <1>7, <1>8, <1>9, <1>10 DEF ChainInv, IoPlaced, w, r
<1> QED
  BY <1>1, <1>2, <1>5, <1>7, <1>8, <1>11 DEF ChainInv, QueuePlaced

\* A chain the block device accepts is held by it alone ...
LEMMA AsyncChain == ASSUME Inv, ChainInv, RecvAsync PROVE ChainInv'
<1> DEFINE w == WaitingSeq(RQ)
           r == ReturnedSeq(RQ)
           h == NextHead(RQ)
<1>1. w # << >> /\ Head(w) = h /\ WaitingSeq(RQ)' = Tail(w)
  BY LoopTakes DEF RecvAsync, CanRecv, ringVars
<1>2. Busy = {} /\ Busy' = {h}
  BY DEF RecvAsync, CanRecv, Busy
<1>3. Placed(w, r, {}, free[RQ])
  BY <1>2 DEF ChainInv, QueuePlaced
<1>4. ReturnedSeq(RQ)' = r /\ free'[RQ] = free[RQ] /\ kind' = kind
  BY DEF RecvAsync, ReturnedSeq, ringVars, driverVars
<1> HIDE DEF w, r, h
<1>5. Placed(Tail(w), r, {h}, free[RQ])
  <2>1. Placed(Tail(w), r, {} \cup {Head(w)}, free[RQ])
    BY <1>1, <1>3, PlacedTake
  <2>2. {} \cup {Head(w)} = {h}
    BY <1>1
  <2> QED
    BY <2>1, <2>2
<1>6. Members(Tail(w)) = Members(w) \ {h}
  BY <1>1, <1>3, TailMembers DEF Placed
<1>7. IoPlaced'
  BY <1>1, <1>2, <1>4, <1>6 DEF ChainInv, IoPlaced, w, r
<1> QED
  BY <1>1, <1>2, <1>4, <1>5, <1>7 DEF ChainInv, QueuePlaced

\* ... until it answers.
LEMMA AnswerChain == ASSUME Inv, ChainInv, virtio_block_req_cb PROVE ChainInv'
<1> DEFINE w == WaitingSeq(RQ)
           r == ReturnedSeq(RQ)
<1>0. QueueTypeOK /\ RQ \in Queues /\ req \in Heads
  BY RQisQueue DEF Inv, TypeOK
<1>1. Busy = {req} /\ Busy' = {}
  BY DEF virtio_block_req_cb, Inv, ProgressFlagMatchesBackend, Busy
<1>2. Placed(w, r, {req}, free[RQ])
  BY <1>1 DEF ChainInv, QueuePlaced
<1>3. WaitingSeq(RQ)' = w /\ free'[RQ] = free[RQ] /\ kind' = kind
  BY DEF virtio_block_req_cb, WaitingSeq, driverVars
<1> HIDE DEF w, r
<1>4. Placed(w, Append(r, req), {}, free[RQ]) /\ Len(w) + Len(r) < Cardinality(Heads)
  <2>1. Placed(w, Append(r, req), {req} \ {req}, free[RQ])
    BY <1>2, PlacedDone
  <2>2. {req} \ {req} = {}
    OBVIOUS
  <2>3. Len(w) + Len(r) < Cardinality(Heads)
    BY <1>2, PlacedDone
  <2> QED
    BY <2>1, <2>2, <2>3
<1>5. Dist(seen[RQ], used_idx[RQ]) < QNum
  BY <1>0, <1>4, RoomInRings DEF w, r
<1>6. ReturnedSeq(RQ)' = Append(r, req)
  BY <1>0, <1>5, ConsumeStep DEF virtio_block_req_cb, driverVars, r
<1>7. Members(Append(r, req)) = Members(r) \cup {req}
  BY <1>0, <1>2, AppendMembers DEF Placed
<1>8. IoPlaced'
  BY <1>1, <1>3, <1>6, <1>7 DEF ChainInv, IoPlaced, w, r
<1> QED
  BY <1>1, <1>3, <1>4, <1>6, <1>8 DEF ChainInv, QueuePlaced

LEMMA SubmitChain ==
    ASSUME Inv, ChainInv, NEW h \in Heads, NEW k \in Kinds, Submit(h, k)
    PROVE  ChainInv'
<1> DEFINE w == WaitingSeq(RQ)
           r == ReturnedSeq(RQ)
<1>0. QueueTypeOK /\ RQ \in Queues /\ kind \in [Heads -> Kinds]
  BY RQisQueue DEF Inv, TypeOK
<1>1. Placed(w, r, Busy, free[RQ]) /\ Busy' = Busy /\ kind' = [kind EXCEPT ![h] = k]
  BY DEF ChainInv, QueuePlaced, Submit, Busy
<1>2. /\ WaitingSeq(RQ)' = Append(w, h)
      /\ ReturnedSeq(RQ)' = r
      /\ h \in free[RQ] /\ free'[RQ] = free[RQ] \ {h}
  BY <1>0, AddStep DEF ChainInv, Submit
<1> HIDE DEF w, r
<1>3. Placed(Append(w, h), r, Busy, free[RQ] \ {h})
  BY <1>1, <1>2, PlacedPost
<1>4. Members(Append(w, h)) = Members(w) \cup {h}
  BY <1>1, AppendMembers DEF Placed
<1>5. IoPlaced'
  BY <1>0, <1>1, <1>2, <1>4 DEF ChainInv, IoPlaced, w, r
<1> QED
  BY <1>1, <1>2, <1>3, <1>5 DEF ChainInv, QueuePlaced

LEMMA BackChain ==
    ASSUME Inv, ChainInv, DriverGetUsed(RQ), UNCHANGED blockVars
    PROVE  ChainInv'
<1> DEFINE w == WaitingSeq(RQ)
           r == ReturnedSeq(RQ)
<1>0. QueueTypeOK /\ RQ \in Queues
  BY RQisQueue DEF Inv, TypeOK
<1>1. Placed(w, r, Busy, free[RQ]) /\ Busy' = Busy /\ kind' = kind
  BY DEF ChainInv, QueuePlaced, Busy, blockVars
<1>2. /\ r # << >> /\ ReturnedSeq(RQ)' = Tail(r) /\ WaitingSeq(RQ)' = w
      /\ free'[RQ] = free[RQ] \cup {Head(r)}
  BY <1>0, GetUsedStep
<1> HIDE DEF w, r
<1>3. Placed(w, Tail(r), Busy, free[RQ] \cup {Head(r)})
  BY <1>1, <1>2, PlacedBack
<1>4. Members(Tail(r)) = Members(r) \ {Head(r)}
  BY <1>1, <1>2, TailMembers DEF Placed
<1>5. IoPlaced'
  BY <1>1, <1>2, <1>4 DEF ChainInv, IoPlaced, w, r
<1> QED
  BY <1>1, <1>2, <1>3, <1>5 DEF ChainInv, QueuePlaced

\* The driver resets the device only when it holds no chain.
LEMMA ResetChain ==
    ASSUME ResetInFlight = FALSE, Inv, ChainInv, Reset
    PROVE  ChainInv'
<1>1. WaitingSeq(RQ)' = << >> /\ ReturnedSeq(RQ)' = << >> /\ free'[RQ] = Heads
  BY ResetStep, RQisQueue DEF Reset
<1>2. Busy' = {}
  BY DEF Reset, Inv, ProgressFlagMatchesBackend, Busy, blockVars
<1> QED
  BY <1>1, <1>2, PlacedFresh DEF ChainInv, QueuePlaced, IoPlaced

LEMMA NextChain ==
    ASSUME ResetInFlight = FALSE
    PROVE  Inv /\ ChainInv /\ [Next]_vars => ChainInv'
<1> SUFFICES ASSUME Inv, ChainInv, [Next]_vars PROVE ChainInv'
  OBVIOUS
<1>1. ASSUME NEW h \in Heads, NEW k \in Kinds, Submit(h, k) PROVE ChainInv'
  BY <1>1, SubmitChain
<1>2. CASE QueueNotify \/ RecvBusy \/ NotifyDone \/ UNCHANGED vars
  BY <1>2, FrameChain
     DEF QueueNotify, RecvBusy, NotifyDone, Busy, vars, queueVars, blockVars, deviceVars, driverVars
<1>3. CASE RecvMalformed
  BY <1>3, DropChain DEF RecvMalformed, driverVars, blockVars, Busy
<1>4. CASE RecvUnknown
  BY <1>4, DropChain DEF RecvUnknown, CanRecv, driverVars, Busy
<1>5. CASE RecvSync
  BY <1>5, SyncChain
<1>6. CASE RecvAsync
  BY <1>6, AsyncChain
<1>7. CASE virtio_block_req_cb
  BY <1>7, AnswerChain
<1>8. CASE DriverStep
  <2>1. CASE DriverIrqRead \/ DriverIrqAck \/ DriverIrqReturn
    BY <1>8, <2>1, OtherIrqStep, FrameChain DEF DriverStep, blockVars, Busy
  <2>2. CASE \E q \in Queues : DriverGetUsed(q)
    BY <1>8, <2>2, BackChain, QueuesAssumption DEF DriverStep
  <2> QED
    BY <1>8, <2>1, <2>2 DEF DriverStep, DriverIrq
<1>9. CASE Reset
  BY <1>9, ResetChain
<1> QED
  BY <1>1, <1>2, <1>3, <1>4, <1>5, <1>6, <1>7, <1>8, <1>9 DEF Next, Loop

LEMMA ChainsInOnePlace == Inv /\ ChainInv => ChainsConserved
<1> SUFFICES ASSUME Inv, ChainInv PROVE ChainsConserved
  OBVIOUS
<1>1. Waiting(RQ) = Members(WaitingSeq(RQ)) /\ Returned(RQ) = Members(ReturnedSeq(RQ))
  BY QueueSets, RQisQueue DEF Inv, TypeOK
<1>2. Distinct(RQ)
  BY QueueSets, RQisQueue DEF Inv, TypeOK, ChainInv, QueuePlaced, Placed
<1> QED
  BY <1>1, <1>2 DEF ChainInv, QueuePlaced, Placed, IoPlaced, ChainsConserved, ChainInOnePlace,
     IoChainNeverLost

(* Every chain is in one place only, and no I/O chain is lost, whatever    *)
(* queue_notify, virtio_block_req_cb and the driver interleave, if the     *)
(* driver does not reset the device while a request is in flight.          *)
THEOREM ChainsAreConserved ==
    ASSUME ResetInFlight = FALSE PROVE Spec => []ChainsConserved
<1>1. Inv /\ ChainInv /\ [Next]_vars => ChainInv'
  BY NextChain
<1> QED
  BY Invariance, InitChain, <1>1, ChainsInOnePlace, PTL DEF Spec
=============================================================================
