---------------------------- MODULE VirtioBlock ----------------------------
(***************************************************************************)
(* The VirtIO block device of src/tinyemu/virtio.c: one request queue,     *)
(* whose requests are handed one at a time to a BlockDevice that answers   *)
(* at once or later through virtio_block_req_cb.                           *)
(*                                                                         *)
(* queue_notify is a loop; each iteration is one action here.  The         *)
(* emulator is single threaded, so neither the guest nor the completion    *)
(* callback runs between two iterations: every other action requires       *)
(* pc = "idle".                                                            *)
(*                                                                         *)
(* virtio_reset belongs to the common part and does not know of            *)
(* req_in_progress: a request in flight survives a reset and its answer is *)
(* delivered to the rings of the new driver.  ResetInFlight says whether   *)
(* the driver may reset the device while it still owes an answer.          *)
(***************************************************************************)
EXTENDS VirtQueue

CONSTANT ResetInFlight

ASSUME ResetAssumption == ResetInFlight \in BOOLEAN

VARIABLES
    pc,               \* "idle", or "notify" inside queue_notify
    snap,             \* queue_notify's local copy of avail_idx
    req_in_progress,  \* VIRTIOBlockDevice.req_in_progress
    req,              \* the head of VIRTIOBlockDevice.req
    backend,          \* the BlockDevice (external): "idle" or "busy"
    kind              \* kind[h]: what the driver put in chain h

blockVars == <<pc, snap, req_in_progress, req, backend, kind>>
vars == <<queueVars, blockVars>>

RQ == 0   \* the only queue

\* What a chain holds:
\*   "io"         a VIRTIO_BLK_T_IN or VIRTIO_BLK_T_OUT request,
\*   "unknown"    a type the switch does not know, or too short a header,
\*   "malformed"  a readable descriptor after a writable one, which
\*                get_desc_rw_size refuses before the device sees it.
\* The device steps over the last two silently.
Kinds == {"io", "unknown", "malformed"}

ASSUME QueuesAssumption == Queues = {RQ}

TypeOK ==
    /\ QueueTypeOK
    /\ pc \in {"idle", "notify"}
    /\ snap \in Idx
    /\ req_in_progress \in BOOLEAN
    /\ req \in Heads
    /\ backend \in {"idle", "busy"}
    /\ kind \in [Heads -> Kinds]

Init ==
    /\ QueueInit
    /\ pc = "idle"
    /\ snap = 0
    /\ req_in_progress = FALSE
    /\ req = (CHOOSE h \in Heads : TRUE)
    /\ backend = "idle"
    /\ kind = [h \in Heads |-> "io"]

-----------------------------------------------------------------------------
(* queue_notify                                                            *)

\* Entering queue_notify: avail_idx is read once, before the loop.
EnterNotify == pc' = "notify" /\ snap' = avail_idx[RQ]

\* VIRTIO_MMIO_QUEUE_NOTIFY, written by the driver after it added chains.
QueueNotify ==
    /\ pc = "idle"
    /\ kick # {}
    /\ kick' = {}
    /\ EnterNotify
    /\ UNCHANGED <<ringVars, deviceVars, free, seen, handler,
                   req_in_progress, req, backend, kind>>

\* An entry is left to look at.
InLoop == pc = "notify" /\ last_avail_idx[RQ] # snap

\* The device sees the chain and can take it.
CanRecv(k) == InLoop /\ kind[NextHead(RQ)] = k /\ ~req_in_progress

\* virtio_block_recv_request returns -1 because a request is in progress:
\* the loop stops with the entry not taken.
RecvBusy ==
    /\ InLoop
    /\ kind[NextHead(RQ)] # "malformed"
    /\ req_in_progress
    /\ pc' = "idle"
    /\ UNCHANGED <<queueVars, snap, req_in_progress, req, backend, kind>>

\* get_desc_rw_size refuses the chain: it is stepped over, busy or not.
RecvMalformed ==
    /\ InLoop
    /\ kind[NextHead(RQ)] = "malformed"
    /\ Advance(RQ)
    /\ UNCHANGED <<ringVars, int_status, irq, driverVars, blockVars>>

\* The header cannot be read, or the type is unknown: stepped over.  An
\* unknown type has already been stored in req.
RecvUnknown ==
    /\ CanRecv("unknown")
    /\ req' \in {req, NextHead(RQ)}
    /\ Advance(RQ)
    /\ UNCHANGED <<ringVars, int_status, irq, driverVars,
                   pc, snap, req_in_progress, backend, kind>>

\* Mutation: the entry is answered but not stepped over.
SyncNoAdvance ==
    /\ CanRecv("io")
    /\ req' = NextHead(RQ)
    /\ virtio_consume_desc(RQ, NextHead(RQ))
    /\ UNCHANGED last_avail_idx
    /\ UNCHANGED <<avail, avail_idx, driverVars,
                   pc, snap, req_in_progress, backend, kind>>

\* read_async/write_async return <= 0: virtio_block_req_end completes the
\* chain at once, with status OK or IOERR.
RecvSync ==
    /\ CanRecv("io")
    /\ req' = NextHead(RQ)
    /\ virtio_consume_desc(RQ, NextHead(RQ))
    /\ Advance(RQ)
    /\ UNCHANGED <<avail, avail_idx, driverVars,
                   pc, snap, req_in_progress, backend, kind>>

\* read_async/write_async return > 0: the answer comes later.
RecvAsync ==
    /\ CanRecv("io")
    /\ req' = NextHead(RQ)
    /\ req_in_progress' = TRUE
    /\ backend' = "busy"
    /\ Advance(RQ)
    /\ UNCHANGED <<ringVars, int_status, irq, driverVars, pc, snap, kind>>

\* The loop ends: everything that was available on entry has been taken.
NotifyDone ==
    /\ pc = "notify"
    /\ last_avail_idx[RQ] = snap
    /\ pc' = "idle"
    /\ UNCHANGED <<queueVars, snap, req_in_progress, req, backend, kind>>

\* Mutation: the flag is not cleared.
CbKeepsFlag ==
    /\ pc = "idle"
    /\ backend = "busy"
    /\ backend' = "idle"
    /\ virtio_consume_desc(RQ, req)
    /\ UNCHANGED req_in_progress
    /\ EnterNotify
    /\ UNCHANGED <<avail, avail_idx, last_avail_idx, driverVars, req, kind>>

\* Mutation: the requests that were refused are not restarted.
CbNoRestart ==
    /\ pc = "idle"
    /\ backend = "busy"
    /\ backend' = "idle"
    /\ virtio_consume_desc(RQ, req)
    /\ req_in_progress' = FALSE
    /\ UNCHANGED <<pc, snap>>
    /\ UNCHANGED <<avail, avail_idx, last_avail_idx, driverVars, req, kind>>

\* virtio_block_req_cb: the request is completed, the device is free again
\* and queue_notify restarts the requests that were refused meanwhile.
virtio_block_req_cb ==
    /\ pc = "idle"
    /\ backend = "busy"
    /\ backend' = "idle"
    /\ virtio_consume_desc(RQ, req)
    /\ req_in_progress' = FALSE
    /\ EnterNotify
    /\ UNCHANGED <<avail, avail_idx, last_avail_idx, driverVars, req, kind>>

-----------------------------------------------------------------------------
\* The driver fills a chain and publishes it (external).
Submit(h, k) ==
    /\ pc = "idle"
    /\ DriverAdd(RQ, h)
    /\ kind' = [kind EXCEPT ![h] = k]
    /\ UNCHANGED <<pc, snap, req_in_progress, req, backend>>

\* The driver's interrupt handler (external).
DriverStep == pc = "idle" /\ DriverIrq /\ UNCHANGED blockVars

\* The driver resets the device (external).
Reset ==
    /\ pc = "idle"
    /\ ResetInFlight \/ backend = "idle"
    /\ DriverReset
    /\ UNCHANGED blockVars

Loop == RecvBusy \/ RecvMalformed \/ RecvUnknown \/ RecvSync \/ RecvAsync \/ NotifyDone

Next ==
    \/ \E h \in Heads, k \in Kinds : Submit(h, k)
    \/ QueueNotify
    \/ Loop
    \/ virtio_block_req_cb
    \/ DriverStep
    \/ Reset

\* The loop runs to its end, the block device answers every request it
\* accepted, the driver kicks after adding and services its interrupts.
Fairness ==
    /\ WF_vars(Loop)
    /\ WF_vars(virtio_block_req_cb)
    /\ WF_vars(QueueNotify)
    /\ WF_vars(DriverStep)

Spec == Init /\ [][Next]_vars /\ Fairness
-----------------------------------------------------------------------------
(* Properties                                                              *)

\* The chain handed to the block device, if any.
Busy == IF req_in_progress THEN {req} ELSE {}

\* No chain is in two places: free, waiting in the available ring, handed
\* to the block device, and returned in the used ring exclude each other,
\* and no ring holds a chain twice.
ChainInOnePlace ==
    /\ Distinct(RQ)
    /\ free[RQ] \cap (Waiting(RQ) \cup Busy \cup Returned(RQ)) = {}
    /\ Waiting(RQ) \cap (Busy \cup Returned(RQ)) = {}
    /\ Busy \cap Returned(RQ) = {}

\* No I/O chain disappears: one that is nowhere carried a request the
\* device does not support.
IoChainNeverLost ==
    \A h \in Heads : kind[h] = "io" =>
        h \in free[RQ] \cup Waiting(RQ) \cup Busy \cup Returned(RQ)

(* A published chain is in one place at a time and none with an I/O        *)
(* request is lost, while queue_notify, the answers of the block device    *)
(* and the driver interleave.  A chain completed twice, or completed while *)
(* the loop also takes it again, breaks it.                                *)
ChainsConserved == ChainInOnePlace /\ IoChainNeverLost

(* req_in_progress is set exactly while the block device owes an answer:   *)
(* otherwise the queue would stall for ever, or a second request would     *)
(* overwrite the one whose answer is still to come.                        *)
ProgressFlagMatchesBackend == req_in_progress <=> backend = "busy"

(* Refused requests are not forgotten: outside queue_notify, entries the   *)
(* device has not taken are covered by a kick still to come or by the      *)
(* answer that will restart the loop.                                      *)
NoStrandedRequest ==
    pc = "idle" /\ HasAvail(RQ) => kick # {} \/ req_in_progress

\* queue_notify's copy of avail_idx is never stale: nothing publishes a
\* chain while the loop runs.
SnapIsCurrent == pc = "notify" => snap = avail_idx[RQ]

\* The inductive invariant behind the safety properties above.
Inv ==
    /\ TypeOK
    /\ IrqLineMatchesStatus
    /\ UsedIsAnnounced
    /\ ProgressFlagMatchesBackend
    /\ SnapIsCurrent
    /\ NoStrandedRequest

(* Every I/O request the driver publishes comes back to it.                *)
EveryIoRequestReturns ==
    \A h \in Heads : (h \notin free[RQ] /\ kind[h] = "io") ~> (h \in free[RQ])
=============================================================================
