---------------------------- MODULE ManualQueue ----------------------------
(***************************************************************************)
(* The rings behind RxQueue: queue 0 of the input, console and network     *)
(* devices of src/tinyemu/virtio.c, filled by the host's events instead of *)
(* queue_notify.                                                           *)
(***************************************************************************)
EXTENDS VirtQueue, Sequences

CONSTANT Data   \* what a buffer can hold

RX == 0

RxAssumption == Queues = {RX} /\ Data # {}

VARIABLES
    ready,      \* QueueState.ready
    contents    \* contents[h]: what memcpy_to_queue left in chain h

vars == <<queueVars, ready, contents>>

TypeOK ==
    /\ QueueTypeOK
    /\ ready \in BOOLEAN
    /\ contents \in [Heads -> Data]

Init ==
    /\ QueueInit
    /\ ready = FALSE
    /\ contents = [h \in Heads |-> CHOOSE x \in Data : TRUE]

\* Mutation: the cursor into the available ring is not advanced.
WriteStays(x) ==
    /\ ready /\ HasAvail(RX)
    /\ contents' = [contents EXCEPT ![NextHead(RX)] = x]
    /\ virtio_consume_desc(RX, NextHead(RX))
    /\ UNCHANGED last_avail_idx
    /\ UNCHANGED <<avail, avail_idx, driverVars, ready>>

\* The common body of virtio_input_queue_event, virtio_console_write_data
\* and virtio_net_write_packet.
Write(x) ==
    /\ ready /\ HasAvail(RX)
    /\ contents' = [contents EXCEPT ![NextHead(RX)] = x]
    /\ virtio_consume_desc(RX, NextHead(RX))
    /\ Advance(RX)
    /\ UNCHANGED <<avail, avail_idx, driverVars, ready>>

\* virtio_config_change_notify: the console was resized.
ConfigChange ==
    /\ virtio_config_change_notify
    /\ UNCHANGED <<ringVars, last_avail_idx, driverVars, ready, contents>>

\* VIRTIO_MMIO_QUEUE_NOTIFY: queue_notify returns at once, manual_recv.
QueueNotify ==
    /\ kick # {}
    /\ kick' = {}
    /\ UNCHANGED <<ringVars, deviceVars, free, seen, handler, ready, contents>>

\* The driver (external).
Post(h)    == ready /\ DriverAdd(RX, h) /\ UNCHANGED <<ready, contents>>
DriverStep == DriverIrq /\ UNCHANGED <<ready, contents>>
Reset      == DriverReset /\ ready' = FALSE /\ UNCHANGED contents
SetReady   == ~ready /\ ready' = TRUE /\ UNCHANGED <<queueVars, contents>>

Next ==
    \/ \E x \in Data : Write(x)
    \/ ConfigChange \/ QueueNotify
    \/ \E h \in Heads : Post(h)
    \/ DriverStep \/ Reset \/ SetReady

Spec == Init /\ [][Next]_vars /\ WF_vars(DriverStep)
-----------------------------------------------------------------------------
(* Properties                                                              *)

InFlight ==
    [k \in 1 .. (used_idx[RX] - seen[RX]) % IdxMod |->
        contents[used[RX][SlotOf(seen[RX] + k - 1)]]]

Rx == INSTANCE RxQueue WITH
    RxMax <- Cardinality(Heads),
    posted <- (avail_idx[RX] - last_avail_idx[RX]) % IdxMod,
    filled <- InFlight

(* The rings are a queue: what the host writes reaches the guest in order, *)
(* each write once and unchanged, although indices wrap, buffers come back *)
(* in any order and the guest may reset the device at any time.            *)
RefinesRxQueue == Rx!RxSpec

(* The guest takes every buffer that was filled: the interrupt that        *)
(* announces it is not lost among those of later buffers and of the        *)
(* configuration.                                                          *)
FilledIsTaken == \A h \in Heads : h \in Returned(RX) ~> h \notin Returned(RX)
=============================================================================
