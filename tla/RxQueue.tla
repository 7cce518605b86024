------------------------------ MODULE RxQueue ------------------------------
(***************************************************************************)
(* A queue whose buffers the device fills when the host has something for  *)
(* the guest (manual_recv in src/tinyemu/virtio.c), as the input, console  *)
(* and network devices see it: a number of posted buffers, and the filled  *)
(* ones the guest has yet to take.  ManualQueue shows that the rings       *)
(* implement it.                                                           *)
(***************************************************************************)
EXTENDS Integers, Sequences

CONSTANTS
    RxMax,   \* buffers the guest has
    Data     \* what a buffer can hold

VARIABLES
    ready,   \* QueueState.ready
    posted,  \* buffers posted and not yet used by the device
    filled   \* contents of the used buffers, oldest first

rxVars == <<ready, posted, filled>>

RxTypeOK ==
    /\ ready \in BOOLEAN
    /\ posted \in 0 .. RxMax
    /\ filled \in Seq(Data)
    /\ posted + Len(filled) <= RxMax

RxInit == ready = FALSE /\ posted = 0 /\ filled = << >>

\* virtio_console_can_write_data, virtio_net_can_write_packet, and the
\* tests at the start of virtio_input_queue_event.
CanPut == ready /\ posted > 0

\* The device fills the next buffer: memcpy_to_queue, virtio_consume_desc,
\* last_avail_idx++.
Put(x) ==
    /\ CanPut
    /\ posted' = posted - 1
    /\ filled' = Append(filled, x)
    /\ UNCHANGED ready

\* The guest posts a buffer it owns (external).
RxPost ==
    /\ ready
    /\ posted + Len(filled) < RxMax
    /\ posted' = posted + 1
    /\ UNCHANGED <<ready, filled>>

\* The guest takes a filled buffer (external).
RxTake ==
    /\ filled # << >>
    /\ filled' = Tail(filled)
    /\ UNCHANGED <<ready, posted>>

\* The guest resets the device: virtio_reset.
RxReset == ready' = FALSE /\ posted' = 0 /\ filled' = << >>

\* The guest has set the queue up: VIRTIO_MMIO_QUEUE_READY.
RxReady == ~ready /\ ready' = TRUE /\ UNCHANGED <<posted, filled>>

RxNext == (\E x \in Data : Put(x)) \/ RxPost \/ RxTake \/ RxReset \/ RxReady

RxSpec == RxInit /\ [][RxNext]_rxVars
=============================================================================
