----------------------------- MODULE VirtQueue -----------------------------
(***************************************************************************)
(* The part of src/tinyemu/virtio.c that every VirtIO device shares: the   *)
(* split virtqueues in guest memory, the device's private cursor into the  *)
(* available ring, completion of a descriptor chain, and the interrupt     *)
(* status register with the level-triggered line it drives.                *)
(*                                                                         *)
(* The guest driver is not in this repository.  It is modelled from the    *)
(* registers and rings the device code reads and writes, as a driver that  *)
(* respects ownership: it only makes free chains available, kicks after    *)
(* adding, and acknowledges in its interrupt handler exactly the status    *)
(* bits it has read, before it looks at the used rings.                    *)
(*                                                                         *)
(* A chain of descriptors is represented by its head.  Ring indices are    *)
(* uint16_t in the code; IdxMod is 2^16 there and small in the models, so  *)
(* that the wrap-around happens.                                           *)
(***************************************************************************)
EXTENDS Integers, FiniteSets

CONSTANTS
    Queues,    \* queue indices of the device
    Heads,     \* descriptor chain heads, the same set for every queue
    QNum,      \* QueueState.num: entries in each ring
    IdxMod,    \* the modulus of the 16-bit ring indices
    Transports \* "mmio", "pci": the registers the driver may use

ASSUME QNumAssumption   == QNum \in Nat \ {0}
ASSUME IdxModAssumption == IdxMod \in Nat /\ IdxMod > QNum /\ IdxMod % QNum = 0
ASSUME HeadsAssumption  == Heads # {} /\ IsFiniteSet(Heads) /\ Cardinality(Heads) <= QNum
ASSUME TransportAssumption == Transports \subseteq {"mmio", "pci"}

VARIABLES
    \* guest memory
    avail,           \* avail[q][i]: entry i of the available ring
    avail_idx,       \* avail_idx[q]
    used,            \* used[q][i]: entry i of the used ring (its id field)
    used_idx,        \* used_idx[q]
    \* device
    last_avail_idx,  \* QueueState.last_avail_idx
    int_status,      \* subset of {"vring", "config"}: bits 0 and 1
    irq,             \* level of the interrupt line
    \* guest driver (external)
    free,            \* free[q]: chains the driver owns
    seen,            \* seen[q]: the driver's cursor into the used ring
    kick,            \* queues with entries added since the last notification
    handler          \* interrupt handler: [pc, isr]

ringVars   == <<avail, avail_idx, used, used_idx>>
deviceVars == <<last_avail_idx, int_status, irq>>
driverVars == <<free, seen, kick, handler>>
queueVars  == <<ringVars, deviceVars, driverVars>>

Idx  == 0 .. IdxMod - 1
Slot == 0 .. QNum - 1

Inc(i)    == (i + 1) % IdxMod
SlotOf(i) == i % QNum

IntBits == {"vring", "config"}

QueueTypeOK ==
    /\ avail \in [Queues -> [Slot -> Heads]]
    /\ avail_idx \in [Queues -> Idx]
    /\ used \in [Queues -> [Slot -> Heads]]
    /\ used_idx \in [Queues -> Idx]
    /\ last_avail_idx \in [Queues -> Idx]
    /\ int_status \in SUBSET IntBits
    /\ irq \in BOOLEAN
    /\ free \in [Queues -> SUBSET Heads]
    /\ seen \in [Queues -> Idx]
    /\ kick \in SUBSET Queues
    /\ handler \in [pc : {"out", "read", "ack"}, isr : SUBSET IntBits]

\* Rings whose entries nobody reads: the indices say how many are valid.
EmptyRings == [q \in Queues |-> [i \in Slot |-> CHOOSE h \in Heads : TRUE]]

QueueInit ==
    /\ avail = EmptyRings
    /\ avail_idx = [q \in Queues |-> 0]
    /\ used = EmptyRings
    /\ used_idx = [q \in Queues |-> 0]
    /\ last_avail_idx = [q \in Queues |-> 0]
    /\ int_status = {}
    /\ irq = FALSE
    /\ free = [q \in Queues |-> Heads]
    /\ seen = [q \in Queues |-> 0]
    /\ kick = {}
    /\ handler = [pc |-> "out", isr |-> {}]

-----------------------------------------------------------------------------
(* Device side                                                             *)

\* Has the driver published entries the device has not taken yet?
HasAvail(q) == last_avail_idx[q] # avail_idx[q]

\* The head the device would take next.
NextHead(q) == avail[q][SlotOf(last_avail_idx[q])]

\* The device steps over the entry it has handled.
Advance(q) == last_avail_idx' = [last_avail_idx EXCEPT ![q] = Inc(@)]

\* Mutation: the chain is put in the used ring but not announced.
ConsumeSilently(q, h) ==
    /\ used' = [used EXCEPT ![q][SlotOf(used_idx[q])] = h]
    /\ used_idx' = [used_idx EXCEPT ![q] = Inc(@)]
    /\ UNCHANGED <<int_status, irq>>

\* virtio_consume_desc: the chain goes to the used ring and the queue
\* interrupt is raised.
virtio_consume_desc(q, h) ==
    /\ used' = [used EXCEPT ![q][SlotOf(used_idx[q])] = h]
    /\ used_idx' = [used_idx EXCEPT ![q] = Inc(@)]
    /\ int_status' = int_status \cup {"vring"}
    /\ irq' = TRUE

\* virtio_config_change_notify: the configuration interrupt.
virtio_config_change_notify ==
    /\ int_status' = int_status \cup {"config"}
    /\ irq' = TRUE

\* VIRTIO_MMIO_INTERRUPT_ACK: only the acknowledged bits are cleared, and
\* the line falls only when none is left.
InterruptAck(bits) ==
    /\ int_status' = int_status \ bits
    /\ irq' = IF int_status \ bits = {} THEN FALSE ELSE irq

\* VIRTIO_PCI_ISR_OFFSET: reading the register clears it and drops the line.
IsrRead ==
    /\ int_status' = {}
    /\ irq' = FALSE

\* Status written as 0: the line falls and virtio_reset forgets the rings.
virtio_reset ==
    /\ irq' = FALSE
    /\ int_status' = {}
    /\ last_avail_idx' = [q \in Queues |-> 0]

-----------------------------------------------------------------------------
(* Driver side (external)                                                  *)

\* The driver publishes a free chain in queue q.
DriverAdd(q, h) ==
    /\ h \in free[q]
    /\ free' = [free EXCEPT ![q] = @ \ {h}]
    /\ avail' = [avail EXCEPT ![q][SlotOf(avail_idx[q])] = h]
    /\ avail_idx' = [avail_idx EXCEPT ![q] = Inc(@)]
    /\ kick' = kick \cup {q}
    /\ UNCHANGED <<used, used_idx, deviceVars, seen, handler>>

\* The interrupt handler reads the status register; over PCI that also
\* acknowledges ...
DriverIrqRead ==
    /\ irq
    /\ handler.pc = "out"
    /\ \/ /\ "mmio" \in Transports
          /\ handler' = [pc |-> "read", isr |-> int_status]
          /\ UNCHANGED <<int_status, irq>>
       \/ /\ "pci" \in Transports
          /\ handler' = [pc |-> "ack", isr |-> int_status]
          /\ IsrRead
    /\ UNCHANGED <<ringVars, last_avail_idx, free, seen, kick>>

\* ... acknowledges what it read ...
DriverIrqAck ==
    /\ handler.pc = "read"
    /\ InterruptAck(handler.isr)
    /\ handler' = [handler EXCEPT !.pc = "ack"]
    /\ UNCHANGED <<ringVars, last_avail_idx, free, seen, kick>>

\* ... takes back every used chain, if the queue bit was set ...
DriverGetUsed(q) ==
    /\ handler.pc = "ack"
    /\ "vring" \in handler.isr
    /\ seen[q] # used_idx[q]
    /\ free' = [free EXCEPT ![q] = @ \cup {used[q][SlotOf(seen[q])]}]
    /\ seen' = [seen EXCEPT ![q] = Inc(@)]
    /\ UNCHANGED <<ringVars, deviceVars, kick, handler>>

\* ... and returns.
DriverIrqReturn ==
    /\ handler.pc = "ack"
    /\ "vring" \in handler.isr => \A q \in Queues : seen[q] = used_idx[q]
    /\ handler' = [pc |-> "out", isr |-> {}]
    /\ UNCHANGED <<ringVars, deviceVars, free, seen, kick>>

\* The driver resets the device, takes every chain back and sets up fresh
\* rings before it publishes anything.
DriverReset ==
    /\ handler.pc = "out"
    /\ virtio_reset
    /\ avail' = EmptyRings
    /\ used' = EmptyRings
    /\ avail_idx' = [q \in Queues |-> 0]
    /\ used_idx' = [q \in Queues |-> 0]
    /\ seen' = [q \in Queues |-> 0]
    /\ free' = [q \in Queues |-> Heads]
    /\ kick' = {}
    /\ UNCHANGED handler

DriverIrq ==
    \/ DriverIrqRead
    \/ DriverIrqAck
    \/ \E q \in Queues : DriverGetUsed(q)
    \/ DriverIrqReturn

-----------------------------------------------------------------------------
(* Where a chain is                                                        *)

\* The ring positions from index a up to, not including, index b.
Span(a, b) == {(a + k) % IdxMod : k \in 0 .. ((b - a) % IdxMod) - 1}

\* Chains published and not yet taken by the device.
Waiting(q) == {avail[q][SlotOf(i)] : i \in Span(last_avail_idx[q], avail_idx[q])}

\* Chains completed and not yet taken back by the driver.
Returned(q) == {used[q][SlotOf(i)] : i \in Span(seen[q], used_idx[q])}

\* No two entries of the span hold the same chain.
Distinct(q) ==
    /\ Cardinality(Waiting(q)) = (avail_idx[q] - last_avail_idx[q]) % IdxMod
    /\ Cardinality(Returned(q)) = (used_idx[q] - seen[q]) % IdxMod

\* The interrupt line is up exactly while a status bit is set: the code
\* drives the line in five places and never recomputes it from the bits.
IrqLineMatchesStatus == irq <=> int_status # {}

\* A chain in the used ring that the driver has not taken back is never
\* left without a way to be noticed: the queue bit is set, or the handler
\* has read it and has yet to look at the rings.
UsedIsAnnounced ==
    \A q \in Queues : seen[q] # used_idx[q] =>
        \/ "vring" \in int_status
        \/ handler.pc = "ack" /\ "vring" \in handler.isr

(* A completion reaches the driver: the line says that a bit is set, and a *)
(* bit or the handler says that there are chains to take back, however the *)
(* completion, the acknowledgement and the look at the ring interleave.    *)
CompletionsAnnounced == IrqLineMatchesStatus /\ UsedIsAnnounced
=============================================================================
