# A verification project for TinyEMU in a PDF

The repository builds `src/tinyemu` (a full-system RISC-V and x86 emulator in C)
with Emscripten and embeds it in a PDF together with a small JavaScript front end
(`src/pdflinux.js`).  The logic that is hard to get right is in the emulator: devices
that share rings and interrupt lines with a guest that runs between any two host
events, disk images and files that arrive over HTTP in any order, a TCP/IP stack between
the guest and the sockets of the host, and the interrupt, privilege and floating-point
machinery of the CPU.  This directory models that logic in TLA+, checks
it with TLC on small instances and proves part of it with TLAPS.

## 1. Inventory

The emulator is single threaded.  A main loop (`temu.c`, `jsemu.c`) alternates
between host events and slices of guest code; guest code calls devices synchronously
through memory-mapped registers; devices call back into the guest only by writing
guest memory and raising interrupt lines.  "Concurrency" is therefore the
interleaving of guest instructions, host events (keys, packets, downloads, timers,
signals) and the callbacks of asynchronous operations.

| Component | State it keeps | Operations | What is hard | What makes it correct |
|---|---|---|---|---|
| VirtIO queues (`virtio.c`) | ring addresses, `last_avail_idx`, `int_status`, interrupt line | notify, consume, acknowledge, reset, configuration change | 16-bit wrap, acknowledgement racing completion, reset | every published chain comes back once, with an interrupt |
| VirtIO block (`virtio.c`) | `req_in_progress`, `req` | request, completion callback | a request refused while another is in flight | no request stranded, lost or answered twice |
| HTTP block device (`block_net.c`) | LRU cache, written clusters, the current request | read, write, block arrival, prefetch | arrival order, eviction of blocks in use, resumption, request issued from the completion callback | behaves like a disk |
| RISC-V interrupts (`riscv_machine.c`, `riscv_cpu.c`) | `mip`, `mie`, `mideleg`, `mstatus`, PLIC masks, `timecmp`, power down | lines, claim/complete, timer, traps, returns, `wfi` | lost wake-ups, half-written deadline, nesting | interrupts arrive, never early, at the right level |
| VirtIO console, network, input (`virtio.c`) | as the queues; `buttons_state` | host data to guest buffers | no buffer posted; half-delivered mouse report | in order, nothing lost after an accepted check |
| VirtIO 9P (`virtio.c`) + file systems (`fs_net.c`, `fs_disk.c`, `fs_wget.c`) | fid table, request in progress; inodes, downloads | 27 requests, asynchronous open; loading and synchronisation | completion after reset or clunk | fids refer to live files; one reply per request |
| User-mode network (`slirp/`) | TCP control blocks, timers, socket buffers, packet queues, reassembly | segments, timeouts, host sockets | retransmission, close handshakes, full buffers | reliable in-order streams, no leaked connections |
| x86 devices (`x86_machine.c`, `ide.c`, `ps2.c`, `pckbd.c`, `vmmouse.c`, `pci.c`, `vga.c`) | PIC, PIT, CMOS, IDE phases, key queues | port I/O, timers | edge/level interrupts, full queues | no lost interrupt, phases agree with the guest |
| Front ends (`temu.c`, `jsemu.c`, `js/lib.js`, `src/pdflinux.js`) | console FIFO, key state, resize flag | keys, characters, main loop | overflow, signals, key state | what is typed arrives |
| Software floating point (`softfp*.{c,h}`) | none | arithmetic, comparisons, conversions | rounding at the edges of the format, five modes, flags | the exact result, rounded once |
| CPU core, TLB (`riscv_cpu*.{c,h}`, `iomem.c`) | TLBs, memory ranges, dirty bits | translation, flushes | stale translations | a hit equals a walk |
| Utilities (`json.c`, `cutils.c`, `aes.c`, `sha256.c`) | none | | data only | not modelled |

## 2. Plan

Done, in this order:

1. `VirtQueue`, `VirtioBlock`, `VirtioBlockProofs`: queues and the block device.
2. `AsyncDisk`, `BlockNet`, `MCBlockNet`: the HTTP disk and what it promises.
3. `RiscvIrq`, `RiscvIrqProofs`: interrupts, traps, timer.
4. `RxQueue`, `ManualQueue`, `VirtioInput`, `PdfKeyboard`, `TemuLoop`, `JsConsole`:
   what the host gives to the guest, from the key or the packet to
   the guest's buffer; `VirtioDevices` and `Frontends` put them together.
5. `FsNet`, `P9Fs`, `MCP9Fs`: the network file system under the 9P device.
6. `Sbuf`, `TcpConn`, `TcpInput`, `SlirpTcp` against `BytePipe`: TCP as a byte stream.
   `IpStack`, `SlirpIp`, `MCSlirpIp`: everything else of the user-mode network.
7. `Pic8259`, `PcTimers`, `PcInput`, `IdeDisk`, `PcMachine`, `MCPc`: the PC.
8. `SoftFp`, `SoftFpRef`, `RiscvCpu`: floating point, with the interrupts of the CPU.

Left: the TLB and the dirty bits against page-table walks, the register files of the
MMIO and PCI transports, output of the console and network devices, TFTP.
Proved after the models were complete: the conservation of chains, the refinement of
`RxQueue`, the timer, all of `BlockNet` up to its refinement of `AsyncDisk`, the
interrupts and the disk transfers of the PC, the front ends, and the mouse
(`VirtQueueProofs`, `ManualQueueProofs`, `BlockNetProofs`, `PcMachineProofs`,
`FrontendsProofs`, `VirtioDevicesProofs`).  Section 5 says why the other invariants stay
with TLC.

## 3. Modules and the code they model

`PROJECT.json` maps every definition to its lines.  Names are those of the source where
the definition is one function; a function that the guest or a callback can interrupt,
or a loop, is several actions with a `pc`.

* **`VirtQueue`** – the available and used rings in guest memory, the device's
  `last_avail_idx`, `int_status` and interrupt line, and the driver's side (external:
  the guest).  Ring indices are taken modulo `IdxMod` (65536 in the code), slots modulo
  `QNum`; a descriptor chain is its head.  The driver's interrupt handler is four
  steps (read the status, acknowledge, take back, return), between which the device may
  act.  `Transports` says how the status is acknowledged: a write over MMIO, the read
  itself over PCI.
* **`VirtioBlock`** extends it with `queue_notify` as a loop of one action per entry,
  `virtio_block_recv_request` and the completion callback.  The payload is abstracted
  to the three kinds of chain the code treats differently.
* **`AsyncDisk`** – the abstract disk: one request at a time, transferred part by part,
  completed once.  **`BlockNet`** – `block_net.c`: the LRU cache, the copies of written
  clusters, the current request and its position, prefetching, and arrivals in any
  order.  A sector holds the server's image of it, the data of a place in a write, or
  garbage, so that a stale, foreign or freed sector is visible.  `ClientKeepsBuffer` chooses between a client that keeps its
  buffer until the request ends and the one in `virtio.c`, which frees it.
* **`RiscvIrq`** – `mip`, `mie`, `mideleg`, `mstatus`, the privilege level and power-down
  of the CPU, the PLIC and the CLINT.  Guest code is arbitrary: any CSR write, trap,
  return or `wfi` in any order; `sip` is written through the mask `mideleg`, which may hold
  SEIP (`seip_written` remembers that), and `mret` may go to the level between S and M.
  The 64-bit deadline is two halves of `Half` values each.
* **`RxQueue`** – what a queue that the host fills promises: buffers are filled and
  returned first in, first out.  **`ManualQueue`** – the rings that implement it, with
  the configuration-change interrupt and resets.  The modules below use `RxQueue` in
  place of the rings.
* **`VirtioInput`** – reports of the keyboard and of the mouse, each event needing a
  buffer, and the guest's view of keys and buttons.  `ButtonEvents` are the changed
  buttons in the order of the loop; `HeldAfter` is what the guest will hold to be pressed
  once it has taken the events in its buffers.
* **`PdfKeyboard`** – the keys of `pdflinux.js` (buttons, toggle buttons, the text box)
  over the keyboard of `VirtioInput`, through `display_key_event` of `jsemu.c`, with the
  guest's keyboard handling (external).  `Held` and `Coming` follow the events the guest
  has not taken yet, to the keys it will hold and the characters it will get.
* **`TemuLoop`** – `virt_machine_run` of `temu.c`: the terminal with its `C-a` escapes,
  the size of the terminal with its signal, and the tap interface.  `FilterFrom` is the loop of
  `console_read` over the bytes of one read, and `SelectInterrupted` a turn whose `select`
  a signal ends; what the guest must get is stated without it,
  over all reads (`IsSelection`).
* **`JsConsole`** – the ring of `jsemu.c` between the page and the guest's console.

* **`VirtioDevices`** and **`Frontends`** – the devices of one machine, and the front ends,
  side by side: they share no state but the thread, so a behaviour exercises one of them
  (`device`, `unit`) and the others stay as they were made.
* **`FsNet`** – `fs_net.c` as operators on one record: inodes with their link and open
  counts, directory entries, the states LOCAL, UNLOADED, LOADING and LOADED of a file, the
  `FSOpenInfo` of every file on its way, archives with their members, the LRU cache, the
  preload lists, the command file.  Sizes are in blocks, contents are sequences of units;
  `alloc` says whether a file has a buffer (`allocated_size`), which may outlive its size.
  **`P9Fs`** – the requests of the 9P device over it, and what makes it hard: the answer to
  an open that waited is sent from inside the download's callback, and that callback goes on
  to serve the queued requests.  `stack` holds the C frames that are still to be resumed,
  so a nested request sees the state in the middle of `fs_read_archive`.  The boot sequence
  (`fs_initial_sync`, `head_loaded`, `filelist_loaded`, `kernel_load_cb`) is part of it.
* **`Sbuf`**, **`TcpConn`**, **`TcpInput`** – the socket buffers with their two pointers, the
  control block with `tcp_output`, and `tcp_input` cut at its labels; a connection is a record
  and a C function an operator that returns it with the segments it sent.  **`SlirpTcp`** adds
  the guest, the host, the poll loop and the timers, which are on or off and may expire at
  any time.  **`BytePipe`** is what one direction promises.
* **`IpStack`** – mbufs, the Ethernet layer with ARP, reassembly and fragmentation, UDP and
  ICMP sockets, BOOTP and the two output queues with the position to serve next, on one
  record.  **`SlirpIp`** adds guests that send fragments in any order and the turn of the main
  loop.  Checksums and lengths are flags of a header.
* **`Pic8259`**, **`PcTimers`**, **`PcInput`**, **`IdeDisk`** – the devices of the PC as operators on
  one record; a register of the interrupt controllers is the set of its bits, a PS/2 queue the
  number of its bytes, absolute times are the differences the code computes.  The level-triggered
  lines are those the guest chooses, starting from none (with a BIOS) or from those of
  the PCI bus (`copy_kernel` does).  **`PcMachine`**
  composes them with a guest whose `menu` says which device it programs, or that only serves
  its interrupts (`"os"`).
* **`SoftFp`** – the templates of the software floating point for a format of any size, bit
  operations written as arithmetic.  **`SoftFpRef`** – exact rational arithmetic rounded once,
  stated without a shift.  **`RiscvCpu`** – `RiscvIrq` with three choices of constants, and the
  floating-point unit, as one run.

The `*Proofs` modules hold the theorems about the module in their name; the `MC*` modules
define constants that a configuration cannot write.

## 4. Runs

| Run | What it asks | What it shows |
|---|---|---|
| `virtio` | `VirtioBlock` over MMIO and PCI, `ManualQueue` against `RxQueue`, `VirtioInput` with reports cut off anywhere | A completed chain always has an interrupt on its way and the line follows the status; no chain is lost or in two places; a refused request is restarted; every I/O request and every filled buffer comes back; the rings the host fills are a queue through wrap-around, resets and configuration interrupts; `buttons_state` and the guest differ only in buttons of a report that was cut off |
| `http_disk` | `BlockNet`, three blocks, a cache of one, two prefetched groups | Only the awaited block resumes a request; the device implements `AsyncDisk` (blocks as large as clusters); every request ends |
| `http_clusters` | two clusters per block | A write stores its data and changes nothing else, at every offset |
| `http_stale_read` | reads with two clusters per block | *Violated*: a read starting in an unwritten cluster is not clipped at its end and returns the old contents of a written one |
| `http_freed_buffer` | the client of `virtio.c` | *Violated*: a write that waits for a block copies from freed memory |
| `riscv_cpu` | PLIC with two lines and CLINT; traps and delegation under arbitrary code; floating point | The CPU never sleeps with an enabled interrupt pending; SEIP and MEIP say whether there is something to claim, SEIP until the guest overwrites it; the timer is never early and does fire; a return undoes its trap; an interrupt is taken at the level it is delegated to, a delegated one never interrupts M level, none lowers the level or comes with interrupts masked; arithmetic, comparisons and conversions equal exact arithmetic rounded once, flags included |
| `frontends` | the PDF's keyboard, the browser's ring, the native loop | The guest gets the characters meant through any mixture of buttons, toggles and text; the ring neither loses, repeats nor reorders; input is intact through short reads and escapes; packets are lost only when too large; the last size arrives, except for a signal in a two-instruction window |
| `fs` | 9P requests queued behind opens that wait for downloads, archives, a cache of two blocks, failing downloads | Link and open counts and the block count are exact; the cache list and the loading files are accounted for; an open file has its content; no assertion fails; every request is answered |
| `fs_archive` | the same with an archive that may be removed | *Violated*: removing the archive from inside its own delivery fails an assertion of `fs_net.c` |
| `tcp` | one connection, opened from either side, with a lost, repeated or late segment, a closed window, a broken socket | Both directions implement `BytePipe`; what was sent and not acknowledged is covered by a timer whenever the guest offers a window |
| `ip` | fragments in any order and overlapping, low-delay sessions that get too greedy, pings, BOOTP, ARP, broken packets, answers of the host | Every mbuf has one owner; a datagram handed on is one that was sent; a session leaves in order |
| `pc` | guests that program each device with every command, and one that only serves interrupts | A byte or a clock interrupt is requested until the guest has come for it; a disk command moves exactly its sectors; input is read in the end |

Every property of a passing run also fails under a mutation of the code
(`PROJECT.json`, `mutants`; the mutated forms stand before the originals).  Where a
module has a `TypeOK` it documents the variables; the runs do not spend a property on it.
It is proved for the VirtIO block device, `RiscvIrq` and `BlockNet`.

### Bounds, and why they are enough

* Rings of two entries with indices modulo 4: full, empty and wrapped rings are all
  reached, and `IdxMod > QNum` keeps full and empty apart as 65536 does.  Two chains make
  one request meet another in flight.
* `BlockNet`: a cache of one block forces an eviction at every miss; three blocks let a
  single block, a prefetched group and an awaited block be outstanding together.
  Requests of up to two sectors cross cluster and block boundaries.
* `RiscvIrq`: two lines for claim and completion to interleave; deadlines below
  half the range (section 7).  `RiscvCpu` runs it three times: with the timer and the PLIC,
  with arbitrary writes of the status, delegation, enable and pending registers, and with a
  PLIC under a supervisor that writes `sip`, because these parts share only `mip` and the
  power-down flag.
* `SoftFp`: a format of 5 exponent and 4 mantissa bits, narrow format 3 and 2, is the
  smallest in which the code's internal sizes relate as in the real ones; the operands are
  zeros, subnormals, the smallest normals, the neighbourhood of one, the largest numbers,
  infinities and NaNs, with mantissas at both ends and in the middle, in all five modes.
  Integers to convert fit the format, exceed it by three or eight bits (and their neighbours,
  so that the bits dropped matter), up to the overflow of the format.
* `P9Fs`: four files, two of them members of an archive, with preload lists that make one
  open load several files, and an empty file to link to; a cache of two blocks holds two of
  them; three fids, two requests
  queued, two that change the tree, six in all.  The guest creates nothing in removed
  directories, does not rename a file onto itself and leaves the archive alone (`Kept`);
  in `fs_archive` it may remove the archive.
* `SlirpTcp`: sequence numbers modulo 32, starting next to the wrap, so that every
  comparison is made across it; two bytes, segments of two, windows of 0 and 4, one
  retransmission before the segment size is halved, one fault.  These reach every state of
  the connection, reassembly, probes and the short paths of header prediction.  Three
  duplicate acknowledgements set off fast retransmission; a fourth does not occur.  With
  two bytes the send buffer does not wrap.
* `SlirpIp`: three frames, two answers of up to three units with an MTU of two (so that
  answers are fragmented); thresholds of one or two packets make a session greedy at once
  and the mbuf list overflow.
* `PcMachine`: queues of four bytes overflow with two events; a count register modulo 4 and
  a geometry of 2 × 2 × 3 over seven sectors make zero, wrap and the end of the disk
  happen; two or three commands per menu and two events of the host.  The clock starts with
  the period of rate code 6 (`BootPeriod`) and REG_A and REG_B are written one at a time;
  the VM mouse is asked for -1, 1 or 4 words.
* Five input buffers hold any report of the mouse with two changed buttons in full, and
  fewer posted ones cut it at every place.
* `PdfKeyboard` (in `frontends`): exploration ends at the first event lost for want of a buffer
  (`UpToFirstLoss`): what follows a loss is the subject of `virtio`, and the theorem has no
  such limit.  `ListMax` bounds the
  list of pressed keys, which can grow without end (section 7).
* `TemuLoop`: three characters, read two at a time, hold `C-a` commands split between reads, doubled `C-a`, and
  data around them; two packets, one too large; one resize besides the initial one.
  Deadlock is not checked because the program exits on `C-a x` and at end of input.
* `JsConsole`: a ring of 4 and reads of up to 3 wrap in the middle of a read; the
  theorems lift this to every size.

### Fairness, and why the code justifies it

* `VirtioBlock`: the loop runs to its end (it is a C loop); the block device answers what
  it accepted (the contract of `BlockDevice` in `virtio.h`, and `EveryRequestEnds` of
  `BlockNet` for the HTTP one); the guest's driver kicks after adding and services its
  interrupts.
* `BlockNet`: each C loop goes on, the client's callback returns, and every download
  is answered, by success or by an error that ends the program.
* `RiscvIrq`: time passes, and the main loop asks for the sleep duration again and again.
  The guest has no fairness at all.
* `ManualQueue`: the guest's driver services its interrupts.
* `P9Fs`: the emulator's thread runs (the frames on `stack` and the boot sequence go on),
  and every transfer ends, in the browser by `onload` or `onerror` and with curl by a result
  or a time-out.  The guest has no fairness.
* `PcMachine`: only for the guest that serves interrupts: the CPU takes them, handlers run to
  their end, `virt_machine_run` polls the timers on every turn and time passes.  The
  formulas `[]<>(not enabled) \/ []<><<A>>_vars` are weak fairness with the condition written
  out.
* `SlirpTcp` and `SlirpIp` state safety only.
* `TemuLoop`: `main` calls `virt_machine_run` for ever, `select` waits 10 ms at most, and
  `virt_machine_interp` runs a bounded number of cycles.  That the guest posts console
  buffers is a premise of `ResizeArrives`, not an assumption.

## 5. Proofs

Every theorem holds for all values of the constants that satisfy the assumptions named
in its module, and for the hypotheses named here.

**`VirtQueueProofs`** – lemmas only: arithmetic of indices modulo `IdxMod` with slots
modulo `QNum`, the contents of a ring between two indices as a sequence, what adding and
taking an entry does to it.  The two modules below rest on them.

**`VirtioBlockProofs`**, for every ring size, index modulus that is a multiple of it, finite
set of chains that fits the ring, transport and choice of `ResetInFlight`:
type correctness (`TypeCorrect`), and the invariant `Inv`, from which
`CompletionsAlwaysAnnounced`, `ProgressFlagCorrect` and `NothingStranded` follow.
`NoStrandedRequest` is not inductive alone: `queue_notify` compares with a copy of
`avail_idx` taken on entry, so that the end of the loop empties the ring only if the copy
is current (`SnapIsCurrent`), and a refused entry is covered only if `req_in_progress`
means that an answer will come (`ProgressFlagMatchesBackend`).  `UsedIsAnnounced`, the
half of `CompletionsAnnounced` about completions, needs the types, because an
acknowledgement must not clear a bit set since the status was read.
`ChainsAreConserved` is stated for `ResetInFlight = FALSE`, a driver that waits for its
requests before it resets; with the other value it is false (section 7).  Its invariant
says where each chain is (with the driver, in the available ring between `last_avail_idx`
and `avail_idx`, with the backend, in the used ring) and that the rings hold no more
entries than chains, which is what keeps an index from lapping the other one.

**`ManualQueueProofs`**: `RingsImplementQueue`, `ManualQueue` implements `RxQueue` under the
refinement mapping that reads the posted and the filled buffers out of the two rings.
Its hypothesis `RxAssumption` says that there is the one queue and some data to receive.
Each action of the rings is a step of the queue or a stutter; the invariant `RxInv` says
that posted, filled and idle buffers are distinct and no more than there are.
`RingsAreQueue` below carries it over to the instance in `VirtioDevices`.

**`RiscvIrqProofs`**, for every set of lines, width of the deadline and guest: `IrqInv`
(`NoLostWakeup` with `ExternalMatchesPlic`) is inductive; `WakeupNeverLost` and
`ExternalBitsCorrect` follow.  `TrapRoundTrip` rests on `PrivInv`, the types of the
level and the status register, since the previous enable bit is indexed by the level.
`ExternalBitsCorrect` has two parts since a supervisor to which SEIP is delegated may write it
through `sip`; the next change of the PLIC puts it right.
`PrivilegeRespected`, an action property, says that `get_pending_irq_mask` and
`raise_exception2` agree on delegation: whichever interrupt is taken, the level it is taken at is
the one `mideleg` gives, and M level is interrupted only by what is not delegated.  It
needs `PrivInv` and `MieInv`: an enabled
interrupt is one of those `mie` can hold.  `TimerNeverEarly` rests on `TimeInv`, the types
of time and of the halves of the deadline with `TimerNotEarly`: each half-write clears
MTIP, so a deadline that is between its two halves cannot leave a stale interrupt.
`TypesCorrect` also shows that a claim returns an existing line, the least pending one.

**`VirtioDevicesProofs`**: `ButtonsAgree`, for every number of buttons and of buffers.  `ViewsInv`
says of each button that is not `unsure` that the guest, once it has taken the events in its
buffers, holds it exactly if it is in `buttons_state`.  Taking an event, posting a buffer and
resetting keep that apart from the report itself; a complete report is one event per changed
button, and `ButtonsTell` shows, by induction over the buttons, that after it the guest holds
the new ones.  A report that is cut off adds its changed buttons to `unsure`.
`RingsAreQueue` is the refinement of `ManualQueueProofs` for the instance in `VirtioDevices`,
through an instance of that module.

**`FrontendsProofs`**, for every size of the ring, of the reads and of the buffers, and any
number of keys, characters, packets and turns of the loop:

* `RingKeepsChars` and `OldestFirst` (an action property) about the ring of `jsemu.c`.  `RingInv`
  adds to `CharsKept` that the write index is the read index advanced by the count
  (`IndicesAgree`); without it a new character could overwrite one not yet read.
* `PacketsReachGuest`.  `TunInv`: between `device_can_write_packet` and the read of the
  packet, with `select` and the console in between, the guest's buffer is still there, because only
  `virt_machine_interp` lets the guest act.
* `TypedReachesGuest`.  `TtyInv`: `console_esc_state` is the state after all the characters read
  so far, over all reads.  `EscapeStep` says how one more character changes it; by induction the
  characters that `console_read` keeps are those that are data in what was typed, even
  when a read ends between `C-a` and its command.
* `KeysReachGuest`.  The invariant cannot speak of the final keys and characters alone,
  since the guest takes events one at a time while new ones are added.  `KeyInv` says that
  the events in the buffers *make* the expected characters (`Makes`): there is a trace of
  held keys and of characters still to come along them.  Taking an event drops the head of
  the trace, a report extends it, and `MakesTells` identifies it with `Held` and `Coming`.
  `ListHasToggles` is the part about `pressed_list`.  `KeyboardAssumption` restricts the text
  box to characters that `keys_shifted_map` maps rightly (section 7).

The inductions over characters, events and buttons take the least element of a set of
naturals where the property fails; that needs no theorem with an operator parameter.

**`BlockNetProofs`**, for every disk, size of the cache, list of prefetched groups and
order of arrivals:

* `TypeCorrect`, and `ResumesAreWanted`.  `NoSpuriousResume` needs `ResumeInv`: a request
  waits exactly while its current block is in the cache in state LOADING (`WaitOK`), a
  block in state LOADING has exactly one answer on its way, alone or in a prefetched group
  (`AnswersOK`), and eviction takes loaded blocks only.
* `WritesStoreData` (`ClientKeepsBuffer = TRUE`; any geometry).  `WriteInv` says that
  the buffer still holds the data of the request, and that the sectors already passed are
  in clusters of their own and hold it.
* `OthersUntouched` (`BlockSize % SectorsPerCluster = 0`; the sizes are powers of two,
  so it says that a block is no smaller than a cluster, which `bf_init_onload` does not
  check): a cluster allocated by a write copies the rest of its sectors from the block.
* `DeviceIsDisk` (`BlockSize = SectorsPerCluster`, `ClientKeepsBuffer = TRUE`): the device
  implements `AsyncDisk`.  What the abstract disk holds is, for each sector, the copy of its
  cluster if there is one and the server's image otherwise; the moved part of a request is
  its position.  The two hypotheses are not for convenience: without the
  first a read may return stale data (`http_stale_read`), without the second a write stores
  freed memory (`http_freed_buffer`).

**`PcMachineProofs`**: `DataAlwaysAnnounced`, for every size of the queues, timer count,
geometry of the disk, list of menus and bound on commands and events.  The devices are
operators on the machine record, so the proof is one lemma per operator (it keeps
`Good(m, o)`, where `o` is the set of lines the guest was told of) and one step per action.
`DataIsAnnounced` alone is not inductive.  `PcInv` adds

* that each 8259 remembers as high (`last_irr`) only a line whose device drives it high: if
  it remembered one that has fallen, the next rise would not be an edge and the data
  behind it would never be requested.  `ps2_read_data` lowers and raises its
  line to make that edge, for bytes left in the queue it read, and `kbd_update_irq` sets both
  lines, so that mouse data hidden behind the last key code gets its edge when the key
  code is read;
* that the status bits of the 8042 say which queues hold bytes (`Exact`), and the types of
  the registers the commands branch on;
* that the disk asks for data only with a transfer set up (`Phase`), so that the word that ends
  it runs an end function that knows what to do next.  A command suspends `Phase` between its
  register writes, hence `Sound`, the invariant without it.

The line of the clock (`rtc.level`) stays high from its interrupt to a read of REG_C; the flags in
REG_C are not kept, since the guest may overwrite them.  The theorem covers a machine started
by a BIOS and one whose PCI lines, the mouse's among them, are level-triggered.

ICW1 clears requests with the levels that go with them.  The invariant survives because the
model's guest then owes every line of that controller a look; a guest that does not look
can lose data, as with the real chip.

`TransfersAreExact`, for every geometry, block size and register width that satisfy
`IdeConstants` and `DiskFits`: a command that ended well has moved exactly its sectors,
between the guest and the disk.  `IdeInv` says in each status of the drive how far the
command is: how many sectors have passed, that the address registers are that many sectors
past the start (`Position`, for cylinder, head and sector as for LBA), that `io_nb_sectors` is the
next block or the rest, what of it is in `io_buffer`, and which end function comes next.
A busy drive waits for the block device or for the end of a reset (`Waits`), so that a
completion belongs to the command it was issued for.  The arithmetic is that
`ide_set_sector` undoes `ide_get_sector` in both modes.  `DiskFits` says that both modes can
address the disk and the place after its last sector: there the registers stand after a
transfer that ends with the disk, and beyond the last address they would wrap to zero.
Its lower bound of three sectors is for the model's guest, which asks for sectors near the end.

Only model-checked, and why:

* All liveness: `EveryChainReturns`, `EveryRequestEnds`, `TimerFires`, `ResizeArrives`,
  `EveryRequestAnswered`, `InputIsRead`.  Fairness is outside the prover's reach.
* `ArithmeticIsExact`, `ComparisonsAgree`, `ConversionsRoundOnce`: `SoftFp` follows the square
  root's loop with a RECURSIVE operator, which costs the prover its SMT backend, and shifts are powers of two, which no backend interprets.
* `SentIsCovered`, `StreamsIntact`: `TcpConn` follows the loops of `tcp_output` and `tcp_reass` with
  RECURSIVE operators.
* `MbufsAccounted`, `ReassemblyExact`, `SessionOrder` and the four invariants of `P9Fs`: the
  operators they must be carried through fold over queues, caches and lists of archive
  members, and some of them are sums.  The three of the network rest on the first.  Both
  models also allocate mbufs and inodes from finite sets that only the bounds of the runs
  keep from running out; a theorem for all constants would need a guard on allocation that
  the code does not have.

## 6. Findings

* `block_net.c:290` – a read served from a cached block is clipped to the block and not to
  the cluster, and misses data written in a later cluster of the block
  (`http_stale_read`).
* `virtio.c:1103` – the write buffer is freed although the write is still waiting for its
  block (`http_freed_buffer`).
* `fs_net.c:357` – with an open of an archive member pending, the guest queues the removal
  of the archive.  The archive arrives; `fs_read_archive` sets the first member loaded, whose
  callback "handle next requests" (`virtio.c:2037`) removes the archive; `inode_free` calls
  `fs_error_archive` over a list that still holds the loaded member, and
  `assert(n->u.reg.state == REG_STATE_LOADING)` (`fs_net.c:750`) fails (`fs_archive`).

## 7. Behaviour met while modelling that no run asserts

* `virtio_reset` leaves `req_in_progress` and the request of the block device: with
  `ResetInFlight = TRUE` the answer to the old request lands in the new used ring.  The
  runs assume a driver that waits for its requests before it resets.
* `bf_init_onload` accepts blocks smaller than a cluster, for which a cluster would be
  filled from beyond the block; the runs keep to blocks of at least a cluster, as the
  comment at `block_net.c:66` expects.
* A mouse button pressed in a report that was cut off (`virtio.c:1501`) and released
  before the next one stays pressed in the guest; `ViewsAgree` names that exception.
* `keys_shifted_map` (`pdflinux.js:147`) gives `4` for `#`, has no `$`, and has the
  quotation marks the wrong way round; `TextChars` holds characters it maps correctly.
* Typing a capital releases a toggled Shift and leaves it in `pressed_list`
  (`pdflinux.js:225`); hence the second part of `TypedArrives`
  is stated in one direction.
* A SIGWINCH between `console_get_size` and `resize_pending = FALSE` (`temu.c:561-564`) is
  forgotten; `ResizeArrives` names that exception.
* `mstatus` accepts the reserved value 2 in MPP, and `mret` then runs at a level at which
  every enabled interrupt is taken, delegated ones at M level (`riscv_cpu.c:1083`).
* `bf_rw_async1` does not check that a request lies on the disk; the requests of the model do.
* A deadline more than half the range away is negative as an `int64_t` and looks expired
  (`riscv_machine.c:997`); the model's deadlines stay below.

File system:
* Setting the size of a file not loaded yet keeps the server's content; setting the URL of an
  open file makes it UNLOADED under its reader.
* `readdir` continues by position and skips entries after a deletion; its error path leaks
  the buffer.  The reference of a base URL taken for the file list is never dropped.
* In the curl build an error in the middle of a transfer frees the state while the transfer
  goes on.  `fs_import_file` unlinks in `root_fd`; `fs_cmd_pbkdf2` checks `pwd_len` twice.

User-mode network:
* `tcp_reass` ends its loop by comparing with `tp`; `tcp_close` of a connection is not an end
  of file for the host's side; data still in `so_rcv` is lost when a half-closed connection
  ends; a connection in FIN_WAIT_2 whose host side has gone has no 2MSL timer.  `SentIsCovered`
  is stated for an open window: from `send:` `tcp_output` may return without starting the
  persist timer, against its comment (`tcp_output.c:219`).
* Two returns forget their mbuf: a packet shorter than an IP header, and a BOOTP request with
  no address left; `lost` collects them and `MbufsAccounted` names them.
* `udp_input` restores `m_data` twice after a failed `sosendto` (`udp.c:208`, `:218`);
  `ifq_so` of queued packets survives the socket; ICMP echo sockets share port 9; a UDP
  socket's `so_faddr` is that of the latest destination.

PC:
* The priority scan returns a priority where the line is meant once priorities are rotated;
  `special_mask` is stored and never used.  OCW2, ICW1 and `elcr_write` do not call
  `pic2_update_irq`, which "must be called every time the active irq may change"
  (`x86_machine.c:604`); `InputIsRead` holds because the next tick of the timer does.
* A block request that ends after a software reset of the IDE interface is still applied, and
  its error code is ignored; the model resets while no request is out.
* PCI devices and the mouse both drive IRQ 12, each with its own level (`pci.c:511`,
  `pckbd.c:140`): the last one wins.  The size in EBX of a VM mouse command is signed, and a
  negative one adds words to the fifo's count (`vmmouse.c:76`), in the model too.
* A full PS/2 queue may cut a two-byte key code or a mouse packet; a rate code of 0 makes the
  periodic interrupt fire at every poll.

## 8. Not modelled

* The TLB, the MMU and the memory map; decoding and the integer instructions; HTIF, boot and
  the device tree; the register files of the transports.
* In `P9Fs`: the encoding of messages, a device reset while an open is pending, failing
  `malloc`, decryption (an encrypted file that cannot be read is a download that fails), and
  the host directories of `fs_disk.c`, where each operation is a system call.
* In the network: urgent data, `tcp_emu`, sockets connected to commands, reuse of a port in
  TIME_WAIT (the guest opens one connection), TFTP, checksums, restricted mode.
* In the PC: PCI devices on lines 9 to 12 of the interrupt controllers and their sharing of
  12 with the mouse, the serial port (no machine has one), the CPU (`x86_cpu.c` is a stub), a second
  drive, VGA and the PCI configuration space.
* AES and SHA-256 (pure data), JSON syntax, pixels, the build scripts and the PDF's layout.

`PROJECT.json` lists every component with its reason.
