----------------------------- MODULE IdeDisk -----------------------------
(* The IDE disk of the PC machine (tinyemu/ide.c).  m.ide holds the        *)
(* registers and the transfer in progress, m.disk the contents of the      *)
(* block device behind it, m.io the request the block device still owes.   *)
(* One access to the data port stands for the words of a whole sector.     *)
EXTENDS Pic8259, SequencesExt

CONSTANTS CountMod,     \* 256: the sector count register is a byte
          MaxMult,      \* MAX_MULT_SECTORS
          Radix,        \* 256: the sector number register is a byte
          CylMod,       \* 65536: the cylinder registers are two bytes
          Heads, Sectors,  \* the geometry
          DiskSectors   \* get_sector_count

ASSUME IdeConstants ==
  /\ {CountMod, MaxMult, Radix, CylMod, Heads, Sectors, DiskSectors}
       \subseteq Nat \ {0}
  /\ Sectors < Radix

(* Both addressing modes reach the disk, and the place after its last      *)
(* sector, where a transfer that ends there leaves the registers.          *)
ASSUME DiskFits ==
  /\ 3 <= DiskSectors
  /\ DiskSectors < Radix * CylMod * Heads
  /\ DiskSectors < Heads * Sectors * CylMod

IdeIrq == 14

ide_drive_init ==
  [lba |-> FALSE, cyl |-> 0, head |-> 0, sector |-> 0, nsector |-> 0,
   status |-> "ready", mult_sectors |-> MaxMult, req_nb_sectors |-> 0,
   io_nb_sectors |-> 0, end_transfer |-> "stop", data_index |-> 0, data_end |-> 0,
   io_buffer |-> <<>>, cmd_reset |-> FALSE, disable_irq |-> FALSE]

ide_set_irq(m) ==
  IF m.ide.disable_irq THEN m ELSE pic2_set_irq(m, IdeIrq, TRUE)

ide_abort_command(m) == [m EXCEPT !.ide.status = "error"]

ide_transfer_start(m, n, func) ==
  [m EXCEPT !.ide.end_transfer = func, !.ide.data_index = 0, !.ide.data_end = n]

ide_transfer_stop(m) == ide_transfer_start(m, 0, "stop")

ide_get_sector(d) ==
  IF d.lba THEN (d.head * CylMod + d.cyl) * Radix + d.sector
  ELSE d.cyl * Heads * Sectors + d.head * Sectors + (d.sector - 1)

ide_set_sector(d, n) ==
  IF d.lba
  THEN [d EXCEPT !.head = (n \div (Radix * CylMod)) % Heads,
                 !.cyl = (n \div Radix) % CylMod, !.sector = n % Radix]
  ELSE [d EXCEPT !.cyl = (n \div (Heads * Sectors)) % CylMod,
                 !.head = (n % (Heads * Sectors)) \div Sectors,
                 !.sector = (n % Sectors) + 1]

(* A count of zero stands for CountMod. *)
Chunk(d) ==
  Min({d.req_nb_sectors, IF d.nsector = 0 THEN CountMod ELSE d.nsector})

Advance_OneByOne(d) ==
  [ide_set_sector(d, ide_get_sector(d) + d.io_nb_sectors)
     EXCEPT !.nsector = (@ + CountMod - 1) % CountMod]

Advance(d) ==
  [ide_set_sector(d, ide_get_sector(d) + d.io_nb_sectors)
     EXCEPT !.nsector = (@ + CountMod - d.io_nb_sectors) % CountMod]

ide_sector_read_cb(m) ==
  LET d == Advance(m.ide)
      func == IF d.nsector = 0 THEN "read_end" ELSE "read"
      ready == ide_transfer_start([m EXCEPT !.ide = d], d.io_nb_sectors, func)
  IN  [ide_set_irq(ready) EXCEPT !.ide.status = "drq"]

ide_sector_write_cb2(m) ==
  LET d == Advance(m.ide)
      next == Min({d.nsector, d.req_nb_sectors})
      more == ide_transfer_start(
                [m EXCEPT !.ide = [d EXCEPT !.io_nb_sectors = next]], next, "write")
  IN  ide_set_irq(IF d.nsector = 0 THEN [m EXCEPT !.ide = [d EXCEPT !.status = "ready"]]
                  ELSE [more EXCEPT !.ide.status = "drq"])

(* The block device (external): the effect of a request on the buffer or   *)
(* on the disk happens when the request completes.                         *)
Transfer(m, op) ==
  LET d == m.ide
      lba == ide_get_sector(d)
  IN  IF op = "read"
      THEN [m EXCEPT !.ide.io_buffer =
              [i \in 1 .. d.io_nb_sectors |-> m.disk[lba + i - 1]]]
      ELSE [m EXCEPT !.disk =
              [s \in DOMAIN @ |-> IF s - lba \in 0 .. (d.io_nb_sectors - 1)
                                  THEN d.io_buffer[s - lba + 1] ELSE @[s]]]

ide_io_done(m, op) ==
  LET done == [Transfer(m, op) EXCEPT !.io = "none"]
  IN  IF op = "read" THEN ide_sector_read_cb(done) ELSE ide_sector_write_cb2(done)

(* read_async and write_async fail, finish at once or answer later. *)
Outcomes(m) ==
  IF ide_get_sector(m.ide) \in 0 .. (DiskSectors - m.ide.io_nb_sectors)
  THEN {"sync", "async"} ELSE {"fail"}

Submit(m, op, ret) ==
  CASE ret = "fail" -> ide_set_irq(ide_abort_command(m))
    [] ret = "sync" -> ide_io_done(m, op)
    [] ret = "async" -> [m EXCEPT !.ide.status = "busy", !.io = op]

ide_sector_read(m) ==
  LET n == [m EXCEPT !.ide.io_nb_sectors = Chunk(m.ide)]
  IN  {Submit(n, "read", r) : r \in Outcomes(n)}

ide_sector_write(m) ==
  [ide_transfer_start([m EXCEPT !.ide.io_nb_sectors = Chunk(m.ide)],
                      Chunk(m.ide), "write") EXCEPT !.ide.status = "drq"]

ide_sector_write_cb1(m) ==
  LET stopped == ide_transfer_stop(m)
  IN  {Submit(stopped, "write", r) : r \in Outcomes(stopped)}

(* ------------------------------- commands ------------------------------- *)
IsPowerOf2(n) == n = 0 \/ \E e \in 0 .. 8 : n = 2^e

(* The set of states a command may lead to. *)
ide_exec_cmd(m, cmd) ==
  LET d == m.ide
      Req(n) == [m EXCEPT !.ide.req_nb_sectors = n]
      Done(mm) == {ide_set_irq(mm)}
      none == cmd \in {"multread", "multwrite"} /\ d.mult_sectors = 0
      bad == \/ none \/ cmd = "unknown"
             \/ cmd = "setmult" /\ (d.nsector > MaxMult \/ ~IsPowerOf2(d.nsector))
      \* ide_identify fills the buffer with the drive's parameters
      identify == ide_transfer_start(
                    [m EXCEPT !.ide.status = "drq", !.ide.io_buffer = <<99>>],
                    1, "identify")
  IN  CASE bad -> Done(ide_abort_command(m))
        [] cmd = "identify" -> Done(identify)
        [] cmd = "recal" -> Done([m EXCEPT !.ide.status = "ready"])
        [] cmd = "setmult" /\ ~bad ->
             Done([m EXCEPT !.ide.mult_sectors = d.nsector, !.ide.status = "ready"])
        [] cmd = "read" -> ide_sector_read(Req(1))
        [] cmd = "write" -> {ide_sector_write(Req(1))}
        [] cmd = "multread" /\ ~bad -> ide_sector_read(Req(d.mult_sectors))
        [] cmd = "multwrite" /\ ~bad -> {ide_sector_write(Req(d.mult_sectors))}
        [] cmd = "native_max" ->
             Done([m EXCEPT !.ide = [ide_set_sector(d, DiskSectors - 1)
                                       EXCEPT !.status = "ready"]])

EndTransfer(m) ==
  CASE m.ide.end_transfer = "read" -> ide_sector_read(m)
    [] m.ide.end_transfer = "write" -> ide_sector_write_cb1(m)
    [] m.ide.end_transfer \in {"read_end", "identify"} ->
         {ide_transfer_stop([m EXCEPT !.ide.status = "ready"])}

NextWord(m) ==
  LET p == m.ide.data_index + 1
      n == [m EXCEPT !.ide.data_index = p]
  IN  IF p >= m.ide.data_end THEN EndTransfer(n) ELSE {n}

ide_data_readw(m) == NextWord(m)

ide_data_writew(m, val) ==
  LET p == m.ide.data_index
      grown == IF p < Len(m.ide.io_buffer)
               THEN [m.ide.io_buffer EXCEPT ![p + 1] = val]
               ELSE Append(m.ide.io_buffer, val)
  IN  NextWord([m EXCEPT !.ide.io_buffer = grown])

(* Reading the status register (0x1f7) also lowers the interrupt. *)
ide_ioport_read_status(m) == pic2_set_irq(m, IdeIrq, FALSE)

(* The device control register: the software reset and the interrupt mask. *)
ide_cmd_write(m, reset, disable) ==
  LET d == m.ide
      e == CASE reset = d.cmd_reset -> d
             [] reset /\ ~d.cmd_reset -> [d EXCEPT !.status = "busy"]
             [] ~reset /\ d.cmd_reset ->
                  [d EXCEPT !.status = "ready", !.head = 0, !.nsector = 1,
                            !.sector = 1, !.cyl = 0]
  IN  [m EXCEPT !.ide = [e EXCEPT !.cmd_reset = reset, !.disable_irq = disable]]
==========================================================================
