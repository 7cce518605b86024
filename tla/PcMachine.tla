---------------------------- MODULE PcMachine ----------------------------
(* The devices of the PC machine (tinyemu/x86_machine.c) around their two  *)
(* interrupt controllers: the guest that programs them and takes their     *)
(* interrupts, the host that types and moves the mouse, time, and the      *)
(* block device behind the IDE disk.  One thread runs it all: a port       *)
(* access, a host event, a poll of the timers is one step.                 *)
(*                                                                         *)
(* menu says which devices the guest of a behaviour programs:              *)
(*   "pic", "kbd", "timer"  every command of that device;                  *)
(*   "ide" every command of the disk, whose status it polls;               *)
(*   "os"  none: a guest that only serves its interrupts, in handlers that *)
(*         run with interrupts off, read the device and end the interrupt. *)
EXTENDS PcInput, PcTimers, IdeDisk

CONSTANTS Menus,     \* the menus of this instance
          MaxOps,    \* the commands the guest gives
          MaxEvents  \* the events of the host

ASSUME MachineConstants ==
  /\ Menus \subseteq {"pic", "kbd", "timer", "ide", "os"} /\ Menus # {}
  /\ MaxOps \in [Menus -> Nat] /\ MaxEvents \in Nat

VARIABLES pc,       \* the devices
          menu,
          owes,     \* lines the guest was told of and has not served since
          serving,  \* the line whose handler runs ("os"), or -1
          job,      \* the IDE command in progress and the data it moved
          ops, events

vars == <<pc, menu, owes, serving, job, ops, events>>

(* The lines of devices that hold something until the guest comes for it. *)
Sources == {KbdIrq, MouseIrq, RtcIrq}

Idle == [op |-> "none", lba |-> 0, n |-> 0, data |-> <<>>]

(* pc_machine_init and, without a BIOS, copy_kernel.  The PCI bus and its  *)
(* devices are left out, and with them their use of the lines 9 to 12; the *)
(* "timer" and "ide" guests use none of these lines.  The guest has        *)
(* already enabled the mouse and, for "kbd", may be about to write the     *)
(* next byte, as one of its commands, of the sequence that detects its     *)
(* type.                                                                   *)
Init ==
  /\ menu \in Menus
  /\ \E count \in Counts, detected \in IF menu = "kbd" THEN 0 .. 3 ELSE {0},
        bios \in IF menu \in {"pic", "kbd", "os"} THEN BOOLEAN ELSE {TRUE} :
       /\ ops = IF detected = 0 THEN 0 ELSE 1
       /\ pc = [pic |-> IF bios THEN pic2_init ELSE pic2_set_elcr(pic2_init, PciElcr),
                line |-> FALSE,
                kbd |-> [i8042_init EXCEPT !.enabled = TRUE,
                                           !.mouse_detect_state = detected,
                   !.write_cmd = IF detected = 0 THEN "none" ELSE "write_mouse",
                   !.mouse_arg = IF detected = 0 THEN "none" ELSE "set_sample"],
                pit |-> pit_init(count), rtc |-> cmos_init, ide |-> ide_drive_init,
                disk |-> [s \in 0 .. (DiskSectors - 1) |-> s], io |-> "none"]
  /\ owes = {} /\ serving = -1 /\ job = Idle /\ events = 0

Op(menus) == menu \in menus /\ ops < MaxOps[menu] /\ ops' = ops + 1

(* ------------------------------ interrupts ------------------------------ *)
(* get_hard_intno_cb: the CPU accepts the interrupt. *)
TakeInterrupt ==
  LET irq == hard_intno(pc)
  IN  /\ menu # "ide" /\ pc.line /\ serving = -1
      /\ pc' = pic2_get_hard_intno(pc)
      /\ owes' = owes \union ({irq} \intersect Sources)
      /\ serving' = IF menu = "os" THEN irq ELSE -1
      /\ UNCHANGED <<menu, job, ops, events>>

Served(lines) == owes' = owes \ lines

ReadKbdData ==
  /\ menu = "os" => serving \in {KbdIrq, MouseIrq} \intersect owes
  /\ {KbdIrq, MouseIrq} \intersect owes # {} \/ pc.kbd.pending # {}
  /\ pc' = kbd_read_data(pc) /\ Served({KbdIrq, MouseIrq})
  /\ UNCHANGED <<menu, serving, job, ops, events>>

ReadRtcC ==
  /\ menu = "timer" /\ (pc.rtc.level \/ RtcIrq \in owes)
  /\ pc' = cmos_read_c(pc) /\ Served({RtcIrq})
  /\ UNCHANGED <<menu, serving, job, ops, events>>

ReadIdeStatus ==
  /\ menu = "ide"
  /\ pc' = ide_ioport_read_status(pc)
  /\ UNCHANGED <<menu, owes, serving, job, ops, events>>

(* The end of a handler of the "os" guest; a spurious interrupt (7, 15)    *)
(* is not in service in the controller that reported it.                   *)
EndHandler ==
  LET slave == IF serving >= 8 /\ serving # 15
               THEN pic_write_ocw2(pc, 1, "eoi", 0) ELSE pc
  IN  /\ serving # -1 /\ serving \notin {KbdIrq, MouseIrq} \intersect owes
      /\ pc' = IF serving = 7 THEN pc ELSE pic_write_ocw2(slave, 0, "eoi", 0)
      /\ serving' = -1
      /\ UNCHANGED <<menu, owes, job, ops, events>>

(* Any other guest ends the interrupts when it likes. *)
EndInterrupt ==
  /\ menu # "os"
  /\ \E c \in 0 .. 1 : /\ pc.pic[c].isr # {}
                       /\ pc' = pic_write_ocw2(pc, c, "eoi", 0)
  /\ UNCHANGED <<menu, owes, serving, job, ops, events>>

(* After ICW1 the controller has forgotten its requests: the guest must    *)
(* look at every device itself.                                            *)
InitPic ==
  /\ Op({"pic"})
  /\ \E c \in 0 .. 1, four \in BOOLEAN :
       /\ pc' = pic_write_icw1(pc, c, four)
       /\ owes' = owes \union {s \in Sources : s \div 8 = c}
  /\ UNCHANGED <<menu, serving, job, events>>

WritePic ==
  /\ Op({"pic"})
  /\ \E c \in 0 .. 1 :
       \/ \E mask \in {{}, Line}, auto \in BOOLEAN :
            pc' = pic_write_data(pc, c, mask, auto)
       \/ \E cmd \in {"eoi_rotate", "specific", "specific_rotate", "set_priority",
                      "auto_rotate"}, n \in {KbdIrq, MouseIrq - 8} :
            pc' = pic_write_ocw2(pc, c, cmd, n)
       \/ \E val \in SUBSET {MouseIrq - 8} : pc' = pic_elcr_write(pc, c, val)
  /\ UNCHANGED <<menu, owes, serving, job, events>>

(* --------------------------- keyboard and mouse -------------------------- *)
WriteKbdCommand ==
  /\ Op({"kbd"})
  /\ \E cmd \in ControllerCommands : pc' = kbd_write_command(pc, cmd)
  /\ UNCHANGED <<menu, owes, serving, job, events>>

(* The byte written means one thing to the keyboard, to the mouse or to    *)
(* the controller; it is varied for the one that will read it.             *)
DataBytes ==
  LET byte == [kbd |-> [reply |-> 1, arg |-> FALSE], mouse |-> "enable",
               rate |-> 80, mode |-> {}]
  IN  CASE pc.kbd.write_cmd = "none" ->
             {[byte EXCEPT !.kbd = k] : k \in KbdCommands}
        [] pc.kbd.write_cmd = "write_mode" ->
             {[byte EXCEPT !.mode = x] : x \in SUBSET {"kbd_int", "mouse_int"}}
        [] pc.kbd.write_cmd = "write_mouse" ->
             {[byte EXCEPT !.mouse = c, !.rate = r] :
                c \in MouseCommands, r \in {200, 100, 80}}
        [] OTHER -> {byte}

WriteKbdData ==
  /\ Op({"kbd"})
  /\ \E byte \in DataBytes : pc' = kbd_write_data(pc, byte)
  /\ UNCHANGED <<menu, owes, serving, job, events>>

VmMouseCommand ==
  /\ Op({"kbd"})
  /\ \E cmd \in {"data", "read_id", "disable"}, size \in {-1, 1, 4} :
       pc' = vmmouse_handler(pc, cmd, size)
  /\ UNCHANGED <<menu, owes, serving, job, events>>

HostKey ==
  /\ menu \in {"pic", "kbd", "os"} /\ events < MaxEvents
  /\ \E extended \in BOOLEAN : pc' = ps2_put_keycode(pc, extended)
  /\ events' = events + 1
  /\ UNCHANGED <<menu, owes, serving, job, ops>>

HostMouse ==
  /\ menu \in {"pic", "kbd", "os"} /\ events < MaxEvents
  /\ \E e \in {<<-2, 0>>, <<1, 1>>} :
       pc' = vmmouse_send_mouse_event(pc, e[1], e[2])
  /\ events' = events + 1
  /\ UNCHANGED <<menu, owes, serving, job, ops>>

(* --------------------------------- timers ------------------------------- *)
WriteTimers ==
  /\ Op({"timer"})
  /\ \/ \E access \in 0 .. 3, periodic \in BOOLEAN :
          pc' = pit_write_control(pc, access, periodic)
     \/ \E count \in Counts : pc' = pit_write_count(pc, count)
     \/ pc' = pit_read(pc)
     \/ \E rate \in Periods : \E phase \in 1 .. Max({1, rate}) :
          pc' = cmos_write(pc, "A", rate, FALSE, phase)
     \/ \E pie \in BOOLEAN : \E phase \in 1 .. Max({1, pc.rtc.rate}) :
          pc' = cmos_write(pc, "B", 0, pie, phase)
     \/ pc' = cmos_write(pc, "other", 0, FALSE, 1)
  /\ UNCHANGED <<menu, owes, serving, job, events>>

Tick ==
  /\ menu \in {"timer", "os"} /\ pc.pit.lag < MaxLag
  /\ pc' = [pc EXCEPT !.pit.lag = @ + 1, !.rtc.late = Min({@ + 1, MaxLag})]
  /\ UNCHANGED <<menu, owes, serving, job, ops, events>>

Poll ==
  /\ menu \in {"timer", "os"}
  /\ pc' = poll_timers(pc)
  /\ UNCHANGED <<menu, owes, serving, job, ops, events>>

(* ----------------------------------- IDE --------------------------------- *)
(* The registers are written, then the command: the guest follows the ATA  *)
(* protocol and does so only when the drive is neither busy nor in a       *)
(* transfer.                                                               *)
IdeCommand ==
  /\ Op({"ide"})
  /\ pc.ide.status \in {"ready", "error"} /\ ~pc.ide.cmd_reset
  /\ \E cmd \in {"identify", "recal", "setmult", "read", "write", "multread",
                 "multwrite", "native_max", "unknown"},
        n \in 0 .. (CountMod - 1), lba \in BOOLEAN,
        at \in {0, 1, DiskSectors - 3} :
       LET regs == ide_set_sector([pc.ide EXCEPT !.lba = lba, !.nsector = n], at)
           op == CASE cmd \in {"read", "multread"} -> "read"
                   [] cmd \in {"write", "multwrite"} -> "write"
                   [] OTHER -> "none"
       IN  /\ pc' \in ide_exec_cmd([pc EXCEPT !.ide = regs], cmd)
           /\ job' = IF pc'.ide.status = "error" \/ op = "none" THEN Idle
                     ELSE [op |-> op, lba |-> at, data |-> <<>>,
                           n |-> IF n = 0 THEN CountMod ELSE n]
  /\ UNCHANGED <<menu, owes, serving, events>>

(* The guest moves the next sector through the data port. *)
IdeData ==
  /\ menu = "ide" /\ pc.ide.status = "drq"
  /\ IF pc.ide.end_transfer = "write"
     THEN LET val == 10 * ops + Len(job.data)
          IN  /\ pc' \in ide_data_writew(pc, val)
              /\ job' = IF pc'.ide.status = "error" THEN Idle
                        ELSE [job EXCEPT !.data = Append(@, val)]
     ELSE /\ pc' \in ide_data_readw(pc)
          /\ job' = IF pc'.ide.status = "error" \/ job.op = "none" THEN Idle
                    ELSE [job EXCEPT !.data =
                            Append(@, pc.ide.io_buffer[pc.ide.data_index + 1])]
  /\ UNCHANGED <<menu, owes, serving, ops, events>>

(* The block device answers (external). *)
IdeComplete ==
  /\ pc.io # "none"
  /\ pc' = ide_io_done(pc, pc.io)
  /\ UNCHANGED <<menu, owes, serving, job, ops, events>>

(* A software reset, or a change of the interrupt mask, while no request   *)
(* is with the block device.                                               *)
IdeControl ==
  /\ Op({"ide"}) /\ pc.io = "none"
  /\ \E reset, disable \in BOOLEAN :
       /\ pc' = ide_cmd_write(pc, reset, disable)
       /\ job' = IF reset THEN Idle ELSE job
  /\ UNCHANGED <<menu, owes, serving, events>>

(* -------------------------------------------------------------------------- *)
Next ==
  \/ TakeInterrupt \/ ReadKbdData \/ ReadRtcC \/ ReadIdeStatus
  \/ EndHandler \/ EndInterrupt \/ InitPic \/ WritePic
  \/ WriteKbdCommand \/ WriteKbdData \/ VmMouseCommand \/ HostKey \/ HostMouse
  \/ WriteTimers \/ Tick \/ Poll
  \/ IdeCommand \/ IdeData \/ IdeComplete \/ IdeControl

(* The CPU takes interrupts and the "os" guest's handlers run to their     *)
(* end; the main loop polls the timers on every turn and time passes.      *)
(* Each conjunct is weak fairness of its action with the condition under   *)
(* which the action is enabled written out, which TLC evaluates faster.    *)
Fairness ==
  /\ []<>(menu # "os" \/ ~pc.line \/ serving # -1) \/ []<><<TakeInterrupt>>_vars
  /\ []<>(serving \notin {KbdIrq, MouseIrq} \intersect owes)
       \/ []<><<ReadKbdData>>_vars
  /\ []<>(serving = -1 \/ serving \in {KbdIrq, MouseIrq} \intersect owes)
       \/ []<><<EndHandler>>_vars
  /\ []<>(menu # "os" \/ poll_timers(pc) = pc) \/ []<><<Poll>>_vars
  /\ WF_vars(menu = "os" /\ Tick)

Spec == Init /\ [][Next]_vars /\ Fairness

(* -------------------------------- properties ----------------------------- *)

(* Data that a device holds for the guest is announced: whenever the 8042  *)
(* has a byte and its interrupt is enabled, or the clock holds its         *)
(* interrupt high, the controllers still hold the request or the guest  *)
(* has been told and has not come back to the device.  This rests on the   *)
(* lower-then-raise of ps2_read_data and on keyboard data hiding mouse     *)
(* data, against an edge-triggered 8259.                                   *)
DataIsAnnounced ==
  LET k == pc.kbd
      told(irq) == irq % 8 \in pc.pic[irq \div 8].irr \/ irq \in owes
  IN  /\ "kbd" \in k.pending /\ "kbd_int" \in k.mode /\ "disable_kbd" \notin k.mode
           => told(KbdIrq)
      /\ k.pending = {"aux"} /\ "mouse_int" \in k.mode => told(MouseIrq)
      /\ pc.rtc.level => told(RtcIrq)
      /\ \A port \in {"kbd", "aux"} : port \in k.pending <=> k.q[port] > 0

(* A guest that serves its interrupts reads every byte in the end, although *)
(* an end of interrupt does not bring the CPU line up to date: the next    *)
(* tick of the interval timer does.                                        *)
InputIsRead ==
  menu = "os" => <>[](pc.kbd.q["kbd"] = 0 /\ pc.kbd.q["aux"] = 0)

(* A read command hands over exactly the sectors that were asked for and a *)
(* write command stores exactly the data it was given, in order, whatever  *)
(* the split into blocks, the addressing mode, a count of zero (which      *)
(* means the most) and the mix of immediate and late answers.              *)
IdeTransferExact ==
  LET moved == job.data
      over == pc.ide.status = "ready"
  IN  /\ job.op = "read" =>
           /\ \A i \in DOMAIN moved : moved[i] = pc.disk[job.lba + i - 1]
           /\ over => Len(moved) = job.n
      /\ job.op = "write" /\ over =>
           /\ Len(moved) = job.n
           /\ \A i \in DOMAIN moved : moved[i] = pc.disk[job.lba + i - 1]
==========================================================================
