----------------------------- MODULE PcInput -----------------------------
(* The PS/2 keyboard and mouse (tinyemu/ps2.c), the 8042 controller they   *)
(* share (tinyemu/pckbd.c) and the VMware mouse port (tinyemu/vmmouse.c).  *)
(* A queue is the number of bytes it holds: what is checked is that bytes  *)
(* are announced, not which bytes they are.  mouse_dx counts in units of   *)
(* the 127 one packet can carry and stands for the three axes.             *)
EXTENDS Pic8259

CONSTANTS QueueSize,  \* PS2_QUEUE_SIZE
          EventRoom,  \* the 16 bytes ps2_mouse_event wants to be free
          FifoSize    \* FIFO_SIZE of the VMware mouse

ASSUME InputConstants == /\ QueueSize \in Nat \ {0} /\ FifoSize \in Nat \ {0}
                         /\ EventRoom \in 0 .. QueueSize

KbdIrq == 1
MouseIrq == 12

i8042_init ==
  [q |-> [kbd |-> 0, aux |-> 0], pending |-> {},
   mode |-> {"kbd_int", "mouse_int"}, write_cmd |-> "none",
   kbd_arg |-> FALSE, mouse_arg |-> "none",
   enabled |-> FALSE, remote |-> FALSE, mouse_wrap |-> FALSE,
   mouse_type |-> 0, mouse_detect_state |-> 0, mouse_dx |-> 0, mouse_buttons |-> 0,
   vm_enabled |-> FALSE, vm_fifo |-> 0]

(* Keyboard data hides mouse data; each level goes to its own input.  *)
kbd_update_irq(m) ==
  LET k == m.kbd
      mouse_level == k.pending = {"aux"} /\ "mouse_int" \in k.mode
      kbd_level == /\ "kbd" \in k.pending
                   /\ "kbd_int" \in k.mode /\ "disable_kbd" \notin k.mode
  IN  pic2_set_irq(pic2_set_irq(m, KbdIrq, kbd_level), MouseIrq, mouse_level)

(* kbd_update_kbd_irq and kbd_update_aux_irq. *)
update_irq(m, port, level) ==
  kbd_update_irq([m EXCEPT !.kbd.pending =
                    IF level THEN @ \union {port} ELSE @ \ {port}])

(* n calls of ps2_queue: the bytes that fit are queued, the others are     *)
(* dropped; the calls after the first repeat a level that is already high. *)
ps2_queue(m, port, n) ==
  LET k == Min({n, QueueSize - m.kbd.q[port]})
  IN  IF k = 0 THEN m
      ELSE update_irq([m EXCEPT !.kbd.q[port] = @ + k], port, TRUE)

ps2_read_data_KeepsLevel(m, port) ==
  LET left == m.kbd.q[port] - 1
  IN  IF m.kbd.q[port] = 0 THEN m
      ELSE update_irq([m EXCEPT !.kbd.q[port] = left], port, left # 0)

(* Reading lowers the interrupt and raises it again if bytes are left, so  *)
(* that the edge-triggered controller sees every byte.                     *)
ps2_read_data(m, port) ==
  LET left == m.kbd.q[port] - 1
  IN  IF m.kbd.q[port] = 0 THEN m
      ELSE update_irq(update_irq([m EXCEPT !.kbd.q[port] = left], port, FALSE),
                      port, left # 0)

(* A key is one byte, or two for the keys behind the 0xe0 prefix. *)
ps2_put_keycode(m, extended) == ps2_queue(m, "kbd", IF extended THEN 2 ELSE 1)

(* A command to the keyboard is known here by the length of its answer;    *)
(* SET_LEDS and SET_RATE take the next byte as their argument.             *)
KbdCommands == {[reply |-> n, arg |-> FALSE] : n \in 1 .. 3}
               \union {[reply |-> 1, arg |-> TRUE]}

ps2_write_keyboard(m, cmd) ==
  IF m.kbd.kbd_arg
  THEN ps2_queue([m EXCEPT !.kbd.kbd_arg = FALSE], "kbd", 1)
  ELSE ps2_queue([m EXCEPT !.kbd.kbd_arg = cmd.arg], "kbd", cmd.reply)

(* --------------------------------- mouse -------------------------------- *)
Clamp(dx) == Max({-1, Min({1, dx})})
Packet(m) == IF m.kbd.mouse_type \in {3, 4} THEN 4 ELSE 3

ps2_mouse_send_packet(m) ==
  ps2_queue([m EXCEPT !.kbd.mouse_dx = @ - Clamp(@)], "aux", Packet(m))

(* The loop sends packets until no motion is left. *)
ps2_mouse_event(m, dx, buttons) ==
  LET k == m.kbd
      moved == [m EXCEPT !.kbd.mouse_dx = @ + dx, !.kbd.mouse_buttons = buttons]
      total == k.mouse_dx + dx
      packets == Max({1, total, -total})
  IN  IF ~k.enabled THEN m
      ELSE IF total = 0 /\ k.mouse_buttons = buttons
           THEN [m EXCEPT !.kbd.mouse_dx = 0]
      ELSE IF k.remote \/ k.q["aux"] >= QueueSize - EventRoom THEN moved
      ELSE ps2_queue([moved EXCEPT !.kbd.mouse_dx = 0], "aux", packets * Packet(m))

MouseCommands == {"scale", "stream", "wrap", "reset_wrap", "remote", "get_type",
                  "set_res", "set_sample", "get_scale", "poll", "enable",
                  "disable", "default", "reset", "unknown"}

mouse_command(m, cmd) ==
  LET Ack(mm, n) == ps2_queue(mm, "aux", n)
      Defaults(mm) == [mm EXCEPT !.kbd.enabled = FALSE, !.kbd.remote = FALSE]
  IN  CASE cmd = "scale" -> Ack(m, 1)
        [] cmd = "stream" -> Ack([m EXCEPT !.kbd.remote = FALSE], 1)
        [] cmd = "remote" -> Ack([m EXCEPT !.kbd.remote = TRUE], 1)
        [] cmd = "wrap" -> Ack([m EXCEPT !.kbd.mouse_wrap = TRUE], 1)
        [] cmd = "get_type" -> Ack(m, 2)
        [] cmd = "get_scale" -> Ack(m, 4)
        [] cmd \in {"set_res", "set_sample"} ->
             Ack([m EXCEPT !.kbd.mouse_arg = cmd], 1)
        [] cmd = "poll" -> ps2_mouse_send_packet(Ack(m, 1))
        [] cmd = "enable" -> Ack([m EXCEPT !.kbd.enabled = TRUE], 1)
        [] cmd = "disable" -> Ack([m EXCEPT !.kbd.enabled = FALSE], 1)
        [] cmd = "default" -> Ack(Defaults(m), 1)
        [] cmd = "reset" -> Ack([Defaults(m) EXCEPT !.kbd.mouse_type = 0], 3)
        [] cmd \in {"reset_wrap", "unknown"} -> m

(* The sample rates 200, 100, 80 and 200, 200, 80 unlock the wheel and the *)
(* five-button packets.                                                    *)
detect(k, rate) ==
  CASE k.mouse_detect_state = 0 ->
         [k EXCEPT !.mouse_detect_state = IF rate = 200 THEN 1 ELSE 0]
    [] k.mouse_detect_state = 1 ->
         [k EXCEPT !.mouse_detect_state =
            IF rate = 100 THEN 2 ELSE IF rate = 200 THEN 3 ELSE 0]
    [] k.mouse_detect_state \in {2, 3} ->
         [k EXCEPT !.mouse_detect_state = 0,
                   !.mouse_type = IF rate # 80 THEN @
                                  ELSE IF k.mouse_detect_state = 2 THEN 3 ELSE 4]

ps2_write_mouse(m, cmd, rate) ==
  LET k == m.kbd
      taken == [m EXCEPT !.kbd.mouse_arg = "none"]
  IN  CASE k.mouse_arg = "set_res" -> ps2_queue(taken, "aux", 1)
        [] k.mouse_arg = "set_sample" ->
             ps2_queue([taken EXCEPT !.kbd = detect(@, rate)], "aux", 1)
        [] k.mouse_arg = "none" /\ k.mouse_wrap /\ cmd # "reset" ->
             ps2_queue([m EXCEPT !.kbd.mouse_wrap = (cmd # "reset_wrap")], "aux", 1)
        [] k.mouse_arg = "none" /\ ~(k.mouse_wrap /\ cmd # "reset") ->
             mouse_command(m, cmd)

(* ---------------------------- 8042 controller --------------------------- *)
WriteCommands == {"write_mode", "write_obuf", "write_aux_obuf", "write_mouse",
                  "write_outport"}
ControllerCommands == WriteCommands \union
  {"read_mode", "mouse_disable", "mouse_enable", "answer", "kbd_disable",
   "kbd_enable", "ignored"}

(* "answer" stands for the tests and port reads, which answer with a byte. *)
kbd_write_command(m, cmd) ==
  CASE cmd = "read_mode" -> ps2_queue(m, "aux", 1)
    [] cmd = "answer" -> ps2_queue(m, "kbd", 1)
    [] cmd \in WriteCommands -> [m EXCEPT !.kbd.write_cmd = cmd]
    [] cmd = "mouse_disable" -> [m EXCEPT !.kbd.mode = @ \union {"disable_mouse"}]
    [] cmd = "mouse_enable" -> [m EXCEPT !.kbd.mode = @ \ {"disable_mouse"}]
    [] cmd = "kbd_disable" ->
         kbd_update_irq([m EXCEPT !.kbd.mode = @ \union {"disable_kbd"}])
    [] cmd = "kbd_enable" ->
         kbd_update_irq([m EXCEPT !.kbd.mode = @ \ {"disable_kbd"}])
    [] cmd = "ignored" -> m

kbd_read_data(m) ==
  ps2_read_data(m, IF m.kbd.pending = {"aux"} THEN "aux" ELSE "kbd")

(* arg is the byte written, as the device it goes to understands it; the   *)
(* byte that resets the machine (WRITE_OUTPORT) is never written.          *)
kbd_write_data(m, arg) ==
  LET w == m.kbd.write_cmd
      done == [m EXCEPT !.kbd.write_cmd = "none"]
  IN  CASE w = "none" -> ps2_write_keyboard(done, arg.kbd)
        [] w = "write_mode" -> kbd_update_irq([done EXCEPT !.kbd.mode = arg.mode])
        [] w = "write_obuf" -> ps2_queue(done, "kbd", 1)
        [] w = "write_aux_obuf" -> ps2_queue(done, "aux", 1)
        [] w = "write_mouse" -> ps2_write_mouse(done, arg.mouse, arg.rate)
        [] w = "write_outport" -> done

(* ----------------------------- VMware mouse ----------------------------- *)
(* An event is four words in the fifo and a PS/2 packet that announces it. *)
vmmouse_send_mouse_event(m, dx, buttons) ==
  IF ~m.kbd.vm_enabled THEN ps2_mouse_event(m, dx, buttons)
  ELSE IF m.kbd.vm_fifo + 4 > FifoSize THEN m
  ELSE ps2_mouse_event([m EXCEPT !.kbd.vm_fifo = @ + 4], 1, 0)

(* size is the number in EBX, taken as it is: a negative one adds words.   *)
vmmouse_handler(m, cmd, size) ==
  CASE cmd = "data" /\ (size > 6 \/ size > m.kbd.vm_fifo) ->
         [m EXCEPT !.kbd.vm_enabled = FALSE]
    [] cmd = "data" /\ ~(size > 6 \/ size > m.kbd.vm_fifo) ->
         [m EXCEPT !.kbd.vm_fifo = @ - size]
    [] cmd = "read_id" /\ m.kbd.vm_fifo < FifoSize ->
         [m EXCEPT !.kbd.vm_fifo = @ + 1, !.kbd.vm_enabled = TRUE]
    [] cmd = "read_id" /\ m.kbd.vm_fifo >= FifoSize -> m
    [] cmd = "disable" -> [m EXCEPT !.kbd.vm_enabled = FALSE]
==========================================================================
