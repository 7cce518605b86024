-------------------------- MODULE PcMachineProofs --------------------------
(***************************************************************************)
(* Proofs about PcMachine.                                                 *)
(*                                                                         *)
(* Data that a device holds for the guest is announced, through            *)
(* edge-triggered interrupt controllers that the guest programs as it      *)
(* likes, whatever the devices, the host and the timers do (PcInv).        *)
(*                                                                         *)
(* A command of the IDE disk moves exactly the sectors it names (IdeInv).  *)
(*                                                                         *)
(* The devices are operators on the machine record, so the lemmas are      *)
(* about records: m and n below are machines, o is the set of lines the    *)
(* guest was told of.                                                      *)
(***************************************************************************)
EXTENDS PcMachine, TLAPS

-----------------------------------------------------------------------------
(* The inductive invariant                                                 *)

PicOK(p) ==
    /\ DOMAIN p = DOMAIN pic_reset([elcr |-> {}])
    /\ p.init_state \in 0 .. 3

KbdOK(k) ==
    /\ DOMAIN k = DOMAIN i8042_init
    /\ DOMAIN k.q = {"kbd", "aux"}
    /\ \A port \in {"kbd", "aux"} : k.q[port] \in 0 .. QueueSize
    /\ k.pending \subseteq {"kbd", "aux"}
    /\ k.write_cmd \in WriteCommands \cup {"none"}
    /\ k.mouse_arg \in {"none", "set_res", "set_sample"}
    /\ k.mouse_wrap \in BOOLEAN
    /\ k.mouse_detect_state \in 0 .. 3
    /\ k.mouse_dx \in Int /\ k.vm_fifo \in Int

PitOK(t) == DOMAIN t = DOMAIN pit_init(0) /\ t.rw_state \in 0 .. 5

RtcOK(r) == DOMAIN r = DOMAIN cmos_init /\ r.level \in BOOLEAN

IdeOK(d) == DOMAIN d = DOMAIN ide_drive_init /\ d.cmd_reset \in BOOLEAN

Machine(m) ==
    /\ DOMAIN m = {"pic", "line", "kbd", "pit", "rtc", "ide", "disk", "io"}
    /\ DOMAIN m.pic = 0 .. 1 /\ PicOK(m.pic[0]) /\ PicOK(m.pic[1])
    /\ KbdOK(m.kbd) /\ PitOK(m.pit) /\ RtcOK(m.rtc) /\ IdeOK(m.ide)

\* The levels the keyboard controller drives.
KbdLevel(k) == "kbd" \in k.pending /\ "kbd_int" \in k.mode /\ "disable_kbd" \notin k.mode
MouseLevel(k) == k.pending = {"aux"} /\ "mouse_int" \in k.mode

\* The request, and the level last seen, of the three lines.
KbdIrr(m)    == 1 \in m.pic[0].irr
KbdLast(m)   == 1 \in m.pic[0].last_irr
RtcIrr(m)    == 0 \in m.pic[1].irr
RtcLast(m)   == 0 \in m.pic[1].last_irr
MouseIrr(m)  == 4 \in m.pic[1].irr
MouseLast(m) == 4 \in m.pic[1].last_irr

\* A line that is high is requested, or the guest has been told; and the
\* controller remembers as high only a line that is, so that the next rise
\* is an edge.
Announced(m, o) ==
    /\ KbdLevel(m.kbd) => KbdIrr(m) \/ 1 \in o
    /\ KbdLast(m) => KbdLevel(m.kbd)
    /\ MouseLevel(m.kbd) => MouseIrr(m) \/ 12 \in o
    /\ MouseLast(m) => MouseLevel(m.kbd)
    /\ m.rtc.level => RtcIrr(m) \/ 8 \in o
    /\ RtcLast(m) => m.rtc.level

\* The status of the controller says which queues hold bytes.
Exact(k) == \A port \in {"kbd", "aux"} : port \in k.pending <=> k.q[port] > 0

\* Data is asked for only with a transfer set up.
Phase(d) == d.status = "drq" => d.end_transfer \in {"read", "write", "read_end", "identify"}

Good(m, o) == Machine(m) /\ Exact(m.kbd) /\ Announced(m, o) /\ Phase(m.ide)

PcInv == Good(pc, owes)

\* The invariant without the part that a command of the disk suspends.
Sound(m, o) == Machine(m) /\ Exact(m.kbd) /\ Announced(m, o)

-----------------------------------------------------------------------------
(* The interrupt controllers                                               *)

LEMMA PicFields ==
    ASSUME NEW p
    PROVE  PicOK(p) <=>
             /\ DOMAIN p = {"last_irr", "irr", "imr", "isr", "priority_add", "init_state",
                            "init4", "auto_eoi", "rotate_on_autoeoi", "elcr"}
             /\ p.init_state \in 0 .. 3
  BY DEF PicOK, pic_reset

\* One line moves: a rising edge is requested, and nothing else changes.
LEMMA SetIrq1 ==
    ASSUME NEW p, PicOK(p), NEW irq, NEW level \in BOOLEAN
    PROVE  LET s == pic_set_irq1(p, irq, level)
           IN  /\ PicOK(s)
               /\ \A i : i # irq => /\ i \in s.irr <=> i \in p.irr
                                    /\ i \in s.last_irr <=> i \in p.last_irr
               /\ irq \in s.last_irr <=> level
               /\ level /\ (irq \notin p.last_irr \/ irq \in p.irr) => irq \in s.irr
  BY PicFields DEF pic_set_irq1

\* n is m with other requests on lines no device of interest uses.
SameDevices(m, n) ==
    /\ Machine(n)
    /\ n.kbd = m.kbd /\ n.pit = m.pit /\ n.rtc = m.rtc /\ n.ide = m.ide

KbdLine(m, n) == (KbdIrr(n) <=> KbdIrr(m)) /\ (KbdLast(n) <=> KbdLast(m))
RtcLine(m, n) == (RtcIrr(n) <=> RtcIrr(m)) /\ (RtcLast(n) <=> RtcLast(m))
MouseLine(m, n) == (MouseIrr(n) <=> MouseIrr(m)) /\ (MouseLast(n) <=> MouseLast(m))
SameLines(m, n) == KbdLine(m, n) /\ RtcLine(m, n) /\ MouseLine(m, n)

LEMMA SetPic ==
    ASSUME NEW m, Machine(m), NEW c \in 0 .. 1, NEW p, PicOK(p)
    PROVE  LET n == [m EXCEPT !.pic[c] = p]
           IN  /\ SameDevices(m, n) /\ n.io = m.io /\ n.disk = m.disk
               /\ n.pic[c] = p /\ \A e \in 0 .. 1 : e # c => n.pic[e] = m.pic[e]
<1> DEFINE n == [m EXCEPT !.pic[c] = p]
<1>1. n.pic = [m.pic EXCEPT ![c] = p] /\ DOMAIN n = DOMAIN m
  BY DEF Machine
<1>2. n.kbd = m.kbd /\ n.pit = m.pit /\ n.rtc = m.rtc /\ n.ide = m.ide /\ n.io = m.io /\ n.disk = m.disk
  BY DEF Machine
<1>3. DOMAIN n.pic = 0 .. 1 /\ n.pic[c] = p /\ \A e \in 0 .. 1 : e # c => n.pic[e] = m.pic[e]
  BY <1>1 DEF Machine
<1>4. PicOK(n.pic[0]) /\ PicOK(n.pic[1])
  BY <1>3 DEF Machine
<1> HIDE DEF n
<1>5. Machine(n)
  BY <1>1, <1>2, <1>3, <1>4 DEF Machine
<1> QED
  BY <1>2, <1>3, <1>5 DEF SameDevices, n

LEMMA SetLine ==
    ASSUME NEW m, Machine(m), NEW v
    PROVE  LET n == [m EXCEPT !.line = v] IN SameDevices(m, n) /\ n.pic = m.pic
  BY DEF Machine, SameDevices

\* The slave is seen by the master as a pulse on the cascade input.
LEMMA UpdateIrq ==
    ASSUME NEW m, Machine(m)
    PROVE  SameDevices(m, pic2_update_irq(m)) /\ SameLines(m, pic2_update_irq(m))
<1> DEFINE high == pic_set_irq1(m.pic[0], Cascade, TRUE)
           low == pic_set_irq1(high, Cascade, FALSE)
           n == [m EXCEPT !.pic[0] = low]
           seen == IF pic_get_irq(m.pic[1]) >= 0 THEN n ELSE m
           v == pic_get_irq(seen.pic[0]) >= 0
<1>1. PicOK(m.pic[0])
  BY DEF Machine
<1>2. PicOK(high) /\ (1 \in high.irr <=> 1 \in m.pic[0].irr)
          /\ (1 \in high.last_irr <=> 1 \in m.pic[0].last_irr)
  <2>1. TRUE \in BOOLEAN /\ 1 # Cascade
    BY DEF Cascade
  <2> QED BY <1>1, <2>1, SetIrq1, Zenon
<1>3. PicOK(low) /\ (1 \in low.irr <=> 1 \in high.irr)
          /\ (1 \in low.last_irr <=> 1 \in high.last_irr)
  <2> HIDE DEF high
  <2>1. FALSE \in BOOLEAN /\ 1 # Cascade
    BY DEF Cascade
  <2> QED BY <1>2, <2>1, SetIrq1, Zenon
<1> HIDE DEF high, low
<1>4. SameDevices(m, n) /\ n.pic[0] = low /\ n.pic[1] = m.pic[1]
  BY <1>3, SetPic
<1> HIDE DEF n
<1>5. SameDevices(m, seen) /\ SameLines(m, seen)
  <2>1. SameLines(m, n)
    BY <1>2, <1>3, <1>4 DEF SameLines, KbdLine, RtcLine, MouseLine, KbdIrr, KbdLast,
          RtcIrr, RtcLast, MouseIrr, MouseLast
  <2>2. SameDevices(m, m) /\ SameLines(m, m)
    BY DEF SameDevices, SameLines, KbdLine, RtcLine, MouseLine
  <2> QED BY <1>4, <2>1, <2>2
<1>6. pic2_update_irq(m) = [seen EXCEPT !.line = v]
  BY DEF pic2_update_irq, n, low, high
<1> HIDE DEF seen, v
<1>7. SameDevices(seen, pic2_update_irq(m)) /\ pic2_update_irq(m).pic = seen.pic
  BY <1>5, <1>6, SetLine DEF SameDevices
<1> QED
  BY <1>5, <1>7 DEF SameDevices, SameLines, KbdLine, RtcLine, MouseLine, KbdIrr, KbdLast,
          RtcIrr, RtcLast, MouseIrr, MouseLast

\* Raising, on machine n, a line that machine m remembers as low, or that
\* it requests, is a request.
Raised(level, last, irr, nlast, nirr) ==
    /\ nlast <=> level
    /\ level /\ (~last \/ irr) => nirr

KbdSet(m, n, level) == Raised(level, KbdLast(m), KbdIrr(m), KbdLast(n), KbdIrr(n))
RtcSet(m, n, level) == Raised(level, RtcLast(m), RtcIrr(m), RtcLast(n), RtcIrr(n))
MouseSet(m, n, level) == Raised(level, MouseLast(m), MouseIrr(m), MouseLast(n), MouseIrr(n))

LEMMA SetIrq ==
    ASSUME NEW m, Machine(m), NEW irq \in {0, 1, 8, 12, 14}, NEW level \in BOOLEAN
    PROVE  LET n == pic2_set_irq(m, irq, level)
           IN  /\ SameDevices(m, n)
               /\ IF irq = 1 THEN KbdSet(m, n, level) ELSE KbdLine(m, n)
               /\ IF irq = 8 THEN RtcSet(m, n, level) ELSE RtcLine(m, n)
               /\ IF irq = 12 THEN MouseSet(m, n, level) ELSE MouseLine(m, n)
<1> DEFINE c == irq \div 8
           i == irq % 8
           p == m.pic[c]
           s == pic_set_irq1(p, i, level)
           w == [m EXCEPT !.pic[c] = s]
           n == pic2_set_irq(m, irq, level)
<1>1. c = (IF irq < 8 THEN 0 ELSE 1) /\ i = (IF irq < 8 THEN irq ELSE irq - 8)
  OBVIOUS
<1> HIDE DEF c, i
<1>2. c \in 0 .. 1 /\ PicOK(p)
  BY <1>1 DEF Machine
<1> HIDE DEF p
<1>3. /\ PicOK(s)
      /\ \A j : j # i => (j \in s.irr <=> j \in p.irr) /\ (j \in s.last_irr <=> j \in p.last_irr)
      /\ i \in s.last_irr <=> level
      /\ level /\ (i \notin p.last_irr \/ i \in p.irr) => i \in s.irr
  BY <1>2, SetIrq1, Zenon
<1> HIDE DEF s
<1>4. SameDevices(m, w) /\ w.pic[c] = s /\ \A e \in 0 .. 1 : e # c => w.pic[e] = m.pic[e]
  BY <1>2, <1>3, SetPic
<1>5. n = pic2_update_irq(w)
  BY DEF pic2_set_irq, w, s, p, c, i
<1> HIDE DEF w, n
<1>6. SameDevices(w, n) /\ SameLines(w, n)
  BY <1>4, <1>5, UpdateIrq DEF SameDevices
<1>7. SameDevices(m, n)
  BY <1>4, <1>6 DEF SameDevices
<1>8. IF irq = 1 THEN KbdSet(m, w, level) ELSE KbdLine(m, w)
  <2>1. CASE c = 0
    BY <1>1, <1>3, <1>4, <2>1 DEF p, KbdSet, KbdLine, Raised, KbdIrr, KbdLast
  <2>2. CASE c = 1
    BY <1>1, <1>4, <2>2 DEF KbdLine, KbdIrr, KbdLast
  <2> QED BY <1>1, <2>1, <2>2
<1>9. IF irq = 8 THEN RtcSet(m, w, level) ELSE RtcLine(m, w)
  <2>1. CASE c = 1
    BY <1>1, <1>3, <1>4, <2>1 DEF p, RtcSet, RtcLine, Raised, RtcIrr, RtcLast
  <2>2. CASE c = 0
    BY <1>1, <1>4, <2>2 DEF RtcLine, RtcIrr, RtcLast
  <2> QED BY <1>1, <2>1, <2>2
<1>10. IF irq = 12 THEN MouseSet(m, w, level) ELSE MouseLine(m, w)
  <2>1. CASE c = 1
    BY <1>1, <1>3, <1>4, <2>1 DEF p, MouseSet, MouseLine, Raised, MouseIrr, MouseLast
  <2>2. CASE c = 0
    BY <1>1, <1>4, <2>2 DEF MouseLine, MouseIrr, MouseLast
  <2> QED BY <1>1, <2>1, <2>2
<1>11. IF irq = 1 THEN KbdSet(m, n, level) ELSE KbdLine(m, n)
  BY <1>6, <1>8 DEF SameLines, KbdLine, KbdSet, Raised
<1>12. IF irq = 8 THEN RtcSet(m, n, level) ELSE RtcLine(m, n)
  BY <1>6, <1>9 DEF SameLines, RtcLine, RtcSet, Raised
<1>13. IF irq = 12 THEN MouseSet(m, n, level) ELSE MouseLine(m, n)
  BY <1>6, <1>10 DEF SameLines, MouseLine, MouseSet, Raised
<1> QED
  BY <1>7, <1>11, <1>12, <1>13 DEF n

-----------------------------------------------------------------------------
(* The keyboard controller                                                 *)

LEMMA LevelsBoolean ==
    ASSUME NEW k
    PROVE  KbdLevel(k) \in BOOLEAN /\ MouseLevel(k) \in BOOLEAN
  BY DEF KbdLevel, MouseLevel

\* Both lines are set to the levels of the controller.
LEMMA KbdUpdate ==
    ASSUME NEW m, Machine(m)
    PROVE  LET n == kbd_update_irq(m)
           IN  /\ SameDevices(m, n) /\ RtcLine(m, n)
               /\ KbdSet(m, n, KbdLevel(m.kbd)) /\ MouseSet(m, n, MouseLevel(m.kbd))
<1> DEFINE a == KbdLevel(m.kbd)
           b == MouseLevel(m.kbd)
           w == pic2_set_irq(m, 1, a)
           n == pic2_set_irq(w, 12, b)
<1>1. a \in BOOLEAN /\ b \in BOOLEAN
  BY LevelsBoolean, Zenon
<1>2. kbd_update_irq(m) = n
  BY DEF kbd_update_irq, KbdLevel, MouseLevel, KbdIrq, MouseIrq
<1> HIDE DEF a, b
<1>3. SameDevices(m, w) /\ KbdSet(m, w, a) /\ RtcLine(m, w) /\ MouseLine(m, w)
  <2>1. 1 \in {0, 1, 8, 12, 14} /\ 1 # 8 /\ 1 # 12
    OBVIOUS
  <2> QED BY <1>1, <2>1, SetIrq, Zenon
<1> HIDE DEF w
<1>4. Machine(w)
  BY <1>3 DEF SameDevices
<1>5. SameDevices(w, n) /\ KbdLine(w, n) /\ RtcLine(w, n) /\ MouseSet(w, n, b)
  <2>1. 12 \in {0, 1, 8, 12, 14} /\ 12 # 1 /\ 12 # 8
    OBVIOUS
  <2> QED BY <1>1, <1>4, <2>1, SetIrq, Zenon
<1> HIDE DEF n
<1>6. SameDevices(m, n) /\ RtcLine(m, n)
  BY <1>3, <1>5 DEF SameDevices, RtcLine
<1>7. KbdSet(m, n, a) /\ MouseSet(m, n, b)
  BY <1>3, <1>5 DEF KbdSet, KbdLine, MouseSet, MouseLine, Raised
<1> QED
  BY <1>2, <1>6, <1>7 DEF a, b

LEMMA KbdFields ==
    ASSUME NEW k
    PROVE  KbdOK(k) <=>
             /\ DOMAIN k = {"q", "pending", "mode", "write_cmd", "kbd_arg", "mouse_arg",
                            "enabled", "remote", "mouse_wrap", "mouse_type",
                            "mouse_detect_state", "mouse_dx", "mouse_buttons",
                            "vm_enabled", "vm_fifo"}
             /\ DOMAIN k.q = {"kbd", "aux"}
             /\ \A port \in {"kbd", "aux"} : k.q[port] \in 0 .. QueueSize
             /\ k.pending \subseteq {"kbd", "aux"}
             /\ k.write_cmd \in WriteCommands \cup {"none"}
             /\ k.mouse_arg \in {"none", "set_res", "set_sample"}
             /\ k.mouse_wrap \in BOOLEAN
             /\ k.mouse_detect_state \in 0 .. 3
             /\ k.mouse_dx \in Int /\ k.vm_fifo \in Int
  BY DEF KbdOK, i8042_init

\* The controller's registers are replaced; the rest is as it was.
LEMMA SetKbd ==
    ASSUME NEW m, Machine(m), NEW k, KbdOK(k)
    PROVE  LET n == [m EXCEPT !.kbd = k]
           IN  Machine(n) /\ n.kbd = k /\ n.pit = m.pit /\ n.rtc = m.rtc /\ n.ide = m.ide
               /\ SameLines(m, n)
<1> DEFINE n == [m EXCEPT !.kbd = k]
<1>1. /\ DOMAIN n = DOMAIN m /\ n.kbd = k /\ n.pic = m.pic /\ n.pit = m.pit
      /\ n.rtc = m.rtc /\ n.ide = m.ide
  BY DEF Machine
<1> HIDE DEF n
<1>2. Machine(n)
  BY <1>1 DEF Machine
<1>3. SameLines(m, n)
  BY <1>1 DEF SameLines, KbdLine, RtcLine, MouseLine, KbdIrr, KbdLast, RtcIrr, RtcLast,
              MouseIrr, MouseLast
<1> QED
  BY <1>1, <1>2, <1>3 DEF n

\* Registers that do not move a level leave what is announced alone.
LEMMA QuietKbd ==
    ASSUME NEW m, NEW o, Good(m, o), NEW k, KbdOK(k), Exact(k),
           KbdLevel(k) <=> KbdLevel(m.kbd), MouseLevel(k) <=> MouseLevel(m.kbd)
    PROVE  Good([m EXCEPT !.kbd = k], o)
<1> DEFINE n == [m EXCEPT !.kbd = k]
<1>1. Machine(n) /\ n.kbd = k /\ n.rtc = m.rtc /\ n.ide = m.ide /\ SameLines(m, n)
  BY SetKbd DEF Good
<1> HIDE DEF n
<1>2. Announced(n, o)
  BY <1>1 DEF Good, Announced, SameLines, KbdLine, RtcLine, MouseLine
<1> QED
  BY <1>1, <1>2 DEF Good, n

\* A change of the registers followed by kbd_update_irq: a level that was
\* low and is high now is an edge, one that was high is still announced.
LEMMA ChangeKbd ==
    ASSUME NEW m, NEW o, Machine(m), Announced(m, o), NEW k, KbdOK(k)
    PROVE  LET n == kbd_update_irq([m EXCEPT !.kbd = k])
           IN  /\ Machine(n) /\ n.kbd = k /\ n.rtc = m.rtc /\ n.ide = m.ide
               /\ Announced(n, o)
               /\ KbdLevel(k) /\ ~KbdLevel(m.kbd) => KbdIrr(n)
               /\ KbdLevel(k) /\ KbdIrr(m) => KbdIrr(n)
               /\ MouseLevel(k) /\ ~MouseLevel(m.kbd) => MouseIrr(n)
               /\ MouseLevel(k) /\ MouseIrr(m) => MouseIrr(n)
<1> DEFINE w == [m EXCEPT !.kbd = k]
           n == kbd_update_irq(w)
<1>1. Machine(w) /\ w.kbd = k /\ w.rtc = m.rtc /\ w.ide = m.ide /\ SameLines(m, w)
  BY SetKbd
<1> HIDE DEF w
<1>2. /\ SameDevices(w, n) /\ RtcLine(w, n)
      /\ KbdSet(w, n, KbdLevel(k)) /\ MouseSet(w, n, MouseLevel(k))
  BY <1>1, KbdUpdate, Zenon
<1> HIDE DEF n
<1>3. Machine(n) /\ n.kbd = k /\ n.rtc = m.rtc /\ n.ide = m.ide
  BY <1>1, <1>2 DEF SameDevices
<1>4. /\ KbdLast(n) <=> KbdLevel(k)
      /\ KbdLevel(k) /\ (~KbdLast(m) \/ KbdIrr(m)) => KbdIrr(n)
      /\ MouseLast(n) <=> MouseLevel(k)
      /\ MouseLevel(k) /\ (~MouseLast(m) \/ MouseIrr(m)) => MouseIrr(n)
      /\ RtcIrr(n) <=> RtcIrr(m)
      /\ RtcLast(n) <=> RtcLast(m)
  BY <1>1, <1>2 DEF SameLines, KbdLine, RtcLine, MouseLine, KbdSet, MouseSet, Raised
<1>5. Announced(n, o)
  BY <1>3, <1>4 DEF Announced
<1>6. (KbdLast(m) => KbdLevel(m.kbd)) /\ (MouseLast(m) => MouseLevel(m.kbd))
  BY DEF Announced
<1> QED
  BY <1>3, <1>4, <1>5, <1>6 DEF n, w

LEMMA MinOfTwo ==
    ASSUME NEW a \in Int, NEW b \in Int
    PROVE  Min({a, b}) = IF a <= b THEN a ELSE b
<1> DEFINE e == IF a <= b THEN a ELSE b
<1>1. e \in {a, b} /\ \A y \in {a, b} : e <= y
  OBVIOUS
<1>2. \A x \in {a, b} : (\A y \in {a, b} : x <= y) => x = e
  OBVIOUS
<1> HIDE DEF e
<1>3. Min({a, b}) = e
  BY <1>1, <1>2 DEF Min
<1> QED
  BY <1>3 DEF e

LEMMA MaxIsMember ==
    ASSUME NEW S, NEW e \in S, S \subseteq Int, \A y \in S : e >= y
    PROVE  Max(S) \in S /\ \A y \in S : Max(S) >= y
  BY DEF Max

\* Bytes are queued, as many as fit, and announced.
LEMMA Queue ==
    ASSUME NEW m, NEW o, Good(m, o), NEW port \in {"kbd", "aux"}, NEW n \in Nat
    PROVE  Good(ps2_queue(m, port, n), o)
<1> DEFINE j == Min({n, QueueSize - m.kbd.q[port]})
           k1 == [m.kbd EXCEPT !.q[port] = @ + j]
           k == [k1 EXCEPT !.pending = @ \cup {port}]
           w == kbd_update_irq([m EXCEPT !.kbd = k])
<1>1. KbdOK(m.kbd) /\ Exact(m.kbd) /\ m.kbd.q[port] \in 0 .. QueueSize /\ QueueSize \in Nat
  BY InputConstants DEF Good, Machine, KbdOK
<1>2. j \in 0 .. (QueueSize - m.kbd.q[port])
  <2>1. QueueSize - m.kbd.q[port] \in Nat
    BY <1>1
  <2> QED BY <2>1, MinOfTwo
<1> HIDE DEF j
<1>3. CASE j = 0
  BY <1>3 DEF ps2_queue, j
<1>4. CASE j # 0
  <2>1. KbdOK(k1) /\ k1.q[port] = m.kbd.q[port] + j /\ k1.pending = m.kbd.pending
        /\ \A e \in {"kbd", "aux"} \ {port} : k1.q[e] = m.kbd.q[e]
    BY <1>1, <1>2, KbdFields
  <2> HIDE DEF k1
  <2>2. KbdOK(k) /\ k.q = k1.q /\ k.pending = k1.pending \cup {port}
    BY <2>1, KbdFields
  <2>3. Exact(k)
    BY <1>1, <1>2, <1>4, <2>1, <2>2 DEF Exact
  <2> HIDE DEF k
  <2>4. Machine(w) /\ w.kbd = k /\ w.ide = m.ide /\ Announced(w, o)
    BY <2>2, ChangeKbd DEF Good
  <2>5. ps2_queue(m, port, n) = w
    <3>1. ps2_queue(m, port, n) = update_irq([m EXCEPT !.kbd.q[port] = @ + j], port, TRUE)
      BY <1>4 DEF ps2_queue, j
    <3>2. [m EXCEPT !.kbd.q[port] = @ + j] = [m EXCEPT !.kbd = k1]
      BY DEF k1, Good, Machine
    <3>3. [[m EXCEPT !.kbd = k1] EXCEPT !.kbd.pending = @ \cup {port}] = [m EXCEPT !.kbd = k]
      BY DEF k, Good, Machine
    <3> QED BY <3>1, <3>2, <3>3 DEF update_irq
  <2> HIDE DEF w
  <2> QED BY <2>3, <2>4, <2>5 DEF Good
<1> QED
  BY <1>3, <1>4

\* Reading takes one byte, lowers the line and raises it again for the next:
\* what is announced afterwards does not rest on what the guest was told.
LEMMA ReadData ==
    ASSUME NEW m, NEW o, Good(m, o)
    PROVE  Good(kbd_read_data(m), o \ {1, 12})
<1> DEFINE port == IF m.kbd.pending = {"aux"} THEN "aux" ELSE "kbd"
           left == m.kbd.q[port] - 1
<1>1. KbdOK(m.kbd) /\ Exact(m.kbd) /\ m.kbd.pending \subseteq {"kbd", "aux"}
  BY DEF Good, Machine, KbdOK
<1>2. port \in {"kbd", "aux"}
  OBVIOUS
<1>3. m.kbd.q[port] \in 0 .. QueueSize /\ QueueSize \in Nat
  BY <1>1, <1>2, InputConstants DEF KbdOK
<1>4. kbd_read_data(m) = ps2_read_data(m, port)
  BY DEF kbd_read_data
<1>5. CASE m.kbd.q[port] = 0
  <2>1. m.kbd.pending = {}
    <3>1. port \notin m.kbd.pending
      BY <1>1, <1>2, <1>5 DEF Exact
    <3> QED BY <1>1, <3>1
  <2>2. ~KbdLevel(m.kbd) /\ ~MouseLevel(m.kbd)
    BY <2>1 DEF KbdLevel, MouseLevel
  <2>3. Good(m, o \ {1, 12})
    BY <2>2 DEF Good, Announced
  <2> QED BY <1>4, <1>5, <2>3 DEF ps2_read_data
<1>6. CASE m.kbd.q[port] # 0
  <2> DEFINE k1 == [m.kbd EXCEPT !.q[port] = left]
             k2 == [k1 EXCEPT !.pending = @ \ {port}]
             w == kbd_update_irq([m EXCEPT !.kbd = k2])
             k == [k2 EXCEPT !.pending = IF left # 0 THEN @ \cup {port} ELSE @ \ {port}]
             n == kbd_update_irq([w EXCEPT !.kbd = k])
  <2>1. left \in 0 .. QueueSize /\ port \in m.kbd.pending
    BY <1>1, <1>2, <1>3, <1>6 DEF Exact
  <2> HIDE DEF left
  <2>2. KbdOK(k1) /\ k1.q[port] = left /\ k1.pending = m.kbd.pending /\ k1.mode = m.kbd.mode
        /\ \A e \in {"kbd", "aux"} \ {port} : k1.q[e] = m.kbd.q[e]
    <3> HIDE DEF port
    <3> QED BY <1>1, <1>2, <1>3, <2>1, KbdFields
  <2>a. ps2_read_data(m, port) =
            update_irq(update_irq([m EXCEPT !.kbd = k1], port, FALSE), port, left # 0)
    <3>1. [m EXCEPT !.kbd.q[port] = left] = [m EXCEPT !.kbd = k1]
      BY DEF k1, Good, Machine
    <3> QED BY <1>6, <3>1 DEF ps2_read_data, left
  <2> HIDE DEF k1
  <2>3. KbdOK(k2) /\ k2.q = k1.q /\ k2.pending = m.kbd.pending \ {port} /\ k2.mode = m.kbd.mode
    <3> HIDE DEF port
    <3> QED BY <2>2, KbdFields
  <2>b. [[m EXCEPT !.kbd = k1] EXCEPT !.kbd.pending = @ \ {port}] = [m EXCEPT !.kbd = k2]
    BY DEF k2, Good, Machine
  <2>c. update_irq([m EXCEPT !.kbd = k1], port, FALSE) = w
    BY <2>b DEF update_irq
  <2> HIDE DEF k2
  <2>4. /\ Machine(w) /\ w.kbd = k2 /\ w.rtc = m.rtc /\ w.ide = m.ide /\ Announced(w, o)
        /\ MouseLevel(k2) /\ ~MouseLevel(m.kbd) => MouseIrr(w)
    BY <2>3, ChangeKbd DEF Good
  <2> HIDE DEF w
  <2>5. /\ KbdOK(k) /\ k.q = k1.q /\ k.mode = m.kbd.mode
        /\ k.pending = IF left # 0 THEN m.kbd.pending ELSE m.kbd.pending \ {port}
    <3> DEFINE pend == IF left # 0 THEN m.kbd.pending ELSE m.kbd.pending \ {port}
    <3> HIDE DEF port
    <3>1. (IF left # 0 THEN k2.pending \cup {port} ELSE k2.pending \ {port}) = pend
      BY <2>1, <2>3
    <3>2. k = [k2 EXCEPT !.pending = pend]
      BY <3>1
    <3>3. pend \subseteq {"kbd", "aux"}
      BY <1>1
    <3> HIDE DEF pend, k
    <3>4. KbdOK(k) /\ k.q = k1.q /\ k.mode = m.kbd.mode /\ k.pending = pend
      BY <2>3, <3>2, <3>3, KbdFields
    <3> QED BY <3>4 DEF pend
  <2>d. [w EXCEPT !.kbd.pending = IF left # 0 THEN @ \cup {port} ELSE @ \ {port}]
          = [w EXCEPT !.kbd = k]
    BY <2>4 DEF k, Machine
  <2>e. update_irq(w, port, left # 0) = n
    BY <2>d DEF update_irq
  <2> HIDE DEF k
  <2>6. /\ Machine(n) /\ n.kbd = k /\ n.rtc = w.rtc /\ n.ide = w.ide /\ Announced(n, o)
        /\ KbdLevel(k) /\ ~KbdLevel(k2) => KbdIrr(n)
        /\ MouseLevel(k) /\ ~MouseLevel(k2) => MouseIrr(n)
        /\ MouseLevel(k) /\ MouseIrr(w) => MouseIrr(n)
    <3> HIDE DEF n
    <3>1. KbdOK(k) /\ Announced(w, o)
      BY <2>4, <2>5
    <3> QED BY <2>4, <3>1, ChangeKbd DEF n
  <2> HIDE DEF n
  <2>7. Exact(k)
    <3> HIDE DEF port
    <3>1. k.q[port] = left /\ (port \in k.pending <=> left # 0)
      BY <2>1, <2>2, <2>5
    <3>2. \A e \in {"kbd", "aux"} \ {port} : k.q[e] = m.kbd.q[e] /\ (e \in k.pending <=> e \in m.kbd.pending)
      BY <2>2, <2>5
    <3> QED BY <1>1, <2>1, <3>1, <3>2 DEF Exact
  <2>8. KbdLevel(k) => KbdIrr(n)
    <3>1. CASE port = "kbd"
      BY <2>3, <2>6, <3>1 DEF KbdLevel
    <3>2. CASE port = "aux"
      <4>1. m.kbd.pending = {"aux"}
        BY <3>2
      <4> QED BY <2>5, <4>1 DEF KbdLevel
    <3> QED BY <3>1, <3>2
  <2>9. MouseLevel(k) => MouseIrr(n)
    <3>1. CASE port = "kbd"
      <4>1. m.kbd.pending # {"aux"}
        BY <3>1
      <4>2. ~MouseLevel(m.kbd)
        BY <4>1 DEF MouseLevel
      <4> QED BY <2>4, <2>6, <4>2
    <3>2. CASE port = "aux"
      <4>1. ~MouseLevel(k2)
        BY <2>3, <3>2 DEF MouseLevel
      <4> QED BY <2>6, <4>1
    <3> QED BY <3>1, <3>2
  <2>10. Announced(n, o \ {1, 12})
    BY <2>6, <2>8, <2>9 DEF Announced
  <2>11. kbd_read_data(m) = n
    BY <1>4, <2>a, <2>c, <2>e
  <2> QED BY <2>4, <2>6, <2>7, <2>10, <2>11 DEF Good
<1> QED
  BY <1>5, <1>6

\* Writing registers other than the queues, the status and the mode.
LEMMA Registers ==
    ASSUME NEW m, NEW o, Good(m, o), NEW k, KbdOK(k),
           k.q = m.kbd.q, k.pending = m.kbd.pending, k.mode = m.kbd.mode
    PROVE  Good([m EXCEPT !.kbd = k], o)
<1>1. Exact(k)
  BY DEF Good, Exact
<1>2. KbdLevel(k) <=> KbdLevel(m.kbd)
  BY DEF KbdLevel
<1>3. MouseLevel(k) <=> MouseLevel(m.kbd)
  BY DEF MouseLevel
<1> QED
  BY <1>1, <1>2, <1>3, QuietKbd

LEMMA GoodFields == ASSUME NEW m, NEW o, Good(m, o) PROVE KbdOK(m.kbd) /\ "kbd" \in DOMAIN m
  BY DEF Good, Machine

LEMMA WriteKeyboard ==
    ASSUME NEW m, NEW o, Good(m, o), NEW cmd \in KbdCommands
    PROVE  Good(ps2_write_keyboard(m, cmd), o)
<1>1. cmd.reply \in Nat
  BY DEF KbdCommands
<1>2. ASSUME NEW v PROVE Good([m EXCEPT !.kbd.kbd_arg = v], o)
  <2> DEFINE k == [m.kbd EXCEPT !.kbd_arg = v]
  <2>1. KbdOK(k) /\ k.q = m.kbd.q /\ k.pending = m.kbd.pending /\ k.mode = m.kbd.mode
    BY GoodFields, KbdFields
  <2>2. [m EXCEPT !.kbd.kbd_arg = v] = [m EXCEPT !.kbd = k]
    BY GoodFields
  <2> HIDE DEF k
  <2> QED BY <2>1, <2>2, Registers
<1>3. Good(ps2_queue([m EXCEPT !.kbd.kbd_arg = FALSE], "kbd", 1), o)
  BY <1>2, Queue
<1>4. Good(ps2_queue([m EXCEPT !.kbd.kbd_arg = cmd.arg], "kbd", cmd.reply), o)
  BY <1>1, <1>2, Queue
<1> QED
  BY <1>3, <1>4 DEF ps2_write_keyboard

LEMMA PacketSize == ASSUME NEW m PROVE Packet(m) \in {3, 4}
  BY DEF Packet

LEMMA ClampType == ASSUME NEW x \in Int PROVE Clamp(x) \in Int
<1> DEFINE e == Min({1, x})
<1>1. e \in Int
  BY MinOfTwo
<1> HIDE DEF e
<1>2. Max({-1, e}) \in {-1, e}
  <2>1. CASE e >= -1
    BY <1>1, <2>1, MaxIsMember
  <2>2. CASE ~(e >= -1)
    <3>1. -1 \in {-1, e} /\ {-1, e} \subseteq Int /\ \A y \in {-1, e} : -1 >= y
      BY <1>1, <2>2
    <3> QED BY <3>1, MaxIsMember
  <2> QED BY <2>1, <2>2
<1> QED
  BY <1>1, <1>2 DEF Clamp, e

\* Motion and buttons, in any amount.
LEMMA Motion ==
    ASSUME NEW m, NEW o, Good(m, o), NEW dx \in Int, NEW b
    PROVE  /\ Good([m EXCEPT !.kbd.mouse_dx = dx], o)
           /\ Good([m EXCEPT !.kbd.mouse_dx = dx, !.kbd.mouse_buttons = b], o)
<1> DEFINE k == [m.kbd EXCEPT !.mouse_dx = dx]
           l == [k EXCEPT !.mouse_buttons = b]
<1>1. KbdOK(k) /\ k.q = m.kbd.q /\ k.pending = m.kbd.pending /\ k.mode = m.kbd.mode
  BY GoodFields, KbdFields
<1>2. KbdOK(l) /\ l.q = m.kbd.q /\ l.pending = m.kbd.pending /\ l.mode = m.kbd.mode
  <2> HIDE DEF k
  <2> QED BY <1>1, KbdFields
<1>3. [m EXCEPT !.kbd.mouse_dx = dx] = [m EXCEPT !.kbd = k]
  BY GoodFields
<1>4. [m EXCEPT !.kbd.mouse_dx = dx, !.kbd.mouse_buttons = b] = [m EXCEPT !.kbd = l]
  BY GoodFields
<1> HIDE DEF k, l
<1> QED
  BY <1>1, <1>2, <1>3, <1>4, Registers

LEMMA SendPacket ==
    ASSUME NEW m, NEW o, Good(m, o)
    PROVE  Good(ps2_mouse_send_packet(m), o)
<1> DEFINE dx == m.kbd.mouse_dx - Clamp(m.kbd.mouse_dx)
<1>1. m.kbd.mouse_dx \in Int
  BY GoodFields, KbdFields
<1>2. dx \in Int
  BY <1>1, ClampType
<1>3. [m EXCEPT !.kbd.mouse_dx = @ - Clamp(@)] = [m EXCEPT !.kbd.mouse_dx = dx]
  OBVIOUS
<1> HIDE DEF dx
<1> QED
  BY <1>2, <1>3, Motion, Queue, PacketSize DEF ps2_mouse_send_packet

LEMMA MouseEvent ==
    ASSUME NEW m, NEW o, Good(m, o), NEW dx \in Int, NEW b
    PROVE  Good(ps2_mouse_event(m, dx, b), o)
<1> DEFINE total == m.kbd.mouse_dx + dx
           moved == [m EXCEPT !.kbd.mouse_dx = @ + dx, !.kbd.mouse_buttons = b]
           packets == Max({1, total, -total})
           w == [moved EXCEPT !.kbd.mouse_dx = 0]
<1>1. m.kbd.mouse_dx \in Int
  BY GoodFields, KbdFields
<1>2. total \in Int
  BY <1>1
<1>3. moved = [m EXCEPT !.kbd.mouse_dx = total, !.kbd.mouse_buttons = b]
  OBVIOUS
<1>4. Good(moved, o)
  <2> HIDE DEF total, moved
  <2>1. Good([m EXCEPT !.kbd.mouse_dx = total, !.kbd.mouse_buttons = b], o)
    BY <1>2, Motion, Zenon
  <2> QED BY <1>3, <2>1, Zenon
<1>5. Good(w, o)
  <2> HIDE DEF moved
  <2>1. 0 \in Int
    OBVIOUS
  <2> QED BY <1>4, <2>1, Motion, Zenon
<1>6. packets * Packet(m) \in Nat
  <2> HIDE DEF total
  <2>1. packets \in {1, total, -total} /\ packets >= 1
    <3> DEFINE S == {1, total, -total}
    <3>1. \E e \in S : S \subseteq Int /\ \A y \in S : e >= y
      BY <1>2
    <3>2. PICK e \in S : S \subseteq Int /\ \A y \in S : e >= y
      BY <3>1
    <3>3. 1 \in S /\ packets = Max(S)
      OBVIOUS
    <3> HIDE DEF S, packets
    <3>4. packets \in S /\ \A y \in S : packets >= y
      BY <3>2, <3>3, MaxIsMember
    <3> QED BY <3>3, <3>4 DEF S
  <2>2. packets \in Nat
    <3> HIDE DEF packets
    <3> QED BY <1>2, <2>1
  <2> HIDE DEF packets
  <2> QED BY <2>2, PacketSize
<1>7. Good(ps2_queue(w, "aux", packets * Packet(m)), o)
  <2> HIDE DEF w, packets
  <2> QED BY <1>5, <1>6, Queue
<1>8. Good([m EXCEPT !.kbd.mouse_dx = 0], o)
  <2>1. 0 \in Int
    OBVIOUS
  <2> QED BY <2>1, Motion, Zenon
<1> DEFINE e == ps2_mouse_event(m, dx, b)
           still == total = 0 /\ m.kbd.mouse_buttons = b
           full == m.kbd.remote \/ m.kbd.q["aux"] >= QueueSize - EventRoom
<1>9. e = (IF ~m.kbd.enabled THEN m
           ELSE IF still THEN [m EXCEPT !.kbd.mouse_dx = 0]
           ELSE IF full THEN moved
           ELSE ps2_queue(w, "aux", packets * Packet(m)))
  BY Zenon DEF ps2_mouse_event
<1> HIDE DEF moved, w, packets, e, still, full
<1>10. Good(e, o)
  BY <1>4, <1>7, <1>8, <1>9, Zenon
<1> QED
  BY <1>10, Zenon DEF e

\* The registers the commands of the mouse write.
LEMMA MouseRegisters ==
    ASSUME NEW m, NEW o, Good(m, o), NEW v
    PROVE  /\ Good([m EXCEPT !.kbd.remote = v], o)
           /\ Good([m EXCEPT !.kbd.enabled = v], o)
           /\ v \in BOOLEAN => Good([m EXCEPT !.kbd.mouse_wrap = v], o)
           /\ v \in {"none", "set_res", "set_sample"} => Good([m EXCEPT !.kbd.mouse_arg = v], o)
           /\ Good([m EXCEPT !.kbd.mouse_type = v], o)
           /\ v \in WriteCommands \cup {"none"} => Good([m EXCEPT !.kbd.write_cmd = v], o)
<1> DEFINE k1 == [m.kbd EXCEPT !.remote = v]
           k2 == [m.kbd EXCEPT !.enabled = v]
           k3 == [m.kbd EXCEPT !.mouse_wrap = v]
           k4 == [m.kbd EXCEPT !.mouse_arg = v]
           k5 == [m.kbd EXCEPT !.mouse_type = v]
           k6 == [m.kbd EXCEPT !.write_cmd = v]
           Plain(k) == k.q = m.kbd.q /\ k.pending = m.kbd.pending /\ k.mode = m.kbd.mode
<1>1. Plain(k1) /\ Plain(k2) /\ Plain(k3) /\ Plain(k4) /\ Plain(k5) /\ Plain(k6)
  BY GoodFields, KbdFields
<1>2. KbdOK(k1) /\ KbdOK(k2) /\ KbdOK(k5)
  BY GoodFields, KbdFields
<1>3. v \in BOOLEAN => KbdOK(k3)
  BY GoodFields, KbdFields
<1>4. v \in {"none", "set_res", "set_sample"} => KbdOK(k4)
  BY GoodFields, KbdFields
<1>5. v \in WriteCommands \cup {"none"} => KbdOK(k6)
  BY GoodFields, KbdFields
<1>6. /\ [m EXCEPT !.kbd.remote = v] = [m EXCEPT !.kbd = k1]
      /\ [m EXCEPT !.kbd.enabled = v] = [m EXCEPT !.kbd = k2]
      /\ [m EXCEPT !.kbd.mouse_wrap = v] = [m EXCEPT !.kbd = k3]
      /\ [m EXCEPT !.kbd.mouse_arg = v] = [m EXCEPT !.kbd = k4]
      /\ [m EXCEPT !.kbd.mouse_type = v] = [m EXCEPT !.kbd = k5]
      /\ [m EXCEPT !.kbd.write_cmd = v] = [m EXCEPT !.kbd = k6]
  BY GoodFields
<1> HIDE DEF k1, k2, k3, k4, k5, k6
<1>7. \A k : KbdOK(k) /\ Plain(k) => Good([m EXCEPT !.kbd = k], o)
  BY Registers
<1> QED
  BY <1>1, <1>2, <1>3, <1>4, <1>5, <1>6, <1>7

LEMMA MouseCommand ==
    ASSUME NEW m, NEW o, Good(m, o), NEW cmd \in MouseCommands
    PROVE  Good(mouse_command(m, cmd), o)
<1>1. ASSUME NEW w, Good(w, o), NEW n \in {1, 2, 3, 4}
      PROVE  Good(ps2_queue(w, "aux", n), o)
  BY <1>1, Queue
<1>2. CASE cmd \in {"scale", "get_type", "get_scale"}
  BY <1>1, <1>2 DEF mouse_command
<1>3. CASE cmd = "stream"
  <2>1. Good([m EXCEPT !.kbd.remote = FALSE], o)
    BY MouseRegisters, Zenon
  <2> QED BY <1>1, <1>3, <2>1 DEF mouse_command
<1>4. CASE cmd = "remote"
  <2>1. Good([m EXCEPT !.kbd.remote = TRUE], o)
    BY MouseRegisters, Zenon
  <2> QED BY <1>1, <1>4, <2>1 DEF mouse_command
<1>5. CASE cmd = "wrap"
  <2>1. Good([m EXCEPT !.kbd.mouse_wrap = TRUE], o)
    <3>1. TRUE \in BOOLEAN
      OBVIOUS
    <3> QED BY <3>1, MouseRegisters, Zenon
  <2> QED BY <1>1, <1>5, <2>1 DEF mouse_command
<1>6. CASE cmd \in {"set_res", "set_sample"}
  <2>1. Good([m EXCEPT !.kbd.mouse_arg = cmd], o)
    <3>1. cmd \in {"none", "set_res", "set_sample"}
      BY <1>6
    <3> QED BY <3>1, MouseRegisters, Zenon
  <2> QED BY <1>1, <1>6, <2>1 DEF mouse_command
<1>7. CASE cmd = "poll"
  <2>1. Good(ps2_mouse_send_packet(ps2_queue(m, "aux", 1)), o)
    BY <1>1, SendPacket
  <2> QED BY <1>7, <2>1 DEF mouse_command
<1>8. CASE cmd \in {"enable", "disable"}
  <2>1. Good([m EXCEPT !.kbd.enabled = TRUE], o) /\ Good([m EXCEPT !.kbd.enabled = FALSE], o)
    BY MouseRegisters, Zenon
  <2> QED BY <1>1, <1>8, <2>1 DEF mouse_command
<1> DEFINE a == [m EXCEPT !.kbd.enabled = FALSE]
           d == [a EXCEPT !.kbd.remote = FALSE]
           t == [d EXCEPT !.kbd.mouse_type = 0]
<1>9. Good(d, o) /\ Good(t, o)
  <2>1. Good(a, o)
    BY MouseRegisters, Zenon
  <2> HIDE DEF a
  <2>2. Good(d, o)
    BY <2>1, MouseRegisters, Zenon
  <2> HIDE DEF d
  <2>3. Good(t, o)
    BY <2>2, MouseRegisters, Zenon
  <2> QED BY <2>2, <2>3
<1>10. [m EXCEPT !.kbd.enabled = FALSE, !.kbd.remote = FALSE] = d
  BY GoodFields
<1> HIDE DEF d
<1>11. CASE cmd = "default"
  BY <1>1, <1>9, <1>10, <1>11 DEF mouse_command
<1>12. CASE cmd = "reset"
  BY <1>1, <1>9, <1>10, <1>12 DEF mouse_command
<1>13. CASE cmd \in {"reset_wrap", "unknown"}
  BY <1>13 DEF mouse_command
<1> QED
  BY <1>2, <1>3, <1>4, <1>5, <1>6, <1>7, <1>8, <1>11, <1>12, <1>13 DEF MouseCommands

\* The detection of the mouse's type writes two registers.
LEMMA Detect ==
    ASSUME NEW k, KbdOK(k), NEW rate
    PROVE  LET d == detect(k, rate)
           IN  KbdOK(d) /\ d.q = k.q /\ d.pending = k.pending /\ d.mode = k.mode
<1> DEFINE Like(d) == KbdOK(d) /\ d.q = k.q /\ d.pending = k.pending /\ d.mode = k.mode
<1>1. ASSUME NEW x \in 0 .. 3, NEW t
      PROVE  /\ Like([k EXCEPT !.mouse_detect_state = x])
             /\ Like([k EXCEPT !.mouse_detect_state = x, !.mouse_type = t])
  BY KbdFields
<1> HIDE DEF Like
<1>2. k.mouse_detect_state \in 0 .. 3
  BY KbdFields
<1>3. ASSUME k.mouse_detect_state = 0 PROVE Like(detect(k, rate))
  <2> DEFINE x == IF rate = 200 THEN 1 ELSE 0
  <2>1. x \in 0 .. 3
    OBVIOUS
  <2>2. detect(k, rate) = [k EXCEPT !.mouse_detect_state = x]
    BY <1>3 DEF detect
  <2> HIDE DEF x
  <2> QED BY <1>1, <2>1, <2>2, Zenon
<1>4. ASSUME k.mouse_detect_state = 1 PROVE Like(detect(k, rate))
  <2> DEFINE x == IF rate = 100 THEN 2 ELSE IF rate = 200 THEN 3 ELSE 0
  <2>1. x \in 0 .. 3
    OBVIOUS
  <2>2. detect(k, rate) = [k EXCEPT !.mouse_detect_state = x]
    BY <1>4 DEF detect
  <2> HIDE DEF x
  <2> QED BY <1>1, <2>1, <2>2, Zenon
<1>5. ASSUME k.mouse_detect_state \in {2, 3} PROVE Like(detect(k, rate))
  <2> DEFINE t == IF rate # 80 THEN k.mouse_type
                  ELSE IF k.mouse_detect_state = 2 THEN 3 ELSE 4
  <2>1. 0 \in 0 .. 3
    OBVIOUS
  <2>2. detect(k, rate) = [k EXCEPT !.mouse_detect_state = 0, !.mouse_type = t]
    BY <1>5, KbdFields DEF detect
  <2> HIDE DEF t
  <2> QED BY <1>1, <2>1, <2>2, Zenon
<1> QED
  BY <1>2, <1>3, <1>4, <1>5 DEF Like

LEMMA WriteMouse ==
    ASSUME NEW m, NEW o, Good(m, o), NEW cmd \in MouseCommands, NEW rate
    PROVE  Good(ps2_write_mouse(m, cmd, rate), o)
<1> DEFINE taken == [m EXCEPT !.kbd.mouse_arg = "none"]
<1>1. Good(taken, o)
  <2>1. "none" \in {"none", "set_res", "set_sample"}
    OBVIOUS
  <2> QED BY <2>1, MouseRegisters, Zenon
<1>2. KbdOK(m.kbd)
  BY GoodFields
<1>3. m.kbd.mouse_arg \in {"none", "set_res", "set_sample"} /\ m.kbd.mouse_wrap \in BOOLEAN
  BY <1>2, KbdFields
<1>4. CASE m.kbd.mouse_arg = "set_res"
  <2>1. Good(ps2_queue(taken, "aux", 1), o)
    <3> HIDE DEF taken
    <3> QED BY <1>1, Queue
  <2> QED BY <1>4, <2>1 DEF ps2_write_mouse
<1>5. CASE m.kbd.mouse_arg = "set_sample"
  <2> DEFINE d == detect(taken.kbd, rate)
             w == [taken EXCEPT !.kbd = d]
  <2>1. ps2_write_mouse(m, cmd, rate) = ps2_queue(w, "aux", 1)
    BY <1>5 DEF ps2_write_mouse
  <2> HIDE DEF taken
  <2>2. Good(w, o)
    <3>1. KbdOK(taken.kbd)
      BY <1>1, GoodFields
    <3>2. KbdOK(d) /\ d.q = taken.kbd.q /\ d.pending = taken.kbd.pending /\ d.mode = taken.kbd.mode
      BY <3>1, Detect, Zenon
    <3> HIDE DEF d
    <3> QED BY <1>1, <3>2, Registers
  <2> HIDE DEF w
  <2> QED BY <2>1, <2>2, Queue
<1>6. CASE m.kbd.mouse_arg = "none" /\ m.kbd.mouse_wrap /\ cmd # "reset"
  <2> DEFINE v == cmd # "reset_wrap"
             w == [m EXCEPT !.kbd.mouse_wrap = v]
  <2>1. v \in BOOLEAN
    OBVIOUS
  <2>2. ps2_write_mouse(m, cmd, rate) = ps2_queue(w, "aux", 1)
    BY <1>6 DEF ps2_write_mouse
  <2> HIDE DEF v
  <2>3. Good(w, o)
    BY <2>1, MouseRegisters, Zenon
  <2> HIDE DEF w
  <2> QED BY <2>2, <2>3, Queue
<1>7. CASE m.kbd.mouse_arg = "none" /\ ~(m.kbd.mouse_wrap /\ cmd # "reset")
  <2>1. ps2_write_mouse(m, cmd, rate) = mouse_command(m, cmd)
    BY <1>7 DEF ps2_write_mouse
  <2> QED BY <2>1, MouseCommand
<1> QED
  BY <1>3, <1>4, <1>5, <1>6, <1>7

\* The mode: the lines follow it at once, except for the bit that disables
\* the mouse, which no line depends on.
LEMMA WriteMode ==
    ASSUME NEW m, NEW o, Good(m, o), NEW mode
    PROVE  Good(kbd_update_irq([m EXCEPT !.kbd.mode = mode]), o)
<1> DEFINE k == [m.kbd EXCEPT !.mode = mode]
           n == kbd_update_irq([m EXCEPT !.kbd = k])
<1>1. KbdOK(k) /\ k.q = m.kbd.q /\ k.pending = m.kbd.pending
  BY GoodFields, KbdFields
<1>2. [m EXCEPT !.kbd.mode = mode] = [m EXCEPT !.kbd = k]
  BY GoodFields
<1> HIDE DEF k
<1>3. Machine(n) /\ n.kbd = k /\ n.ide = m.ide /\ Announced(n, o)
  BY <1>1, ChangeKbd DEF Good
<1>4. Exact(k)
  BY <1>1 DEF Good, Exact
<1> HIDE DEF n
<1>5. Good(n, o)
  BY <1>3, <1>4 DEF Good
<1> QED
  BY <1>2, <1>5 DEF n

LEMMA WriteCommand ==
    ASSUME NEW m, NEW o, Good(m, o), NEW cmd \in ControllerCommands
    PROVE  Good(kbd_write_command(m, cmd), o)
<1>1. CASE cmd \in {"read_mode", "answer", "ignored"}
  <2>1. Good(ps2_queue(m, "aux", 1), o) /\ Good(ps2_queue(m, "kbd", 1), o)
    BY Queue
  <2> QED BY <1>1, <2>1 DEF kbd_write_command, WriteCommands
<1>2. CASE cmd \in WriteCommands
  <2>1. Good([m EXCEPT !.kbd.write_cmd = cmd], o)
    <3>1. cmd \in WriteCommands \cup {"none"}
      BY <1>2
    <3> QED BY <3>1, MouseRegisters, Zenon
  <2> QED BY <1>2, <2>1 DEF kbd_write_command, WriteCommands
<1>3. CASE cmd \in {"mouse_disable", "mouse_enable"}
  <2> DEFINE mode == IF cmd = "mouse_disable" THEN m.kbd.mode \cup {"disable_mouse"}
                     ELSE m.kbd.mode \ {"disable_mouse"}
             k == [m.kbd EXCEPT !.mode = mode]
  <2>1. KbdOK(k) /\ k.q = m.kbd.q /\ k.pending = m.kbd.pending /\ k.mode = mode
    <3> HIDE DEF mode
    <3> QED BY GoodFields, KbdFields
  <2>2. kbd_write_command(m, cmd) = [m EXCEPT !.kbd = k]
    BY <1>3, GoodFields DEF kbd_write_command, WriteCommands
  <2> HIDE DEF k
  <2>3. Exact(k)
    BY <2>1 DEF Good, Exact
  <2>4. KbdLevel(k) <=> KbdLevel(m.kbd)
    BY <2>1 DEF KbdLevel
  <2>5. MouseLevel(k) <=> MouseLevel(m.kbd)
    BY <2>1 DEF MouseLevel
  <2> QED BY <2>1, <2>2, <2>3, <2>4, <2>5, QuietKbd
<1>4. CASE cmd = "kbd_disable"
  <2> DEFINE mode == m.kbd.mode \cup {"disable_kbd"}
  <2>1. kbd_write_command(m, cmd) = kbd_update_irq([m EXCEPT !.kbd.mode = mode])
    BY <1>4 DEF kbd_write_command, WriteCommands
  <2> HIDE DEF mode
  <2> QED BY <2>1, WriteMode, Zenon
<1>5. CASE cmd = "kbd_enable"
  <2> DEFINE mode == m.kbd.mode \ {"disable_kbd"}
  <2>1. kbd_write_command(m, cmd) = kbd_update_irq([m EXCEPT !.kbd.mode = mode])
    BY <1>5 DEF kbd_write_command, WriteCommands
  <2> HIDE DEF mode
  <2> QED BY <2>1, WriteMode, Zenon
<1> QED
  BY <1>1, <1>2, <1>3, <1>4, <1>5 DEF ControllerCommands

LEMMA WriteData ==
    ASSUME NEW m, NEW o, Good(m, o), NEW arg, arg.kbd \in KbdCommands,
           arg.mouse \in MouseCommands
    PROVE  Good(kbd_write_data(m, arg), o)
<1> DEFINE done == [m EXCEPT !.kbd.write_cmd = "none"]
           w == m.kbd.write_cmd
<1>1. Good(done, o)
  <2>1. "none" \in WriteCommands \cup {"none"}
    OBVIOUS
  <2> QED BY <2>1, MouseRegisters, Zenon
<1>2. w \in WriteCommands \cup {"none"}
  BY GoodFields, KbdFields
<1>3. kbd_write_data(m, arg) =
        CASE w = "none" -> ps2_write_keyboard(done, arg.kbd)
          [] w = "write_mode" -> kbd_update_irq([done EXCEPT !.kbd.mode = arg.mode])
          [] w = "write_obuf" -> ps2_queue(done, "kbd", 1)
          [] w = "write_aux_obuf" -> ps2_queue(done, "aux", 1)
          [] w = "write_mouse" -> ps2_write_mouse(done, arg.mouse, arg.rate)
          [] w = "write_outport" -> done
  BY DEF kbd_write_data
<1> HIDE DEF done
<1>4. Good(ps2_write_keyboard(done, arg.kbd), o)
  BY <1>1, WriteKeyboard
<1>5. Good(kbd_update_irq([done EXCEPT !.kbd.mode = arg.mode]), o)
  BY <1>1, WriteMode, Zenon
<1>6. Good(ps2_queue(done, "kbd", 1), o) /\ Good(ps2_queue(done, "aux", 1), o)
  BY <1>1, Queue
<1>7. Good(ps2_write_mouse(done, arg.mouse, arg.rate), o)
  BY <1>1, WriteMouse
<1> QED
  BY <1>1, <1>2, <1>3, <1>4, <1>5, <1>6, <1>7 DEF WriteCommands

LEMMA VmRegisters ==
    ASSUME NEW m, NEW o, Good(m, o), NEW v, NEW u
    PROVE  /\ Good([m EXCEPT !.kbd.vm_enabled = u], o)
           /\ v \in Int => Good([m EXCEPT !.kbd.vm_fifo = v], o)
           /\ v \in Int => Good([m EXCEPT !.kbd.vm_fifo = v, !.kbd.vm_enabled = u], o)
<1> DEFINE k1 == [m.kbd EXCEPT !.vm_enabled = u]
           k2 == [m.kbd EXCEPT !.vm_fifo = v]
           k3 == [m.kbd EXCEPT !.vm_fifo = v, !.vm_enabled = u]
           Like(k) == /\ KbdOK(k) /\ k.q = m.kbd.q /\ k.pending = m.kbd.pending
                      /\ k.mode = m.kbd.mode
<1>1. Like(k1) /\ (v \in Int => Like(k2) /\ Like(k3))
  <2>1. Like(k1)
    BY GoodFields, KbdFields
  <2>2. v \in Int => Like(k2)
    BY GoodFields, KbdFields
  <2>3. v \in Int => Like(k3)
    BY GoodFields, KbdFields
  <2> QED BY <2>1, <2>2, <2>3
<1>2. /\ [m EXCEPT !.kbd.vm_enabled = u] = [m EXCEPT !.kbd = k1]
      /\ [m EXCEPT !.kbd.vm_fifo = v] = [m EXCEPT !.kbd = k2]
      /\ [m EXCEPT !.kbd.vm_fifo = v, !.kbd.vm_enabled = u] = [m EXCEPT !.kbd = k3]
  BY GoodFields
<1> HIDE DEF k1, k2, k3
<1>3. \A k : Like(k) => Good([m EXCEPT !.kbd = k], o)
  BY Registers
<1> QED
  BY <1>1, <1>2, <1>3

LEMMA VmMouseEvent ==
    ASSUME NEW m, NEW o, Good(m, o), NEW dx \in Int, NEW b
    PROVE  Good(vmmouse_send_mouse_event(m, dx, b), o)
<1> DEFINE v == m.kbd.vm_fifo + 4
           w == [m EXCEPT !.kbd.vm_fifo = v]
<1>1. Good(w, o)
  <2>1. v \in Int
    BY GoodFields, KbdFields
  <2> HIDE DEF v
  <2> QED BY <2>1, VmRegisters, Zenon
<1>2. Good(ps2_mouse_event(m, dx, b), o)
  BY MouseEvent
<1>3. Good(ps2_mouse_event(w, 1, 0), o)
  <2> HIDE DEF w
  <2> QED BY <1>1, MouseEvent
<1> QED
  BY <1>2, <1>3 DEF vmmouse_send_mouse_event

LEMMA VmMouseHandler ==
    ASSUME NEW m, NEW o, Good(m, o), NEW cmd \in {"data", "read_id", "disable"}, NEW size \in Int
    PROVE  Good(vmmouse_handler(m, cmd, size), o)
<1>a. m.kbd.vm_fifo \in Int
  BY GoodFields, KbdFields
<1>1. CASE cmd = "disable"
  <2>1. Good([m EXCEPT !.kbd.vm_enabled = FALSE], o)
    BY VmRegisters, Zenon
  <2> QED BY <1>1, <2>1 DEF vmmouse_handler
<1>2. CASE cmd = "data"
  <2> DEFINE v == m.kbd.vm_fifo - size
             big == size > 6 \/ size > m.kbd.vm_fifo
  <2>1. vmmouse_handler(m, cmd, size) = IF big THEN [m EXCEPT !.kbd.vm_enabled = FALSE]
                                        ELSE [m EXCEPT !.kbd.vm_fifo = v]
    BY <1>2 DEF vmmouse_handler
  <2>3. v \in Int
    BY <1>a
  <2> HIDE DEF v, big
  <2>2. Good([m EXCEPT !.kbd.vm_enabled = FALSE], o) /\ Good([m EXCEPT !.kbd.vm_fifo = v], o)
    BY <2>3, VmRegisters, Zenon
  <2> QED BY <2>1, <2>2
<1>3. CASE cmd = "read_id"
  <2> DEFINE v == m.kbd.vm_fifo + 1
             room == m.kbd.vm_fifo < FifoSize
  <2>1. Good([m EXCEPT !.kbd.vm_fifo = v, !.kbd.vm_enabled = TRUE], o)
    <3>1. v \in Int
      BY <1>a
    <3> HIDE DEF v
    <3> QED BY <3>1, VmRegisters, Zenon
  <2>2. room <=> ~(m.kbd.vm_fifo >= FifoSize)
    BY <1>a, InputConstants
  <2>3. vmmouse_handler(m, cmd, size) =
            IF room THEN [m EXCEPT !.kbd.vm_fifo = v, !.kbd.vm_enabled = TRUE] ELSE m
    BY <1>3, <2>2 DEF vmmouse_handler
  <2> HIDE DEF v, room
  <2> QED BY <2>1, <2>3
<1> QED
  BY <1>1, <1>2, <1>3

-----------------------------------------------------------------------------
(* The timers                                                              *)

\* The interval timer's and the clock's registers, its interrupt flag aside.
LEMMA SetPit ==
    ASSUME NEW m, NEW o, Good(m, o), NEW t, PitOK(t)
    PROVE  Good([m EXCEPT !.pit = t], o)
<1> DEFINE n == [m EXCEPT !.pit = t]
<1>1. /\ DOMAIN n = DOMAIN m /\ n.kbd = m.kbd /\ n.pic = m.pic /\ n.pit = t
      /\ n.rtc = m.rtc /\ n.ide = m.ide
  BY DEF Good, Machine
<1> HIDE DEF n
<1>2. Machine(n)
  BY <1>1 DEF Good, Machine
<1>3. Announced(n, o)
  BY <1>1 DEF Good, Announced, KbdIrr, KbdLast, RtcIrr, RtcLast, MouseIrr, MouseLast
<1> QED
  BY <1>1, <1>2, <1>3 DEF Good, n

LEMMA SetRtc ==
    ASSUME NEW m, NEW o, Good(m, o), NEW r, RtcOK(r), r.level = m.rtc.level
    PROVE  Good([m EXCEPT !.rtc = r], o)
<1> DEFINE n == [m EXCEPT !.rtc = r]
<1>1. /\ DOMAIN n = DOMAIN m /\ n.kbd = m.kbd /\ n.pic = m.pic /\ n.pit = m.pit
      /\ n.rtc = r /\ n.ide = m.ide
  BY DEF Good, Machine
<1> HIDE DEF n
<1>2. Machine(n)
  BY <1>1 DEF Good, Machine
<1>3. Announced(n, o)
  BY <1>1 DEF Good, Announced, KbdIrr, KbdLast, RtcIrr, RtcLast, MouseIrr, MouseLast
<1> QED
  BY <1>1, <1>2, <1>3 DEF Good, n

LEMMA TimerFields ==
    ASSUME NEW m, NEW o, Good(m, o)
    PROVE  /\ PitOK(m.pit) /\ RtcOK(m.rtc) /\ {"pit", "rtc"} \subseteq DOMAIN m
           /\ DOMAIN m.pit = {"periodic", "rw_state", "count", "lag", "fired"}
           /\ m.pit.rw_state \in 0 .. 5
           /\ DOMAIN m.rtc = {"pie", "rate", "period", "late", "level"} /\ m.rtc.level \in BOOLEAN
  BY DEF Good, Machine, PitOK, RtcOK, pit_init, cmos_init

LEMMA PitRegister ==
    ASSUME NEW m, NEW o, Good(m, o), NEW v, NEW f, NEW c
    PROVE  /\ v \in 0 .. 5 => Good([m EXCEPT !.pit.rw_state = v], o)
           /\ v \in 0 .. 5 => Good([m EXCEPT !.pit.rw_state = v, !.pit.periodic = f], o)
           /\ Good([m EXCEPT !.pit.lag = v, !.pit.fired = f], o)
           /\ Good([m EXCEPT !.pit.count = c, !.pit.lag = v, !.pit.fired = f], o)
           /\ Good([m EXCEPT !.pit.lag = v], o)
<1> DEFINE t1 == [m.pit EXCEPT !.rw_state = v]
           t2 == [m.pit EXCEPT !.rw_state = v, !.periodic = f]
           t3 == [m.pit EXCEPT !.lag = v, !.fired = f]
           t4 == [m.pit EXCEPT !.count = c, !.lag = v, !.fired = f]
           t5 == [m.pit EXCEPT !.lag = v]
<1>1. v \in 0 .. 5 => PitOK(t1) /\ PitOK(t2)
  BY TimerFields DEF PitOK
<1>2. PitOK(t3) /\ PitOK(t4) /\ PitOK(t5)
  BY TimerFields DEF PitOK
<1>3. /\ [m EXCEPT !.pit.rw_state = v] = [m EXCEPT !.pit = t1]
      /\ [m EXCEPT !.pit.rw_state = v, !.pit.periodic = f] = [m EXCEPT !.pit = t2]
      /\ [m EXCEPT !.pit.lag = v, !.pit.fired = f] = [m EXCEPT !.pit = t3]
      /\ [m EXCEPT !.pit.count = c, !.pit.lag = v, !.pit.fired = f] = [m EXCEPT !.pit = t4]
      /\ [m EXCEPT !.pit.lag = v] = [m EXCEPT !.pit = t5]
  BY TimerFields
<1> HIDE DEF t1, t2, t3, t4, t5
<1>4. \A t : PitOK(t) => Good([m EXCEPT !.pit = t], o)
  BY SetPit
<1> QED
  BY <1>1, <1>2, <1>3, <1>4

LEMMA PitControl ==
    ASSUME NEW m, NEW o, Good(m, o), NEW access \in 0 .. 3, NEW periodic
    PROVE  Good(pit_write_control(m, access, periodic), o)
<1> DEFINE v == access - 1
<1>1. CASE access = 0
  <2>1. 4 \in 0 .. 5
    OBVIOUS
  <2>2. Good([m EXCEPT !.pit.rw_state = 4], o)
    BY <2>1, PitRegister, Zenon
  <2> QED BY <1>1, <2>2 DEF pit_write_control
<1>2. CASE access # 0
  <2>1. v \in 0 .. 5
    BY <1>2
  <2>2. pit_write_control(m, access, periodic)
          = [m EXCEPT !.pit.rw_state = v, !.pit.periodic = periodic]
    BY <1>2 DEF pit_write_control
  <2> HIDE DEF v
  <2>3. Good([m EXCEPT !.pit.rw_state = v, !.pit.periodic = periodic], o)
    BY <2>1, PitRegister, Zenon
  <2> QED BY <2>2, <2>3, Zenon
<1> QED
  BY <1>1, <1>2

LEMMA LoadCount ==
    ASSUME NEW m, NEW o, Good(m, o), NEW count
    PROVE  Good(pit_load_count(m, count), o)
  BY PitRegister, Zenon DEF pit_load_count

LEMMA PitCount ==
    ASSUME NEW m, NEW o, Good(m, o), NEW count
    PROVE  Good(pit_write_count(m, count), o)
<1> DEFINE w == [m EXCEPT !.pit.rw_state = 2]
<1>1. Good(w, o) /\ Good([m EXCEPT !.pit.rw_state = 3], o)
  <2>1. 2 \in 0 .. 5 /\ 3 \in 0 .. 5
    OBVIOUS
  <2> QED BY <2>1, PitRegister, Zenon
<1>2. Good(pit_load_count(w, count), o) /\ Good(pit_load_count(m, count), o)
  <2> HIDE DEF w
  <2> QED BY <1>1, LoadCount
<1>3. m.pit.rw_state \in {0, 1, 2, 3, 4, 5}
  BY TimerFields
<1> QED
  BY <1>1, <1>2, <1>3 DEF pit_write_count

LEMMA PitRead ==
    ASSUME NEW m, NEW o, Good(m, o)
    PROVE  Good(pit_read(m), o)
<1> DEFINE rw == m.pit.rw_state
           v == IF rw % 2 = 0 THEN rw + 1 ELSE rw - 1
<1>1. rw \in 0 .. 5
  BY TimerFields
<1>2. v \in 0 .. 5
  BY <1>1
<1>3. pit_read(m) = IF rw \in {0, 1} THEN m ELSE [m EXCEPT !.pit.rw_state = v]
  BY DEF pit_read
<1> HIDE DEF v, rw
<1>4. Good([m EXCEPT !.pit.rw_state = v], o)
  BY <1>2, PitRegister, Zenon
<1> QED
  BY <1>3, <1>4

\* A line that none of the three sources uses.
LEMMA OtherIrq ==
    ASSUME NEW m, NEW o, Sound(m, o), NEW irq \in {0, 14}, NEW level \in BOOLEAN
    PROVE  LET n == pic2_set_irq(m, irq, level) IN Sound(n, o) /\ n.ide = m.ide
<1> DEFINE n == pic2_set_irq(m, irq, level)
<1>1. SameDevices(m, n) /\ KbdLine(m, n) /\ RtcLine(m, n) /\ MouseLine(m, n)
  <2>1. irq \in {0, 1, 8, 12, 14} /\ irq # 1 /\ irq # 8 /\ irq # 12 /\ Machine(m)
    BY DEF Sound
  <2> QED BY <2>1, SetIrq, Zenon
<1> HIDE DEF n
<1>2. Announced(n, o)
  BY <1>1 DEF Sound, Announced, SameDevices, KbdLine, RtcLine, MouseLine
<1> QED
  BY <1>1, <1>2 DEF Sound, SameDevices, n

LEMMA PitUpdate ==
    ASSUME NEW m, NEW o, Good(m, o)
    PROVE  Good(pit_update_irq(m), o)
<1> DEFINE w == pic2_set_irq(m, 0, TRUE)
           n == pic2_set_irq(w, 0, FALSE)
           due == m.pit.lag >= m.pit.count /\ (m.pit.periodic \/ ~m.pit.fired)
           left == IF m.pit.periodic THEN m.pit.lag - m.pit.count ELSE 0
<1>1. Sound(w, o) /\ w.ide = m.ide
  <2>1. 0 \in {0, 14} /\ TRUE \in BOOLEAN /\ Sound(m, o)
    BY DEF Good, Sound
  <2> QED BY <2>1, OtherIrq, Zenon
<1>2. pit_update_irq(m) = IF due THEN [n EXCEPT !.pit.lag = left, !.pit.fired = TRUE] ELSE m
  BY DEF pit_update_irq, Pulse, PitIrq
<1> HIDE DEF w, due, left
<1>3. Good(n, o)
  <2>1. 0 \in {0, 14} /\ FALSE \in BOOLEAN
    OBVIOUS
  <2>2. Sound(n, o) /\ n.ide = w.ide
    BY <1>1, <2>1, OtherIrq, Zenon
  <2> HIDE DEF n
  <2> QED BY <1>1, <2>2 DEF Good, Sound
<1> HIDE DEF n
<1>4. Good([n EXCEPT !.pit.lag = left, !.pit.fired = TRUE], o)
  BY <1>3, PitRegister, Zenon
<1> QED
  BY <1>2, <1>4

LEMMA CmosTimer ==
    ASSUME NEW w, NEW o, Good(w, o), NEW phase
    PROVE  Good(cmos_update_timer(w, phase), o)
<1> DEFINE on == w.rtc.pie /\ w.rtc.rate # 0
           late == -phase
           s == [w.rtc EXCEPT !.period = w.rtc.rate, !.late = late]
           n == [w EXCEPT !.rtc = s]
<1>1. RtcOK(s) /\ s.level = w.rtc.level
  <2> HIDE DEF late
  <2> QED BY TimerFields DEF RtcOK
<1>2. cmos_update_timer(w, phase) = IF on THEN n ELSE w
  <2>1. [w EXCEPT !.rtc.period = w.rtc.rate, !.rtc.late = late] = n
    BY TimerFields
  <2> QED BY <2>1 DEF cmos_update_timer
<1> HIDE DEF s
<1>3. Good(n, o)
  BY <1>1, SetRtc
<1> HIDE DEF n
<1> QED
  BY <1>2, <1>3

LEMMA CmosWrite ==
    ASSUME NEW m, NEW o, Good(m, o), NEW reg \in {"A", "B", "other"},
           NEW rate, NEW pie, NEW phase
    PROVE  Good(cmos_write(m, reg, rate, pie, phase), o)
<1> DEFINE r == [m.rtc EXCEPT !.rate = rate]
           q == [m.rtc EXCEPT !.pie = pie]
           w == [m EXCEPT !.rtc = r]
           v == [m EXCEPT !.rtc = q]
<1>1. /\ RtcOK(r) /\ r.level = m.rtc.level
      /\ RtcOK(q) /\ q.level = m.rtc.level
  BY TimerFields DEF RtcOK
<1>2. [m EXCEPT !.rtc.rate = rate] = w /\ [m EXCEPT !.rtc.pie = pie] = v
  BY TimerFields
<1> HIDE DEF r, q
<1>3. Good(w, o) /\ Good(v, o)
  BY <1>1, SetRtc
<1> HIDE DEF w, v
<1>4. Good(cmos_update_timer(w, phase), o) /\ Good(cmos_update_timer(v, phase), o)
  BY <1>3, CmosTimer
<1>5. CASE reg = "A"
  BY <1>2, <1>4, <1>5 DEF cmos_write
<1>6. CASE reg = "B"
  BY <1>2, <1>4, <1>6 DEF cmos_write
<1>7. CASE reg = "other"
  BY <1>7 DEF cmos_write
<1> QED
  BY <1>5, <1>6, <1>7

\* The level is raised by the poll and lowered by a read of REG_C.
LEMMA RtcFlag ==
    ASSUME NEW m, NEW o, Good(m, o), NEW v \in BOOLEAN
    PROVE  LET n == pic2_set_irq([m EXCEPT !.rtc.level = v], 8, v)
           IN  Good(n, o) /\ (~v => Good(n, o \ {8}))
<1> DEFINE r == [m.rtc EXCEPT !.level = v]
           w == [m EXCEPT !.rtc = r]
           n == pic2_set_irq(w, 8, v)
<1>1. RtcOK(r) /\ r.level = v
  BY TimerFields DEF RtcOK
<1>2. [m EXCEPT !.rtc.level = v] = w
  BY TimerFields
<1> HIDE DEF r
<1>3. /\ DOMAIN w = DOMAIN m /\ w.kbd = m.kbd /\ w.pic = m.pic /\ w.pit = m.pit
      /\ w.rtc = r /\ w.ide = m.ide
  BY DEF Good, Machine
<1> HIDE DEF w
<1>4. Machine(w)
  BY <1>1, <1>3 DEF Good, Machine
<1>5. SameDevices(w, n) /\ KbdLine(w, n) /\ RtcSet(w, n, v) /\ MouseLine(w, n)
  <2>1. 8 \in {0, 1, 8, 12, 14} /\ 8 # 1 /\ 8 # 12
    OBVIOUS
  <2> QED BY <1>4, <2>1, SetIrq, Zenon
<1> HIDE DEF n
<1>6. /\ KbdIrr(n) <=> KbdIrr(m)
      /\ KbdLast(n) <=> KbdLast(m)
      /\ MouseIrr(n) <=> MouseIrr(m)
      /\ MouseLast(n) <=> MouseLast(m)
      /\ RtcLast(n) <=> v
      /\ v /\ (~RtcLast(m) \/ RtcIrr(m)) => RtcIrr(n)
  BY <1>3, <1>5 DEF KbdLine, RtcSet, MouseLine, Raised, KbdIrr, KbdLast, MouseIrr, MouseLast,
                    RtcIrr, RtcLast
<1>7. Machine(n) /\ n.kbd = m.kbd /\ n.rtc.level = v /\ n.ide = m.ide
  BY <1>1, <1>3, <1>5 DEF SameDevices
<1>8. Announced(n, o) /\ (~v => Announced(n, o \ {8}))
  BY <1>6, <1>7 DEF Good, Announced
<1>9. Good(n, o) /\ (~v => Good(n, o \ {8}))
  BY <1>7, <1>8 DEF Good
<1> QED
  BY <1>2, <1>9 DEF n

LEMMA ReadC ==
    ASSUME NEW m, NEW o, Good(m, o)
    PROVE  Good(cmos_read_c(m), o \ {8})
<1>1. FALSE \in BOOLEAN
  OBVIOUS
<1> QED
  BY <1>1, RtcFlag, Zenon DEF cmos_read_c, RtcIrq

LEMMA Late ==
    ASSUME NEW m, NEW o, Good(m, o), NEW v
    PROVE  Good([m EXCEPT !.rtc.late = v], o)
<1> DEFINE r == [m.rtc EXCEPT !.late = v]
<1>1. RtcOK(r) /\ r.level = m.rtc.level
  BY TimerFields DEF RtcOK
<1>2. [m EXCEPT !.rtc.late = v] = [m EXCEPT !.rtc = r]
  BY TimerFields
<1> HIDE DEF r
<1> QED
  BY <1>1, <1>2, SetRtc

LEMMA PollTimers ==
    ASSUME NEW m, NEW o, Good(m, o)
    PROVE  Good(poll_timers(m), o)
<1> DEFINE n == pic2_set_irq([m EXCEPT !.rtc.level = TRUE], 8, TRUE)
           v == n.rtc.late - m.rtc.period
           due == m.rtc.pie /\ m.rtc.late >= 0
           w == cmos_update_irq(m)
<1>1. Good(n, o)
  <2>1. TRUE \in BOOLEAN
    OBVIOUS
  <2> QED BY <2>1, RtcFlag, Zenon
<1>2. w = IF due THEN [n EXCEPT !.rtc.late = v] ELSE m
  BY DEF cmos_update_irq, RtcIrq
<1> HIDE DEF n, v, due, w
<1>3. Good([n EXCEPT !.rtc.late = v], o)
  BY <1>1, Late, Zenon
<1>4. Good(w, o)
  BY <1>2, <1>3
<1> QED
  BY <1>4, PitUpdate DEF poll_timers, w

-----------------------------------------------------------------------------
(* The guest and the controllers                                           *)

\* A controller that remembers no more levels than before, and whose lost
\* requests the guest was told of.
Covered(m, c, p, u) ==
    /\ PicOK(p)
    /\ \A i \in {0, 1, 4} : i \in p.last_irr => i \in m.pic[c].last_irr
    /\ c = 0 => (1 \in m.pic[0].irr => 1 \in p.irr \/ 1 \in u)
    /\ c = 1 => (0 \in m.pic[1].irr => 0 \in p.irr \/ 8 \in u)
    /\ c = 1 => (4 \in m.pic[1].irr => 4 \in p.irr \/ 12 \in u)

LEMMA NewPic ==
    ASSUME NEW m, NEW o, Good(m, o), NEW c \in 0 .. 1, NEW p, NEW u, o \subseteq u,
           Covered(m, c, p, u)
    PROVE  Good([m EXCEPT !.pic[c] = p], u)
<1> DEFINE n == [m EXCEPT !.pic[c] = p]
<1>1. SameDevices(m, n) /\ n.pic[c] = p /\ \A e \in 0 .. 1 : e # c => n.pic[e] = m.pic[e]
  BY SetPic DEF Good, Covered
<1> HIDE DEF n
<1>2. KbdLast(n) => KbdLast(m)
  BY <1>1 DEF KbdLast, Covered
<1>3. KbdIrr(m) => KbdIrr(n) \/ 1 \in u
  BY <1>1 DEF KbdIrr, Covered
<1>4. RtcLast(n) => RtcLast(m)
  BY <1>1 DEF RtcLast, Covered
<1>5. RtcIrr(m) => RtcIrr(n) \/ 8 \in u
  BY <1>1 DEF RtcIrr, Covered
<1>6. MouseLast(n) => MouseLast(m)
  BY <1>1 DEF MouseLast, Covered
<1>7. MouseIrr(m) => MouseIrr(n) \/ 12 \in u
  BY <1>1 DEF MouseIrr, Covered
<1>8. n.kbd = m.kbd /\ n.rtc = m.rtc /\ n.ide = m.ide /\ Machine(n)
  BY <1>1 DEF SameDevices
<1>9. Announced(n, u)
  BY <1>2, <1>3, <1>4, <1>5, <1>6, <1>7, <1>8 DEF Good, Announced
<1>10. Good(n, u)
  BY <1>8, <1>9 DEF Good
<1> QED
  BY <1>10 DEF n

LEMMA UpdateGood ==
    ASSUME NEW m, NEW o, Good(m, o)
    PROVE  Good(pic2_update_irq(m), o)
<1> DEFINE n == pic2_update_irq(m)
<1>1. SameDevices(m, n) /\ SameLines(m, n)
  BY UpdateIrq DEF Good
<1> HIDE DEF n
<1>2. Announced(n, o)
  BY <1>1 DEF Good, Announced, SameDevices, SameLines, KbdLine, RtcLine, MouseLine
<1> QED
  BY <1>1, <1>2 DEF Good, SameDevices, n

LEMMA IntAck ==
    ASSUME NEW p, PicOK(p), NEW irq
    PROVE  LET s == pic_intack(p, irq)
           IN  /\ PicOK(s) /\ s.last_irr = p.last_irr
               /\ \A i : i # irq => (i \in s.irr <=> i \in p.irr)
  BY PicFields DEF pic_intack

\* Acknowledging a request takes it out of the controller and tells the
\* guest its number.
LEMMA Acknowledge ==
    ASSUME NEW m, NEW o, Good(m, o)
    PROVE  Good(pic2_get_hard_intno(m), o \cup ({hard_intno(m)} \cap Sources))
<1> DEFINE irq == pic_get_irq(m.pic[0])
           irq2 == pic_get_irq(m.pic[1])
           h == hard_intno(m)
           u == o \cup ({h} \cap Sources)
           p == pic_intack(m.pic[0], irq)
           a == [m EXCEPT !.pic[0] = p]
           master == IF irq >= 0 THEN a ELSE m
           s == pic_intack(master.pic[1], irq2)
           b == [master EXCEPT !.pic[1] = s]
           both == IF irq = Cascade /\ irq2 >= 0 THEN b ELSE master
<1>1. pic2_get_hard_intno(m) = pic2_update_irq(both)
  BY DEF pic2_get_hard_intno
<1>2. h = IF irq < 0 THEN 7
          ELSE IF irq # 2 THEN irq ELSE IF irq2 >= 0 THEN 8 + irq2 ELSE 15
  BY DEF hard_intno, Cascade
<1>3. PicOK(m.pic[0]) /\ PicOK(m.pic[1])
  BY DEF Good, Machine
<1> HIDE DEF irq, irq2, h
<1>4. PicOK(p) /\ p.last_irr = m.pic[0].last_irr
      /\ \A i : i # irq => (i \in p.irr <=> i \in m.pic[0].irr)
  BY <1>3, IntAck, Zenon
<1> HIDE DEF p
<1>5. Good(m, u)
  BY DEF Good, Announced, u
<1>6. ASSUME irq >= 0 PROVE Good(a, u) /\ a.pic[1] = m.pic[1]
  <2>1. 1 \in m.pic[0].irr => 1 \in p.irr \/ 1 \in u
    <3>1. CASE irq = 1
      <4>1. h = 1
        BY <1>2, <3>1
      <4> QED BY <4>1 DEF u, Sources, KbdIrq
    <3>2. CASE irq # 1
      BY <1>4, <3>2
    <3> QED BY <3>1, <3>2
  <2>2. Covered(m, 0, p, u)
    BY <1>4, <2>1 DEF Covered
  <2> HIDE DEF u
  <2>3. 0 \in 0 .. 1 /\ 1 \in 0 .. 1 /\ 0 # 1 /\ u \subseteq u
    OBVIOUS
  <2>4. Good(a, u)
    BY <1>5, <2>2, <2>3, NewPic, Zenon
  <2>5. a.pic[1] = m.pic[1]
    BY <1>4, <1>5, <2>3, SetPic DEF Good
  <2> QED BY <2>4, <2>5
<1>7. Good(master, u) /\ master.pic[1] = m.pic[1]
  <2> HIDE DEF u, a
  <2> QED BY <1>5, <1>6
<1> HIDE DEF master
<1>8. PicOK(s) /\ s.last_irr = m.pic[1].last_irr
      /\ \A i : i # irq2 => (i \in s.irr <=> i \in m.pic[1].irr)
  <2>1. PicOK(master.pic[1])
    BY <1>3, <1>7
  <2>2. PicOK(s) /\ s.last_irr = master.pic[1].last_irr
        /\ \A i : i # irq2 => (i \in s.irr <=> i \in master.pic[1].irr)
    BY <2>1, IntAck, Zenon
  <2> QED BY <1>7, <2>2
<1> HIDE DEF s
<1>9. ASSUME irq = Cascade /\ irq2 >= 0 PROVE Good(b, u)
  <2>1. h = 8 + irq2
    BY <1>2, <1>9 DEF Cascade
  <2>2. 0 \in master.pic[1].irr => 0 \in s.irr \/ 8 \in u
    <3>1. CASE irq2 = 0
      BY <2>1, <3>1 DEF u, Sources, RtcIrq
    <3>2. CASE irq2 # 0
      BY <1>7, <1>8, <3>2
    <3> QED BY <3>1, <3>2
  <2>3. 4 \in master.pic[1].irr => 4 \in s.irr \/ 12 \in u
    <3>1. CASE irq2 = 4
      BY <2>1, <3>1 DEF u, Sources, MouseIrq
    <3>2. CASE irq2 # 4
      BY <1>7, <1>8, <3>2
    <3> QED BY <3>1, <3>2
  <2>4. Covered(master, 1, s, u)
    BY <1>7, <1>8, <2>2, <2>3 DEF Covered
  <2> HIDE DEF u
  <2>5. 1 \in 0 .. 1 /\ u \subseteq u
    OBVIOUS
  <2> QED BY <1>7, <2>4, <2>5, NewPic, Zenon
<1>10. Good(both, u)
  <2> HIDE DEF u, b
  <2> QED BY <1>7, <1>9
<1> HIDE DEF both, u
<1>11. Good(pic2_update_irq(both), u)
  BY <1>10, UpdateGood
<1> QED
  BY <1>1, <1>11 DEF u, h

\* Commands that touch neither the requests nor the levels.
LEMMA QuietPic ==
    ASSUME NEW m, NEW o, Good(m, o), NEW c \in 0 .. 1, NEW p, PicOK(p),
           p.irr = m.pic[c].irr, p.last_irr = m.pic[c].last_irr
    PROVE  Good([m EXCEPT !.pic[c] = p], o)
<1>1. Covered(m, c, p, o) /\ o \subseteq o
  BY DEF Covered
<1> QED
  BY <1>1, NewPic, Zenon

LEMMA PicIsOK == ASSUME NEW m, NEW o, Good(m, o), NEW c \in 0 .. 1
                 PROVE  PicOK(m.pic[c]) /\ DOMAIN m.pic = 0 .. 1 /\ "pic" \in DOMAIN m
  BY DEF Good, Machine

LEMMA Ocw2 ==
    ASSUME NEW m, NEW o, Good(m, o), NEW c \in 0 .. 1,
           NEW cmd \in {"auto_rotate", "eoi", "eoi_rotate", "specific", "set_priority",
                        "specific_rotate"}, NEW n
    PROVE  Good(pic_write_ocw2(m, c, cmd, n), o)
<1> DEFINE p == m.pic[c]
           Like(q) == PicOK(q) /\ q.irr = p.irr /\ q.last_irr = p.last_irr
<1>1. ASSUME NEW x, NEW y
      PROVE  /\ Like([p EXCEPT !.rotate_on_autoeoi = x])
             /\ Like([p EXCEPT !.isr = x])
             /\ Like([p EXCEPT !.isr = x, !.priority_add = y])
             /\ Like([p EXCEPT !.priority_add = y])
  BY PicIsOK, PicFields
<1>2. \E q : Like(q) /\ pic_write_ocw2(m, c, cmd, n) = [m EXCEPT !.pic[c] = q]
  <2> DEFINE top == pic_get_priority(p, p.isr)
             ended == IF top >= 0 THEN p.isr \ {(top + p.priority_add) % 8} ELSE p.isr
             q == CASE cmd = "auto_rotate" -> [p EXCEPT !.rotate_on_autoeoi = (n # 0)]
                    [] cmd = "eoi" -> [p EXCEPT !.isr = ended]
                    [] cmd = "eoi_rotate" ->
                         [p EXCEPT !.isr = ended, !.priority_add = (@ + 1) % 8]
                    [] cmd = "specific" -> [p EXCEPT !.isr = @ \ {n}]
                    [] cmd = "set_priority" -> [p EXCEPT !.priority_add = (n + 1) % 8]
                    [] cmd = "specific_rotate" ->
                         [p EXCEPT !.isr = @ \ {n}, !.priority_add = (n + 1) % 8]
  <2>1. pic_write_ocw2(m, c, cmd, n) = [m EXCEPT !.pic[c] = q]
    BY DEF pic_write_ocw2
  <2> HIDE DEF Like, ended
  <2>2. Like(q)
    <3> DEFINE v == n # 0
               x == p.isr \ {n}
               y == (p.priority_add + 1) % 8
               z == (n + 1) % 8
    <3>1. /\ Like([p EXCEPT !.rotate_on_autoeoi = v]) /\ Like([p EXCEPT !.isr = ended])
          /\ Like([p EXCEPT !.isr = ended, !.priority_add = y]) /\ Like([p EXCEPT !.isr = x])
          /\ Like([p EXCEPT !.priority_add = z])
          /\ Like([p EXCEPT !.isr = x, !.priority_add = z])
      <4> HIDE DEF v, x, y, z
      <4> QED BY <1>1, Zenon
    <3> HIDE DEF v
    <3>2. CASE cmd = "auto_rotate"
      <4>1. q = [p EXCEPT !.rotate_on_autoeoi = v]
        BY <3>2 DEF v
      <4> HIDE DEF q
      <4> QED BY <3>1, <4>1, Zenon
    <3>3. CASE cmd = "eoi"
      BY <3>1, <3>3
    <3>4. CASE cmd = "eoi_rotate"
      BY <3>1, <3>4
    <3>5. CASE cmd = "specific"
      BY <3>1, <3>5
    <3>6. CASE cmd = "set_priority"
      BY <3>1, <3>6
    <3>7. CASE cmd = "specific_rotate"
      <4>1. q = [p EXCEPT !.isr = x, !.priority_add = z]
        BY <3>7
      <4> HIDE DEF q
      <4> QED BY <3>1, <4>1, Zenon
    <3> QED BY <3>2, <3>3, <3>4, <3>5, <3>6, <3>7
  <2> HIDE DEF q
  <2> QED BY <2>1, <2>2
<1>3. PICK q : Like(q) /\ pic_write_ocw2(m, c, cmd, n) = [m EXCEPT !.pic[c] = q]
  BY <1>2
<1> QED
  BY <1>3, QuietPic

\* ICW1 forgets the requests of a controller, all of whose devices the
\* guest then has to look at.
LEMMA Icw1 ==
    ASSUME NEW m, NEW o, Good(m, o), NEW c \in 0 .. 1, NEW four
    PROVE  Good(pic_write_icw1(m, c, four), o \cup {s \in Sources : s \div 8 = c})
<1> DEFINE p == [pic_reset(m.pic[c]) EXCEPT !.init_state = 1, !.init4 = four]
           u == o \cup {s \in Sources : s \div 8 = c}
<1>1. PicOK(p) /\ p.last_irr = {}
  <2> DEFINE q == pic_reset(m.pic[c])
  <2>1. PicOK(q) /\ q.last_irr = {}
    BY PicFields DEF pic_reset
  <2> DEFINE r == [q EXCEPT !.init_state = 1, !.init4 = four]
  <2> HIDE DEF q
  <2>2. DOMAIN q = {"last_irr", "irr", "imr", "isr", "priority_add", "init_state",
                    "init4", "auto_eoi", "rotate_on_autoeoi", "elcr"}
    BY <2>1, PicFields, Zenon
  <2>3. DOMAIN r = DOMAIN q
    OBVIOUS
  <2>4. r.init_state = 1
    BY <2>2
  <2>5. r.last_irr = {}
    BY <2>1, <2>2
  <2>6. PicOK(r)
    <3> HIDE DEF r
    <3> QED BY <2>2, <2>3, <2>4, PicFields
  <2> QED BY <2>5, <2>6 DEF q
<1>2. (c = 0 => 1 \in u) /\ (c = 1 => 8 \in u /\ 12 \in u) /\ o \subseteq u
  BY DEF Sources, KbdIrq, MouseIrq, RtcIrq
<1>3. pic_write_icw1(m, c, four) = [m EXCEPT !.pic[c] = p]
  BY DEF pic_write_icw1
<1> HIDE DEF p, u
<1>4. Covered(m, c, p, u)
  BY <1>1, <1>2 DEF Covered
<1>5. Good([m EXCEPT !.pic[c] = p], u)
  BY <1>2, <1>4, NewPic, Zenon
<1> QED
  BY <1>3, <1>5, Zenon DEF u

\* The registers of a controller that neither hold requests nor levels.
LEMMA PicRegister ==
    ASSUME NEW m, NEW o, Good(m, o), NEW c \in 0 .. 1, NEW v, NEW a
    PROVE  /\ Good([m EXCEPT !.pic[c].imr = v], o)
           /\ Good([m EXCEPT !.pic[c].elcr = v], o)
           /\ v \in 0 .. 3 => Good([m EXCEPT !.pic[c].init_state = v], o)
           /\ v \in 0 .. 3 => Good([m EXCEPT !.pic[c].init_state = v, !.pic[c].auto_eoi = a], o)
<1> DEFINE p1 == [m.pic[c] EXCEPT !.imr = v]
           p2 == [m.pic[c] EXCEPT !.elcr = v]
           p3 == [m.pic[c] EXCEPT !.init_state = v]
           p4 == [m.pic[c] EXCEPT !.init_state = v, !.auto_eoi = a]
           Like(q) == /\ PicOK(q) /\ q.irr = m.pic[c].irr /\ q.last_irr = m.pic[c].last_irr
<1>1. Like(p1) /\ Like(p2)
  BY PicIsOK, PicFields
<1>2. v \in 0 .. 3 => Like(p3) /\ Like(p4)
  BY PicIsOK, PicFields
<1>3. /\ [m EXCEPT !.pic[c].imr = v] = [m EXCEPT !.pic[c] = p1]
      /\ [m EXCEPT !.pic[c].elcr = v] = [m EXCEPT !.pic[c] = p2]
      /\ [m EXCEPT !.pic[c].init_state = v] = [m EXCEPT !.pic[c] = p3]
      /\ [m EXCEPT !.pic[c].init_state = v, !.pic[c].auto_eoi = a] = [m EXCEPT !.pic[c] = p4]
  BY PicIsOK
<1> HIDE DEF p1, p2, p3, p4
<1>4. \A q : Like(q) => Good([m EXCEPT !.pic[c] = q], o)
  BY QuietPic
<1> QED
  BY <1>1, <1>2, <1>3, <1>4

LEMMA PicData ==
    ASSUME NEW m, NEW o, Good(m, o), NEW c \in 0 .. 1, NEW mask, NEW auto
    PROVE  Good(pic_write_data(m, c, mask, auto), o)
<1> DEFINE w == [m EXCEPT !.pic[c].imr = mask]
           v == IF m.pic[c].init4 THEN 3 ELSE 0
<1>1. m.pic[c].init_state \in {0, 1, 2, 3}
  BY PicIsOK, PicFields
<1>2. Good(w, o)
  BY PicRegister, Zenon
<1>3. Good(pic2_update_irq(w), o)
  <2> HIDE DEF w
  <2> QED BY <1>2, UpdateGood
<1>4. 0 \in 0 .. 3 /\ 2 \in 0 .. 3 /\ v \in 0 .. 3
  OBVIOUS
<1> HIDE DEF v
<1>5. /\ Good([m EXCEPT !.pic[c].init_state = 2], o)
      /\ Good([m EXCEPT !.pic[c].init_state = v], o)
      /\ Good([m EXCEPT !.pic[c].init_state = 0, !.pic[c].auto_eoi = auto], o)
  BY <1>4, PicRegister, Zenon
<1>6. CASE m.pic[c].init_state = 0
  BY <1>3, <1>6 DEF pic_write_data
<1>7. CASE m.pic[c].init_state = 1
  BY <1>5, <1>7 DEF pic_write_data
<1>8. CASE m.pic[c].init_state = 2
  BY <1>5, <1>8 DEF pic_write_data, v
<1>9. CASE m.pic[c].init_state = 3
  BY <1>5, <1>9 DEF pic_write_data
<1> QED
  BY <1>1, <1>6, <1>7, <1>8, <1>9

LEMMA ElcrWrite ==
    ASSUME NEW m, NEW o, Good(m, o), NEW c \in 0 .. 1, NEW val
    PROVE  Good(pic_elcr_write(m, c, val), o)
<1> DEFINE v == val \cap elcr_mask(c)
<1>1. pic_elcr_write(m, c, val) = [m EXCEPT !.pic[c].elcr = v]
  BY DEF pic_elcr_write
<1> HIDE DEF v
<1>2. Good([m EXCEPT !.pic[c].elcr = v], o)
  BY PicRegister, Zenon
<1> QED
  BY <1>1, <1>2, Zenon

-----------------------------------------------------------------------------
(* The disk                                                                *)

LEMMA IdeFields ==
    ASSUME NEW d
    PROVE  IdeOK(d) <=>
             /\ DOMAIN d = {"lba", "cyl", "head", "sector", "nsector", "status",
                            "mult_sectors", "req_nb_sectors", "io_nb_sectors",
                            "end_transfer", "data_index", "data_end", "io_buffer",
                            "cmd_reset", "disable_irq"}
             /\ d.cmd_reset \in BOOLEAN
  BY DEF IdeOK, ide_drive_init

LEMMA SoundFields ==
    ASSUME NEW m, NEW o, Sound(m, o)
    PROVE  IdeOK(m.ide) /\ {"ide", "disk", "io"} \subseteq DOMAIN m
  BY DEF Sound, Machine

LEMMA SetIde ==
    ASSUME NEW m, NEW o, Sound(m, o), NEW d, IdeOK(d)
    PROVE  LET n == [m EXCEPT !.ide = d]
           IN  Sound(n, o) /\ n.ide = d /\ (Phase(d) => Good(n, o))
<1> DEFINE n == [m EXCEPT !.ide = d]
<1>1. /\ DOMAIN n = DOMAIN m /\ n.kbd = m.kbd /\ n.pic = m.pic /\ n.pit = m.pit
      /\ n.rtc = m.rtc /\ n.ide = d
  BY DEF Sound, Machine
<1> HIDE DEF n
<1>2. Machine(n)
  BY <1>1 DEF Sound, Machine
<1>3. Announced(n, o)
  BY <1>1 DEF Sound, Announced, KbdIrr, KbdLast, RtcIrr, RtcLast, MouseIrr, MouseLast
<1> QED
  BY <1>1, <1>2, <1>3 DEF Sound, Good, n

\* The contents of the disk and the request with the block device.
LEMMA SetDisk ==
    ASSUME NEW m, NEW o, Sound(m, o), NEW v
    PROVE  /\ Sound([m EXCEPT !.disk = v], o) /\ [m EXCEPT !.disk = v].ide = m.ide
           /\ Sound([m EXCEPT !.io = v], o) /\ [m EXCEPT !.io = v].ide = m.ide
<1>1. ASSUME NEW n, n \in {[m EXCEPT !.disk = v], [m EXCEPT !.io = v]}
      PROVE  Sound(n, o) /\ n.ide = m.ide
  <2>1. /\ DOMAIN n = DOMAIN m /\ n.kbd = m.kbd /\ n.pic = m.pic /\ n.pit = m.pit
        /\ n.rtc = m.rtc /\ n.ide = m.ide
    BY <1>1 DEF Sound, Machine
  <2>2. Machine(n)
    BY <2>1 DEF Sound, Machine
  <2>3. Announced(n, o)
    BY <2>1 DEF Sound, Announced, KbdIrr, KbdLast, RtcIrr, RtcLast, MouseIrr, MouseLast
  <2> QED BY <2>1, <2>2, <2>3 DEF Sound
<1> QED
  BY <1>1, Zenon

LEMMA IdeSetIrq ==
    ASSUME NEW m, NEW o, Sound(m, o)
    PROVE  Sound(ide_set_irq(m), o) /\ ide_set_irq(m).ide = m.ide
<1>1. 14 \in {0, 14} /\ TRUE \in BOOLEAN
  OBVIOUS
<1>2. LET n == pic2_set_irq(m, 14, TRUE) IN Sound(n, o) /\ n.ide = m.ide
  BY <1>1, OtherIrq, Zenon
<1> QED
  BY <1>2 DEF ide_set_irq, IdeIrq

\* A change of registers, which then may raise the line.
LEMMA IdeStep ==
    ASSUME NEW m, NEW o, Sound(m, o), NEW d, IdeOK(d), Phase(d)
    PROVE  Good([m EXCEPT !.ide = d], o) /\ Good(ide_set_irq([m EXCEPT !.ide = d]), o)
<1> DEFINE n == [m EXCEPT !.ide = d]
<1>1. Sound(n, o) /\ n.ide = d /\ Good(n, o)
  BY SetIde
<1> HIDE DEF n
<1>2. Sound(ide_set_irq(n), o) /\ ide_set_irq(n).ide = n.ide
  BY <1>1, IdeSetIrq
<1>3. Good(ide_set_irq(n), o)
  BY <1>1, <1>2 DEF Good, Sound
<1> QED
  BY <1>1, <1>3 DEF n

LEMMA SetSector ==
    ASSUME NEW d, IdeOK(d), NEW n
    PROVE  LET e == ide_set_sector(d, n)
           IN  IdeOK(e) /\ e.status = d.status /\ e.end_transfer = d.end_transfer
  BY IdeFields DEF ide_set_sector

LEMMA AdvanceOK ==
    ASSUME NEW d, IdeOK(d)
    PROVE  IdeOK(Advance(d))
<1> DEFINE e == ide_set_sector(d, ide_get_sector(d) + d.io_nb_sectors)
           x == (e.nsector + CountMod - d.io_nb_sectors) % CountMod
<1>1. IdeOK(e)
  BY SetSector
<1>2. Advance(d) = [e EXCEPT !.nsector = x]
  BY DEF Advance
<1> HIDE DEF e, x
<1>3. IdeOK([e EXCEPT !.nsector = x])
  BY <1>1, IdeFields
<1> QED
  BY <1>2, <1>3

LEMMA TransferStart ==
    ASSUME NEW m, NEW o, Sound(m, o), NEW n, NEW func
    PROVE  LET w == ide_transfer_start(m, n, func)
           IN  /\ Sound(w, o)
               /\ w.ide.end_transfer = func /\ w.ide.status = m.ide.status
<1> DEFINE d == [m.ide EXCEPT !.end_transfer = func, !.data_index = 0, !.data_end = n]
<1>1. IdeOK(d) /\ d.end_transfer = func /\ d.status = m.ide.status
  BY SoundFields, IdeFields
<1>2. ide_transfer_start(m, n, func) = [m EXCEPT !.ide = d]
  BY SoundFields DEF ide_transfer_start
<1> HIDE DEF d
<1>3. LET w == [m EXCEPT !.ide = d] IN Sound(w, o) /\ w.ide = d
  BY <1>1, SetIde
<1> QED
  BY <1>1, <1>2, <1>3

\* The status is written last.
LEMMA SetStatus ==
    ASSUME NEW m, NEW o, Sound(m, o), NEW v
    PROVE  LET w == [m EXCEPT !.ide.status = v]
           IN  /\ Sound(w, o) /\ w.ide.status = v /\ w.ide.end_transfer = m.ide.end_transfer
               /\ (v = "drq" => m.ide.end_transfer \in {"read", "write", "read_end", "identify"})
                     => Good(w, o)
<1> DEFINE d == [m.ide EXCEPT !.status = v]
           w == [m EXCEPT !.ide = d]
<1>1. IdeOK(d) /\ d.status = v /\ d.end_transfer = m.ide.end_transfer
  BY SoundFields, IdeFields
<1>2. [m EXCEPT !.ide.status = v] = w
  BY SoundFields
<1> HIDE DEF d
<1>3. Sound(w, o) /\ w.ide = d /\ (Phase(d) => Good(w, o))
  BY <1>1, SetIde
<1> HIDE DEF w
<1>4. (v = "drq" => m.ide.end_transfer \in {"read", "write", "read_end", "identify"}) => Phase(d)
  BY <1>1 DEF Phase
<1> QED
  BY <1>1, <1>2, <1>3, <1>4

LEMMA ReadCb ==
    ASSUME NEW m, NEW o, Sound(m, o)
    PROVE  Good(ide_sector_read_cb(m), o)
<1> DEFINE d == Advance(m.ide)
           func == IF d.nsector = 0 THEN "read_end" ELSE "read"
           a == [m EXCEPT !.ide = d]
           ready == ide_transfer_start(a, d.io_nb_sectors, func)
           b == ide_set_irq(ready)
           c == [b EXCEPT !.ide.status = "drq"]
<1>1. IdeOK(d)
  BY SoundFields, AdvanceOK
<1>2. func \in {"read_end", "read"}
  OBVIOUS
<1>3. ide_sector_read_cb(m) = c
  BY DEF ide_sector_read_cb
<1> HIDE DEF d, func
<1>4. Sound(a, o)
  BY <1>1, SetIde
<1> HIDE DEF a
<1>5. Sound(ready, o) /\ ready.ide.end_transfer = func
  BY <1>4, TransferStart
<1> HIDE DEF ready
<1>6. Sound(b, o) /\ b.ide = ready.ide
  BY <1>5, IdeSetIrq
<1> HIDE DEF b
<1>7. Good(c, o)
  <2>1. b.ide.end_transfer \in {"read", "write", "read_end", "identify"}
    BY <1>2, <1>5, <1>6
  <2> QED BY <1>6, <2>1, SetStatus, Zenon
<1> QED
  BY <1>3, <1>7, Zenon

LEMMA WriteCb2 ==
    ASSUME NEW m, NEW o, Sound(m, o)
    PROVE  Good(ide_sector_write_cb2(m), o)
<1> DEFINE d == Advance(m.ide)
           next == Min({d.nsector, d.req_nb_sectors})
           r == [d EXCEPT !.status = "ready"]
           e == [d EXCEPT !.io_nb_sectors = next]
           a == [m EXCEPT !.ide = e]
           more == ide_transfer_start(a, next, "write")
           b == [more EXCEPT !.ide.status = "drq"]
           done == [m EXCEPT !.ide = r]
<1>1. IdeOK(d)
  BY SoundFields, AdvanceOK
<1>2. ide_sector_write_cb2(m) = ide_set_irq(IF d.nsector = 0 THEN done ELSE b)
  BY DEF ide_sector_write_cb2
<1> HIDE DEF d, next
<1>3. IdeOK(r) /\ r.status = "ready" /\ IdeOK(e)
  BY <1>1, IdeFields
<1> HIDE DEF r, e
<1>4. Good(ide_set_irq(done), o)
  <2>1. Phase(r)
    BY <1>3 DEF Phase
  <2> QED BY <1>3, <2>1, IdeStep
<1>5. Sound(a, o)
  BY <1>3, SetIde
<1> HIDE DEF a, done
<1>6. Sound(more, o) /\ more.ide.end_transfer = "write"
  BY <1>5, TransferStart
<1> HIDE DEF more
<1>7. Sound(b, o) /\ b.ide.status = "drq" /\ b.ide.end_transfer = "write"
  <2>1. Sound(b, o) /\ b.ide.status = "drq" /\ b.ide.end_transfer = more.ide.end_transfer
    BY <1>6, SetStatus, Zenon
  <2> QED BY <1>6, <2>1
<1> HIDE DEF b
<1>8. Good(ide_set_irq(b), o)
  <2>1. Sound(ide_set_irq(b), o) /\ ide_set_irq(b).ide = b.ide
    BY <1>7, IdeSetIrq
  <2> QED BY <1>7, <2>1 DEF Good, Sound, Phase
<1> QED
  BY <1>2, <1>4, <1>8

LEMMA TransferSound ==
    ASSUME NEW m, NEW o, Sound(m, o), NEW op
    PROVE  Sound(Transfer(m, op), o)
<1> DEFINE x == [i \in 1 .. m.ide.io_nb_sectors |-> m.disk[ide_get_sector(m.ide) + i - 1]]
           lba == ide_get_sector(m.ide)
           y == [s \in DOMAIN m.disk |->
                   IF s - lba \in 0 .. (m.ide.io_nb_sectors - 1)
                   THEN m.ide.io_buffer[s - lba + 1] ELSE m.disk[s]]
           d == [m.ide EXCEPT !.io_buffer = x]
<1>1. Transfer(m, op) = IF op = "read" THEN [m EXCEPT !.ide = d] ELSE [m EXCEPT !.disk = y]
  <2>1. [m EXCEPT !.ide.io_buffer = x] = [m EXCEPT !.ide = d]
    <3> HIDE DEF x
    <3> QED BY SoundFields
  <2> QED BY <2>1 DEF Transfer
<1> HIDE DEF x, y
<1>2. IdeOK(d)
  BY SoundFields, IdeFields
<1> HIDE DEF d
<1>3. Sound([m EXCEPT !.ide = d], o)
  BY <1>2, SetIde
<1>4. Sound([m EXCEPT !.disk = y], o)
  BY SetDisk, Zenon
<1> QED
  BY <1>1, <1>3, <1>4

\* A request ends: the transfer, then the callback.
LEMMA IoDone ==
    ASSUME NEW m, NEW o, Sound(m, o), NEW op
    PROVE  Good(ide_io_done(m, op), o)
<1> DEFINE t == Transfer(m, op)
           done == [t EXCEPT !.io = "none"]
<1>1. Sound(t, o)
  BY TransferSound
<1>2. ide_io_done(m, op) =
          IF op = "read" THEN ide_sector_read_cb(done) ELSE ide_sector_write_cb2(done)
  BY DEF ide_io_done
<1> HIDE DEF t
<1>3. Sound(done, o)
  BY <1>1, SetDisk, Zenon
<1> HIDE DEF done
<1> QED
  BY <1>2, <1>3, ReadCb, WriteCb2

\* However a request goes, at once, later or not at all.
LEMMA SubmitGood ==
    ASSUME NEW m, NEW o, Sound(m, o), NEW op, NEW ret \in {"fail", "sync", "async"}
    PROVE  Good(Submit(m, op, ret), o)
<1>1. CASE ret = "fail"
  <2> DEFINE w == [m EXCEPT !.ide.status = "error"]
  <2>1. Sound(w, o) /\ w.ide.status = "error"
    BY SetStatus, Zenon
  <2>2. Submit(m, op, ret) = ide_set_irq(w)
    BY <1>1 DEF Submit, ide_abort_command
  <2> HIDE DEF w
  <2>3. Sound(ide_set_irq(w), o) /\ ide_set_irq(w).ide = w.ide
    BY <2>1, IdeSetIrq
  <2> QED BY <2>1, <2>2, <2>3 DEF Good, Sound, Phase
<1>2. CASE ret = "sync"
  BY <1>2, IoDone DEF Submit
<1>3. CASE ret = "async"
  <2> DEFINE w == [m EXCEPT !.ide.status = "busy"]
             n == [w EXCEPT !.io = op]
  <2>1. Sound(w, o) /\ w.ide.status = "busy"
    BY SetStatus, Zenon
  <2>2. Submit(m, op, ret) = n
    BY <1>3, SoundFields DEF Submit
  <2> HIDE DEF w
  <2>3. Sound(n, o) /\ n.ide = w.ide
    BY <2>1, SetDisk, Zenon
  <2> HIDE DEF n
  <2> QED BY <2>1, <2>2, <2>3 DEF Good, Sound, Phase
<1> QED
  BY <1>1, <1>2, <1>3

LEMMA OutcomesType == ASSUME NEW m PROVE Outcomes(m) \subseteq {"fail", "sync", "async"}
  BY DEF Outcomes

\* The number of sectors of the next request.
LEMMA SetChunk ==
    ASSUME NEW m, NEW o, Sound(m, o), NEW v
    PROVE  LET w == [m EXCEPT !.ide.io_nb_sectors = v]
           IN  Sound(w, o)
<1> DEFINE d == [m.ide EXCEPT !.io_nb_sectors = v]
<1>1. IdeOK(d)
  BY SoundFields, IdeFields
<1>2. [m EXCEPT !.ide.io_nb_sectors = v] = [m EXCEPT !.ide = d]
  BY SoundFields
<1> HIDE DEF d
<1>3. Sound([m EXCEPT !.ide = d], o)
  BY <1>1, SetIde
<1> QED
  BY <1>2, <1>3

LEMMA SectorRead ==
    ASSUME NEW m, NEW o, Sound(m, o), NEW n \in ide_sector_read(m)
    PROVE  Good(n, o)
<1> DEFINE v == Chunk(m.ide)
           w == [m EXCEPT !.ide.io_nb_sectors = v]
<1>1. \E r \in Outcomes(w) : n = Submit(w, "read", r)
  BY DEF ide_sector_read
<1> HIDE DEF v
<1>2. Sound(w, o)
  BY SetChunk, Zenon
<1> HIDE DEF w
<1> QED
  BY <1>1, <1>2, OutcomesType, SubmitGood

LEMMA SectorWrite ==
    ASSUME NEW m, NEW o, Sound(m, o)
    PROVE  Good(ide_sector_write(m), o)
<1> DEFINE v == Chunk(m.ide)
           w == [m EXCEPT !.ide.io_nb_sectors = v]
           t == ide_transfer_start(w, v, "write")
           n == [t EXCEPT !.ide.status = "drq"]
<1>1. ide_sector_write(m) = n
  BY DEF ide_sector_write
<1> HIDE DEF v
<1>2. Sound(w, o)
  BY SetChunk, Zenon
<1> HIDE DEF w
<1>3. Sound(t, o) /\ t.ide.end_transfer = "write"
  BY <1>2, TransferStart
<1> HIDE DEF t
<1>4. t.ide.end_transfer \in {"read", "write", "read_end", "identify"}
  BY <1>3
<1>5. Good(n, o)
  BY <1>3, <1>4, SetStatus, Zenon
<1> QED
  BY <1>1, <1>5, Zenon

LEMMA WriteCb1 ==
    ASSUME NEW m, NEW o, Sound(m, o), NEW n \in ide_sector_write_cb1(m)
    PROVE  Good(n, o)
<1> DEFINE w == ide_transfer_stop(m)
<1>1. \E r \in Outcomes(w) : n = Submit(w, "write", r)
  BY DEF ide_sector_write_cb1
<1>2. Sound(w, o)
  BY TransferStart DEF ide_transfer_stop
<1> HIDE DEF w
<1> QED
  BY <1>1, <1>2, OutcomesType, SubmitGood

IdeCommands == {"identify", "recal", "setmult", "read", "write", "multread", "multwrite",
                "native_max", "unknown"}

LEMMA ExecCmd ==
    ASSUME NEW m, NEW o, Sound(m, o), NEW cmd \in IdeCommands, NEW n \in ide_exec_cmd(m, cmd)
    PROVE  Good(n, o)
<1> DEFINE d == m.ide
           none == cmd \in {"multread", "multwrite"} /\ d.mult_sectors = 0
           bad == \/ none \/ cmd = "unknown"
                  \/ cmd = "setmult" /\ (d.nsector > MaxMult \/ ~IsPowerOf2(d.nsector))
           Req(k) == [m EXCEPT !.ide.req_nb_sectors = k]
<1>1. IdeOK(d)
  BY SoundFields
<1>2. ASSUME NEW k PROVE Sound(Req(k), o)
  <2> DEFINE e == [d EXCEPT !.req_nb_sectors = k]
  <2>1. IdeOK(e)
    BY <1>1, IdeFields
  <2>2. Req(k) = [m EXCEPT !.ide = e]
    BY SoundFields
  <2> HIDE DEF e
  <2> QED BY <2>1, <2>2, SetIde
<1>3. ASSUME NEW w, Sound(w, o), w.ide.status # "drq" \/ w.ide.end_transfer = "identify"
      PROVE  Good(ide_set_irq(w), o)
  <2>1. Sound(ide_set_irq(w), o) /\ ide_set_irq(w).ide = w.ide
    BY <1>3, IdeSetIrq
  <2> QED BY <1>3, <2>1 DEF Good, Sound, Phase
<1>4. CASE bad
  <2> DEFINE w == [m EXCEPT !.ide.status = "error"]
  <2>1. Sound(w, o) /\ w.ide.status = "error"
    BY SetStatus, Zenon
  <2>2. n = ide_set_irq(w)
    BY <1>4 DEF ide_exec_cmd, ide_abort_command
  <2> HIDE DEF w
  <2> QED BY <1>3, <2>1, <2>2
<1>5. CASE cmd = "identify"
  <2> DEFINE e == [d EXCEPT !.status = "drq", !.io_buffer = <<99>>]
             a == [m EXCEPT !.ide = e]
             w == ide_transfer_start(a, 1, "identify")
  <2>1. IdeOK(e)
    BY <1>1, IdeFields
  <2>2. n = ide_set_irq(w)
    <3>1. [m EXCEPT !.ide.status = "drq", !.ide.io_buffer = <<99>>] = a
      BY SoundFields
    <3> QED BY <1>5, <3>1 DEF ide_exec_cmd
  <2> HIDE DEF e
  <2>3. Sound(a, o)
    BY <2>1, SetIde
  <2> HIDE DEF a
  <2>4. Sound(w, o) /\ w.ide.end_transfer = "identify"
    BY <2>3, TransferStart
  <2> HIDE DEF w
  <2> QED BY <1>3, <2>2, <2>4
<1>6. CASE cmd = "recal"
  <2> DEFINE w == [m EXCEPT !.ide.status = "ready"]
  <2>1. Sound(w, o) /\ w.ide.status = "ready"
    BY SetStatus, Zenon
  <2>2. n = ide_set_irq(w)
    BY <1>6 DEF ide_exec_cmd
  <2> HIDE DEF w
  <2> QED BY <1>3, <2>1, <2>2
<1>7. CASE cmd = "setmult" /\ ~bad
  <2> DEFINE e == [d EXCEPT !.mult_sectors = d.nsector, !.status = "ready"]
             w == [m EXCEPT !.ide = e]
  <2>1. IdeOK(e) /\ e.status = "ready"
    BY <1>1, IdeFields
  <2>2. n = ide_set_irq(w)
    <3>1. [m EXCEPT !.ide.mult_sectors = d.nsector, !.ide.status = "ready"] = w
      BY SoundFields
    <3> QED BY <1>7, <3>1 DEF ide_exec_cmd
  <2> HIDE DEF e
  <2>3. Sound(w, o) /\ w.ide = e
    BY <2>1, SetIde
  <2> HIDE DEF w
  <2> QED BY <1>3, <2>1, <2>2, <2>3
<1>8. CASE cmd = "read"
  <2>1. n \in ide_sector_read(Req(1))
    BY <1>8 DEF ide_exec_cmd
  <2>2. Sound(Req(1), o)
    BY <1>2
  <2> HIDE DEF Req
  <2> QED BY <2>1, <2>2, SectorRead
<1>9. CASE cmd = "write"
  <2>1. n = ide_sector_write(Req(1))
    BY <1>9 DEF ide_exec_cmd
  <2>2. Sound(Req(1), o)
    BY <1>2
  <2> HIDE DEF Req
  <2> QED BY <2>1, <2>2, SectorWrite
<1>10. CASE cmd = "multread" /\ ~bad
  <2> DEFINE k == d.mult_sectors
  <2>1. n \in ide_sector_read(Req(k))
    BY <1>10 DEF ide_exec_cmd
  <2>2. Sound(Req(k), o)
    BY <1>2
  <2> HIDE DEF Req
  <2> QED BY <2>1, <2>2, SectorRead
<1>11. CASE cmd = "multwrite" /\ ~bad
  <2> DEFINE k == d.mult_sectors
  <2>1. n = ide_sector_write(Req(k))
    BY <1>11 DEF ide_exec_cmd
  <2>2. Sound(Req(k), o)
    BY <1>2
  <2> HIDE DEF Req
  <2> QED BY <2>1, <2>2, SectorWrite
<1>12. CASE cmd = "native_max"
  <2> DEFINE s == ide_set_sector(d, DiskSectors - 1)
             e == [s EXCEPT !.status = "ready"]
             w == [m EXCEPT !.ide = e]
  <2>1. IdeOK(s)
    BY <1>1, SetSector
  <2>2. n = ide_set_irq(w)
    BY <1>12 DEF ide_exec_cmd
  <2> HIDE DEF s
  <2>3. IdeOK(e) /\ e.status = "ready"
    BY <2>1, IdeFields
  <2> HIDE DEF e
  <2>4. Sound(w, o) /\ w.ide = e
    BY <2>3, SetIde
  <2> HIDE DEF w
  <2> QED BY <1>3, <2>2, <2>3, <2>4
<1>13. cmd = "unknown" => bad
  OBVIOUS
<1> HIDE DEF bad
<1> QED
  BY <1>4, <1>5, <1>6, <1>7, <1>8, <1>9, <1>10, <1>11, <1>12, <1>13 DEF IdeCommands

LEMMA Stop ==
    ASSUME NEW m, NEW o, Sound(m, o)
    PROVE  Good(ide_transfer_stop([m EXCEPT !.ide.status = "ready"]), o)
<1> DEFINE r == [m EXCEPT !.ide.status = "ready"]
           t == ide_transfer_start(r, 0, "stop")
<1>1. Sound(r, o) /\ r.ide.status = "ready"
  BY SetStatus, Zenon
<1>2. ide_transfer_stop(r) = t
  BY DEF ide_transfer_stop
<1> HIDE DEF r
<1>3. Sound(t, o) /\ t.ide.status = r.ide.status
  BY <1>1, TransferStart
<1> HIDE DEF t
<1>4. Good(t, o)
  BY <1>1, <1>3 DEF Good, Sound, Phase
<1> QED
  BY <1>2, <1>4 DEF r

\* The data port, while data is asked for.
LEMMA NextWordGood ==
    ASSUME NEW m, NEW o, Sound(m, o),
           m.ide.end_transfer \in {"read", "write", "read_end", "identify"},
           NEW n \in NextWord(m)
    PROVE  Good(n, o)
<1> DEFINE p == m.ide.data_index + 1
           d == [m.ide EXCEPT !.data_index = p]
           w == [m EXCEPT !.ide = d]
<1>1. IdeOK(d) /\ d.end_transfer = m.ide.end_transfer
  <2> HIDE DEF p
  <2> QED BY SoundFields, IdeFields
<1>2. n \in EndTransfer(w) \/ n = w
  <2>1. [m EXCEPT !.ide.data_index = p] = w
    BY SoundFields
  <2> QED BY <2>1 DEF NextWord
<1> HIDE DEF d
<1>3. Sound(w, o) /\ w.ide = d /\ (Phase(d) => Good(w, o))
  BY <1>1, SetIde
<1> HIDE DEF w
<1>4. Good(w, o)
  BY <1>1, <1>3 DEF Phase
<1>5. ASSUME n \in EndTransfer(w) PROVE Good(n, o)
  <2>1. CASE w.ide.end_transfer = "read"
    BY <1>3, <1>5, <2>1, SectorRead DEF EndTransfer
  <2>2. CASE w.ide.end_transfer = "write"
    BY <1>3, <1>5, <2>2, WriteCb1 DEF EndTransfer
  <2>3. CASE w.ide.end_transfer \in {"read_end", "identify"}
    <3>1. n = ide_transfer_stop([w EXCEPT !.ide.status = "ready"])
      BY <1>5, <2>3 DEF EndTransfer
    <3> QED BY <1>3, <3>1, Stop
  <2> QED BY <1>1, <1>3, <2>1, <2>2, <2>3
<1> QED
  BY <1>2, <1>4, <1>5

LEMMA DataWrite ==
    ASSUME NEW m, NEW o, Sound(m, o),
           m.ide.end_transfer \in {"read", "write", "read_end", "identify"},
           NEW val, NEW n \in ide_data_writew(m, val)
    PROVE  Good(n, o)
<1> DEFINE p == m.ide.data_index
           grown == IF p < Len(m.ide.io_buffer)
                    THEN [m.ide.io_buffer EXCEPT ![p + 1] = val]
                    ELSE Append(m.ide.io_buffer, val)
           d == [m.ide EXCEPT !.io_buffer = grown]
           w == [m EXCEPT !.ide = d]
<1>1. n \in NextWord(w)
  <2>1. [m EXCEPT !.ide.io_buffer = grown] = w
    <3> HIDE DEF grown
    <3> QED BY SoundFields
  <2> QED BY <2>1 DEF ide_data_writew
<1> HIDE DEF grown
<1>2. IdeOK(d) /\ d.end_transfer = m.ide.end_transfer
  BY SoundFields, IdeFields
<1> HIDE DEF d
<1>3. Sound(w, o) /\ w.ide = d
  BY <1>2, SetIde
<1> HIDE DEF w
<1> QED
  BY <1>1, <1>2, <1>3, NextWordGood

LEMMA CmdWrite ==
    ASSUME NEW m, NEW o, Good(m, o), NEW reset \in BOOLEAN, NEW disable \in BOOLEAN
    PROVE  Good(ide_cmd_write(m, reset, disable), o)
<1> DEFINE d == m.ide
           e == CASE reset = d.cmd_reset -> d
                  [] reset /\ ~d.cmd_reset -> [d EXCEPT !.status = "busy"]
                  [] ~reset /\ d.cmd_reset ->
                       [d EXCEPT !.status = "ready", !.head = 0, !.nsector = 1,
                                 !.sector = 1, !.cyl = 0]
           f == [e EXCEPT !.cmd_reset = reset, !.disable_irq = disable]
<1>1. Sound(m, o) /\ IdeOK(d) /\ Phase(d)
  BY SoundFields DEF Good, Sound
<1>2. IdeOK(e) /\ Phase(e)
  <2>1. d.cmd_reset \in BOOLEAN
    BY <1>1, IdeFields
  <2>2. CASE reset = d.cmd_reset
    BY <1>1, <2>2
  <2>3. CASE reset /\ ~d.cmd_reset
    BY <1>1, <2>3, IdeFields DEF Phase
  <2>4. CASE ~reset /\ d.cmd_reset
    BY <1>1, <2>4, IdeFields DEF Phase
  <2> QED BY <2>1, <2>2, <2>3, <2>4
<1>3. ide_cmd_write(m, reset, disable) = [m EXCEPT !.ide = f]
  BY DEF ide_cmd_write
<1> HIDE DEF e
<1>4. IdeOK(f) /\ f.status = e.status /\ f.end_transfer = e.end_transfer
  BY <1>2, IdeFields
<1> HIDE DEF f
<1>5. Phase(f)
  BY <1>2, <1>4 DEF Phase
<1> QED
  BY <1>1, <1>3, <1>4, <1>5, SetIde

-----------------------------------------------------------------------------
(* The machine                                                             *)

LEMMA InitPcInv == Init => PcInv
<1> SUFFICES ASSUME Init PROVE PcInv
  OBVIOUS
<1> DEFINE k(detected) ==
             [i8042_init EXCEPT !.enabled = TRUE,
                                !.mouse_detect_state = detected,
                !.write_cmd = IF detected = 0 THEN "none" ELSE "write_mouse",
                !.mouse_arg = IF detected = 0 THEN "none" ELSE "set_sample"]
           pics(bios) == IF bios THEN pic2_init ELSE pic2_set_elcr(pic2_init, PciElcr)
           M(count, detected, bios) ==
             [pic |-> pics(bios), line |-> FALSE, kbd |-> k(detected),
              pit |-> pit_init(count), rtc |-> cmos_init, ide |-> ide_drive_init,
              disk |-> [s \in 0 .. (DiskSectors - 1) |-> s], io |-> "none"]
<1>a. PICK count \in Counts, detected \in IF menu = "kbd" THEN 0 .. 3 ELSE {0},
           bios \in IF menu \in {"pic", "kbd", "os"} THEN BOOLEAN ELSE {TRUE} :
        pc = M(count, detected, bios)
  BY Zenon DEF Init
<1>b. detected \in 0 .. 3
  BY <1>a
<1>1. pc = M(count, detected, bios)
  BY <1>a
<1>c. pc.kbd = k(detected)
  BY <1>1
<1>2. KbdOK(pc.kbd) /\ pc.kbd.q = [kbd |-> 0, aux |-> 0] /\ pc.kbd.pending = {}
  <2> DEFINE w == IF detected = 0 THEN "none" ELSE "write_mouse"
             a == IF detected = 0 THEN "none" ELSE "set_sample"
             l == [i8042_init EXCEPT !.enabled = TRUE, !.mouse_detect_state = detected,
                                     !.write_cmd = w, !.mouse_arg = a]
  <2>1. w \in WriteCommands \cup {"none"} /\ a \in {"none", "set_res", "set_sample"}
    BY DEF WriteCommands
  <2>2. pc.kbd = l
    BY <1>c
  <2> HIDE DEF w, a
  <2>3. /\ DOMAIN l = DOMAIN i8042_init
        /\ l.q = [kbd |-> 0, aux |-> 0] /\ l.pending = {} /\ l.write_cmd = w
        /\ l.mouse_arg = a /\ l.mouse_wrap = FALSE /\ l.mouse_detect_state = detected
        /\ l.mouse_dx = 0 /\ l.vm_fifo = 0
    BY DEF i8042_init
  <2>4. DOMAIN l.q = {"kbd", "aux"} /\ \A port \in {"kbd", "aux"} : l.q[port] \in 0 .. QueueSize
    BY <2>3, InputConstants
  <2> HIDE DEF l
  <2>5. /\ l.write_cmd \in WriteCommands \cup {"none"}
        /\ l.mouse_arg \in {"none", "set_res", "set_sample"}
        /\ l.pending \subseteq {"kbd", "aux"} /\ l.mouse_detect_state \in 0 .. 3
    BY <1>b, <2>1, <2>3
  <2>6. l.mouse_wrap \in BOOLEAN
    BY <2>3, Zenon
  <2>7. l.mouse_dx \in Int /\ l.vm_fifo \in Int
    BY <2>3
  <2>8. KbdOK(l)
    BY <2>3, <2>4, <2>5, <2>6, <2>7, Zenon DEF KbdOK
  <2> QED BY <2>2, <2>3, <2>8
<1>3. PicOK(pc.pic[0]) /\ PicOK(pc.pic[1]) /\ DOMAIN pc.pic = 0 .. 1
      /\ \A c \in 0 .. 1 : pc.pic[c].irr = {} /\ pc.pic[c].last_irr = {}
  <2>1. pc.pic = pics(bios)
    BY <1>1
  <2>2. CASE bios
    BY <2>1, <2>2, PicFields DEF pic2_init, pic_reset
  <2>3. CASE ~bios
    BY <2>1, <2>3, PicFields DEF pic2_init, pic_reset, pic2_set_elcr
  <2> QED BY <2>2, <2>3
<1>4. PitOK(pc.pit)
  BY <1>1 DEF pit_init, PitOK
<1>5. RtcOK(pc.rtc) /\ ~pc.rtc.level
  BY <1>1 DEF cmos_init, RtcOK
<1>6. IdeOK(pc.ide) /\ Phase(pc.ide)
  BY <1>1 DEF IdeOK, ide_drive_init, Phase
<1>7. DOMAIN pc = {"pic", "line", "kbd", "pit", "rtc", "ide", "disk", "io"}
  BY <1>1
<1>8. Machine(pc)
  BY <1>2, <1>3, <1>4, <1>5, <1>6, <1>7 DEF Machine
<1>9. Exact(pc.kbd)
  BY <1>2 DEF Exact
<1>10. Announced(pc, owes)
  BY <1>2, <1>3, <1>5 DEF Announced, KbdLevel, MouseLevel, KbdLast, MouseLast, RtcLast
<1> QED
  BY <1>6, <1>8, <1>9, <1>10 DEF PcInv, Good

PlainByte == [kbd |-> [reply |-> 1, arg |-> FALSE], mouse |-> "enable",
              rate |-> 80, mode |-> {}]
MouseByte(c, r) == [PlainByte EXCEPT !.mouse = c, !.rate = r]

LEMMA MouseBytes ==
    ASSUME pc.kbd.write_cmd = "write_mouse"
    PROVE  DataBytes = {MouseByte(c, r) : c \in MouseCommands, r \in {200, 100, 80}}
  BY DEF DataBytes, MouseByte, PlainByte

\* A byte written to the data port means a command to each of its readers.
LEMMA BytesType ==
    ASSUME NEW byte \in DataBytes
    PROVE  byte.kbd \in KbdCommands /\ byte.mouse \in MouseCommands
<1>1. [reply |-> 1, arg |-> FALSE] \in KbdCommands
  BY DEF KbdCommands
<1>2. "enable" \in MouseCommands
  BY DEF MouseCommands
<1> DEFINE b == PlainByte
           Key(k) == [b EXCEPT !.kbd = k]
           Mode(x) == [b EXCEPT !.mode = x]
           w == pc.kbd.write_cmd
<1>3. w = "none" => DataBytes = {Key(k) : k \in KbdCommands}
  BY DEF DataBytes, PlainByte
<1>4. w = "write_mode" => DataBytes = {Mode(x) : x \in SUBSET {"kbd_int", "mouse_int"}}
  BY DEF DataBytes, PlainByte
<1>5. ASSUME w # "none", w # "write_mode", w # "write_mouse"
      PROVE  DataBytes = {b}
  BY <1>5 DEF DataBytes, PlainByte
<1>6. ASSUME NEW k PROVE Key(k).kbd = k /\ Key(k).mouse = "enable"
  BY DEF PlainByte
<1>7. ASSUME NEW x PROVE Mode(x).kbd = b.kbd /\ Mode(x).mouse = "enable"
  BY DEF PlainByte
<1>8. ASSUME NEW c, NEW r PROVE MouseByte(c, r).kbd = b.kbd /\ MouseByte(c, r).mouse = c
  BY DEF MouseByte, PlainByte
<1>9. b.kbd \in KbdCommands /\ b.mouse \in MouseCommands
  BY <1>1, <1>2 DEF PlainByte
<1> HIDE DEF b, Key, Mode
<1>10. CASE w = "none"
  BY <1>2, <1>3, <1>6, <1>10
<1>11. CASE w = "write_mode"
  BY <1>2, <1>4, <1>7, <1>9, <1>11
<1>12. CASE w = "write_mouse"
  BY MouseBytes, <1>8, <1>9, <1>12
<1>13. CASE w \notin {"none", "write_mode", "write_mouse"}
  BY <1>5, <1>9, <1>13
<1> QED BY <1>10, <1>11, <1>12, <1>13

LEMMA StepPcInv == PcInv /\ [Next]_vars => PcInv'
<1> SUFFICES ASSUME Good(pc, owes), [Next]_vars PROVE Good(pc', owes')
  BY DEF PcInv
<1>s. Sound(pc, owes)
  BY DEF Good, Sound
<1>1. CASE TakeInterrupt
  BY <1>1, Acknowledge DEF TakeInterrupt
<1>2. CASE ReadKbdData
  BY <1>2, ReadData DEF ReadKbdData, Served, KbdIrq, MouseIrq
<1>3. CASE ReadRtcC
  BY <1>3, ReadC DEF ReadRtcC, Served, RtcIrq
<1>4. CASE ReadIdeStatus
  <2>1. 14 \in {0, 14} /\ FALSE \in BOOLEAN
    OBVIOUS
  <2> DEFINE n == pic2_set_irq(pc, 14, FALSE)
  <2>2. Sound(n, owes) /\ n.ide = pc.ide
    BY <1>s, <2>1, OtherIrq, Zenon
  <2>3. pc' = n /\ owes' = owes
    BY <1>4 DEF ReadIdeStatus, ide_ioport_read_status, IdeIrq
  <2> HIDE DEF n
  <2>4. Good(n, owes)
    BY <2>2 DEF Good, Sound
  <2> QED BY <2>3, <2>4
<1>5. CASE EndHandler
  <2> DEFINE s == IF serving >= 8 /\ serving # 15 THEN pic_write_ocw2(pc, 1, "eoi", 0) ELSE pc
             n == pic_write_ocw2(s, 0, "eoi", 0)
  <2>1. 0 \in 0 .. 1 /\ 1 \in 0 .. 1
    OBVIOUS
  <2>2. Good(pic_write_ocw2(pc, 1, "eoi", 0), owes)
    BY <2>1, Ocw2
  <2>3. Good(s, owes)
    BY <2>2
  <2>4. (pc' = pc \/ pc' = n) /\ owes' = owes
    BY <1>5 DEF EndHandler
  <2> HIDE DEF s
  <2>5. Good(n, owes)
    BY <2>1, <2>3, Ocw2
  <2> QED BY <2>4, <2>5
<1>6. CASE EndInterrupt
  BY <1>6, Ocw2 DEF EndInterrupt
<1>7. CASE InitPic
  BY <1>7, Icw1 DEF InitPic
<1>8. CASE WritePic
  <2>1. PICK c \in 0 .. 1 :
          \/ \E mask \in {{}, Line}, auto \in BOOLEAN : pc' = pic_write_data(pc, c, mask, auto)
          \/ \E cmd \in {"eoi_rotate", "specific", "specific_rotate", "set_priority",
                         "auto_rotate"}, n \in {KbdIrq, MouseIrq - 8} :
               pc' = pic_write_ocw2(pc, c, cmd, n)
          \/ \E val \in SUBSET {MouseIrq - 8} : pc' = pic_elcr_write(pc, c, val)
    BY <1>8 DEF WritePic
  <2>2. owes' = owes
    BY <1>8 DEF WritePic
  <2>3. Good(pc', owes)
    BY <2>1, PicData, Ocw2, ElcrWrite
  <2> QED BY <2>2, <2>3
<1>9. CASE WriteKbdCommand
  BY <1>9, WriteCommand DEF WriteKbdCommand
<1>10. CASE WriteKbdData
  <2>1. PICK byte \in DataBytes : pc' = kbd_write_data(pc, byte)
    BY <1>10 DEF WriteKbdData
  <2>2. owes' = owes
    BY <1>10 DEF WriteKbdData
  <2>3. byte.kbd \in KbdCommands /\ byte.mouse \in MouseCommands
    BY BytesType
  <2> QED BY <2>1, <2>2, <2>3, WriteData
<1>11. CASE VmMouseCommand
  BY <1>11, VmMouseHandler DEF VmMouseCommand
<1>12. CASE HostKey
  BY <1>12, Queue DEF HostKey, ps2_put_keycode
<1>13. CASE HostMouse
  <2>1. PICK e \in {<<-2, 0>>, <<1, 1>>} : pc' = vmmouse_send_mouse_event(pc, e[1], e[2])
    BY <1>13 DEF HostMouse
  <2>2. e[1] \in Int
    BY <2>1
  <2>3. owes' = owes
    BY <1>13 DEF HostMouse
  <2> QED BY <2>1, <2>2, <2>3, VmMouseEvent
<1>14. CASE WriteTimers
  <2>1. owes' = owes
    BY <1>14 DEF WriteTimers
  <2>2. Good(pc', owes)
    <3>1. ASSUME NEW access \in 0 .. 3, NEW periodic \in BOOLEAN,
                 pc' = pit_write_control(pc, access, periodic)
          PROVE  Good(pc', owes)
      BY <3>1, PitControl
    <3>2. ASSUME NEW count, pc' = pit_write_count(pc, count)
          PROVE  Good(pc', owes)
      BY <3>2, PitCount
    <3>3. ASSUME NEW reg \in {"A", "B", "other"}, NEW rate, NEW pie, NEW phase,
                 pc' = cmos_write(pc, reg, rate, pie, phase)
          PROVE  Good(pc', owes)
      BY <3>3, CmosWrite, Zenon
    <3>4. "A" \in {"A", "B", "other"} /\ "B" \in {"A", "B", "other"}
          /\ "other" \in {"A", "B", "other"}
      OBVIOUS
    <3> QED BY <1>14, <3>1, <3>2, <3>3, <3>4, PitRead, Zenon DEF WriteTimers
  <2> QED BY <2>1, <2>2
<1>15. CASE Tick
  <2> DEFINE x == pc.pit.lag + 1
             y == Min({pc.rtc.late + 1, MaxLag})
             w == [pc EXCEPT !.pit.lag = x]
             n == [w EXCEPT !.rtc.late = y]
  <2>1. pc' = [pc EXCEPT !.pit.lag = x, !.rtc.late = y] /\ owes' = owes
    BY <1>15 DEF Tick
  <2> HIDE DEF x, y
  <2>2. pc' = n
    BY <2>1 DEF Good, Machine
  <2>3. Good(w, owes)
    BY PitRegister, Zenon
  <2> HIDE DEF w
  <2>4. Good(n, owes)
    BY <2>3, Late, Zenon
  <2> QED BY <2>1, <2>2, <2>4
<1>16. CASE Poll
  BY <1>16, PollTimers DEF Poll
<1>17. CASE IdeCommand
  <2>0. PICK cmd \in {"identify", "recal", "setmult", "read", "write", "multread",
                    "multwrite", "native_max", "unknown"},
           n \in 0 .. (CountMod - 1), lba \in BOOLEAN, at \in {0, 1, DiskSectors - 3} :
          LET regs == ide_set_sector([pc.ide EXCEPT !.lba = lba, !.nsector = n], at)
              op == CASE cmd \in {"read", "multread"} -> "read"
                      [] cmd \in {"write", "multwrite"} -> "write"
                      [] OTHER -> "none"
          IN  /\ pc' \in ide_exec_cmd([pc EXCEPT !.ide = regs], cmd)
              /\ job' = IF pc'.ide.status = "error" \/ op = "none" THEN Idle
                        ELSE [op |-> op, lba |-> at, data |-> <<>>,
                              n |-> IF n = 0 THEN CountMod ELSE n]
    BY <1>17, Zenon DEF IdeCommand
  <2>1. cmd \in IdeCommands
    BY <2>0 DEF IdeCommands
  <2>2. owes' = owes
    BY <1>17 DEF IdeCommand
  <2> DEFINE d == [pc.ide EXCEPT !.lba = lba, !.nsector = n]
             regs == ide_set_sector(d, at)
             w == [pc EXCEPT !.ide = regs]
  <2>3. IdeOK(d)
    BY <1>s, SoundFields, IdeFields
  <2>4. pc' \in ide_exec_cmd(w, cmd)
    BY <2>0, Zenon
  <2> HIDE DEF d
  <2>5. IdeOK(regs)
    BY <2>3, SetSector
  <2> HIDE DEF regs
  <2>6. Sound(w, owes)
    BY <1>s, <2>5, SetIde
  <2> HIDE DEF w
  <2> QED BY <2>1, <2>2, <2>4, <2>6, ExecCmd
<1>18. CASE IdeData
  <2>1. pc.ide.end_transfer \in {"read", "write", "read_end", "identify"}
    BY <1>18 DEF IdeData, Good, Phase
  <2>2. (\E val : pc' \in ide_data_writew(pc, val)) \/ pc' \in NextWord(pc)
    BY <1>18 DEF IdeData, ide_data_readw
  <2>3. owes' = owes
    BY <1>18 DEF IdeData
  <2> QED BY <1>s, <2>1, <2>2, <2>3, DataWrite, NextWordGood
<1>19. CASE IdeComplete
  BY <1>s, <1>19, IoDone DEF IdeComplete
<1>20. CASE IdeControl
  BY <1>20, CmdWrite DEF IdeControl
<1>21. CASE UNCHANGED vars
  BY <1>21 DEF vars
<1> QED
  BY <1>1, <1>2, <1>3, <1>4, <1>5, <1>6, <1>7, <1>8, <1>9, <1>10, <1>11, <1>12, <1>13,
     <1>14, <1>15, <1>16, <1>17, <1>18, <1>19, <1>20, <1>21 DEF Next

LEMMA InvAnnounces == PcInv => DataIsAnnounced
<1> SUFFICES ASSUME Good(pc, owes) PROVE DataIsAnnounced
  BY DEF PcInv
<1>1. /\ 1 % 8 = 1 /\ 1 \div 8 = 0 /\ 12 % 8 = 4 /\ 12 \div 8 = 1
      /\ 8 % 8 = 0 /\ 8 \div 8 = 1
  OBVIOUS
<1>2. Announced(pc, owes) /\ Exact(pc.kbd)
  BY DEF Good
<1> QED
  BY <1>1, <1>2 DEF DataIsAnnounced, Announced, Exact, KbdLevel, MouseLevel, KbdIrr, MouseIrr,
                    RtcIrr, KbdIrq, MouseIrq, RtcIrq

\* Data that a device holds for the guest is announced, in every reachable
\* state and for every size of the queues, every timer count and every list of
\* guest commands: the 8259s are edge-triggered, so a byte queued while the
\* line is already high (ps2_queue), a byte left after a read (the
\* lower-then-raise of ps2_read_data), mouse data that waits behind keyboard
\* data (kbd_update_irq) or a clock flag set again before it is read
\* (cmos_update_irq) must either still be requested in a controller or be known
\* to the guest.  PcInv adds that a controller remembers as high only a line
\* that is high, without which the next rise would not be an edge.
THEOREM DataAlwaysAnnounced == Spec => []DataIsAnnounced
<1>1. Spec => []PcInv
  BY InitPcInv, StepPcInv, PTL DEF Spec
<1> QED
  BY <1>1, InvAnnounces, PTL


-----------------------------------------------------------------------------
(* Transfers of the disk                                                   *)

Fields == {"pic", "line", "kbd", "pit", "rtc", "ide", "disk", "io"}

\* The registers, the disk and the request of the guest as the transfer sees
\* them: d is the drive, k the contents of the disk, j the job.
DriveOK(d) ==
    /\ IdeOK(d)
    /\ d.status \in {"ready", "error", "busy", "drq"}
    /\ {d.nsector, d.mult_sectors, d.req_nb_sectors, d.io_nb_sectors,
        d.data_index, d.data_end} \subseteq Nat
    /\ d.lba \in BOOLEAN
    /\ d.io_buffer \in Seq(Nat)

JobOK(j) ==
    /\ DOMAIN j = {"op", "lba", "n", "data"}
    /\ j.op \in {"none", "read", "write"}
    /\ j.lba \in 0 .. DiskSectors /\ j.data \in Seq(Nat)
    /\ j.n \in 0 .. CountMod /\ (j.op # "none" => j.n # 0)

\* The first s sectors of the job are those of the disk.
Matches(k, j, s) == \A i \in 1 .. s : j.data[i] = k[j.lba + i - 1]

\* The registers say that s sectors of the job are done, and there are more.
Position(d, j, s) ==
    /\ s \in 0 .. (j.n - 1)
    /\ ide_get_sector(d) = j.lba + s
    /\ d.nsector = (j.n - s) % CountMod
    /\ d.req_nb_sectors # 0

\* The size of the block that begins with sector s of the job.
BlockOf(d, j, s, c) ==
    /\ c \in 1 .. (j.n - s)
    /\ c = IF d.req_nb_sectors <= j.n - s THEN d.req_nb_sectors ELSE j.n - s
    /\ j.lba + s <= DiskSectors

ReadBusy(d, j) ==
    LET s == Len(j.data)
        c == d.io_nb_sectors
    IN  Position(d, j, s) /\ BlockOf(d, j, s, c) /\ j.lba + s + c <= DiskSectors

ReadDrq(d, k, j) ==
    LET c == d.data_end
        s == Len(j.data) - d.data_index
    IN  /\ s \in Nat /\ d.data_index < c /\ s + c <= j.n /\ j.lba + s + c <= DiskSectors
        /\ Len(d.io_buffer) = c
        /\ \A i \in 1 .. c : d.io_buffer[i] = k[j.lba + s + i - 1]
        /\ d.end_transfer = IF s + c = j.n THEN "read_end" ELSE "read"
        /\ s + c < j.n => Position(d, j, s + c)

WriteBusy(d, k, j) ==
    LET c == d.io_nb_sectors
        s == Len(j.data) - c
    IN  /\ Position(d, j, s) /\ BlockOf(d, j, s, c) /\ j.lba + s + c <= DiskSectors
        /\ Matches(k, j, s)
        /\ c <= Len(d.io_buffer)
        /\ \A i \in 1 .. c : d.io_buffer[i] = j.data[s + i]

WriteDrq(d, k, j) ==
    LET c == d.data_end
        p == d.data_index
        s == Len(j.data) - p
    IN  /\ d.end_transfer = "write"
        /\ Position(d, j, s) /\ BlockOf(d, j, s, c) /\ p < c /\ c = d.io_nb_sectors
        /\ Matches(k, j, s)
        /\ p <= Len(d.io_buffer)
        /\ \A i \in 1 .. p : d.io_buffer[i] = j.data[s + i]

\* How far the job is, in each status of the drive.
Moving(d, k, j) ==
    /\ j.op = "read" => Matches(k, j, Len(j.data))
    /\ d.status = "error" => j.op = "none"
    /\ d.status = "ready" /\ j.op # "none" => Len(j.data) = j.n /\ Matches(k, j, j.n)
    /\ d.status = "drq" /\ j.op = "none" => d.end_transfer = "identify"
    /\ d.status = "drq" /\ j.op = "read" => ReadDrq(d, k, j)
    /\ d.status = "drq" /\ j.op = "write" => WriteDrq(d, k, j)
    /\ d.status = "busy" /\ j.op = "read" => ReadBusy(d, j)
    /\ d.status = "busy" /\ j.op = "write" => WriteBusy(d, k, j)

\* A busy drive waits for the block device, or for the end of a reset.
Waits(d, io, j) ==
    /\ io \in {"none", "read", "write"}
    /\ io # "none" => d.status = "busy"
    /\ d.status = "busy" => io = j.op
    /\ d.cmd_reset => d.status = "busy" /\ io = "none"

Transferring(d, k, io, j) ==
    /\ DriveOK(d) /\ JobOK(j)
    /\ k \in [0 .. (DiskSectors - 1) -> Nat]
    /\ Moving(d, k, j) /\ Waits(d, io, j)

IdeInv ==
    IF menu = "ide"
    THEN /\ DOMAIN pc = Fields
         /\ Transferring(pc.ide, pc.disk, pc.io, job)
         /\ owes = {} /\ pc.kbd.pending = {} /\ serving = -1 /\ ops \in Nat
    ELSE job = Idle

-----------------------------------------------------------------------------
(* Sector addresses                                                        *)

LEMMA DivMod ==
    ASSUME NEW x \in Int, NEW k \in Nat \ {0}
    PROVE  /\ x \div k \in Int /\ x % k \in 0 .. k - 1
           /\ x = k * (x \div k) + (x % k)
  BY Z3

LEMMA DivUnique ==
    ASSUME NEW k \in Nat \ {0}, NEW q \in Int, NEW r \in 0 .. k - 1
    PROVE  (k * q + r) \div k = q /\ (k * q + r) % k = r
  BY Z3

\* Dividing by a product, one factor after the other.
LEMMA TwoDigits ==
    ASSUME NEW x \in Nat, NEW k \in Nat \ {0}, NEW l \in Nat \ {0}
    PROVE  LET q == x \div k
               a == q \div l
               b == q % l
           IN  /\ a \in Nat /\ b \in 0 .. l - 1 /\ x % k \in 0 .. k - 1
               /\ x = k * (l * a + b) + (x % k)
               /\ x \div (k * l) = a
               /\ x % (k * l) = k * b + (x % k)
<1> DEFINE q == x \div k
           r == x % k
           a == q \div l
           b == q % l
           z == k * b + r
<1>1. q \in Int /\ r \in 0 .. k - 1 /\ x = k * q + r
  BY DivMod
<1>2. q \in Nat
  <2> HIDE DEF q, r
  <2>1. SUFFICES ASSUME q <= -1 PROVE FALSE
    BY <1>1
  <2>2. k * q <= -k
    BY <1>1, <2>1, Z3
  <2> QED BY <1>1, <2>2
<1> HIDE DEF q, r
<1>3. a \in Int /\ b \in 0 .. l - 1 /\ q = l * a + b
  BY <1>2, DivMod
<1> HIDE DEF a, b
<1>4. a \in Nat
  <2>1. SUFFICES ASSUME a <= -1 PROVE FALSE
    BY <1>3
  <2>2. l * a <= -l
    BY <1>3, <2>1, Z3
  <2> QED BY <1>2, <1>3, <2>2
<1>5. z \in 0 .. (k * l) - 1
  <2>1. b <= l - 1 /\ b >= 0 /\ b \in Int
    BY <1>3
  <2>2. k * b <= k * (l - 1) /\ k * b >= 0
    BY <2>1, Z3
  <2>3. k * (l - 1) = k * l - k
    BY Z3
  <2>4. k * b \in Int /\ k * l \in Int
    BY <2>1
  <2> QED BY <1>1, <2>2, <2>3, <2>4
<1>6. x = (k * l) * a + z
  BY <1>1, <1>3, Z3
<1>7. k * l \in Nat \ {0}
  BY Z3
<1> HIDE DEF z
<1>8. x \div (k * l) = a /\ x % (k * l) = z
  BY <1>3, <1>5, <1>6, <1>7, DivUnique
<1>9. x = k * (l * a + b) + r
  BY <1>1, <1>3
<1> QED
  BY <1>1, <1>3, <1>4, <1>8, <1>9 DEF q, r, a, b, z

\* A quotient is below what the product of the factors leaves.
LEMMA DigitBelow ==
    ASSUME NEW a \in Nat, NEW k \in Nat \ {0}, NEW l \in Nat \ {0}, NEW h \in Nat \ {0},
           NEW z \in Nat, (k * l) * a + z < k * l * h
    PROVE  a \in 0 .. h - 1 /\ a % h = a
<1>1. a < h
  <2>1. SUFFICES ASSUME a >= h PROVE FALSE
    OBVIOUS
  <2> DEFINE kl == k * l
  <2>2. kl \in Nat
    BY Z3
  <2>3. kl * a + z < kl * h
    OBVIOUS
  <2> HIDE DEF kl
  <2>4. kl * a >= kl * h /\ kl * a \in Int /\ kl * h \in Int
    BY <2>1, <2>2, Z3
  <2> QED BY <2>3, <2>4
<1> QED BY <1>1

\* What ide_set_sector stores, ide_get_sector returns.
LEMMA GetSet ==
    ASSUME NEW d, IdeOK(d), d.lba \in BOOLEAN, NEW x \in 0 .. DiskSectors
    PROVE  ide_get_sector(ide_set_sector(d, x)) = x
<1>1. /\ Radix \in Nat \ {0} /\ CylMod \in Nat \ {0} /\ Heads \in Nat \ {0}
      /\ Sectors \in Nat \ {0} /\ DiskSectors \in Nat /\ x \in Nat
  BY IdeConstants
<1>2. CASE d.lba
  <2> DEFINE q == x \div Radix
             a == q \div CylMod
             b == q % CylMod
             r == x % Radix
             hd == (x \div (Radix * CylMod)) % Heads
             e == [d EXCEPT !.head = hd, !.cyl = b, !.sector = r]
  <2>1. /\ a \in Nat /\ b \in 0 .. CylMod - 1 /\ r \in 0 .. Radix - 1
        /\ x = Radix * (CylMod * a + b) + r
        /\ x \div (Radix * CylMod) = a
    BY <1>1, TwoDigits
  <2>2. ide_set_sector(d, x) = e
    BY <1>2 DEF ide_set_sector
  <2>3. hd = a
    <3> DEFINE z == Radix * b + r
    <3>1. z \in Nat /\ (Radix * CylMod) * a + z = x
      <4> HIDE DEF a, b, r, q
      <4> QED BY <1>1, <2>1, Z3
    <3>2. x < Radix * CylMod * Heads
      <4> HIDE DEF a, b, r, q, z
      <4>1. Radix * CylMod * Heads \in Int
        BY <1>1
      <4> QED BY <1>1, <4>1, DiskFits
    <3> HIDE DEF a, z
    <3>3. (Radix * CylMod) * a + z < Radix * CylMod * Heads
      BY <3>1, <3>2
    <3>4. a % Heads = a
      BY <1>1, <2>1, <3>1, <3>3, DigitBelow
    <3> QED BY <2>1, <3>4
  <2> HIDE DEF hd, a, b, r
  <2>4. e.lba = d.lba /\ e.head = hd /\ e.cyl = b /\ e.sector = r
    BY IdeFields
  <2> HIDE DEF e
  <2>5. ide_get_sector(e) = (hd * CylMod + b) * Radix + r
    BY <1>2, <2>4 DEF ide_get_sector
  <2>6. (a * CylMod + b) * Radix + r = x
    BY <1>1, <2>1, Z3
  <2> QED BY <2>2, <2>3, <2>5, <2>6
<1>3. CASE ~d.lba
  <2> DEFINE q == x \div Sectors
             a == q \div Heads
             b == q % Heads
             r == x % Sectors
             cy == (x \div (Heads * Sectors)) % CylMod
             hd == (x % (Heads * Sectors)) \div Sectors
             e == [d EXCEPT !.cyl = cy, !.head = hd, !.sector = r + 1]
  <2>0. Heads * Sectors = Sectors * Heads
    BY <1>1, Z3
  <2>1. /\ a \in Nat /\ b \in 0 .. Heads - 1 /\ r \in 0 .. Sectors - 1
        /\ x = Sectors * (Heads * a + b) + r
        /\ x \div (Sectors * Heads) = a
        /\ x % (Sectors * Heads) = Sectors * b + r
    BY <1>1, TwoDigits
  <2>2. ide_set_sector(d, x) = e
    BY <1>3 DEF ide_set_sector
  <2>3. cy = a
    <3> DEFINE z == Sectors * b + r
    <3>1. z \in Nat /\ (Heads * Sectors) * a + z = x
      <4> HIDE DEF a, b, r, q
      <4> QED BY <1>1, <2>1, Z3
    <3>2. x < Heads * Sectors * CylMod
      <4> HIDE DEF a, b, r, q, z
      <4>1. Heads * Sectors * CylMod \in Int
        BY <1>1
      <4> QED BY <1>1, <4>1, DiskFits
    <3> HIDE DEF a, z
    <3>3. (Heads * Sectors) * a + z < Heads * Sectors * CylMod
      BY <3>1, <3>2
    <3>4. a % CylMod = a
      BY <1>1, <2>1, <3>1, <3>3, DigitBelow
    <3> QED BY <2>0, <2>1, <3>4
  <2>4. hd = b
    <3>1. hd = (Sectors * b + r) \div Sectors
      BY <2>0, <2>1
    <3>2. b \in Int
      BY <2>1
    <3> HIDE DEF b, r, hd
    <3> QED BY <1>1, <2>1, <3>1, <3>2, DivUnique
  <2> HIDE DEF hd, cy, a, b, r
  <2>5. e.lba = d.lba /\ e.head = hd /\ e.cyl = cy /\ e.sector = r + 1
    BY IdeFields
  <2> HIDE DEF e
  <2>6. ide_get_sector(e) = cy * Heads * Sectors + hd * Sectors + ((r + 1) - 1)
    BY <1>3, <2>5 DEF ide_get_sector
  <2>7. a * Heads * Sectors + b * Sectors + ((r + 1) - 1) = x
    BY <1>1, <2>1, Z3
  <2> QED BY <2>2, <2>3, <2>4, <2>6, <2>7
<1> QED
  BY <1>2, <1>3

-----------------------------------------------------------------------------
(* What the operators leave of the machine                                 *)

\* n is a machine with this keyboard controller, drive, disk and request.
Has(n, kb, d, k, io) ==
    DOMAIN n = Fields /\ n.kbd = kb /\ n.ide = d /\ n.disk = k /\ n.io = io

LEMMA HasPic ==
    ASSUME NEW m, DOMAIN m = Fields, NEW c, NEW p
    PROVE  Has([m EXCEPT !.pic[c] = p], m.kbd, m.ide, m.disk, m.io)
<1> DEFINE q == [m.pic EXCEPT ![c] = p]
<1>1. [m EXCEPT !.pic[c] = p] = [m EXCEPT !.pic = q]
  BY DEF Fields
<1> HIDE DEF q
<1>2. Has([m EXCEPT !.pic = q], m.kbd, m.ide, m.disk, m.io)
  BY DEF Has, Fields
<1> QED
  BY <1>1, <1>2

LEMMA HasLine ==
    ASSUME NEW m, DOMAIN m = Fields, NEW v
    PROVE  Has([m EXCEPT !.line = v], m.kbd, m.ide, m.disk, m.io)
  BY DEF Has, Fields

LEMMA HasUpdateIrq ==
    ASSUME NEW m, DOMAIN m = Fields
    PROVE  Has(pic2_update_irq(m), m.kbd, m.ide, m.disk, m.io)
<1> DEFINE low == pic_set_irq1(pic_set_irq1(m.pic[0], Cascade, TRUE), Cascade, FALSE)
           w == [m EXCEPT !.pic[0] = low]
           seen == IF pic_get_irq(m.pic[1]) >= 0 THEN w ELSE m
           v == pic_get_irq(seen.pic[0]) >= 0
<1>1. pic2_update_irq(m) = [seen EXCEPT !.line = v]
  BY DEF pic2_update_irq
<1> HIDE DEF low
<1>2. Has(w, m.kbd, m.ide, m.disk, m.io)
  BY HasPic
<1> HIDE DEF w
<1>3. Has(seen, m.kbd, m.ide, m.disk, m.io)
  BY <1>2 DEF Has
<1> HIDE DEF seen, v
<1>4. Has([seen EXCEPT !.line = v], seen.kbd, seen.ide, seen.disk, seen.io)
  BY <1>3, HasLine DEF Has
<1> QED
  BY <1>1, <1>3, <1>4 DEF Has

LEMMA HasSetIrq ==
    ASSUME NEW m, DOMAIN m = Fields, NEW irq, NEW level
    PROVE  Has(pic2_set_irq(m, irq, level), m.kbd, m.ide, m.disk, m.io)
<1> DEFINE c == irq \div 8
           p == pic_set_irq1(m.pic[c], irq % 8, level)
           w == [m EXCEPT !.pic[c] = p]
<1>1. pic2_set_irq(m, irq, level) = pic2_update_irq(w)
  BY DEF pic2_set_irq
<1> HIDE DEF c, p
<1>2. Has(w, m.kbd, m.ide, m.disk, m.io)
  BY HasPic
<1> HIDE DEF w
<1>3. Has(pic2_update_irq(w), w.kbd, w.ide, w.disk, w.io)
  BY <1>2, HasUpdateIrq DEF Has
<1> QED
  BY <1>1, <1>2, <1>3 DEF Has

LEMMA HasIdeIrq ==
    ASSUME NEW m, NEW kb, NEW d, NEW k, NEW io, Has(m, kb, d, k, io)
    PROVE  Has(ide_set_irq(m), kb, d, k, io)
<1> DEFINE n == pic2_set_irq(m, IdeIrq, TRUE)
<1>1. Has(n, m.kbd, m.ide, m.disk, m.io)
  BY HasSetIrq DEF Has
<1>2. ide_set_irq(m) = IF m.ide.disable_irq THEN m ELSE n
  BY DEF ide_set_irq
<1> HIDE DEF n
<1> QED
  BY <1>1, <1>2 DEF Has

LEMMA HasEoi ==
    ASSUME NEW m, DOMAIN m = Fields, NEW c
    PROVE  Has(pic_write_ocw2(m, c, "eoi", 0), m.kbd, m.ide, m.disk, m.io)
<1> DEFINE p == m.pic[c]
           top == pic_get_priority(p, p.isr)
           ended == IF top >= 0 THEN p.isr \ {(top + p.priority_add) % 8} ELSE p.isr
           q == [p EXCEPT !.isr = ended]
<1>1. pic_write_ocw2(m, c, "eoi", 0) = [m EXCEPT !.pic[c] = q]
  BY DEF pic_write_ocw2
<1> HIDE DEF q
<1> QED
  BY <1>1, HasPic

\* The drive, the disk and the request are replaced.
LEMMA HasIde ==
    ASSUME NEW m, NEW kb, NEW d, NEW k, NEW io, Has(m, kb, d, k, io), NEW v
    PROVE  /\ Has([m EXCEPT !.ide = v], kb, v, k, io)
           /\ Has([m EXCEPT !.disk = v], kb, d, v, io)
           /\ Has([m EXCEPT !.io = v], kb, d, k, v)
  BY DEF Has, Fields

Started(d, n, func) == [d EXCEPT !.end_transfer = func, !.data_index = 0, !.data_end = n]

WithStatus(d, v) == [d EXCEPT !.status = v]

LEMMA HasStart ==
    ASSUME NEW m, NEW kb, NEW d, NEW k, NEW io, Has(m, kb, d, k, io), NEW n, NEW func
    PROVE  Has(ide_transfer_start(m, n, func), kb, Started(d, n, func), k, io)
<1>1. ide_transfer_start(m, n, func) = [m EXCEPT !.ide = Started(d, n, func)]
  BY DEF ide_transfer_start, Started, Has, Fields
<1>2. Has([m EXCEPT !.ide = Started(d, n, func)], kb, Started(d, n, func), k, io)
  BY HasIde
<1> QED
  BY <1>1, <1>2, Zenon

LEMMA HasStatus ==
    ASSUME NEW m, NEW kb, NEW d, NEW k, NEW io, Has(m, kb, d, k, io), NEW v
    PROVE  Has([m EXCEPT !.ide.status = v], kb, WithStatus(d, v), k, io)
<1>1. [m EXCEPT !.ide.status = v] = [m EXCEPT !.ide = WithStatus(d, v)]
  BY DEF WithStatus, Has, Fields
<1> QED
  BY <1>1, HasIde

LEMMA HasChunk ==
    ASSUME NEW m, NEW kb, NEW d, NEW k, NEW io, Has(m, kb, d, k, io), NEW v
    PROVE  Has([m EXCEPT !.ide.io_nb_sectors = v], kb, [d EXCEPT !.io_nb_sectors = v], k, io)
<1> DEFINE e == [d EXCEPT !.io_nb_sectors = v]
<1>1. [m EXCEPT !.ide.io_nb_sectors = v] = [m EXCEPT !.ide = e]
  BY DEF Has, Fields
<1> HIDE DEF e
<1>2. Has([m EXCEPT !.ide = e], kb, e, k, io)
  BY HasIde
<1> QED
  BY <1>1, <1>2 DEF e

\* The drive after a block was read.
AfterRead(d) ==
    LET e == Advance(d)
    IN  WithStatus(Started(e, e.io_nb_sectors, IF e.nsector = 0 THEN "read_end" ELSE "read"),
                   "drq")

LEMMA HasReadCb ==
    ASSUME NEW m, NEW kb, NEW d, NEW k, NEW io, Has(m, kb, d, k, io)
    PROVE  Has(ide_sector_read_cb(m), kb, AfterRead(d), k, io)
<1> DEFINE e == Advance(d)
           func == IF e.nsector = 0 THEN "read_end" ELSE "read"
           a == [m EXCEPT !.ide = e]
           ready == ide_transfer_start(a, e.io_nb_sectors, func)
           b == ide_set_irq(ready)
           c == [b EXCEPT !.ide.status = "drq"]
           f == Started(e, e.io_nb_sectors, func)
<1>1. ide_sector_read_cb(m) = c
  BY DEF ide_sector_read_cb, Has
<1>2. AfterRead(d) = WithStatus(f, "drq")
  BY DEF AfterRead
<1> HIDE DEF e, func
<1>3. Has(a, kb, e, k, io)
  BY HasIde
<1> HIDE DEF a
<1>4. Has(ready, kb, f, k, io)
  BY <1>3, HasStart
<1> HIDE DEF ready, f
<1>5. Has(b, kb, f, k, io)
  BY <1>4, HasIdeIrq
<1> HIDE DEF b
<1>6. Has(c, kb, WithStatus(f, "drq"), k, io)
  BY <1>5, HasStatus, Zenon
<1> QED
  BY <1>1, <1>2, <1>6, Zenon

\* The drive after a block was written.
AfterWrite(d) ==
    LET e == Advance(d)
        next == Min({e.nsector, e.req_nb_sectors})
    IN  IF e.nsector = 0 THEN WithStatus(e, "ready")
        ELSE WithStatus(Started([e EXCEPT !.io_nb_sectors = next], next, "write"), "drq")

LEMMA HasWriteCb2 ==
    ASSUME NEW m, NEW kb, NEW d, NEW k, NEW io, Has(m, kb, d, k, io)
    PROVE  Has(ide_sector_write_cb2(m), kb, AfterWrite(d), k, io)
<1> DEFINE e == Advance(d)
           next == Min({e.nsector, e.req_nb_sectors})
           r == WithStatus(e, "ready")
           g == [e EXCEPT !.io_nb_sectors = next]
           a == [m EXCEPT !.ide = g]
           more == ide_transfer_start(a, next, "write")
           b == [more EXCEPT !.ide.status = "drq"]
           done == [m EXCEPT !.ide = r]
           f == WithStatus(Started(g, next, "write"), "drq")
           z == e.nsector = 0
<1>1. ide_sector_write_cb2(m) = ide_set_irq(IF z THEN done ELSE b)
  BY DEF ide_sector_write_cb2, Has, WithStatus
<1>2. AfterWrite(d) = IF z THEN r ELSE f
  BY DEF AfterWrite
<1> HIDE DEF e, next, r, g, z
<1>3. Has(a, kb, g, k, io) /\ Has(done, kb, r, k, io)
  BY HasIde
<1> HIDE DEF a, done
<1>4. Has(more, kb, Started(g, next, "write"), k, io)
  BY <1>3, HasStart
<1> HIDE DEF more
<1>5. Has(b, kb, f, k, io)
  BY <1>4, HasStatus, Zenon
<1> HIDE DEF b, f
<1>6. Has(ide_set_irq(done), kb, r, k, io) /\ Has(ide_set_irq(b), kb, f, k, io)
  BY <1>3, <1>5, HasIdeIrq
<1> QED
  BY <1>1, <1>2, <1>6

\* What the block device does to the buffer, and to the disk.
Fetched(d, k) == [i \in 1 .. d.io_nb_sectors |-> k[ide_get_sector(d) + i - 1]]

Stored(d, k) ==
    [s \in DOMAIN k |-> IF s - ide_get_sector(d) \in 0 .. (d.io_nb_sectors - 1)
                        THEN d.io_buffer[s - ide_get_sector(d) + 1] ELSE k[s]]

WithBuffer(d, b) == [d EXCEPT !.io_buffer = b]

LEMMA HasTransfer ==
    ASSUME NEW m, NEW kb, NEW d, NEW k, NEW io, Has(m, kb, d, k, io)
    PROVE  /\ Has(Transfer(m, "read"), kb, WithBuffer(d, Fetched(d, k)), k, io)
           /\ Has(Transfer(m, "write"), kb, d, Stored(d, k), io)
<1> DEFINE b == Fetched(d, k)
           w == Stored(d, k)
<1>1. m.ide = d /\ m.disk = k /\ {"ide", "disk"} \subseteq DOMAIN m
  BY DEF Has, Fields
<1>2. Transfer(m, "read") = [m EXCEPT !.ide.io_buffer = b]
  BY <1>1 DEF Transfer, Fetched
<1>3. Transfer(m, "write") = [m EXCEPT !.disk = w]
  BY <1>1 DEF Transfer, Stored
<1> HIDE DEF b, w
<1>4. [m EXCEPT !.ide.io_buffer = b] = [m EXCEPT !.ide = WithBuffer(d, b)]
  BY <1>1 DEF WithBuffer
<1>5. /\ Has([m EXCEPT !.ide = WithBuffer(d, b)], kb, WithBuffer(d, b), k, io)
      /\ Has([m EXCEPT !.disk = w], kb, d, w, io)
  BY HasIde
<1>6. Has(Transfer(m, "read"), kb, WithBuffer(d, b), k, io) /\ Has(Transfer(m, "write"), kb, d, w, io)
  BY <1>2, <1>3, <1>4, <1>5, Zenon
<1> QED
  BY <1>6 DEF b, w

LEMMA HasIoDone ==
    ASSUME NEW m, NEW kb, NEW d, NEW k, NEW io, Has(m, kb, d, k, io)
    PROVE  /\ Has(ide_io_done(m, "read"), kb, AfterRead(WithBuffer(d, Fetched(d, k))), k, "none")
           /\ Has(ide_io_done(m, "write"), kb, AfterWrite(d), Stored(d, k), "none")
<1> DEFINE r == Transfer(m, "read")
           w == Transfer(m, "write")
           rd == [r EXCEPT !.io = "none"]
           wd == [w EXCEPT !.io = "none"]
           e == WithBuffer(d, Fetched(d, k))
           x == Stored(d, k)
<1>1. ide_io_done(m, "read") = ide_sector_read_cb(rd) /\ ide_io_done(m, "write") = ide_sector_write_cb2(wd)
  BY DEF ide_io_done
<1>2. Has(r, kb, e, k, io) /\ Has(w, kb, d, x, io)
  BY HasTransfer
<1> HIDE DEF r, w, e, x
<1>3. Has(rd, kb, e, k, "none") /\ Has(wd, kb, d, x, "none")
  BY <1>2, HasIde
<1> HIDE DEF rd, wd
<1>4. Has(ide_sector_read_cb(rd), kb, AfterRead(e), k, "none")
  BY <1>3, HasReadCb
<1>5. Has(ide_sector_write_cb2(wd), kb, AfterWrite(d), x, "none")
  BY <1>3, HasWriteCb2
<1> QED
  BY <1>1, <1>4, <1>5 DEF e, x

\* A request with the block device ends in one of these ways.
LEMMA HasSubmit ==
    ASSUME NEW m, NEW kb, NEW d, NEW k, NEW io, Has(m, kb, d, k, io), NEW op
    PROVE  /\ Has(Submit(m, op, "fail"), kb, WithStatus(d, "error"), k, io)
           /\ Submit(m, op, "sync") = ide_io_done(m, op)
           /\ Has(Submit(m, op, "async"), kb, WithStatus(d, "busy"), k, op)
<1> DEFINE e == [m EXCEPT !.ide.status = "error"]
           b == [m EXCEPT !.ide.status = "busy"]
           n == [b EXCEPT !.io = op]
<1>1. Has(e, kb, WithStatus(d, "error"), k, io) /\ Has(b, kb, WithStatus(d, "busy"), k, io)
  BY HasStatus, Zenon
<1>2. Submit(m, op, "fail") = ide_set_irq(e)
  BY DEF Submit, ide_abort_command
<1>3. Submit(m, op, "async") = n
  BY DEF Submit, Has, Fields
<1>4. Submit(m, op, "sync") = ide_io_done(m, op)
  BY DEF Submit
<1> HIDE DEF e, b
<1>5. Has(ide_set_irq(e), kb, WithStatus(d, "error"), k, io)
  BY <1>1, HasIdeIrq
<1>6. Has(n, kb, WithStatus(d, "busy"), k, op)
  BY <1>1, HasIde
<1> HIDE DEF n
<1> QED
  BY <1>2, <1>3, <1>4, <1>5, <1>6

\* The request has to be within the disk.
LEMMA HasOutcomes ==
    ASSUME NEW m, NEW kb, NEW d, NEW k, NEW io, Has(m, kb, d, k, io), NEW r \in Outcomes(m)
    PROVE  IF ide_get_sector(d) \in 0 .. (DiskSectors - d.io_nb_sectors)
           THEN r \in {"sync", "async"} ELSE r = "fail"
<1>1. m.ide = d
  BY DEF Has
<1> QED
  BY <1>1 DEF Outcomes

-----------------------------------------------------------------------------
(* The drive in a transfer                                                 *)

LEMMA DriveFields ==
    ASSUME NEW d
    PROVE  DriveOK(d) <=>
             /\ DOMAIN d = {"lba", "cyl", "head", "sector", "nsector", "status",
                            "mult_sectors", "req_nb_sectors", "io_nb_sectors",
                            "end_transfer", "data_index", "data_end", "io_buffer",
                            "cmd_reset", "disable_irq"}
             /\ d.cmd_reset \in BOOLEAN /\ d.lba \in BOOLEAN
             /\ d.status \in {"ready", "error", "busy", "drq"}
             /\ d.nsector \in Nat /\ d.mult_sectors \in Nat /\ d.req_nb_sectors \in Nat
             /\ d.io_nb_sectors \in Nat /\ d.data_index \in Nat /\ d.data_end \in Nat
             /\ d.io_buffer \in Seq(Nat)
  BY IdeFields DEF DriveOK

\* e has the registers of d that say where the transfer is.
Regs(d, e) ==
    /\ e.lba = d.lba /\ e.cyl = d.cyl /\ e.head = d.head /\ e.sector = d.sector
    /\ e.nsector = d.nsector /\ e.req_nb_sectors = d.req_nb_sectors
    /\ e.mult_sectors = d.mult_sectors /\ e.cmd_reset = d.cmd_reset

LEMMA SamePosition ==
    ASSUME NEW d, NEW e, Regs(d, e)
    PROVE  /\ ide_get_sector(e) = ide_get_sector(d)
           /\ \A j, s : Position(d, j, s) => Position(e, j, s)
           /\ \A j, s, c : BlockOf(d, j, s, c) => BlockOf(e, j, s, c)
<1>1. ide_get_sector(e) = ide_get_sector(d)
  BY DEF ide_get_sector, Regs
<1>2. ASSUME NEW j, NEW s, Position(d, j, s) PROVE Position(e, j, s)
  BY <1>1, <1>2 DEF Position, Regs
<1>3. ASSUME NEW j, NEW s, NEW c, BlockOf(d, j, s, c) PROVE BlockOf(e, j, s, c)
  BY <1>3 DEF BlockOf, Regs
<1> QED
  BY <1>1, <1>2, <1>3

LEMMA StartOK ==
    ASSUME NEW d, DriveOK(d), NEW n \in Nat, NEW func
    PROVE  LET e == Started(d, n, func)
           IN  /\ DriveOK(e) /\ Regs(d, e) /\ e.status = d.status
               /\ e.io_nb_sectors = d.io_nb_sectors /\ e.io_buffer = d.io_buffer
               /\ e.end_transfer = func /\ e.data_index = 0 /\ e.data_end = n
  BY DriveFields DEF Started, Regs

LEMMA StatusOK ==
    ASSUME NEW d, DriveOK(d), NEW v \in {"ready", "error", "busy", "drq"}
    PROVE  LET e == WithStatus(d, v)
           IN  /\ DriveOK(e) /\ Regs(d, e) /\ e.status = v
               /\ e.io_nb_sectors = d.io_nb_sectors /\ e.io_buffer = d.io_buffer
               /\ e.end_transfer = d.end_transfer /\ e.data_index = d.data_index
               /\ e.data_end = d.data_end
  BY DriveFields DEF WithStatus, Regs

LEMMA BufferOK ==
    ASSUME NEW d, DriveOK(d), NEW b \in Seq(Nat)
    PROVE  LET e == WithBuffer(d, b)
           IN  /\ DriveOK(e) /\ Regs(d, e) /\ e.status = d.status
               /\ e.io_nb_sectors = d.io_nb_sectors /\ e.io_buffer = b
               /\ e.end_transfer = d.end_transfer /\ e.data_index = d.data_index
               /\ e.data_end = d.data_end
  BY DriveFields DEF WithBuffer, Regs

LEMMA ChunkOK ==
    ASSUME NEW d, DriveOK(d), NEW n \in Nat
    PROVE  LET e == [d EXCEPT !.io_nb_sectors = n]
           IN  /\ DriveOK(e) /\ Regs(d, e) /\ e.status = d.status
               /\ e.io_nb_sectors = n /\ e.io_buffer = d.io_buffer
               /\ e.end_transfer = d.end_transfer /\ e.data_index = d.data_index
               /\ e.data_end = d.data_end
  BY DriveFields DEF Regs

\* Moving the position leaves the rest of the drive alone.
LEMMA SectorFields ==
    ASSUME NEW d, DriveOK(d), NEW x
    PROVE  LET e == ide_set_sector(d, x)
           IN  /\ DriveOK(e) /\ e.lba = d.lba /\ e.status = d.status /\ e.nsector = d.nsector
               /\ e.req_nb_sectors = d.req_nb_sectors /\ e.mult_sectors = d.mult_sectors
               /\ e.cmd_reset = d.cmd_reset /\ e.io_nb_sectors = d.io_nb_sectors
               /\ e.io_buffer = d.io_buffer /\ e.end_transfer = d.end_transfer
  BY DriveFields DEF ide_set_sector

LEMMA CountFields ==
    ASSUME NEW d, DriveOK(d), NEW x \in Nat
    PROVE  LET e == [d EXCEPT !.nsector = x]
           IN  /\ DriveOK(e) /\ e.lba = d.lba /\ e.cyl = d.cyl /\ e.head = d.head
               /\ e.sector = d.sector /\ e.status = d.status /\ e.nsector = x
               /\ e.req_nb_sectors = d.req_nb_sectors /\ e.mult_sectors = d.mult_sectors
               /\ e.cmd_reset = d.cmd_reset /\ e.io_nb_sectors = d.io_nb_sectors
               /\ e.io_buffer = d.io_buffer /\ e.end_transfer = d.end_transfer
  BY DriveFields

\* The counter counts what is left, and a full count reads as zero.
LEMMA CountDown ==
    ASSUME NEW k \in Nat \ {0}, NEW r \in 1 .. k, NEW c \in 1 .. r
    PROVE  /\ ((r % k) + k - c) % k = r - c
           /\ r % k = IF r = k THEN 0 ELSE r
<1>1. CASE r = k
  <2>1. r % k = 0
    BY <1>1
  <2>2. k - c \in 0 .. k - 1
    BY <1>1
  <2>3. (k - c) % k = k - c
    BY <2>2
  <2> QED BY <1>1, <2>1, <2>3
<1>2. CASE r # k
  <2>1. r % k = r
    BY <1>2
  <2>2. r - c \in 0 .. k - 1 /\ r + k - c = k * 1 + (r - c)
    BY <1>2
  <2>3. (k * 1 + (r - c)) % k = r - c
    BY <2>2, DivUnique
  <2> QED BY <1>2, <2>1, <2>2, <2>3
<1> QED
  BY <1>1, <1>2

LEMMA SmallMod == ASSUME NEW k \in Nat \ {0}, NEW x \in 0 .. k - 1 PROVE x % k = x
  OBVIOUS

\* After a block of c sectors the registers are c sectors further.
LEMMA AdvanceTo ==
    ASSUME NEW d, DriveOK(d), NEW j, JobOK(j), NEW s, Position(d, j, s),
           d.io_nb_sectors \in 1 .. (j.n - s), j.lba + s + d.io_nb_sectors <= DiskSectors
    PROVE  LET e == Advance(d)
               t == s + d.io_nb_sectors
           IN  /\ DriveOK(e) /\ e.status = d.status /\ e.cmd_reset = d.cmd_reset
               /\ e.mult_sectors = d.mult_sectors
               /\ e.io_nb_sectors = d.io_nb_sectors /\ e.io_buffer = d.io_buffer
               /\ e.req_nb_sectors = d.req_nb_sectors /\ e.nsector = j.n - t
               /\ t < j.n => Position(e, j, t)
<1> DEFINE c == d.io_nb_sectors
           t == s + c
           r == j.n - s
           x == ide_get_sector(d) + c
           f == ide_set_sector(d, x)
           y == (f.nsector + CountMod - c) % CountMod
           e == [f EXCEPT !.nsector = y]
<1>1. Advance(d) = e
  BY DEF Advance
<1>2. /\ CountMod \in Nat \ {0} /\ DiskSectors \in Nat /\ j.lba \in Nat /\ j.n \in 0 .. CountMod
      /\ s \in 0 .. (j.n - 1) /\ c \in 1 .. r /\ r \in 1 .. CountMod
  BY IdeConstants DEF JobOK, Position
<1>3. x = j.lba + t /\ x \in 0 .. DiskSectors /\ t \in Nat
  BY <1>2 DEF Position
<1> HIDE DEF x
<1>4. /\ DriveOK(f) /\ f.lba = d.lba /\ f.status = d.status /\ f.nsector = d.nsector
      /\ f.req_nb_sectors = d.req_nb_sectors /\ f.mult_sectors = d.mult_sectors
      /\ f.cmd_reset = d.cmd_reset /\ f.io_nb_sectors = d.io_nb_sectors
      /\ f.io_buffer = d.io_buffer
  BY SectorFields
<1>5. ide_get_sector(f) = x
  BY <1>3, GetSet DEF DriveOK
<1> HIDE DEF f
<1>6. y = r - c /\ y \in Nat
  <2>1. d.nsector = r % CountMod
    BY DEF Position
  <2>2. ((r % CountMod) + CountMod - c) % CountMod = r - c
    <3> HIDE DEF c, r
    <3> QED BY <1>2, CountDown
  <2>3. r - c \in Nat
    BY <1>2
  <2> QED BY <1>4, <2>1, <2>2, <2>3
<1> HIDE DEF y
<1>7. /\ DriveOK(e) /\ e.lba = f.lba /\ e.cyl = f.cyl /\ e.head = f.head
      /\ e.sector = f.sector /\ e.status = f.status /\ e.nsector = y
      /\ e.req_nb_sectors = f.req_nb_sectors /\ e.mult_sectors = f.mult_sectors
      /\ e.cmd_reset = f.cmd_reset /\ e.io_nb_sectors = f.io_nb_sectors
      /\ e.io_buffer = f.io_buffer
  BY <1>4, <1>6, CountFields
<1> HIDE DEF e
<1>8. ide_get_sector(e) = x
  BY <1>5, <1>7 DEF ide_get_sector
<1>9. ASSUME t < j.n PROVE Position(e, j, t)
  <2>1. j.n - t \in 0 .. CountMod - 1 /\ y = j.n - t
    BY <1>2, <1>6, <1>9
  <2>2. (j.n - t) % CountMod = j.n - t
    <3> HIDE DEF t
    <3> QED BY <1>2, <2>1, SmallMod
  <2>3. t \in 0 .. (j.n - 1)
    BY <1>2, <1>3, <1>9
  <2> HIDE DEF t
  <2> QED BY <1>3, <1>4, <1>7, <1>8, <2>1, <2>2, <2>3 DEF Position
<1>10. y = j.n - t
  BY <1>2, <1>6
<1> QED
  BY <1>1, <1>4, <1>7, <1>9, <1>10

\* The next block is what is left, or as much as a block may hold.
LEMMA ChunkIsBlock ==
    ASSUME NEW d, DriveOK(d), NEW j, JobOK(j), NEW s, Position(d, j, s),
           j.lba + s <= DiskSectors
    PROVE  Chunk(d) \in Nat /\ BlockOf(d, j, s, Chunk(d))
<1> DEFINE r == j.n - s
           q == d.req_nb_sectors
<1>1. /\ CountMod \in Nat \ {0} /\ j.n \in 0 .. CountMod /\ s \in 0 .. (j.n - 1)
      /\ r \in 1 .. CountMod /\ q \in Nat /\ q # 0
  <2>1. CountMod \in Nat \ {0} /\ j.n \in 0 .. CountMod /\ s \in 0 .. (j.n - 1)
    BY IdeConstants DEF JobOK, Position
  <2>2. q \in Nat /\ q # 0
    BY DriveFields DEF Position
  <2> QED BY <2>1, <2>2
<1>2. d.nsector = IF r = CountMod THEN 0 ELSE r
  <2>1. r \in 1 .. r
    BY <1>1
  <2>2. r % CountMod = IF r = CountMod THEN 0 ELSE r
    BY <1>1, <2>1, CountDown
  <2> QED BY <2>2 DEF Position
<1>3. (IF d.nsector = 0 THEN CountMod ELSE d.nsector) = r
  BY <1>1, <1>2
<1>4. Chunk(d) = Min({q, r})
  BY <1>3 DEF Chunk
<1>5. q \in Int /\ r \in Int
  BY <1>1
<1> HIDE DEF q, r
<1>6. Min({q, r}) = IF q <= r THEN q ELSE r
  BY <1>5, MinOfTwo
<1> QED
  BY <1>1, <1>4, <1>6 DEF BlockOf, q, r

Disk == [0 .. (DiskSectors - 1) -> Nat]

LEMMA JobFields ==
    ASSUME NEW j, JobOK(j)
    PROVE  /\ j.lba \in Nat /\ j.n \in Nat /\ j.n <= CountMod /\ DiskSectors \in Nat
           /\ j.data \in Seq(Nat) /\ Len(j.data) \in Nat /\ CountMod \in Nat \ {0}
  BY IdeConstants DEF JobOK

\* The block device answers a read: the block is in the buffer and the
\* registers are behind it.
LEMMA ReadDone ==
    ASSUME NEW d, DriveOK(d), NEW j, JobOK(j), NEW k \in Disk, j.op = "read",
           ReadBusy(d, j), Matches(k, j, Len(j.data)), ~d.cmd_reset
    PROVE  LET e == AfterRead(WithBuffer(d, Fetched(d, k)))
           IN  Transferring(e, k, "none", j) /\ e.status = "drq"
<1> DEFINE s == Len(j.data)
           c == d.io_nb_sectors
           b == Fetched(d, k)
           f == WithBuffer(d, b)
           a == Advance(f)
           func == IF a.nsector = 0 THEN "read_end" ELSE "read"
           g == Started(a, a.io_nb_sectors, func)
           e == WithStatus(g, "drq")
<1>1. /\ j.lba \in Nat /\ j.n \in Nat /\ j.n <= CountMod /\ DiskSectors \in Nat
      /\ s \in Nat /\ c \in Nat /\ c \in 1 .. (j.n - s) /\ j.lba + s + c <= DiskSectors
      /\ Position(d, j, s) /\ ide_get_sector(d) = j.lba + s
  BY JobFields, DriveFields DEF ReadBusy, BlockOf, Position
<1>2. b = [i \in 1 .. c |-> k[j.lba + s + i - 1]]
  BY <1>1 DEF Fetched
<1>3. b \in Seq(Nat) /\ Len(b) = c /\ \A i \in 1 .. c : b[i] = k[j.lba + s + i - 1]
  <2> HIDE DEF s, c
  <2>1. ASSUME NEW i \in 1 .. c PROVE k[j.lba + s + i - 1] \in Nat
    <3>1. j.lba + s + i - 1 \in 0 .. (DiskSectors - 1)
      BY <1>1
    <3> QED BY <3>1 DEF Disk
  <2> QED BY <1>1, <1>2, <2>1
<1> HIDE DEF b
<1>4. /\ DriveOK(f) /\ Regs(d, f) /\ f.io_nb_sectors = c /\ f.io_buffer = b
  BY <1>3, BufferOK
<1>5. Position(f, j, s) /\ f.cmd_reset = d.cmd_reset
  BY <1>1, <1>4, SamePosition DEF Regs
<1> HIDE DEF f
<1>6. /\ DriveOK(a) /\ a.cmd_reset = d.cmd_reset /\ a.io_nb_sectors = c /\ a.io_buffer = b
      /\ a.nsector = j.n - (s + c) /\ (s + c < j.n => Position(a, j, s + c))
  <2>1. f.io_nb_sectors \in 1 .. (j.n - s) /\ j.lba + s + f.io_nb_sectors <= DiskSectors
    BY <1>1, <1>4
  <2> QED BY <1>4, <1>5, <2>1, AdvanceTo
<1>7. AfterRead(f) = e
  BY DEF AfterRead
<1> HIDE DEF a, s, c
<1>8. func = IF s + c = j.n THEN "read_end" ELSE "read"
  <2>1. s \in Int /\ c \in Int /\ j.n \in Int
    BY <1>1
  <2>2. a.nsector = 0 <=> s + c = j.n
    BY <1>6, <2>1
  <2> QED BY <2>2
<1> HIDE DEF func
<1>9. /\ DriveOK(g) /\ Regs(a, g) /\ g.io_buffer = b /\ g.end_transfer = func
      /\ g.data_index = 0 /\ g.data_end = c
  BY <1>1, <1>6, StartOK
<1> HIDE DEF g
<1>10. /\ DriveOK(e) /\ Regs(g, e) /\ e.io_buffer = b /\ e.end_transfer = func
       /\ e.data_index = 0 /\ e.data_end = c /\ e.status = "drq"
  <2>1. "drq" \in {"ready", "error", "busy", "drq"}
    OBVIOUS
  <2> QED BY <1>9, <2>1, StatusOK
<1> HIDE DEF e
<1>11. e.cmd_reset = FALSE /\ (s + c < j.n => Position(e, j, s + c))
  <2>1. Regs(a, e)
    BY <1>9, <1>10 DEF Regs
  <2> QED BY <1>6, <2>1, SamePosition DEF Regs
<1>12. ReadDrq(e, k, j)
  <2>1. Len(j.data) - e.data_index = s
    BY <1>1, <1>10 DEF s
  <2>2. /\ s \in Nat /\ e.data_index < e.data_end /\ s + e.data_end <= j.n
        /\ j.lba + s + e.data_end <= DiskSectors /\ Len(e.io_buffer) = e.data_end
    BY <1>1, <1>3, <1>10
  <2>3. \A i \in 1 .. e.data_end : e.io_buffer[i] = k[j.lba + s + i - 1]
    BY <1>3, <1>10
  <2>4. e.end_transfer = IF s + e.data_end = j.n THEN "read_end" ELSE "read"
    BY <1>8, <1>10
  <2>5. s + e.data_end < j.n => Position(e, j, s + e.data_end)
    BY <1>10, <1>11
  <2> QED BY <2>1, <2>2, <2>3, <2>4, <2>5 DEF ReadDrq
<1>13. Moving(e, k, j)
  BY <1>10, <1>12 DEF Moving
<1>14. Waits(e, "none", j)
  BY <1>10, <1>11 DEF Waits
<1> QED
  BY <1>7, <1>10, <1>13, <1>14 DEF Transferring, Disk, f, b

\* Where a sector of the job lies in the block at hand.
LEMMA PlaceInBlock ==
    ASSUME NEW a \in Int, NEW s \in Int, NEW c \in Int, NEW i \in Int, NEW lba,
           lba = a + s, i > s, i <= s + c
    PROVE  /\ (a + i - 1) - lba = i - s - 1 /\ i - s \in 1 .. c
           /\ (a + i - 1) - lba \in 0 .. (c - 1) /\ (a + i - 1) - lba + 1 = i - s
  OBVIOUS

\* The block device answers a write: the block is on the disk, and the next
\* one is asked for, or all of the job is there.
LEMMA StoredBlock ==
    ASSUME NEW d, DriveOK(d), NEW j, JobOK(j), NEW k \in Disk, WriteBusy(d, k, j)
    PROVE  Stored(d, k) \in Disk /\ Matches(Stored(d, k), j, Len(j.data))
<1> DEFINE c == d.io_nb_sectors
           s == Len(j.data) - c
           x == Stored(d, k)
           lba == j.lba + s
           b == d.io_buffer
<1>1. /\ j.lba \in Nat /\ DiskSectors \in Nat /\ Len(j.data) \in Nat /\ j.data \in Seq(Nat)
      /\ s \in Nat /\ c \in Nat /\ lba + c <= DiskSectors /\ s + c = Len(j.data) /\ lba \in Nat
  <2>1. /\ j.lba \in Nat /\ DiskSectors \in Nat /\ Len(j.data) \in Nat /\ j.data \in Seq(Nat)
        /\ j.n \in Nat /\ c \in Nat
    BY JobFields, DriveFields
  <2>2. s \in 0 .. (j.n - 1) /\ j.lba + s + c <= DiskSectors
    BY DEF WriteBusy, Position
  <2> QED BY <2>1, <2>2
<1>2. x = [z \in 0 .. (DiskSectors - 1) |-> IF z - lba \in 0 .. (c - 1) THEN b[z - lba + 1] ELSE k[z]]
  BY DEF Stored, WriteBusy, Position, Disk
<1>3. /\ c <= Len(b) /\ b \in Seq(Nat) /\ \A i \in 1 .. c : b[i] = j.data[s + i]
      /\ \A i \in 1 .. s : j.data[i] = k[j.lba + i - 1]
  BY DriveFields DEF WriteBusy, Matches
<1> HIDE DEF x, b, c, s, lba
<1>4. ASSUME NEW i \in 1 .. c PROVE b[i] \in Nat
  <2>1. i \in 1 .. Len(b)
    BY <1>1, <1>3
  <2> QED BY <1>3, <2>1
<1>5. ASSUME NEW z \in 0 .. (DiskSectors - 1)
      PROVE  (IF z - lba \in 0 .. (c - 1) THEN b[z - lba + 1] ELSE k[z]) \in Nat
  <2>1. CASE z - lba \in 0 .. (c - 1)
    <3>1. z - lba + 1 \in 1 .. c
      BY <1>1, <2>1
    <3> QED BY <1>4, <2>1, <3>1
  <2>2. CASE ~(z - lba \in 0 .. (c - 1))
    BY <2>2 DEF Disk
  <2> QED BY <2>1, <2>2
<1>6. x \in Disk
  BY <1>2, <1>5 DEF Disk
<1>7. ASSUME NEW i \in 1 .. Len(j.data) PROVE j.data[i] = x[j.lba + i - 1]
  <2> DEFINE z == j.lba + i - 1
  <2>0. lba = j.lba + s /\ s \in Int /\ c \in Int
    BY <1>1 DEF lba
  <2>1. z \in 0 .. (DiskSectors - 1)
    <3>1. i \in Int /\ 1 <= i /\ i <= s + c /\ j.lba \in Int /\ 0 <= j.lba
      BY <1>1
    <3>2. j.lba + s + c <= DiskSectors /\ DiskSectors \in Int
      BY <1>1, <2>0
    <3> QED BY <2>0, <3>1, <3>2
  <2>2. CASE i <= s
    <3>1. ~(z - lba \in 0 .. (c - 1))
      BY <1>1, <2>0, <2>2
    <3>2. x[z] = k[z]
      BY <1>2, <2>1, <3>1
    <3>3. i \in 1 .. s
      BY <1>1, <2>2
    <3> QED BY <1>3, <3>2, <3>3
  <2>3. CASE i > s
    <3>0. i \in Int /\ i <= s + c /\ j.lba \in Int
      BY <1>1
    <3>9. /\ z - lba = i - s - 1 /\ i - s \in 1 .. c
           /\ z - lba \in 0 .. (c - 1) /\ z - lba + 1 = i - s
      <4> HIDE DEF s, c, lba
      <4> QED BY <2>0, <2>3, <3>0, PlaceInBlock
    <3>1. z - lba = i - s - 1 /\ i - s \in 1 .. c
      BY <3>9
    <3>2. z - lba \in 0 .. (c - 1) /\ z - lba + 1 = i - s
      BY <3>9
    <3> HIDE DEF z
    <3>3. x[z] = b[i - s]
      BY <1>2, <2>1, <3>2
    <3>4. b[i - s] = j.data[s + (i - s)]
      BY <1>3, <3>1
    <3>5. s + (i - s) = i
      BY <1>1
    <3> QED BY <3>3, <3>4, <3>5 DEF z
  <2> QED BY <1>1, <2>2, <2>3
<1> QED
  BY <1>6, <1>7 DEF x, Matches

LEMMA WriteDone ==
    ASSUME NEW d, DriveOK(d), NEW j, JobOK(j), NEW k \in Disk, j.op = "write",
           WriteBusy(d, k, j), ~d.cmd_reset
    PROVE  LET e == AfterWrite(d)
           IN  Transferring(e, Stored(d, k), "none", j) /\ e.status \in {"drq", "ready"}
<1> DEFINE c == d.io_nb_sectors
           s == Len(j.data) - c
           x == Stored(d, k)
           t == Len(j.data)
           a == Advance(d)
           next == Min({a.nsector, a.req_nb_sectors})
           f == [a EXCEPT !.io_nb_sectors = next]
           g == Started(f, next, "write")
           e == WithStatus(g, "drq")
           r == WithStatus(a, "ready")
<1>1. /\ j.lba \in Nat /\ j.n \in Nat /\ t \in Nat /\ c \in Nat /\ DiskSectors \in Nat
      /\ s + c = t /\ Position(d, j, s) /\ c \in 1 .. (j.n - s) /\ j.lba + s + c <= DiskSectors
      /\ j.lba + t <= DiskSectors
  <2>1. Position(d, j, s) /\ c \in 1 .. (j.n - s) /\ j.lba + s + c <= DiskSectors
    BY DEF WriteBusy, BlockOf
  <2>2. j.lba \in Nat /\ j.n \in Nat /\ t \in Nat /\ c \in Nat /\ DiskSectors \in Nat
    BY JobFields, DriveFields
  <2> QED BY <2>1, <2>2
<1>2. x \in Disk /\ Matches(x, j, t)
  BY StoredBlock
<1>3. AfterWrite(d) = IF a.nsector = 0 THEN r ELSE e
  BY DEF AfterWrite
<1>4. /\ DriveOK(a) /\ a.cmd_reset = d.cmd_reset /\ a.req_nb_sectors = d.req_nb_sectors
      /\ a.nsector = j.n - t /\ (t < j.n => Position(a, j, t))
  <2> HIDE DEF t, s
  <2>1. /\ DriveOK(a) /\ a.cmd_reset = d.cmd_reset /\ a.req_nb_sectors = d.req_nb_sectors
        /\ a.nsector = j.n - (s + c) /\ (s + c < j.n => Position(a, j, s + c))
    BY <1>1, AdvanceTo
  <2> QED BY <1>1, <2>1
<1> HIDE DEF x, a, s, c
<1>5. CASE a.nsector = 0
  <2>1. DriveOK(r) /\ r.status = "ready" /\ r.cmd_reset = a.cmd_reset
    <3>1. "ready" \in {"ready", "error", "busy", "drq"}
      OBVIOUS
    <3> QED BY <1>4, <3>1, StatusOK DEF Regs
  <2> HIDE DEF r
  <2>2. t = j.n
    BY <1>1, <1>4, <1>5
  <2>3. Moving(r, x, j)
    BY <1>2, <2>1, <2>2 DEF Moving
  <2>4. Waits(r, "none", j)
    BY <1>4, <2>1 DEF Waits
  <2> QED BY <1>2, <1>3, <1>5, <2>1, <2>3, <2>4 DEF Transferring, Disk, x
<1>6. CASE a.nsector # 0
  <2> DEFINE q == a.req_nb_sectors
  <2>1. t < j.n /\ j.n - t \in Nat /\ q \in Nat /\ q # 0
    <3>1. q \in Nat /\ a.nsector \in Nat
      BY <1>4, DriveFields
    <3>2. q # 0
      BY <1>1, <1>4 DEF Position
    <3> QED BY <1>1, <1>4, <1>6, <3>1, <3>2
  <2>2. next = (IF q <= j.n - t THEN q ELSE j.n - t) /\ next \in Nat /\ next \in 1 .. (j.n - t)
    <3>1. q \in Int /\ j.n - t \in Int
      BY <2>1
    <3> DEFINE y == j.n - t
    <3>2. next = Min({y, q})
      BY <1>4
    <3> HIDE DEF next, y, q
    <3>3. Min({y, q}) = IF y <= q THEN y ELSE q
      BY <3>1, MinOfTwo DEF y
    <3>4. y \in Nat /\ y # 0 /\ q \in Nat /\ q # 0
      BY <1>1, <2>1 DEF y
    <3>5. next = (IF q <= y THEN q ELSE y) /\ next \in Nat /\ next \in 1 .. y
      BY <3>2, <3>3, <3>4
    <3> QED BY <3>5 DEF y
  <2> HIDE DEF next, q
  <2>3. DriveOK(f) /\ Regs(a, f) /\ f.io_nb_sectors = next
    BY <1>4, <2>2, ChunkOK
  <2> HIDE DEF f
  <2>4. /\ DriveOK(g) /\ Regs(f, g) /\ g.io_nb_sectors = next /\ g.end_transfer = "write"
        /\ g.data_index = 0 /\ g.data_end = next
    BY <2>2, <2>3, StartOK
  <2> HIDE DEF g
  <2>5. /\ DriveOK(e) /\ Regs(g, e) /\ e.io_nb_sectors = next /\ e.end_transfer = "write"
        /\ e.data_index = 0 /\ e.data_end = next /\ e.status = "drq"
    <3>1. "drq" \in {"ready", "error", "busy", "drq"}
      OBVIOUS
    <3> QED BY <2>4, <3>1, StatusOK
  <2> HIDE DEF e
  <2>6. Regs(a, e)
    BY <2>3, <2>4, <2>5 DEF Regs
  <2>7. Position(e, j, t) /\ e.cmd_reset = FALSE /\ e.req_nb_sectors = q
    BY <1>4, <2>1, <2>6, SamePosition DEF Regs, q
  <2>8. BlockOf(e, j, t, next)
    <3>1. j.lba + t <= DiskSectors
      BY <1>1
    <3> QED BY <2>2, <2>7, <3>1 DEF BlockOf
  <2>9. WriteDrq(e, x, j)
    <3>1. Len(j.data) - e.data_index = t /\ e.data_index < next
      BY <1>1, <2>2, <2>5
    <3>2. e.data_index <= Len(e.io_buffer)
      <4>1. Len(e.io_buffer) \in Nat
        BY <2>5, DriveFields
      <4> QED BY <2>5, <4>1
    <3>3. \A i \in 1 .. e.data_index : e.io_buffer[i] = j.data[t + i]
      BY <2>5
    <3> HIDE DEF t
    <3> QED BY <1>2, <2>5, <2>7, <2>8, <3>1, <3>2, <3>3 DEF WriteDrq
  <2>10. Moving(e, x, j)
    BY <2>5, <2>9 DEF Moving
  <2>11. Waits(e, "none", j)
    BY <2>5, <2>7 DEF Waits
  <2> QED BY <1>2, <1>3, <1>6, <2>5, <2>10, <2>11 DEF Transferring, Disk, x
<1> QED
  BY <1>5, <1>6

\* The job is over, or was never begun: no sector is owed.
LEMMA IdleJob ==
    ASSUME NEW d, DriveOK(d), NEW k \in Disk, ~d.cmd_reset, d.status \in {"error", "ready", "drq"},
           d.status = "drq" => d.end_transfer = "identify"
    PROVE  Transferring(d, k, "none", Idle)
<1>1. JobOK(Idle) /\ Idle.op = "none"
  BY IdeConstants DEF JobOK, Idle
<1> HIDE DEF Idle
<1>2. Moving(d, k, Idle) /\ Waits(d, "none", Idle)
  BY <1>1 DEF Moving, Waits
<1> QED
  BY <1>1, <1>2 DEF Transferring, Disk

\* What a request may lead to: an error, or the transfer goes on.
Goes(n, kb, j) ==
    \E d, k, io :
      /\ Has(n, kb, d, k, io)
      /\ \/ d.status = "error" /\ Transferring(d, k, io, Idle)
         \/ d.status # "error" /\ Transferring(d, k, io, j)

LEMMA SubmitRead ==
    ASSUME NEW m, NEW kb, NEW d, NEW k \in Disk, Has(m, kb, d, k, "none"), DriveOK(d), ~d.cmd_reset,
           NEW j, JobOK(j), j.op = "read", Position(d, j, Len(j.data)),
           Matches(k, j, Len(j.data)), j.lba + Len(j.data) <= DiskSectors,
           NEW n \in ide_sector_read(m)
    PROVE  Goes(n, kb, j)
<1> DEFINE c == Chunk(d)
           s == Len(j.data)
           w == [m EXCEPT !.ide.io_nb_sectors = c]
           e == [d EXCEPT !.io_nb_sectors = c]
<1>1. c \in Nat /\ BlockOf(d, j, s, c)
  BY ChunkIsBlock
<1>2. \E r \in Outcomes(w) : n = Submit(w, "read", r)
  BY DEF ide_sector_read, Has
<1> HIDE DEF c
<1>3. Has(w, kb, e, k, "none")
  BY HasChunk, Zenon
<1> HIDE DEF w
<1>4. DriveOK(e) /\ Regs(d, e) /\ e.io_nb_sectors = c
  BY <1>1, ChunkOK
<1> HIDE DEF e
<1>5. Position(e, j, s) /\ BlockOf(e, j, s, c) /\ ~e.cmd_reset /\ ide_get_sector(e) = j.lba + s
  BY <1>1, <1>4, SamePosition DEF Regs, Position
<1>6. PICK r \in Outcomes(w) : n = Submit(w, "read", r)
  BY <1>2
<1>7. CASE r = "fail"
  <2> DEFINE f == WithStatus(e, "error")
  <2>1. Has(n, kb, f, k, "none")
    BY <1>3, <1>6, <1>7, HasSubmit
  <2>2. DriveOK(f) /\ f.status = "error" /\ ~f.cmd_reset
    <3>1. "error" \in {"ready", "error", "busy", "drq"}
      OBVIOUS
    <3> QED BY <1>4, <1>5, <3>1, StatusOK DEF Regs
  <2> HIDE DEF f
  <2>3. Transferring(f, k, "none", Idle)
    BY <2>2, IdleJob
  <2> QED BY <2>1, <2>2, <2>3 DEF Goes
<1>8. CASE r # "fail"
  <2>1. ide_get_sector(e) \in 0 .. (DiskSectors - c) /\ r \in {"sync", "async"}
    BY <1>3, <1>4, <1>6, <1>8, HasOutcomes
  <2>2. ReadBusy(e, j)
    <3>1. j.lba + s + c <= DiskSectors
      BY <1>1, <1>5, <2>1, JobFields
    <3> QED BY <1>4, <1>5, <3>1 DEF ReadBusy
  <2>3. CASE r = "sync"
    <3> DEFINE f == AfterRead(WithBuffer(e, Fetched(e, k)))
    <3>1. Has(n, kb, f, k, "none")
      BY <1>3, <1>6, <2>3, HasSubmit, HasIoDone
    <3>2. Transferring(f, k, "none", j) /\ f.status = "drq"
      BY <1>4, <1>5, <2>2, ReadDone
    <3> HIDE DEF f
    <3> QED BY <3>1, <3>2 DEF Goes
  <2>4. CASE r = "async"
    <3> DEFINE f == WithStatus(e, "busy")
    <3>1. Has(n, kb, f, k, "read")
      BY <1>3, <1>6, <2>4, HasSubmit
    <3>2. DriveOK(f) /\ f.status = "busy" /\ ~f.cmd_reset /\ Regs(e, f) /\ f.io_nb_sectors = e.io_nb_sectors
      <4>1. "busy" \in {"ready", "error", "busy", "drq"}
        OBVIOUS
      <4> QED BY <1>4, <1>5, <4>1, StatusOK DEF Regs
    <3> HIDE DEF f
    <3>3. ReadBusy(f, j)
      BY <2>2, <3>2, SamePosition DEF ReadBusy
    <3>4. Moving(f, k, j) /\ Waits(f, "read", j)
      BY <3>2, <3>3 DEF Moving, Waits
    <3> QED BY <3>1, <3>2, <3>4 DEF Goes, Transferring, Disk
  <2> QED BY <2>1, <2>3, <2>4
<1> QED
  BY <1>7, <1>8

\* A block of the job is in the buffer, whether or not it fits on the disk.
Collected(d, k, j) ==
    LET c == d.io_nb_sectors
        s == Len(j.data) - c
    IN  /\ Position(d, j, s) /\ BlockOf(d, j, s, c)
        /\ Matches(k, j, s)
        /\ c <= Len(d.io_buffer)
        /\ \A i \in 1 .. c : d.io_buffer[i] = j.data[s + i]

LEMMA SameCollected ==
    ASSUME NEW d, NEW e, Regs(d, e), e.io_nb_sectors = d.io_nb_sectors,
           e.io_buffer = d.io_buffer, NEW k, NEW j, Collected(d, k, j)
    PROVE  Collected(e, k, j)
  BY SamePosition DEF Collected

LEMMA SubmitWrite ==
    ASSUME NEW m, NEW kb, NEW d, NEW k \in Disk, Has(m, kb, d, k, "none"), DriveOK(d), ~d.cmd_reset,
           NEW j, JobOK(j), j.op = "write", Collected(d, k, j),
           NEW n \in ide_sector_write_cb1(m)
    PROVE  Goes(n, kb, j)
<1> DEFINE w == ide_transfer_stop(m)
           e == Started(d, 0, "stop")
           c == d.io_nb_sectors
           s == Len(j.data) - c
<1>1. \E r \in Outcomes(w) : n = Submit(w, "write", r)
  BY DEF ide_sector_write_cb1
<1>2. Has(w, kb, e, k, "none")
  BY HasStart DEF ide_transfer_stop
<1> HIDE DEF w
<1>3. DriveOK(e) /\ Regs(d, e) /\ e.io_nb_sectors = c /\ e.io_buffer = d.io_buffer
  BY StartOK
<1> HIDE DEF e
<1>4. Collected(e, k, j) /\ ~e.cmd_reset
  BY <1>3, SameCollected DEF Regs
<1>5. PICK r \in Outcomes(w) : n = Submit(w, "write", r)
  BY <1>1
<1>6. CASE r = "fail"
  <2> DEFINE f == WithStatus(e, "error")
  <2>1. Has(n, kb, f, k, "none")
    BY <1>2, <1>5, <1>6, HasSubmit
  <2>2. DriveOK(f) /\ f.status = "error" /\ ~f.cmd_reset
    <3>1. "error" \in {"ready", "error", "busy", "drq"}
      OBVIOUS
    <3> QED BY <1>3, <1>4, <3>1, StatusOK DEF Regs
  <2> HIDE DEF f
  <2>3. Transferring(f, k, "none", Idle)
    BY <2>2, IdleJob
  <2> QED BY <2>1, <2>2, <2>3 DEF Goes
<1>7. CASE r # "fail"
  <2>1. ide_get_sector(e) \in 0 .. (DiskSectors - c) /\ r \in {"sync", "async"}
    BY <1>2, <1>3, <1>5, <1>7, HasOutcomes
  <2>2. j.lba + s + c <= DiskSectors
    <3>1. ide_get_sector(e) = j.lba + s /\ s \in 0 .. (j.n - 1)
      BY <1>3, <1>4 DEF Collected, Position
    <3>2. c \in Nat /\ j.lba \in Nat /\ DiskSectors \in Nat /\ j.n \in Nat
      BY JobFields, DriveFields
    <3> HIDE DEF s, c
    <3> QED BY <2>1, <3>1, <3>2
  <2>3. ASSUME NEW f, Regs(e, f), f.io_nb_sectors = c, f.io_buffer = e.io_buffer
        PROVE  WriteBusy(f, k, j)
    <3>1. Collected(f, k, j)
      BY <1>3, <1>4, <2>3, SameCollected
    <3> QED BY <2>2, <2>3, <3>1 DEF Collected, WriteBusy
  <2>4. CASE r = "sync"
    <3> DEFINE f == AfterWrite(e)
               x == Stored(e, k)
    <3>1. Has(n, kb, f, x, "none")
      BY <1>2, <1>5, <2>4, HasSubmit, HasIoDone
    <3>2. WriteBusy(e, k, j)
      BY <1>3, <2>3 DEF Regs
    <3>3. Transferring(f, x, "none", j) /\ f.status \in {"drq", "ready"}
      BY <1>3, <1>4, <3>2, WriteDone
    <3> HIDE DEF f, x
    <3> QED BY <3>1, <3>3 DEF Goes
  <2>5. CASE r = "async"
    <3> DEFINE f == WithStatus(e, "busy")
    <3>1. Has(n, kb, f, k, "write")
      BY <1>2, <1>5, <2>5, HasSubmit
    <3>2. /\ DriveOK(f) /\ f.status = "busy" /\ ~f.cmd_reset /\ Regs(e, f)
          /\ f.io_nb_sectors = e.io_nb_sectors /\ f.io_buffer = e.io_buffer
      <4>1. "busy" \in {"ready", "error", "busy", "drq"}
        OBVIOUS
      <4> QED BY <1>3, <1>4, <4>1, StatusOK DEF Regs
    <3> HIDE DEF f
    <3>3. WriteBusy(f, k, j)
      BY <1>3, <2>3, <3>2
    <3>4. Moving(f, k, j) /\ Waits(f, "write", j)
      BY <3>2, <3>3 DEF Moving, Waits
    <3> QED BY <3>1, <3>2, <3>4 DEF Goes, Transferring, Disk
  <2> QED BY <2>1, <2>4, <2>5
<1> QED
  BY <1>6, <1>7

-----------------------------------------------------------------------------
(* The commands                                                            *)

Kind(cmd) == CASE cmd \in {"read", "multread"} -> "read"
               [] cmd \in {"write", "multwrite"} -> "write"
               [] OTHER -> "none"

\* The registers are loaded for job j.
Loaded(d, j) ==
    /\ JobOK(j) /\ j.data = <<>>
    /\ ide_get_sector(d) = j.lba /\ d.nsector = j.n % CountMod

WithBlock(d, q) == [d EXCEPT !.req_nb_sectors = q]

LEMMA BlockSize ==
    ASSUME NEW m, NEW kb, NEW d, NEW k, NEW io, Has(m, kb, d, k, io), DriveOK(d),
           NEW q \in Nat, NEW j, Loaded(d, j)
    PROVE  /\ Has([m EXCEPT !.ide.req_nb_sectors = q], kb, WithBlock(d, q), k, io)
           /\ DriveOK(WithBlock(d, q)) /\ WithBlock(d, q).cmd_reset = d.cmd_reset
           /\ q # 0 /\ j.n # 0 => Position(WithBlock(d, q), j, 0)
<1> DEFINE e == WithBlock(d, q)
<1>1. [m EXCEPT !.ide.req_nb_sectors = q] = [m EXCEPT !.ide = e]
  BY DEF Has, Fields, WithBlock
<1>2. /\ DriveOK(e) /\ e.cmd_reset = d.cmd_reset /\ e.req_nb_sectors = q /\ e.nsector = d.nsector
      /\ e.lba = d.lba /\ e.cyl = d.cyl /\ e.head = d.head /\ e.sector = d.sector
  BY DriveFields DEF WithBlock
<1> HIDE DEF e
<1>3. Has([m EXCEPT !.ide = e], kb, e, k, io)
  BY HasIde
<1>4. ide_get_sector(e) = j.lba
  BY <1>2 DEF ide_get_sector, Loaded
<1>5. ASSUME q # 0, j.n # 0 PROVE Position(e, j, 0)
  <2>1. j.n \in Nat /\ j.lba \in Nat
    BY JobFields DEF Loaded
  <2>2. 0 \in 0 .. (j.n - 1) /\ j.lba + 0 = j.lba /\ j.n - 0 = j.n
    BY <1>5, <2>1
  <2>3. e.nsector = j.n % CountMod
    BY <1>2 DEF Loaded
  <2> QED BY <1>2, <1>4, <1>5, <2>2, <2>3 DEF Position
<1> QED
  BY <1>1, <1>2, <1>3, <1>5 DEF e

\* A write command asks for the first block.
LEMMA FirstBlock ==
    ASSUME NEW m, NEW kb, NEW d, NEW k \in Disk, Has(m, kb, d, k, "none"), DriveOK(d), ~d.cmd_reset,
           NEW j, JobOK(j), j.op = "write", j.data = <<>>, Position(d, j, 0)
    PROVE  Goes(ide_sector_write(m), kb, j)
<1> DEFINE c == Chunk(d)
           w == [m EXCEPT !.ide.io_nb_sectors = c]
           f == [d EXCEPT !.io_nb_sectors = c]
           t == ide_transfer_start(w, c, "write")
           g == Started(f, c, "write")
           n == [t EXCEPT !.ide.status = "drq"]
           e == WithStatus(g, "drq")
<1>1. c \in Nat /\ BlockOf(d, j, 0, c)
  <2>1. j.lba + 0 <= DiskSectors
    BY JobFields DEF JobOK
  <2> QED BY <2>1, ChunkIsBlock
<1>2. ide_sector_write(m) = n
  BY DEF ide_sector_write, Has
<1> HIDE DEF c
<1>3. Has(w, kb, f, k, "none")
  BY HasChunk, Zenon
<1> HIDE DEF w
<1>4. DriveOK(f) /\ Regs(d, f) /\ f.io_nb_sectors = c
  BY <1>1, ChunkOK
<1> HIDE DEF f
<1>5. Has(t, kb, g, k, "none")
  BY <1>3, HasStart
<1> HIDE DEF t
<1>6. /\ DriveOK(g) /\ Regs(f, g) /\ g.io_nb_sectors = c /\ g.end_transfer = "write"
      /\ g.data_index = 0 /\ g.data_end = c
  BY <1>1, <1>4, StartOK
<1> HIDE DEF g
<1>7. Has(n, kb, e, k, "none")
  BY <1>5, HasStatus, Zenon
<1>8. /\ DriveOK(e) /\ Regs(g, e) /\ e.io_nb_sectors = c /\ e.end_transfer = "write"
      /\ e.data_index = 0 /\ e.data_end = c /\ e.status = "drq"
  <2>1. "drq" \in {"ready", "error", "busy", "drq"}
    OBVIOUS
  <2> QED BY <1>6, <2>1, StatusOK
<1> HIDE DEF e, n
<1>9. Regs(d, e)
  BY <1>4, <1>6, <1>8 DEF Regs
<1>10. Position(e, j, 0) /\ BlockOf(e, j, 0, c) /\ ~e.cmd_reset
  BY <1>1, <1>9, SamePosition DEF Regs
<1>11. WriteDrq(e, k, j)
  <2>1. Len(j.data) - e.data_index = 0
    BY <1>8
  <2>2. e.data_index < c /\ e.data_index <= Len(e.io_buffer)
    <3>1. Len(e.io_buffer) \in Nat
      BY <1>8, DriveFields
    <3> QED BY <1>1, <1>8, <3>1 DEF BlockOf
  <2>3. Matches(k, j, 0) /\ \A i \in 1 .. e.data_index : e.io_buffer[i] = j.data[0 + i]
    BY <1>8 DEF Matches
  <2> QED BY <1>8, <1>10, <2>1, <2>2, <2>3 DEF WriteDrq
<1>12. Moving(e, k, j) /\ Waits(e, "none", j)
  BY <1>8, <1>10, <1>11 DEF Moving, Waits
<1> QED
  BY <1>2, <1>7, <1>8, <1>12 DEF Goes, Transferring, Disk

\* The commands that move no data.
LEMMA GoesIdle ==
    ASSUME NEW m, NEW kb, NEW d, NEW k \in Disk, Has(m, kb, d, k, "none"), DriveOK(d), ~d.cmd_reset,
           d.status \in {"error", "ready", "drq"}, d.status = "drq" => d.end_transfer = "identify",
           NEW j, d.status # "error" => j = Idle
    PROVE  Goes(ide_set_irq(m), kb, j)
<1>1. Has(ide_set_irq(m), kb, d, k, "none")
  BY HasIdeIrq
<1>2. Transferring(d, k, "none", Idle)
  BY IdleJob
<1> QED
  BY <1>1, <1>2 DEF Goes

LEMMA Executes ==
    ASSUME NEW m, NEW kb, NEW d, NEW k \in Disk, Has(m, kb, d, k, "none"), DriveOK(d), ~d.cmd_reset,
           NEW cmd \in IdeCommands, NEW n \in ide_exec_cmd(m, cmd),
           NEW j, IF Kind(cmd) = "none" THEN j = Idle ELSE Loaded(d, j) /\ j.op = Kind(cmd)
    PROVE  Goes(n, kb, j)
<1> DEFINE none == cmd \in {"multread", "multwrite"} /\ d.mult_sectors = 0
           bad == \/ none \/ cmd = "unknown"
                  \/ cmd = "setmult" /\ (d.nsector > MaxMult \/ ~IsPowerOf2(d.nsector))
           Req(q) == [m EXCEPT !.ide.req_nb_sectors = q]
<1>1. m.ide = d
  BY DEF Has
<1>2. ASSUME NEW v, Has(v, kb, d, k, "none") PROVE v.ide = d
  BY <1>2 DEF Has
<1>3. CASE bad
  <2> DEFINE w == [m EXCEPT !.ide.status = "error"]
             e == WithStatus(d, "error")
  <2>1. Has(w, kb, e, k, "none")
    BY HasStatus, Zenon
  <2>2. n = ide_set_irq(w)
    BY <1>1, <1>3 DEF ide_exec_cmd, ide_abort_command
  <2>3. DriveOK(e) /\ e.status = "error" /\ ~e.cmd_reset
    <3>1. "error" \in {"ready", "error", "busy", "drq"}
      OBVIOUS
    <3> QED BY <3>1, StatusOK DEF Regs
  <2> HIDE DEF w, e
  <2> QED BY <2>1, <2>2, <2>3, GoesIdle
<1>4. CASE cmd = "identify"
  <2> DEFINE g == [d EXCEPT !.status = "drq", !.io_buffer = <<99>>]
             a == [m EXCEPT !.ide = g]
             w == ide_transfer_start(a, 1, "identify")
             e == Started(g, 1, "identify")
  <2>1. DriveOK(g) /\ g.status = "drq" /\ ~g.cmd_reset
    <3> DEFINE b == <<99>>
    <3>1. b \in Seq(Nat)
      OBVIOUS
    <3> HIDE DEF b
    <3>2. LET f == [d EXCEPT !.status = "drq", !.io_buffer = b]
          IN  DriveOK(f) /\ f.status = "drq" /\ ~f.cmd_reset
      BY <3>1, DriveFields
    <3> QED BY <3>2 DEF b
  <2>2. n = ide_set_irq(w)
    <3>1. [m EXCEPT !.ide.status = "drq", !.ide.io_buffer = <<99>>] = a
      BY DEF Has, Fields
    <3> QED BY <1>4, <3>1 DEF ide_exec_cmd
  <2> HIDE DEF g
  <2>3. Has(a, kb, g, k, "none")
    BY HasIde
  <2> HIDE DEF a
  <2>4. Has(w, kb, e, k, "none")
    BY <2>3, HasStart
  <2>5. DriveOK(e) /\ e.status = "drq" /\ ~e.cmd_reset /\ e.end_transfer = "identify"
    BY <2>1, StartOK DEF Regs
  <2> HIDE DEF w, e
  <2>6. j = Idle
    BY <1>4 DEF Kind
  <2> QED BY <2>2, <2>4, <2>5, <2>6, GoesIdle
<1>5. ASSUME NEW e, DriveOK(e), e.status = "ready", ~e.cmd_reset, j = Idle
      PROVE  Goes(ide_set_irq([m EXCEPT !.ide = e]), kb, j)
  <2> DEFINE w == [m EXCEPT !.ide = e]
  <2>1. Has(w, kb, e, k, "none")
    BY HasIde
  <2> HIDE DEF w
  <2>2. Goes(ide_set_irq(w), kb, j)
    BY <1>5, <2>1, GoesIdle
  <2> QED BY <2>2 DEF w
<1>6. CASE cmd = "recal"
  <2> DEFINE e == WithStatus(d, "ready")
  <2>1. n = ide_set_irq([m EXCEPT !.ide = e])
    <3>1. [m EXCEPT !.ide.status = "ready"] = [m EXCEPT !.ide = e]
      BY DEF Has, Fields, WithStatus
    <3> QED BY <1>6, <3>1 DEF ide_exec_cmd
  <2>2. DriveOK(e) /\ e.status = "ready" /\ ~e.cmd_reset
    <3>1. "ready" \in {"ready", "error", "busy", "drq"}
      OBVIOUS
    <3> QED BY <3>1, StatusOK DEF Regs
  <2> HIDE DEF e
  <2>3. j = Idle
    BY <1>6 DEF Kind
  <2> QED BY <1>5, <2>1, <2>2, <2>3
<1>7. CASE cmd = "setmult" /\ ~bad
  <2> DEFINE e == [d EXCEPT !.mult_sectors = d.nsector, !.status = "ready"]
  <2>1. n = ide_set_irq([m EXCEPT !.ide = e])
    <3>1. [m EXCEPT !.ide.mult_sectors = d.nsector, !.ide.status = "ready"] = [m EXCEPT !.ide = e]
      BY DEF Has, Fields
    <3> QED BY <1>1, <1>7, <3>1 DEF ide_exec_cmd
  <2>2. DriveOK(e) /\ e.status = "ready" /\ ~e.cmd_reset
    BY DriveFields
  <2> HIDE DEF e
  <2>3. j = Idle
    BY <1>7 DEF Kind
  <2> QED BY <1>5, <2>1, <2>2, <2>3
<1>8. CASE cmd = "native_max"
  <2> DEFINE s == ide_set_sector(d, DiskSectors - 1)
             e == [s EXCEPT !.status = "ready"]
  <2>1. n = ide_set_irq([m EXCEPT !.ide = e])
    BY <1>1, <1>8 DEF ide_exec_cmd
  <2>2. DriveOK(s) /\ ~s.cmd_reset
    BY SectorFields
  <2> HIDE DEF s
  <2>3. DriveOK(e) /\ e.status = "ready" /\ ~e.cmd_reset
    BY <2>2, DriveFields
  <2> HIDE DEF e
  <2>4. j = Idle
    BY <1>8 DEF Kind
  <2> QED BY <1>5, <2>1, <2>3, <2>4
<1>9. ASSUME Kind(cmd) # "none"
      PROVE  Loaded(d, j) /\ JobOK(j) /\ j.op = Kind(cmd) /\ j.n # 0 /\ Len(j.data) = 0 /\ j.data = <<>>
  <2>1. Loaded(d, j) /\ j.op = Kind(cmd)
    BY <1>9
  <2> QED BY <1>9, <2>1 DEF Loaded, JobOK
<1>10. ASSUME NEW q \in Nat, q # 0, n \in ide_sector_read(Req(q)), Kind(cmd) = "read"
       PROVE  Goes(n, kb, j)
  <2> DEFINE w == Req(q)
             e == WithBlock(d, q)
  <2>1. Loaded(d, j) /\ JobOK(j) /\ j.op = "read" /\ j.n # 0 /\ Len(j.data) = 0
    BY <1>9, <1>10
  <2>2. Has(w, kb, e, k, "none") /\ DriveOK(e) /\ ~e.cmd_reset /\ Position(e, j, 0)
    BY <1>10, <2>1, BlockSize
  <2>3. n \in ide_sector_read(w)
    BY <1>10
  <2> HIDE DEF w, e
  <2>4. Position(e, j, Len(j.data)) /\ Matches(k, j, Len(j.data)) /\ j.lba + Len(j.data) <= DiskSectors
    <3>1. j.lba + 0 <= DiskSectors
      BY <2>1, JobFields DEF JobOK
    <3> QED BY <2>1, <2>2, <3>1 DEF Matches
  <2> QED BY <2>1, <2>2, <2>3, <2>4, SubmitRead
<1>11. ASSUME NEW q \in Nat, q # 0, n = ide_sector_write(Req(q)), Kind(cmd) = "write"
       PROVE  Goes(n, kb, j)
  <2> DEFINE w == Req(q)
             e == WithBlock(d, q)
  <2>1. Loaded(d, j) /\ JobOK(j) /\ j.op = "write" /\ j.n # 0 /\ j.data = <<>>
    BY <1>9, <1>11
  <2>2. Has(w, kb, e, k, "none") /\ DriveOK(e) /\ ~e.cmd_reset /\ Position(e, j, 0)
    BY <1>11, <2>1, BlockSize
  <2>3. n = ide_sector_write(w)
    BY <1>11
  <2> HIDE DEF w, e
  <2> QED BY <2>1, <2>2, <2>3, FirstBlock
<1>12. d.mult_sectors \in Nat
  BY DriveFields
<1>13. CASE cmd = "read"
  <2>1. n \in ide_sector_read(Req(1)) /\ Kind(cmd) = "read"
    BY <1>13 DEF ide_exec_cmd, Kind
  <2> HIDE DEF Req
  <2> QED BY <1>10, <2>1
<1>14. CASE cmd = "write"
  <2>1. n = ide_sector_write(Req(1)) /\ Kind(cmd) = "write"
    BY <1>14 DEF ide_exec_cmd, Kind
  <2> HIDE DEF Req
  <2> QED BY <1>11, <2>1
<1>15. CASE cmd = "multread" /\ ~bad
  <2> DEFINE q == d.mult_sectors
  <2>1. n \in ide_sector_read(Req(q)) /\ Kind(cmd) = "read" /\ q # 0
    BY <1>1, <1>15 DEF ide_exec_cmd, Kind
  <2> HIDE DEF Req
  <2> QED BY <1>10, <1>12, <2>1
<1>16. CASE cmd = "multwrite" /\ ~bad
  <2> DEFINE q == d.mult_sectors
  <2>1. n = ide_sector_write(Req(q)) /\ Kind(cmd) = "write" /\ q # 0
    BY <1>1, <1>16 DEF ide_exec_cmd, Kind
  <2> HIDE DEF Req
  <2> QED BY <1>11, <1>12, <2>1
<1>17. cmd = "unknown" => bad
  OBVIOUS
<1> HIDE DEF bad
<1> QED
  BY <1>3, <1>4, <1>6, <1>7, <1>8, <1>13, <1>14, <1>15, <1>16, <1>17 DEF IdeCommands

-----------------------------------------------------------------------------
(* The data port and the control register                                  *)

LEMMA GoesOn ==
    ASSUME NEW n, NEW kb, NEW j, Goes(n, kb, j)
    PROVE  /\ DOMAIN n = Fields /\ n.kbd = kb
           /\ Transferring(n.ide, n.disk, n.io, IF n.ide.status = "error" THEN Idle ELSE j)
<1>1. PICK d, k, io : /\ Has(n, kb, d, k, io)
                      /\ \/ d.status = "error" /\ Transferring(d, k, io, Idle)
                         \/ d.status # "error" /\ Transferring(d, k, io, j)
  BY DEF Goes
<1> QED
  BY <1>1 DEF Has

Appended(j, v) == [j EXCEPT !.data = Append(j.data, v)]

LEMMA JobAppend ==
    ASSUME NEW j, JobOK(j), NEW v \in Nat
    PROVE  LET i == Appended(j, v)
           IN  /\ JobOK(i) /\ i.op = j.op /\ i.lba = j.lba /\ i.n = j.n
               /\ Len(i.data) = Len(j.data) + 1 /\ i.data[Len(j.data) + 1] = v
               /\ \A x \in 1 .. Len(j.data) : i.data[x] = j.data[x]
  BY DEF JobOK, Appended

WithIndex(d, p) == [d EXCEPT !.data_index = p]

LEMMA HasIndex ==
    ASSUME NEW m, NEW kb, NEW d, NEW k, NEW io, Has(m, kb, d, k, io), NEW p
    PROVE  Has([m EXCEPT !.ide.data_index = p], kb, WithIndex(d, p), k, io)
<1>1. [m EXCEPT !.ide.data_index = p] = [m EXCEPT !.ide = WithIndex(d, p)]
  BY DEF Has, Fields, WithIndex
<1>2. Has([m EXCEPT !.ide = WithIndex(d, p)], kb, WithIndex(d, p), k, io)
  BY HasIde
<1> QED
  BY <1>1, <1>2, Zenon

LEMMA IndexOK ==
    ASSUME NEW d, DriveOK(d), NEW p \in Nat
    PROVE  LET e == WithIndex(d, p)
           IN  /\ DriveOK(e) /\ Regs(d, e) /\ e.status = d.status
               /\ e.io_nb_sectors = d.io_nb_sectors /\ e.io_buffer = d.io_buffer
               /\ e.end_transfer = d.end_transfer /\ e.data_index = p
               /\ e.data_end = d.data_end
  BY DriveFields DEF WithIndex, Regs

\* The transfer ends without another request.
LEMMA Stops ==
    ASSUME NEW m, NEW kb, NEW d, NEW k \in Disk, Has(m, kb, d, k, "none"), DriveOK(d), ~d.cmd_reset,
           NEW j, JobOK(j), j.op # "none" => Len(j.data) = j.n /\ Matches(k, j, j.n)
    PROVE  Goes(ide_transfer_stop([m EXCEPT !.ide.status = "ready"]), kb, j)
<1> DEFINE r == [m EXCEPT !.ide.status = "ready"]
           f == WithStatus(d, "ready")
           t == ide_transfer_start(r, 0, "stop")
           e == Started(f, 0, "stop")
<1>1. Has(r, kb, f, k, "none")
  BY HasStatus, Zenon
<1>2. ide_transfer_stop(r) = t
  BY DEF ide_transfer_stop
<1> HIDE DEF r
<1>3. DriveOK(f) /\ f.status = "ready" /\ Regs(d, f)
  <2>1. "ready" \in {"ready", "error", "busy", "drq"}
    OBVIOUS
  <2> QED BY <2>1, StatusOK
<1> HIDE DEF f
<1>4. Has(t, kb, e, k, "none")
  BY <1>1, HasStart
<1>5. DriveOK(e) /\ e.status = "ready" /\ ~e.cmd_reset
  BY <1>3, StartOK DEF Regs
<1> HIDE DEF t, e
<1>6. Moving(e, k, j) /\ Waits(e, "none", j)
  BY <1>5 DEF Moving, Waits
<1>7. Goes(t, kb, j)
  BY <1>4, <1>5, <1>6 DEF Goes, Transferring, Disk
<1> QED
  BY <1>2, <1>7 DEF r

LEMMA OneMore ==
    ASSUME NEW l \in Nat, NEW x \in Nat, NEW c \in Nat, x < c
    PROVE  x + 1 \in 1 .. c /\ l + 1 = (l - x) + (x + 1) /\ l + 1 \in Nat /\ (l + 1) - (x + 1) = l - x
  OBVIOUS

\* The guest takes a sector of the block that was read.
LEMMA TakesSector ==
    ASSUME NEW m, NEW kb, NEW d, NEW k, NEW j, Has(m, kb, d, k, "none"),
           Transferring(d, k, "none", j), d.status = "drq", j.op = "read",
           NEW n \in NextWord(m)
    PROVE  Goes(n, kb, Appended(j, d.io_buffer[d.data_index + 1]))
<1> DEFINE p == d.data_index + 1
           c == d.data_end
           s == Len(j.data) - d.data_index
           v == d.io_buffer[p]
           i == Appended(j, v)
           w == [m EXCEPT !.ide.data_index = p]
           e == WithIndex(d, p)
           t == Len(j.data) + 1
<1>1. /\ DriveOK(d) /\ JobOK(j) /\ k \in Disk /\ ReadDrq(d, k, j) /\ ~d.cmd_reset
      /\ Matches(k, j, Len(j.data))
  BY DEF Transferring, Moving, Waits, Disk
<1>2. /\ j.lba \in Nat /\ j.n \in Nat /\ j.n <= CountMod /\ DiskSectors \in Nat
      /\ Len(j.data) \in Nat /\ d.data_index \in Nat /\ c \in Nat /\ p \in Nat
  BY <1>1, JobFields, DriveFields
<1>3. /\ s \in Nat /\ d.data_index < c /\ s + c <= j.n /\ j.lba + s + c <= DiskSectors
      /\ Len(d.io_buffer) = c
      /\ \A x \in 1 .. c : d.io_buffer[x] = k[j.lba + s + x - 1]
      /\ d.end_transfer = IF s + c = j.n THEN "read_end" ELSE "read"
      /\ s + c < j.n => Position(d, j, s + c)
  BY <1>1 DEF ReadDrq
<1>4. p \in 1 .. c /\ t = s + p /\ t \in Nat /\ s \in Nat /\ s + c <= j.n /\ j.lba + s + c <= DiskSectors
  <2>1. s \in Nat /\ d.data_index < c /\ s + c <= j.n /\ j.lba + s + c <= DiskSectors
    BY <1>3
  <2>2. p \in 1 .. c /\ t = s + p /\ t \in Nat
    BY <1>2, <2>1, OneMore
  <2> QED BY <2>1, <2>2
<1>5. v \in Nat /\ v = k[j.lba + t - 1]
  <2>1. v \in Nat /\ v = k[j.lba + s + p - 1]
    <3>1. p \in 1 .. Len(d.io_buffer)
      BY <1>3, <1>4
    <3>2. d.io_buffer \in Seq(Nat)
      BY <1>1, DriveFields
    <3>3. v \in Nat
      <4> HIDE DEF p
      <4> QED BY <3>1, <3>2
    <3> HIDE DEF p, c, s
    <3> QED BY <1>3, <1>4, <3>3
  <2>2. j.lba + s + p - 1 = j.lba + t - 1
    BY <1>2
  <2> QED BY <2>1, <2>2
<1> HIDE DEF v
<1>6. /\ JobOK(i) /\ i.op = "read" /\ i.lba = j.lba /\ i.n = j.n /\ Len(i.data) = t
      /\ i.data[t] = v /\ \A x \in 1 .. Len(j.data) : i.data[x] = j.data[x]
  BY <1>1, <1>5, JobAppend
<1> HIDE DEF i
<1>7. Matches(k, i, t)
  <2>1. ASSUME NEW x \in 1 .. t PROVE i.data[x] = k[i.lba + x - 1]
    <3>1. CASE x = t
      BY <1>5, <1>6, <3>1
    <3>2. CASE x # t
      <4>1. x \in 1 .. Len(j.data)
        BY <1>2, <3>2
      <4> HIDE DEF t
      <4> QED BY <1>1, <1>6, <4>1 DEF Matches
    <3> QED BY <3>1, <3>2
  <2> QED BY <2>1 DEF Matches
<1>8. n \in (IF p >= c THEN EndTransfer(w) ELSE {w})
  BY DEF NextWord, Has
<1>9. /\ Has(w, kb, e, k, "none") /\ DriveOK(e) /\ Regs(d, e) /\ e.status = d.status
      /\ e.io_buffer = d.io_buffer
      /\ e.end_transfer = d.end_transfer /\ e.data_index = p /\ e.data_end = c
  <2> HIDE DEF p
  <2>1. p \in Nat /\ DriveOK(d)
    BY <1>1, <1>2
  <2>2. Has(w, kb, e, k, "none")
    BY HasIndex, Zenon
  <2>3. /\ DriveOK(e) /\ Regs(d, e) /\ e.status = d.status
        /\ e.io_buffer = d.io_buffer
        /\ e.end_transfer = d.end_transfer /\ e.data_index = p /\ e.data_end = c
    BY <2>1, IndexOK
  <2> QED BY <2>2, <2>3
<1>10. ~e.cmd_reset /\ w.ide = e
  BY <1>1, <1>9 DEF Regs, Has
<1> HIDE DEF w, e
<1>11. s + c < j.n => Position(e, i, s + c)
  <2>1. s + c < j.n => Position(e, j, s + c)
    BY <1>3, <1>9, SamePosition
  <2> HIDE DEF s, c
  <2> QED BY <1>6, <2>1 DEF Position
<1>12. CASE p < c
  <2>1. n = w
    BY <1>2, <1>8, <1>12
  <2>2. Len(i.data) - e.data_index = s
    BY <1>2, <1>4, <1>6, <1>9
  <2>3. ReadDrq(e, k, i)
    <3> HIDE DEF s, c, p
    <3> QED BY <1>3, <1>6, <1>9, <1>11, <1>12, <2>2 DEF ReadDrq
  <2>4. Moving(e, k, i) /\ Waits(e, "none", i)
    BY <1>6, <1>7, <1>9, <1>10, <2>3 DEF Moving, Waits
  <2>5. Transferring(e, k, "none", i) /\ e.status # "error"
    BY <1>1, <1>6, <1>9, <2>4 DEF Transferring, Disk
  <2>6. Goes(n, kb, i)
    BY <1>9, <2>1, <2>5 DEF Goes
  <2> QED BY <2>6 DEF i, v, p
<1>13. CASE p >= c
  <2>1. p = c /\ t = s + c /\ n \in EndTransfer(w)
    <3>1. n \in EndTransfer(w)
      BY <1>8, <1>13
    <3>2. p \in 1 .. c /\ t = s + p /\ c \in Nat
      BY <1>2, <1>4
    <3> HIDE DEF p, c, s, t
    <3>3. p = c
      BY <1>13, <3>2
    <3> QED BY <3>1, <3>2, <3>3
  <2>2. CASE s + c = j.n
    <3>1. n = ide_transfer_stop([w EXCEPT !.ide.status = "ready"])
      BY <1>3, <1>9, <1>10, <2>1, <2>2 DEF EndTransfer
    <3>2. Len(i.data) = i.n /\ Matches(k, i, i.n)
      BY <1>6, <1>7, <2>1, <2>2
    <3>3. Goes(n, kb, i)
      BY <1>1, <1>6, <1>9, <1>10, <3>1, <3>2, Stops
    <3> QED BY <3>3 DEF i, v, p
  <2>3. CASE s + c # j.n
    <3>1. n \in ide_sector_read(w)
      BY <1>3, <1>9, <1>10, <2>1, <2>3 DEF EndTransfer
    <3>2. s + c < j.n /\ i.lba + t <= DiskSectors
      <4> HIDE DEF s, c, p, t
      <4>1. s + c < j.n /\ j.lba + t <= DiskSectors
        BY <1>2, <1>4, <2>1, <2>3
      <4> QED BY <1>6, <4>1
    <3>3. Position(e, i, Len(i.data)) /\ Matches(k, i, Len(i.data)) /\ i.lba + Len(i.data) <= DiskSectors
      BY <1>6, <1>7, <1>11, <2>1, <3>2
    <3>4. Goes(n, kb, i)
      BY <1>1, <1>6, <1>9, <1>10, <3>1, <3>3, SubmitRead
    <3> QED BY <3>4 DEF i, v, p
  <2> QED BY <2>2, <2>3
<1> QED
  BY <1>2, <1>12, <1>13

\* The guest hands over a sector of the block to be written.
LEMMA GivesSector ==
    ASSUME NEW m, NEW kb, NEW d, NEW k, NEW j, Has(m, kb, d, k, "none"),
           Transferring(d, k, "none", j), d.status = "drq", j.op = "write",
           NEW v \in Nat, NEW n \in ide_data_writew(m, v)
    PROVE  Goes(n, kb, Appended(j, v))
<1> DEFINE x == d.data_index
           p == x + 1
           c == d.data_end
           s == Len(j.data) - x
           old == d.io_buffer
           b == IF x < Len(old) THEN [old EXCEPT ![p] = v] ELSE Append(old, v)
           i == Appended(j, v)
           g == WithBuffer(d, b)
           u == [m EXCEPT !.ide.io_buffer = b]
           w == [u EXCEPT !.ide.data_index = p]
           e == WithIndex(g, p)
           t == Len(j.data) + 1
<1>1. DriveOK(d) /\ JobOK(j) /\ k \in Disk /\ WriteDrq(d, k, j) /\ ~d.cmd_reset
  BY DEF Transferring, Moving, Waits, Disk
<1>2. /\ j.lba \in Nat /\ j.n \in Nat /\ Len(j.data) \in Nat /\ x \in Nat /\ c \in Nat /\ p \in Nat
  BY <1>1, JobFields, DriveFields
<1>3. /\ d.end_transfer = "write" /\ Position(d, j, s) /\ BlockOf(d, j, s, c) /\ x < c
      /\ c = d.io_nb_sectors /\ Matches(k, j, s) /\ x <= Len(old)
      /\ \A y \in 1 .. x : old[y] = j.data[s + y]
  BY <1>1 DEF WriteDrq
<1>4. p \in 1 .. c /\ t = s + p /\ t - p = s /\ s \in Nat /\ s + x = Len(j.data)
  <2>1. s \in 0 .. (j.n - 1) /\ x < c
    BY <1>3 DEF Position
  <2>2. p \in 1 .. c /\ t = s + p /\ t - p = s
    BY <1>2, <2>1, OneMore
  <2> QED BY <1>2, <2>1, <2>2
<1>5. b \in Seq(Nat) /\ Len(b) >= p /\ b[p] = v /\ \A y \in 1 .. x : b[y] = old[y]
  <2>1. old \in Seq(Nat) /\ Len(old) \in Nat
    BY <1>1, DriveFields
  <2>2. x <= Len(old)
    BY <1>3
  <2> HIDE DEF old, x
  <2> QED BY <1>2, <2>1, <2>2
<1>6. /\ JobOK(i) /\ i.op = "write" /\ i.lba = j.lba /\ i.n = j.n /\ Len(i.data) = t
      /\ i.data[t] = v /\ \A y \in 1 .. Len(j.data) : i.data[y] = j.data[y]
  BY <1>1, JobAppend
<1>7. n \in (IF p >= c THEN EndTransfer(w) ELSE {w})
  <2>1. u.ide.data_index = x /\ u.ide.data_end = c
    <3> HIDE DEF b
    <3>1. DOMAIN m = Fields /\ m.ide = d
      BY DEF Has
    <3> QED BY <1>1, <3>1, DriveFields DEF Fields
  <2>2. n \in NextWord(u)
    BY DEF ide_data_writew, Has
  <2> HIDE DEF u
  <2> QED BY <2>1, <2>2 DEF NextWord
<1> HIDE DEF b, i
<1>8. Has(u, kb, g, k, "none")
  <2>1. u = [m EXCEPT !.ide = g]
    BY DEF Has, Fields, WithBuffer
  <2>2. Has([m EXCEPT !.ide = g], kb, g, k, "none")
    BY HasIde
  <2> HIDE DEF u, g
  <2> QED BY <2>1, <2>2
<1>9. /\ DriveOK(g) /\ Regs(d, g) /\ g.status = d.status /\ g.io_nb_sectors = d.io_nb_sectors
      /\ g.io_buffer = b /\ g.end_transfer = d.end_transfer /\ g.data_end = d.data_end
  BY <1>1, <1>5, BufferOK
<1> HIDE DEF u, g
<1>10. Has(w, kb, e, k, "none")
  <2> HIDE DEF p
  <2> QED BY <1>8, HasIndex, Zenon
<1>11. /\ DriveOK(e) /\ Regs(g, e) /\ e.status = g.status /\ e.io_nb_sectors = g.io_nb_sectors
       /\ e.io_buffer = g.io_buffer /\ e.end_transfer = g.end_transfer /\ e.data_index = p
       /\ e.data_end = g.data_end
  <2> HIDE DEF p
  <2> QED BY <1>2, <1>9, IndexOK
<1> HIDE DEF e
<1>12. /\ Regs(d, e) /\ e.status = "drq" /\ e.io_nb_sectors = c /\ e.io_buffer = b
       /\ e.end_transfer = "write" /\ e.data_end = c /\ ~e.cmd_reset /\ w.ide = e
  BY <1>1, <1>3, <1>9, <1>10, <1>11 DEF Regs, Has
<1> HIDE DEF w
<1>13. Position(e, i, s) /\ BlockOf(e, i, s, c) /\ Matches(k, i, s)
  <2>1. Position(e, j, s) /\ BlockOf(e, j, s, c)
    BY <1>3, <1>12, SamePosition
  <2>2. ASSUME NEW y \in 1 .. s PROVE i.data[y] = k[i.lba + y - 1]
    <3> HIDE DEF s, x, t, p
    <3>1. y \in 1 .. Len(j.data)
      BY <1>2, <1>4
    <3> QED BY <1>3, <1>6, <3>1 DEF Matches
  <2> HIDE DEF s, c
  <2> QED BY <1>6, <2>1, <2>2 DEF Position, BlockOf, Matches
<1>14. ASSUME NEW y \in 1 .. p PROVE b[y] = i.data[s + y]
  <2>1. CASE y = p
    BY <1>4, <1>5, <1>6, <2>1
  <2>2. CASE y # p
    <3>1. y \in 1 .. x
      BY <1>2, <2>2
    <3>2. s + y \in 1 .. Len(j.data)
      <4> HIDE DEF s, x
      <4> QED BY <1>2, <1>4, <3>1
    <3>3. b[y] = old[y] /\ old[y] = j.data[s + y] /\ i.data[s + y] = j.data[s + y]
      BY <1>3, <1>5, <1>6, <3>1, <3>2
    <3> QED BY <3>3
  <2> QED BY <2>1, <2>2
<1> HIDE DEF s, t
<1>15. CASE p < c
  <2>1. n = w
    BY <1>2, <1>7, <1>15
  <2>2. WriteDrq(e, k, i)
    <3>1. Len(i.data) - e.data_index = s /\ e.data_index = p
      BY <1>4, <1>6, <1>11
    <3> HIDE DEF p, c
    <3> QED BY <1>5, <1>12, <1>13, <1>14, <1>15, <3>1 DEF WriteDrq
  <2>3. Moving(e, k, i) /\ Waits(e, "none", i)
    BY <1>6, <1>12, <2>2 DEF Moving, Waits
  <2>4. Transferring(e, k, "none", i) /\ e.status # "error"
    BY <1>1, <1>6, <1>11, <1>12, <2>3 DEF Transferring, Disk
  <2>5. Goes(n, kb, i)
    BY <1>10, <2>1, <2>4 DEF Goes
  <2> QED BY <2>5 DEF i
<1>16. CASE p >= c
  <2>0. p = c /\ p >= c
    <3> HIDE DEF p, c
    <3>1. p <= c /\ p \in Nat /\ c \in Nat
      BY <1>2, <1>4
    <3> QED BY <1>16, <3>1
  <2>1. p = c /\ n \in EndTransfer(w)
    BY <1>7, <2>0
  <2>2. n \in ide_sector_write_cb1(w)
    BY <1>12, <2>1 DEF EndTransfer
  <2>3. Collected(e, k, i)
    <3>1. Len(i.data) - e.io_nb_sectors = s /\ e.io_nb_sectors = c /\ c = p
      BY <1>4, <1>6, <1>12, <2>1
    <3>2. c <= Len(b)
      <4>1. Len(b) \in Nat
        BY <1>5
      <4> QED BY <1>2, <1>5, <2>1, <4>1
    <3> HIDE DEF p, c
    <3> QED BY <1>12, <1>13, <1>14, <3>1, <3>2 DEF Collected
  <2>4. Goes(n, kb, i)
    BY <1>1, <1>6, <1>10, <1>11, <1>12, <2>2, <2>3, SubmitWrite
  <2> QED BY <2>4 DEF i
<1> QED
  BY <1>2, <1>15, <1>16

\* The guest reads the drive's parameters.
LEMMA TakesIdentity ==
    ASSUME NEW m, NEW kb, NEW d, NEW k, NEW j, Has(m, kb, d, k, "none"),
           Transferring(d, k, "none", j), d.status = "drq", j.op = "none",
           NEW n \in NextWord(m)
    PROVE  Goes(n, kb, Idle)
<1> DEFINE p == d.data_index + 1
           w == [m EXCEPT !.ide.data_index = p]
           e == WithIndex(d, p)
<1>1. DriveOK(d) /\ k \in Disk /\ ~d.cmd_reset /\ d.end_transfer = "identify"
  BY DEF Transferring, Moving, Waits, Disk
<1>2. p \in Nat
  BY <1>1, DriveFields
<1>3. n \in EndTransfer(w) \/ n = w
  BY DEF NextWord, Has
<1> HIDE DEF p
<1>4. Has(w, kb, e, k, "none")
  BY HasIndex, Zenon
<1>5. DriveOK(e) /\ e.status = "drq" /\ e.end_transfer = "identify" /\ ~e.cmd_reset
  BY <1>1, <1>2, IndexOK DEF Regs
<1>6. w.ide = e
  BY <1>4 DEF Has
<1> HIDE DEF w, e
<1>7. CASE n = w
  <2>1. Transferring(e, k, "none", Idle)
    BY <1>1, <1>5, IdleJob
  <2> QED BY <1>4, <1>5, <1>7, <2>1 DEF Goes
<1>8. CASE n \in EndTransfer(w)
  <2>1. n = ide_transfer_stop([w EXCEPT !.ide.status = "ready"])
    BY <1>5, <1>6, <1>8 DEF EndTransfer
  <2>2. JobOK(Idle) /\ Idle.op = "none"
    BY IdeConstants DEF JobOK, Idle
  <2> QED BY <1>1, <1>4, <1>5, <2>1, <2>2, Stops
<1> QED
  BY <1>3, <1>7, <1>8

\* The block device answers.
LEMMA Completes ==
    ASSUME NEW m, NEW kb, NEW d, NEW k, NEW io, NEW j, Has(m, kb, d, k, io),
           Transferring(d, k, io, j), io # "none"
    PROVE  LET n == ide_io_done(m, io)
           IN  DOMAIN n = Fields /\ n.kbd = kb /\ Transferring(n.ide, n.disk, n.io, j)
<1> DEFINE n == ide_io_done(m, io)
<1>1. /\ DriveOK(d) /\ JobOK(j) /\ k \in Disk /\ ~d.cmd_reset /\ d.status = "busy"
      /\ io = j.op /\ io \in {"read", "write"}
  BY DEF Transferring, Waits, Disk
<1>2. CASE io = "read"
  <2> DEFINE e == AfterRead(WithBuffer(d, Fetched(d, k)))
  <2>1. ReadBusy(d, j) /\ Matches(k, j, Len(j.data))
    BY <1>1, <1>2 DEF Transferring, Moving
  <2>2. Transferring(e, k, "none", j)
    BY <1>1, <1>2, <2>1, ReadDone
  <2>3. Has(n, kb, e, k, "none")
    BY <1>2, HasIoDone
  <2> HIDE DEF e, n
  <2>4. DOMAIN n = Fields /\ n.kbd = kb /\ Transferring(n.ide, n.disk, n.io, j)
    BY <2>2, <2>3 DEF Has
  <2> QED BY <2>4 DEF n
<1>3. CASE io = "write"
  <2> DEFINE e == AfterWrite(d)
             x == Stored(d, k)
  <2>1. WriteBusy(d, k, j)
    BY <1>1, <1>3 DEF Transferring, Moving
  <2>2. Transferring(e, x, "none", j)
    BY <1>1, <1>3, <2>1, WriteDone
  <2>3. Has(n, kb, e, x, "none")
    BY <1>3, HasIoDone
  <2> HIDE DEF e, x, n
  <2>4. DOMAIN n = Fields /\ n.kbd = kb /\ Transferring(n.ide, n.disk, n.io, j)
    BY <2>2, <2>3 DEF Has
  <2> QED BY <2>4 DEF n
<1> QED
  BY <1>1, <1>2, <1>3

\* The transfer does not depend on the interrupt mask.
LEMMA SameDrive ==
    ASSUME NEW d, NEW e, NEW k, NEW io, NEW j, Transferring(d, k, io, j), DriveOK(e), Regs(d, e),
           e.status = d.status, e.io_nb_sectors = d.io_nb_sectors, e.io_buffer = d.io_buffer,
           e.end_transfer = d.end_transfer, e.data_index = d.data_index, e.data_end = d.data_end
    PROVE  Transferring(e, k, io, j)
<1>1. ReadBusy(d, j) => ReadBusy(e, j)
  BY SamePosition DEF ReadBusy
<1>2. ReadDrq(d, k, j) => ReadDrq(e, k, j)
  BY SamePosition DEF ReadDrq
<1>3. WriteBusy(d, k, j) => WriteBusy(e, k, j)
  BY SamePosition DEF WriteBusy
<1>4. WriteDrq(d, k, j) => WriteDrq(e, k, j)
  BY SamePosition DEF WriteDrq
<1>5. Moving(e, k, j)
  BY <1>1, <1>2, <1>3, <1>4 DEF Transferring, Moving
<1>6. Waits(e, io, j)
  BY DEF Transferring, Waits, Regs
<1> QED
  BY <1>5, <1>6 DEF Transferring

\* The software reset gives the job up.
LEMMA Controls ==
    ASSUME NEW m, NEW kb, NEW d, NEW k, NEW j, Has(m, kb, d, k, "none"),
           Transferring(d, k, "none", j), NEW reset \in BOOLEAN, NEW disable \in BOOLEAN
    PROVE  LET n == ide_cmd_write(m, reset, disable)
           IN  /\ DOMAIN n = Fields /\ n.kbd = kb
               /\ Transferring(n.ide, n.disk, n.io, IF reset THEN Idle ELSE j)
<1> DEFINE a == CASE reset = d.cmd_reset -> d
                  [] reset /\ ~d.cmd_reset -> [d EXCEPT !.status = "busy"]
                  [] ~reset /\ d.cmd_reset ->
                       [d EXCEPT !.status = "ready", !.head = 0, !.nsector = 1,
                                 !.sector = 1, !.cyl = 0]
           e == [a EXCEPT !.cmd_reset = reset, !.disable_irq = disable]
           n == ide_cmd_write(m, reset, disable)
<1>1. n = [m EXCEPT !.ide = e]
  BY DEF ide_cmd_write, Has
<1>2. /\ DriveOK(d) /\ JobOK(j) /\ k \in Disk /\ (d.cmd_reset => d.status = "busy" /\ j.op = "none")
      /\ d.cmd_reset \in BOOLEAN
  BY DriveFields DEF Transferring, Waits, Disk
<1>3. /\ DriveOK(a) /\ (reset => a.status = "busy")
      /\ ~reset /\ d.cmd_reset => a.status = "ready"
      /\ ~reset /\ ~d.cmd_reset => a = d
  <2>1. CASE reset = d.cmd_reset
    BY <1>2, <2>1
  <2>2. CASE reset /\ ~d.cmd_reset
    <3>1. a = WithStatus(d, "busy")
      BY <2>2 DEF WithStatus
    <3>2. "busy" \in {"ready", "error", "busy", "drq"}
      OBVIOUS
    <3>3. DriveOK(WithStatus(d, "busy")) /\ WithStatus(d, "busy").status = "busy"
      BY <1>2, <3>2, StatusOK
    <3> QED BY <2>2, <3>1, <3>3
  <2>3. CASE ~reset /\ d.cmd_reset
    BY <1>2, <2>3, DriveFields
  <2> QED BY <1>2, <2>1, <2>2, <2>3
<1> HIDE DEF a
<1>4. /\ DriveOK(e) /\ e.cmd_reset = reset /\ e.status = a.status
      /\ e.lba = a.lba /\ e.cyl = a.cyl /\ e.head = a.head /\ e.sector = a.sector
      /\ e.nsector = a.nsector /\ e.req_nb_sectors = a.req_nb_sectors
      /\ e.mult_sectors = a.mult_sectors
      /\ e.io_nb_sectors = a.io_nb_sectors /\ e.io_buffer = a.io_buffer
      /\ e.end_transfer = a.end_transfer /\ e.data_index = a.data_index /\ e.data_end = a.data_end
  BY <1>3, DriveFields
<1> HIDE DEF e
<1>5. Has(n, kb, e, k, "none")
  <2>1. Has([m EXCEPT !.ide = e], kb, e, k, "none")
    BY HasIde
  <2> QED BY <1>1, <2>1, Zenon
<1> HIDE DEF n
<1>6. Transferring(e, k, "none", IF reset THEN Idle ELSE j)
  <2>1. CASE reset
    <3>1. JobOK(Idle) /\ Idle.op = "none"
      BY IdeConstants DEF JobOK, Idle
    <3> HIDE DEF Idle
    <3>2. Moving(e, k, Idle) /\ Waits(e, "none", Idle)
      BY <1>3, <1>4, <2>1, <3>1 DEF Moving, Waits
    <3> QED BY <1>2, <1>4, <2>1, <3>1, <3>2 DEF Transferring, Disk
  <2>2. CASE ~reset /\ d.cmd_reset
    <3>1. Moving(e, k, j) /\ Waits(e, "none", j)
      BY <1>2, <1>3, <1>4, <2>2 DEF Moving, Waits
    <3> QED BY <1>2, <1>4, <2>2, <3>1 DEF Transferring, Disk
  <2>3. CASE ~reset /\ ~d.cmd_reset
    <3>1. a = d /\ Regs(d, e)
      BY <1>2, <1>3, <1>4, <2>3 DEF Regs
    <3>2. Transferring(e, k, "none", j)
      BY <1>4, <3>1, SameDrive
    <3> QED BY <2>3, <3>2
  <2> QED BY <2>1, <2>2, <2>3
<1>7. DOMAIN n = Fields /\ n.kbd = kb /\ Transferring(n.ide, n.disk, n.io, IF reset THEN Idle ELSE j)
  BY <1>5, <1>6 DEF Has
<1> QED
  BY <1>7 DEF n

-----------------------------------------------------------------------------
(* The invariant                                                           *)

LEMMA HasItself == ASSUME NEW m, DOMAIN m = Fields PROVE Has(m, m.kbd, m.ide, m.disk, m.io)
  BY DEF Has

LEMMA InitIdeInv == Init => IdeInv
<1> SUFFICES ASSUME Init PROVE IdeInv
  OBVIOUS
<1>1. job = Idle /\ owes = {} /\ serving = -1
  BY DEF Init
<1>2. CASE menu = "ide"
  <2>1. /\ DOMAIN pc = Fields /\ pc.ide = ide_drive_init /\ pc.io = "none"
        /\ pc.disk = [s \in 0 .. (DiskSectors - 1) |-> s] /\ pc.kbd.pending = {} /\ ops \in Nat
    <3>1. PICK count \in Counts, detected \in {0}, bios \in {TRUE} :
             /\ ops = IF detected = 0 THEN 0 ELSE 1
             /\ pc = [pic |-> IF bios THEN pic2_init ELSE pic2_set_elcr(pic2_init, PciElcr),
                      line |-> FALSE,
                      kbd |-> [i8042_init EXCEPT !.enabled = TRUE,
                                                 !.mouse_detect_state = detected,
                         !.write_cmd = IF detected = 0 THEN "none" ELSE "write_mouse",
                         !.mouse_arg = IF detected = 0 THEN "none" ELSE "set_sample"],
                      pit |-> pit_init(count), rtc |-> cmos_init, ide |-> ide_drive_init,
                      disk |-> [s \in 0 .. (DiskSectors - 1) |-> s], io |-> "none"]
      BY <1>2 DEF Init
    <3> DEFINE q == [i8042_init EXCEPT !.enabled = TRUE,
                                       !.mouse_detect_state = detected,
                         !.write_cmd = IF detected = 0 THEN "none" ELSE "write_mouse",
                         !.mouse_arg = IF detected = 0 THEN "none" ELSE "set_sample"]
    <3>2. q.pending = {}
      BY DEF i8042_init
    <3>3. ops \in Nat
      BY <3>1
    <3>4. /\ pc.kbd = q /\ DOMAIN pc = Fields /\ pc.ide = ide_drive_init /\ pc.io = "none"
          /\ pc.disk = [s \in 0 .. (DiskSectors - 1) |-> s]
      <4> HIDE DEF q
      <4> QED BY <3>1 DEF q, Fields
    <3> QED BY <3>2, <3>3, <3>4
  <2>2. DriveOK(ide_drive_init) /\ ide_drive_init.status = "ready" /\ ~ide_drive_init.cmd_reset
    <3>1. <<>> \in Seq(Nat) /\ MaxMult \in Nat
      BY IdeConstants
    <3> QED BY <3>1, DriveFields DEF ide_drive_init
  <2>3. pc.disk \in Disk
    BY <2>1, IdeConstants DEF Disk
  <2>4. Transferring(pc.ide, pc.disk, "none", Idle)
    BY <2>1, <2>2, <2>3, IdleJob
  <2> QED BY <1>1, <1>2, <2>1, <2>4 DEF IdeInv
<1>3. CASE menu # "ide"
  BY <1>1, <1>3 DEF IdeInv
<1> QED
  BY <1>2, <1>3

\* A guest of another kind never gives the disk a job.
LEMMA OtherMenus ==
    ASSUME IdeInv, [Next]_vars, menu # "ide"
    PROVE  IdeInv'
<1>1. job = Idle
  BY DEF IdeInv
<1>2. menu' = menu /\ job' = job
  BY DEF Next, vars, Op, TakeInterrupt, ReadKbdData, ReadRtcC, ReadIdeStatus, EndHandler,
         EndInterrupt, InitPic, WritePic, WriteKbdCommand, WriteKbdData, VmMouseCommand, HostKey,
         HostMouse, WriteTimers, Tick, Poll, IdeCommand, IdeData, IdeComplete, IdeControl
<1> QED
  BY <1>1, <1>2 DEF IdeInv

LEMMA IdeSteps ==
    ASSUME IdeInv, [Next]_vars, menu = "ide"
    PROVE  \/ ReadIdeStatus \/ EndInterrupt \/ IdeCommand \/ IdeData \/ IdeComplete
           \/ IdeControl \/ UNCHANGED vars
<1>1. owes = {} /\ pc.kbd.pending = {} /\ serving = -1
  BY DEF IdeInv
<1>2. ~ReadKbdData
  BY <1>1 DEF ReadKbdData
<1>3. ~EndHandler
  BY <1>1 DEF EndHandler
<1> QED
  BY <1>2, <1>3 DEF Next, Op, TakeInterrupt, ReadRtcC, InitPic, WritePic, WriteKbdCommand,
         WriteKbdData, VmMouseCommand, HostKey, HostMouse, WriteTimers, Tick, Poll

LEMMA StepIdeInv == IdeInv /\ [Next]_vars => IdeInv'
<1> SUFFICES ASSUME IdeInv, [Next]_vars, menu = "ide" PROVE IdeInv'
  BY OtherMenus
<1> DEFINE d == pc.ide
           k == pc.disk
           io == pc.io
           kb == pc.kbd
<1>1. /\ DOMAIN pc = Fields /\ Transferring(d, k, io, job)
      /\ owes = {} /\ kb.pending = {} /\ serving = -1 /\ ops \in Nat
  BY DEF IdeInv
<1>2. Has(pc, kb, d, k, io)
  BY <1>1, HasItself
<1>3. /\ DriveOK(d) /\ JobOK(job) /\ k \in Disk /\ Moving(d, k, job) /\ Waits(d, io, job)
  BY <1>1 DEF Transferring, Disk
<1>4. ASSUME UNCHANGED <<menu, owes, serving>>, ops' \in Nat,
             DOMAIN pc' = Fields, pc'.kbd = kb, Transferring(pc'.ide, pc'.disk, pc'.io, job')
      PROVE  IdeInv'
  BY <1>1, <1>4 DEF IdeInv
<1>5. ASSUME UNCHANGED <<menu, owes, serving, ops, job>>, Has(pc', kb, d, k, io)
      PROVE  IdeInv'
  <2>1. DOMAIN pc' = Fields /\ pc'.kbd = kb /\ pc'.ide = d /\ pc'.disk = k /\ pc'.io = io
    BY <1>5 DEF Has
  <2> QED BY <1>1, <1>4, <1>5, <2>1
<1>6. CASE ReadIdeStatus
  <2>1. pc' = pic2_set_irq(pc, IdeIrq, FALSE) /\ UNCHANGED <<menu, owes, serving, ops, job>>
    BY <1>6 DEF ReadIdeStatus, ide_ioport_read_status
  <2>2. Has(pc', kb, d, k, io)
    BY <1>1, <2>1, HasSetIrq
  <2> QED BY <1>5, <2>1, <2>2
<1>7. CASE EndInterrupt
  <2>1. PICK c \in 0 .. 1 : pc' = pic_write_ocw2(pc, c, "eoi", 0)
    BY <1>7 DEF EndInterrupt
  <2>2. Has(pc', kb, d, k, io)
    BY <1>1, <2>1, HasEoi
  <2>3. UNCHANGED <<menu, owes, serving, ops, job>>
    BY <1>7 DEF EndInterrupt
  <2> QED BY <1>5, <2>2, <2>3
<1>8. CASE IdeCommand
  <2>1. /\ d.status \in {"ready", "error"} /\ ~d.cmd_reset /\ ops' = ops + 1
        /\ UNCHANGED <<menu, owes, serving>>
    BY <1>8 DEF IdeCommand, Op
  <2>2. io = "none"
    BY <1>3, <2>1 DEF Waits
  <2>3. PICK cmd \in IdeCommands, c \in 0 .. (CountMod - 1), lba \in BOOLEAN,
             at \in {0, 1, DiskSectors - 3} :
          LET regs == ide_set_sector([pc.ide EXCEPT !.lba = lba, !.nsector = c], at)
              op == CASE cmd \in {"read", "multread"} -> "read"
                      [] cmd \in {"write", "multwrite"} -> "write"
                      [] OTHER -> "none"
          IN  /\ pc' \in ide_exec_cmd([pc EXCEPT !.ide = regs], cmd)
              /\ job' = IF pc'.ide.status = "error" \/ op = "none" THEN Idle
                        ELSE [op |-> op, lba |-> at, data |-> <<>>,
                              n |-> IF c = 0 THEN CountMod ELSE c]
    BY <1>8, Zenon DEF IdeCommand, IdeCommands
  <2> DEFINE f == [d EXCEPT !.lba = lba, !.nsector = c]
             regs == ide_set_sector(f, at)
             w == [pc EXCEPT !.ide = regs]
             op == Kind(cmd)
             j == [op |-> op, lba |-> at, data |-> <<>>, n |-> IF c = 0 THEN CountMod ELSE c]
             jj == IF op = "none" THEN Idle ELSE j
  <2>4. pc' \in ide_exec_cmd(w, cmd) /\ job' = IF pc'.ide.status = "error" THEN Idle ELSE jj
    BY <2>3 DEF Kind
  <2>5. DriveOK(f) /\ f.nsector = c /\ f.lba = lba /\ f.cmd_reset = d.cmd_reset
    <3>1. c \in Nat
      BY IdeConstants
    <3> QED BY <1>3, <3>1, DriveFields
  <2> HIDE DEF f
  <2>6. DriveOK(regs) /\ regs.nsector = c /\ ~regs.cmd_reset
    BY <2>1, <2>5, SectorFields
  <2>7. at \in 0 .. DiskSectors
    BY IdeConstants, DiskFits
  <2>8. ide_get_sector(regs) = at
    BY <2>5, <2>7, GetSet DEF DriveOK
  <2> HIDE DEF regs
  <2>9. Has(w, kb, regs, k, "none")
    BY <1>2, <2>2, HasIde
  <2>10. op \in {"none", "read", "write"}
    BY DEF Kind
  <2>11. op # "none" => Loaded(regs, j) /\ j.op = op
    <3> HIDE DEF op
    <3>1. DOMAIN j = {"op", "lba", "n", "data"} /\ j.op = op /\ j.lba = at /\ j.data = <<>>
      OBVIOUS
    <3>2. j.n = IF c = 0 THEN CountMod ELSE c
      OBVIOUS
    <3> HIDE DEF j
    <3>3. j.n \in 0 .. CountMod /\ j.n # 0 /\ j.n % CountMod = c
      <4>1. CountMod \in Nat \ {0} /\ c \in 0 .. CountMod - 1
        BY IdeConstants
      <4>2. c % CountMod = c /\ CountMod % CountMod = 0
        BY <4>1, SmallMod
      <4> QED BY <3>2, <4>1, <4>2
    <3>4. JobOK(j)
      BY <2>7, <2>10, <3>1, <3>3 DEF JobOK
    <3> QED BY <2>6, <2>8, <3>1, <3>3, <3>4 DEF Loaded
  <2>12. IF Kind(cmd) = "none" THEN jj = Idle ELSE Loaded(regs, jj) /\ jj.op = Kind(cmd)
    <3> HIDE DEF j
    <3> QED BY <2>11
  <2> HIDE DEF w, jj, j, op
  <2>13. Goes(pc', kb, jj)
    BY <1>3, <2>4, <2>6, <2>9, <2>12, Executes
  <2>14. /\ DOMAIN pc' = Fields /\ pc'.kbd = kb
         /\ Transferring(pc'.ide, pc'.disk, pc'.io, IF pc'.ide.status = "error" THEN Idle ELSE jj)
    BY <2>13, GoesOn
  <2>15. ops' \in Nat
    BY <1>1, <2>1
  <2> QED BY <1>4, <2>1, <2>4, <2>14, <2>15
<1>9. CASE IdeData
  <2>1. d.status = "drq" /\ UNCHANGED <<menu, owes, serving, ops>>
    BY <1>9 DEF IdeData
  <2>2. io = "none"
    BY <1>3, <2>1 DEF Waits
  <2>3. Has(pc, kb, d, k, "none") /\ Transferring(d, k, "none", job)
    BY <1>1, <1>2, <2>2
  <2>4. job.op \in {"none", "read", "write"}
    BY <1>3 DEF JobOK
  <2>5. job.op = "write" <=> d.end_transfer = "write"
    BY <1>3, <2>1, <2>4 DEF Moving, WriteDrq, ReadDrq
  <2>6. ASSUME NEW j, Goes(pc', kb, j), job' = IF pc'.ide.status = "error" THEN Idle ELSE j
        PROVE  IdeInv'
    <3>1. /\ DOMAIN pc' = Fields /\ pc'.kbd = kb
          /\ Transferring(pc'.ide, pc'.disk, pc'.io, IF pc'.ide.status = "error" THEN Idle ELSE j)
      BY <2>6, GoesOn
    <3> QED BY <1>1, <1>4, <2>1, <2>6, <3>1
  <2>7. CASE job.op = "write"
    <3> DEFINE v == 10 * ops + Len(job.data)
    <3>1. v \in Nat
      <4>1. Len(job.data) \in Nat
        BY <1>3, JobFields
      <4>2. ASSUME NEW x \in Nat, NEW y \in Nat PROVE 10 * x + y \in Nat
        OBVIOUS
      <4> QED BY <1>1, <4>1, <4>2
    <3>2. /\ pc' \in ide_data_writew(pc, v)
          /\ job' = IF pc'.ide.status = "error" THEN Idle ELSE Appended(job, v)
      BY <1>9, <2>5, <2>7 DEF IdeData, Appended
    <3> HIDE DEF v
    <3>3. Goes(pc', kb, Appended(job, v))
      BY <2>1, <2>3, <2>7, <3>1, <3>2, GivesSector
    <3> QED BY <2>6, <3>2, <3>3
  <2>8. CASE job.op = "read"
    <3> DEFINE v == d.io_buffer[d.data_index + 1]
    <3>1. pc' \in NextWord(pc) /\ job' = IF pc'.ide.status = "error" THEN Idle ELSE Appended(job, v)
      BY <1>9, <2>5, <2>8 DEF IdeData, ide_data_readw, Appended
    <3>2. Goes(pc', kb, Appended(job, v))
      BY <2>1, <2>3, <2>8, <3>1, TakesSector
    <3> HIDE DEF v
    <3> QED BY <2>6, <3>1, <3>2
  <2>9. CASE job.op = "none"
    <3>1. pc' \in NextWord(pc) /\ job' = Idle
      BY <1>9, <2>5, <2>9 DEF IdeData, ide_data_readw
    <3>2. Goes(pc', kb, Idle)
      BY <2>1, <2>3, <2>9, <3>1, TakesIdentity
    <3> QED BY <2>6, <3>1, <3>2
  <2> QED BY <2>4, <2>7, <2>8, <2>9
<1>10. CASE IdeComplete
  <2>1. io # "none" /\ pc' = ide_io_done(pc, io) /\ UNCHANGED <<menu, owes, serving, job, ops>>
    BY <1>10 DEF IdeComplete
  <2>2. DOMAIN pc' = Fields /\ pc'.kbd = kb /\ Transferring(pc'.ide, pc'.disk, pc'.io, job)
    BY <1>1, <1>2, <2>1, Completes
  <2> QED BY <1>1, <1>4, <2>1, <2>2
<1>11. CASE IdeControl
  <2>1. io = "none" /\ ops' = ops + 1 /\ UNCHANGED <<menu, owes, serving>>
    BY <1>11 DEF IdeControl, Op
  <2>2. PICK reset \in BOOLEAN, disable \in BOOLEAN :
          pc' = ide_cmd_write(pc, reset, disable) /\ job' = IF reset THEN Idle ELSE job
    BY <1>11 DEF IdeControl
  <2>3. Has(pc, kb, d, k, "none") /\ Transferring(d, k, "none", job)
    BY <1>1, <1>2, <2>1
  <2>4. /\ DOMAIN pc' = Fields /\ pc'.kbd = kb
        /\ Transferring(pc'.ide, pc'.disk, pc'.io, IF reset THEN Idle ELSE job)
    BY <2>2, <2>3, Controls
  <2>5. ops' \in Nat
    BY <1>1, <2>1
  <2> QED BY <1>4, <2>1, <2>2, <2>4, <2>5
<1>12. CASE UNCHANGED vars
  BY <1>12 DEF IdeInv, vars
<1> QED
  BY <1>6, <1>7, <1>8, <1>9, <1>10, <1>11, <1>12, IdeSteps

LEMMA InvExact == IdeInv => IdeTransferExact
<1> SUFFICES ASSUME IdeInv, job.op # "none" PROVE IdeTransferExact
  BY DEF IdeTransferExact
<1>1. Transferring(pc.ide, pc.disk, pc.io, job)
  BY DEF IdeInv, Idle
<1>2. JobOK(job) /\ Moving(pc.ide, pc.disk, job)
  BY <1>1 DEF Transferring
<1>3. DOMAIN job.data = 1 .. Len(job.data)
  BY <1>2, JobFields
<1> QED
  BY <1>2, <1>3 DEF Moving, Matches, IdeTransferExact

\* A read command hands over exactly the sectors that were asked for and a
\* write command stores exactly what it was given, in order, for every size of
\* the disk, every geometry and block size and every choice of the block device
\* to answer at once or later: ide_sector_read and ide_sector_write_cb1 split a
\* command into blocks, the sector registers are decoded and encoded again
\* between two of them (ide_get_sector, ide_set_sector), and the count register
\* wraps to zero for the longest command.  IdeInv says how many sectors are
\* done in each status of the drive, and what the buffer holds.
THEOREM TransfersAreExact == Spec => []IdeTransferExact
<1>1. Spec => []IdeInv
  BY InitIdeInv, StepIdeInv, PTL DEF Spec
<1> QED
  BY <1>1, InvExact, PTL
=============================================================================
