----------------------------- MODULE Pic8259 -----------------------------
(* The pair of 8259 interrupt controllers of the PC machine                *)
(* (tinyemu/x86_machine.c).  An operator takes the machine record m and    *)
(* returns the record the C function leaves behind; the fields used here   *)
(* are m.pic[0] (master), m.pic[1] (slave) and m.line, the level that      *)
(* cpu_set_irq last gave to the CPU.  A register is the set of its bits.   *)
(* irq_base only names the vector and read_reg_select, special_mask only   *)
(* choose what a read returns: they are left out.                          *)
EXTENDS Integers, FiniteSetsExt

Line == 0 .. 7
Cascade == 2    \* the master's input the slave is wired to

(* The lines whose trigger mode the guest may change (elcr_mask: 0xf8, 0xde). *)
elcr_mask(c) == IF c = 0 THEN 3 .. 7 ELSE {1, 2, 3, 4, 6, 7}

(* elcr survives a reset of the controller. *)
pic_reset(p) ==
  [last_irr |-> {}, irr |-> {}, imr |-> {}, isr |-> {}, priority_add |-> 0,
   init_state |-> 0, init4 |-> FALSE, auto_eoi |-> FALSE,
   rotate_on_autoeoi |-> FALSE, elcr |-> p.elcr]

pic2_init ==
  [c \in 0 .. 1 |-> pic_reset([elcr |-> {}])]

(* Without a BIOS, copy_kernel makes the lines of the PCI bus (pci_irqs)   *)
(* level-triggered before the guest starts; 12 is also the mouse's.        *)
PciElcr == [c \in 0 .. 1 |-> IF c = 0 THEN {} ELSE {9 - 8, 10 - 8, 11 - 8, 12 - 8}]
pic2_set_elcr(pics, elcr) ==
  [c \in 0 .. 1 |-> [pics[c] EXCEPT !.elcr = elcr[c] \intersect elcr_mask(c)]]

pic_set_irq1(p, irq, level) ==
  LET raised == irq \in p.elcr \/ irq \notin p.last_irr
  IN  IF level
      THEN [p EXCEPT !.irr = IF raised THEN @ \union {irq} ELSE @,
                     !.last_irr = @ \union {irq}]
      ELSE [p EXCEPT !.irr = IF irq \in p.elcr THEN @ \ {irq} ELSE @,
                     !.last_irr = @ \ {irq}]

(* The scan runs from priority 7 down, so the greatest number wins. *)
pic_get_priority(p, mask) ==
  IF mask = {} THEN -1
  ELSE Max({q \in Line : (q + p.priority_add) % 8 \in mask})

(* The priority itself is returned, not the line it stands for. *)
pic_get_irq(p) ==
  LET priority == pic_get_priority(p, p.irr \ p.imr)
  IN  IF priority > pic_get_priority(p, p.isr) THEN priority ELSE -1

pic_intack(p, irq) ==
  [p EXCEPT !.priority_add = IF p.auto_eoi /\ p.rotate_on_autoeoi
                             THEN (irq + 1) % 8 ELSE @,
            !.isr = IF p.auto_eoi THEN @ ELSE @ \union {irq},
            !.irr = IF irq \in p.elcr THEN @ ELSE @ \ {irq}]

pic2_update_irq_HoldsCascade(m) ==
  LET seen == IF pic_get_irq(m.pic[1]) >= 0
              THEN [m EXCEPT !.pic[0] = pic_set_irq1(@, Cascade, TRUE)] ELSE m
  IN  [seen EXCEPT !.line = pic_get_irq(seen.pic[0]) >= 0]

pic2_update_irq(m) ==
  LET seen == IF pic_get_irq(m.pic[1]) >= 0
              THEN [m EXCEPT !.pic[0] =
                      pic_set_irq1(pic_set_irq1(@, Cascade, TRUE), Cascade, FALSE)]
              ELSE m
  IN  [seen EXCEPT !.line = pic_get_irq(seen.pic[0]) >= 0]

pic2_set_irq(m, irq, level) ==
  pic2_update_irq(
    [m EXCEPT !.pic[irq \div 8] = pic_set_irq1(@, irq % 8, level)])

(* The line the acknowledge cycle names; 7 and 15 also stand for "nothing  *)
(* was requested any more".                                                *)
hard_intno(m) ==
  LET irq == pic_get_irq(m.pic[0])
      irq2 == pic_get_irq(m.pic[1])
  IN  IF irq < 0 THEN 7
      ELSE IF irq # Cascade THEN irq
      ELSE IF irq2 >= 0 THEN 8 + irq2 ELSE 15

pic2_get_hard_intno(m) ==
  LET irq == pic_get_irq(m.pic[0])
      irq2 == pic_get_irq(m.pic[1])
      master == IF irq >= 0 THEN [m EXCEPT !.pic[0] = pic_intack(@, irq)] ELSE m
      both == IF irq = Cascade /\ irq2 >= 0
              THEN [master EXCEPT !.pic[1] = pic_intack(@, irq2)] ELSE master
  IN  pic2_update_irq(both)

(* ------------------------------ pic_write ------------------------------ *)
(* ICW1: the values that abort() (single or level mode) are never written. *)
pic_write_icw1(m, c, four) ==
  [m EXCEPT !.pic[c] = [pic_reset(@) EXCEPT !.init_state = 1, !.init4 = four]]

(* OCW2: the end-of-interrupt and priority commands.  None of them calls   *)
(* update_irq.                                                             *)
pic_write_ocw2(m, c, cmd, n) ==
  LET p == m.pic[c]
      top == pic_get_priority(p, p.isr)
      ended == IF top >= 0 THEN p.isr \ {(top + p.priority_add) % 8} ELSE p.isr
      q == CASE cmd = "auto_rotate" -> [p EXCEPT !.rotate_on_autoeoi = (n # 0)]
             [] cmd = "eoi" -> [p EXCEPT !.isr = ended]
             [] cmd = "eoi_rotate" ->
                  [p EXCEPT !.isr = ended, !.priority_add = (@ + 1) % 8]
             [] cmd = "specific" -> [p EXCEPT !.isr = @ \ {n}]
             [] cmd = "set_priority" -> [p EXCEPT !.priority_add = (n + 1) % 8]
             [] cmd = "specific_rotate" ->
                  [p EXCEPT !.isr = @ \ {n}, !.priority_add = (n + 1) % 8]
  IN  [m EXCEPT !.pic[c] = q]

(* The data port: the mask, or the next initialisation word. *)
pic_write_data(m, c, mask, auto) ==
  LET p == m.pic[c]
  IN  CASE p.init_state = 0 ->
             pic2_update_irq([m EXCEPT !.pic[c].imr = mask])
        [] p.init_state = 1 -> [m EXCEPT !.pic[c].init_state = 2]
        [] p.init_state = 2 ->
             [m EXCEPT !.pic[c].init_state = IF p.init4 THEN 3 ELSE 0]
        [] p.init_state = 3 ->
             [m EXCEPT !.pic[c].init_state = 0, !.pic[c].auto_eoi = auto]

pic_elcr_write(m, c, val) ==
  [m EXCEPT !.pic[c].elcr = val \intersect elcr_mask(c)]
==========================================================================
