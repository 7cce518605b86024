----------------------------- MODULE PcTimers ----------------------------
(* The interval timer and the periodic interrupt of the real-time clock of *)
(* the PC machine (tinyemu/x86_machine.c).  Absolute times are replaced by *)
(* the distances the code computes from them, so time may run for ever:    *)
(*   pit.lag    time since count_load_time + last_irq_time (channel 0)     *)
(*   pit.fired  last_irq_time # 0                                          *)
(*   rtc.late   cmos_get_timer() - irq_timeout                             *)
(* rtc.level is the level of the clock's interrupt.  The flags of REG_C    *)
(* are not kept: the guest may overwrite them, which leaves the level.     *)
EXTENDS Pic8259

CONSTANTS Counts,   \* the counts the guest loads into channel 0
          Periods,  \* the periods the guest selects; 0 is rate code 0
          BootPeriod, \* the period of rate code 6, which REG_A starts with
          MaxLag    \* the longest delay between two polls

ASSUME TimerConstants == /\ Counts \subseteq Nat \ {0} /\ Counts # {}
                         /\ Periods \subseteq Nat /\ BootPeriod \in Nat \ {0}
                         /\ MaxLag \in Nat

PitIrq == 0
RtcIrq == 8

pit_init(count) ==
  [periodic |-> TRUE, rw_state |-> 0, count |-> count, lag |-> 0, fired |-> FALSE]

cmos_init ==
  [pie |-> FALSE, rate |-> BootPeriod, period |-> 0, late |-> 0, level |-> FALSE]

pit_load_count(m, count) ==
  [m EXCEPT !.pit.count = count, !.pit.lag = 0, !.pit.fired = FALSE]

(* The control word: access 0 latches the count, the others choose the     *)
(* access and the mode; last_irq_time is kept.                             *)
pit_write_control(m, access, periodic) ==
  IF access = 0 THEN [m EXCEPT !.pit.rw_state = 4]
  ELSE [m EXCEPT !.pit.rw_state = access - 1, !.pit.periodic = periodic]

(* A byte of the count.  After a latch command (4, 5) it is ignored.  *)
pit_write_count(m, count) ==
  LET rw == m.pit.rw_state
  IN  CASE rw \in {0, 1} -> pit_load_count(m, count)
        [] rw = 2 -> [m EXCEPT !.pit.rw_state = 3]
        [] rw = 3 -> pit_load_count([m EXCEPT !.pit.rw_state = 2], count)
        [] rw \in {4, 5} -> m

(* Reading a word alternates between its bytes; a latched word for ever. *)
pit_read(m) ==
  LET rw == m.pit.rw_state
  IN  IF rw \in {0, 1} THEN m
      ELSE [m EXCEPT !.pit.rw_state = IF rw % 2 = 0 THEN rw + 1 ELSE rw - 1]

Pulse(m) == pic2_set_irq(pic2_set_irq(m, PitIrq, TRUE), PitIrq, FALSE)

pit_update_irq(m) ==
  LET p == m.pit
      due == p.lag >= p.count /\ (p.periodic \/ ~p.fired)
      left == IF p.periodic THEN p.lag - p.count ELSE 0
  IN  IF due THEN [Pulse(m) EXCEPT !.pit.lag = left, !.pit.fired = TRUE] ELSE m

(* The next multiple of the period is some distance away: phase says which. *)
cmos_update_timer(m, phase) ==
  LET r == m.rtc
  IN  IF r.pie /\ r.rate # 0
      THEN [m EXCEPT !.rtc.period = r.rate, !.rtc.late = -phase]
      ELSE m

(* REG_A holds the rate, REG_B the enable bit; a write to any other        *)
(* register, REG_C included, changes nothing that is kept here.            *)
cmos_write(m, reg, rate, pie, phase) ==
  CASE reg = "A" -> cmos_update_timer([m EXCEPT !.rtc.rate = rate], phase)
    [] reg = "B" -> cmos_update_timer([m EXCEPT !.rtc.pie = pie], phase)
    [] reg = "other" -> m

cmos_read_c(m) == pic2_set_irq([m EXCEPT !.rtc.level = FALSE], RtcIrq, FALSE)

(* One period is caught up at each call. *)
cmos_update_irq(m) ==
  IF m.rtc.pie /\ m.rtc.late >= 0
  THEN [pic2_set_irq([m EXCEPT !.rtc.level = TRUE], RtcIrq, TRUE)
          EXCEPT !.rtc.late = @ - m.rtc.period]
  ELSE m

(* pc_machine_get_sleep_duration, called once per turn of the main loop. *)
poll_timers(m) == pit_update_irq(cmos_update_irq(m))
==========================================================================
