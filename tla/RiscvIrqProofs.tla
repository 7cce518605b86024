--------------------------- MODULE RiscvIrqProofs ---------------------------
(***************************************************************************)
(* Proofs about RiscvIrq, for every set of interrupt lines, every guest    *)
(* and every clock.                                                        *)
(***************************************************************************)
EXTENDS RiscvIrq, WellFoundedInduction, TLAPS

-----------------------------------------------------------------------------
(* Wake-ups and the external interrupt bits                                *)

\* Both safety properties together are inductive.
IrqInv == NoLostWakeup /\ ExternalMatchesPlic

\* What changes neither mip, mie, power down nor the PLIC preserves both.
LEMMA FrameIrq ==
    ASSUME IrqInv, UNCHANGED <<mip, mie, power_down_flag, plicVars>>
    PROVE  IrqInv'
  BY DEF IrqInv, NoLostWakeup, ExternalMatchesPlic, plicVars

\* What runs only when the CPU is awake leaves nothing asleep.
LEMMA FrameAwake ==
    ASSUME IrqInv, ~power_down_flag, UNCHANGED <<mip, power_down_flag, plicVars>>
    PROVE  IrqInv'
  BY DEF IrqInv, NoLostWakeup, ExternalMatchesPlic, plicVars

\* plic_update_mip makes the external bits true to the PLIC and wakes the
\* CPU if they are enabled.
LEMMA UpdateMip ==
    ASSUME IrqInv, plic_update_mip, UNCHANGED mie
    PROVE  IrqInv'
<1> USE DEF IrqInv, NoLostWakeup, ExternalMatchesPlic, ExtIrq
<1>1. CASE plic_pending_irq' \ plic_served_irq' # {}
  <2>1. mip' = mip \cup {"SEIP", "MEIP"} /\ power_down_flag' = (power_down_flag /\ mip' \cap mie = {})
    BY <1>1 DEF plic_update_mip, riscv_cpu_set_mip
  <2> QED
    BY <1>1, <2>1
<1>2. CASE plic_pending_irq' \ plic_served_irq' = {}
  <2>1. mip' = mip \ {"SEIP", "MEIP"} /\ power_down_flag' = power_down_flag
    BY <1>2 DEF plic_update_mip, riscv_cpu_reset_mip
  <2> QED
    BY <1>2, <2>1
<1> QED
  BY <1>1, <1>2

\* Setting or clearing a bit that is not external.
LEMMA SetMip ==
    ASSUME IrqInv, riscv_cpu_set_mip({"MTIP"}), UNCHANGED <<mie, plicVars>>
    PROVE  IrqInv'
<1>1. mip' = mip \cup {"MTIP"} /\ power_down_flag' = (power_down_flag /\ mip' \cap mie = {})
  BY DEF riscv_cpu_set_mip
<1> QED
  BY <1>1 DEF IrqInv, NoLostWakeup, ExternalMatchesPlic, plicVars

LEMMA ResetMip ==
    ASSUME IrqInv, riscv_cpu_reset_mip({"MTIP"}), UNCHANGED <<mie, plicVars>>
    PROVE  IrqInv'
<1>1. mip' = mip \ {"MTIP"} /\ power_down_flag' = power_down_flag
  BY DEF riscv_cpu_reset_mip
<1> QED
  BY <1>1 DEF IrqInv, NoLostWakeup, ExternalMatchesPlic, plicVars

\* A guest that sets or clears a software interrupt bit.
LEMMA SoftMip ==
    ASSUME IrqInv, NEW val \in OneBit(mip, MipMask), csr_write_mip(val)
    PROVE  IrqInv'
<1>1. "SEIP" \in val <=> "SEIP" \in mip
  BY GuestAssumption DEF OneBit, MipMask
<1>2. "MEIP" \in val <=> "MEIP" \in mip
  BY GuestAssumption DEF OneBit, MipMask
<1>3. PICK mask : mip' = (mip \ mask) \cup (val \cap mask)
  BY DEF csr_write_mip
<1>4. ~power_down_flag' /\ UNCHANGED plicVars
  BY DEF csr_write_mip, Running
<1> QED
  BY <1>1, <1>2, <1>3, <1>4 DEF IrqInv, NoLostWakeup, ExternalMatchesPlic, plicVars

\* A guest that writes a delegated interrupt bit; seip_written notes a
\* change of SEIP.
LEMMA SipMip ==
    ASSUME IrqInv, NEW val \in OneBit(mip, MidelegMask), csr_write_sip(val)
    PROVE  IrqInv'
<1>1. "MEIP" \in val <=> "MEIP" \in mip
  BY GuestAssumption DEF OneBit, MidelegMask
<1>2. mip' = (mip \ mideleg) \cup (val \cap mideleg)
  BY DEF csr_write_sip
<1>3. ~power_down_flag' /\ UNCHANGED <<plic_pending_irq, plic_served_irq>>
  BY DEF csr_write_sip, Running
<1>4. ~seip_written' => ~seip_written /\ ("SEIP" \in mip' <=> "SEIP" \in mip)
  BY DEF csr_write_sip
<1> QED
  BY <1>1, <1>2, <1>3, <1>4 DEF IrqInv, NoLostWakeup, ExternalMatchesPlic

LEMMA InitIrq == Init => IrqInv
  BY DEF Init, IrqInv, NoLostWakeup, ExternalMatchesPlic

LEMMA NextIrq == IrqInv /\ [Next]_vars => IrqInv'
<1> SUFFICES ASSUME IrqInv, [Next]_vars PROVE IrqInv'
  OBVIOUS
<1> USE DEF cpuVars
<1>1. CASE wfi
  BY <1>1 DEF wfi, IrqInv, NoLostWakeup, ExternalMatchesPlic, plicVars
<1>2. CASE handle_sret
  BY <1>2, FrameIrq DEF handle_sret
<1>3. CASE handle_mret
  BY <1>3, FrameIrq DEF handle_mret
<1>4. CASE Exception
  BY <1>4, FrameIrq DEF Exception
<1>5. ASSUME NEW m \in OneField, csr_write_mstatus(m) PROVE IrqInv'
  BY <1>5, FrameIrq DEF csr_write_mstatus
<1>6. ASSUME NEW val \in OneBit(mie, MieMask), csr_write_mie(val) PROVE IrqInv'
  BY <1>6, FrameAwake DEF csr_write_mie, Running
<1>7. ASSUME NEW val \in OneBit(mideleg, MidelegMask), csr_write_mideleg(val) PROVE IrqInv'
  BY <1>7, FrameIrq DEF csr_write_mideleg
<1>8. ASSUME NEW val \in OneBit(mip, MipMask), csr_write_mip(val) PROVE IrqInv'
  BY <1>8, SoftMip
<1>18. ASSUME NEW val \in OneBit(mip, MidelegMask), csr_write_sip(val) PROVE IrqInv'
  BY <1>18, SipMip
<1>9. CASE plic_read
  BY <1>9, UpdateMip DEF plic_read
<1>10. ASSUME NEW i \in Lines, plic_write(i) PROVE IrqInv'
  BY <1>10, UpdateMip DEF plic_write
<1>11. ASSUME NEW val \in 0 .. Half - 1, clint_write_low(val) PROVE IrqInv'
  BY <1>11, ResetMip DEF clint_write_low
<1>12. ASSUME NEW val \in Deadline, clint_write_high(val) PROVE IrqInv'
  BY <1>12, ResetMip DEF clint_write_high
<1>13. ASSUME NEW irq_num \in Irq, raise_interrupt(irq_num) PROVE IrqInv'
  BY <1>13, FrameIrq DEF raise_interrupt
<1>14. ASSUME NEW i \in Lines, NEW state \in BOOLEAN, plic_set_irq(i, state) PROVE IrqInv'
  BY <1>14, UpdateMip DEF plic_set_irq
<1>15. CASE riscv_machine_get_sleep_duration
  BY <1>15, SetMip DEF riscv_machine_get_sleep_duration
<1>16. CASE Tick
  BY <1>16, FrameIrq DEF Tick
<1>17. CASE UNCHANGED vars
  BY <1>17, FrameIrq DEF vars
<1> QED
  BY <1>1, <1>2, <1>3, <1>4, <1>5, <1>6, <1>7, <1>8, <1>9, <1>10, <1>11, <1>12,
     <1>13, <1>14, <1>15, <1>16, <1>17, <1>18
     DEF Next, Guest, Devices

(* The CPU never sleeps on a pending, enabled interrupt.                   *)
THEOREM WakeupNeverLost == Spec => []NoLostWakeup
<1>1. IrqInv => NoLostWakeup
  BY DEF IrqInv
<1> QED
  BY InitIrq, NextIrq, <1>1, PTL DEF Spec

(* The external interrupt bits are always those of the PLIC.               *)
THEOREM ExternalBitsCorrect == Spec => []ExternalMatchesPlic
<1>1. IrqInv => ExternalMatchesPlic
  BY DEF IrqInv
<1> QED
  BY InitIrq, NextIrq, <1>1, PTL DEF Spec

-----------------------------------------------------------------------------
(* Privilege                                                               *)

\* The privilege level and mstatus stay well formed.
PrivInv == priv \in Priv /\ mstatus \in Mstatus

LEMMA EnterType ==
    ASSUME NEW m \in Mstatus, NEW p \in Priv
    PROVE  EnterM(m, p) \in Mstatus /\ (p <= PRV_S => EnterS(m, p) \in Mstatus)
<1> USE DEF Mstatus, Priv, PRV_U, PRV_S, PRV_H, PRV_M
<1>1. m.ie[p] \in BOOLEAN
  OBVIOUS
<1>2. EnterM(m, p) \in Mstatus
  BY <1>1 DEF EnterM
<1>3. p <= PRV_S => EnterS(m, p) \in Mstatus
  <2> SUFFICES ASSUME p <= PRV_S PROVE EnterS(m, p) \in Mstatus
    OBVIOUS
  <2>1. p \in {PRV_U, PRV_S}
    OBVIOUS
  <2> QED
    BY <1>1, <2>1 DEF EnterS
<1> QED
  BY <1>2, <1>3

LEMMA LeaveType ==
    ASSUME NEW m \in Mstatus
    PROVE  LeaveS(m) \in Mstatus /\ LeaveM(m) \in Mstatus
  BY DEF LeaveS, LeaveM, Mstatus, Priv, PRV_U, PRV_S, PRV_H, PRV_M

\* Every trap leaves a well formed state, at S or at M level.
LEMMA TrapType ==
    ASSUME PrivInv, NEW deleg, raise_exception2(deleg)
    PROVE  PrivInv'
<1>1. CASE priv <= PRV_S /\ deleg
  <2>1. priv' = PRV_S /\ mstatus' = EnterS(mstatus, priv)
    BY <1>1 DEF raise_exception2
  <2> QED
    BY <1>1, <2>1, EnterType DEF PrivInv, Priv
<1>2. CASE ~(priv <= PRV_S /\ deleg)
  <2>1. priv' = PRV_M /\ mstatus' = EnterM(mstatus, priv)
    BY <1>2 DEF raise_exception2
  <2> QED
    BY <2>1, EnterType DEF PrivInv, Priv
<1> QED
  BY <1>1, <1>2

LEMMA OneFieldType == PrivInv => OneField \subseteq Mstatus
<1> SUFFICES ASSUME PrivInv, NEW m \in OneField PROVE m \in Mstatus
  OBVIOUS
<1> USE DEF PrivInv, Mstatus, Priv, PRV_U, PRV_S, PRV_H, PRV_M
<1>1. ASSUME NEW p \in {PRV_U, PRV_S, PRV_M}, m = [mstatus EXCEPT !.ie[p] = ~@]
      PROVE  m \in Mstatus
  BY <1>1
<1>2. ASSUME NEW p \in {PRV_S, PRV_M}, m = [mstatus EXCEPT !.pie[p] = ~@] PROVE m \in Mstatus
  BY <1>2
<1>3. ASSUME NEW p \in {PRV_U, PRV_S}, m = [mstatus EXCEPT !.spp = p] PROVE m \in Mstatus
  BY <1>3
<1>4. ASSUME NEW p \in Priv, m = [mstatus EXCEPT !.mpp = p] PROVE m \in Mstatus
  BY <1>4
<1> QED
  BY <1>1, <1>2, <1>3, <1>4 DEF OneField

LEMMA InitPriv == Init => PrivInv
  BY DEF Init, PrivInv, Mstatus, Priv, PRV_U, PRV_S, PRV_H, PRV_M

LEMMA NextPriv == PrivInv /\ [Next]_vars => PrivInv'
<1> SUFFICES ASSUME PrivInv, [Next]_vars PROVE PrivInv'
  OBVIOUS
<1>1. CASE UNCHANGED <<priv, mstatus>>
  BY <1>1 DEF PrivInv
<1>2. CASE handle_sret
  BY <1>2, LeaveType DEF handle_sret, PrivInv, Mstatus, Priv
<1>3. CASE handle_mret
  BY <1>3, LeaveType DEF handle_mret, PrivInv, Mstatus
<1>4. CASE Exception
  BY <1>4, TrapType DEF Exception
<1>5. ASSUME NEW irq_num \in Irq, raise_interrupt(irq_num) PROVE PrivInv'
  BY <1>5, TrapType DEF raise_interrupt
<1>6. ASSUME NEW m \in OneField, csr_write_mstatus(m) PROVE PrivInv'
  BY <1>6, OneFieldType DEF csr_write_mstatus, PrivInv
<1>7. CASE wfi \/ plic_read \/ riscv_machine_get_sleep_duration \/ Tick \/ UNCHANGED vars
  BY <1>7, <1>1 DEF wfi, plic_read, riscv_machine_get_sleep_duration, Tick, vars, cpuVars
<1>8. ASSUME NEW val, \/ csr_write_mie(val) \/ csr_write_mideleg(val)
                      \/ csr_write_mip(val) \/ csr_write_sip(val)
      PROVE  PrivInv'
  BY <1>8, <1>1 DEF csr_write_mie, csr_write_mideleg, csr_write_mip, csr_write_sip, cpuVars
<1>9. ASSUME NEW val, clint_write_low(val) \/ clint_write_high(val) \/ plic_write(val)
      PROVE  PrivInv'
  BY <1>9, <1>1 DEF clint_write_low, clint_write_high, plic_write, cpuVars
<1>10. ASSUME NEW i, NEW state, plic_set_irq(i, state) PROVE PrivInv'
  BY <1>10, <1>1 DEF plic_set_irq, cpuVars
<1> QED
  BY <1>2, <1>3, <1>4, <1>5, <1>6, <1>7, <1>8, <1>9, <1>10 DEF Next, Guest, Devices

\* Leaving a trap restores what entering it saved.
LEMMA RoundTrip == PrivInv => ReturnUndoesTrap
  BY DEF PrivInv, ReturnUndoesTrap, EnterS, EnterM, LeaveS, LeaveM,
         Mstatus, Priv, PRV_U, PRV_S, PRV_H, PRV_M

(* Returning from a trap restores the level and its interrupt enable.      *)
THEOREM TrapRoundTrip == Spec => []ReturnUndoesTrap
  BY InitPriv, NextPriv, RoundTrip, PTL DEF Spec

\* Only bits of its mask are ever enabled in mie.
MieInv == mie \subseteq MieMask

LEMMA InitMie == Init => MieInv
  BY DEF Init, MieInv

LEMMA NextMie == MieInv /\ [Next]_vars => MieInv'
<1> SUFFICES ASSUME MieInv, [Next]_vars PROVE MieInv'
  OBVIOUS
<1> USE DEF MieInv
<1>1. ASSUME NEW val \in OneBit(mie, MieMask), csr_write_mie(val) PROVE MieInv'
  <2>1. PICK mask : mie' = (mie \ mask) \cup (val \cap mask)
    BY <1>1 DEF csr_write_mie
  <2>2. val \subseteq MieMask
    BY DEF OneBit
  <2> QED
    BY <2>1, <2>2
<1>2. CASE UNCHANGED mie
  BY <1>2
<1> QED
  BY <1>1, <1>2 DEF Next, Guest, Devices, wfi, handle_sret, handle_mret, Exception,
     csr_write_mstatus, csr_write_mideleg, csr_write_mip, csr_write_sip, plic_read, plic_write,
     clint_write_low, clint_write_high, raise_interrupt, plic_set_irq,
     riscv_machine_get_sleep_duration, Tick, vars, cpuVars

\* The interrupt that is taken is pending and enabled, goes where mideleg
\* says, and interrupts its own level only if that is enabled.
LEMMA InterruptLevel ==
    ASSUME PrivInv, MieInv, NEW irq_num, raise_interrupt(irq_num)
    PROVE  /\ irq_num \in mip \cap mie
           /\ priv' = IF irq_num \in mideleg /\ priv # PRV_H THEN PRV_S ELSE PRV_M
           /\ priv' >= priv
           /\ priv' = priv => mstatus.ie[priv]
<1> DEFINE mask == get_pending_irq_mask
<1>1. mask # {} /\ irq_num = Lowest(mask) /\ raise_exception2(irq_num \in mideleg)
  BY DEF raise_interrupt
<1>2. irq_num \in mask
  <2>1. \E i \in mask : \A j \in mask : IrqNum(i) <= IrqNum(j)
    <3>1. mask \subseteq {"SSIP", "STIP", "MTIP", "SEIP"}
      BY GuestAssumption DEF get_pending_irq_mask, MieMask, MieInv
    <3> QED
      BY <1>1, <3>1 DEF IrqNum
  <2> QED
    BY <1>1, <2>1 DEF Lowest
<1>3. /\ irq_num \in mip \cap mie
      /\ priv = PRV_S => irq_num \notin mideleg \/ mstatus.ie[PRV_S]
      /\ priv = PRV_M => irq_num \notin mideleg /\ mstatus.ie[PRV_M]
  BY <1>2 DEF get_pending_irq_mask, PRV_U, PRV_S, PRV_H, PRV_M
<1>4. priv' = IF priv <= PRV_S /\ irq_num \in mideleg THEN PRV_S ELSE PRV_M
  BY <1>1 DEF raise_exception2
<1> HIDE DEF mask
<1> QED
  BY <1>3, <1>4 DEF PrivInv, Priv, PRV_U, PRV_S, PRV_H, PRV_M

(* get_pending_irq_mask and raise_exception2 agree on delegation, never    *)
(* lower the level and respect the enables, for every guest.               *)
THEOREM PrivilegeRespected == Spec => InterruptsRespectPrivilege
<1>1. PrivInv /\ MieInv /\ [Next]_vars =>
        [\A irq_num \in AllIrq : raise_interrupt(irq_num) =>
          /\ irq_num \in mip \cap mie
          /\ priv' = IF irq_num \in mideleg /\ priv # PRV_H THEN PRV_S ELSE PRV_M
          /\ priv' >= priv
          /\ priv' = priv => mstatus.ie[priv]]_vars
  BY InterruptLevel
<1> QED
  BY InitPriv, NextPriv, InitMie, NextMie, <1>1, PTL DEF Spec, InterruptsRespectPrivilege

-----------------------------------------------------------------------------
(* The timer                                                               *)

\* The clock and the deadline both lie in the lower half of the range, so
\* the signed difference has the sign of the true one; then a timer that is
\* pending has expired.
TimeInv ==
    /\ timecmp \in Nat /\ 2 * timecmp < TimeMod
    /\ rtc \in 0 .. TimeMax
    /\ TimerNotEarly

\* delay1 is not positive only when the deadline has passed.
LEMMA SignedDelay ==
    ASSUME TimeInv, Signed(timecmp - rtc) <= 0
    PROVE  timecmp <= rtc
<1> DEFINE d == timecmp - rtc
<1>1. TimeMod \in Nat /\ 2 * TimeMax < TimeMod /\ TimeMax \in Nat
  BY TimeAssumption, SMT DEF TimeMod
<1>2. d \in Int /\ 2 * d < TimeMod
  BY <1>1 DEF TimeInv
<1> SUFFICES ASSUME d > 0 PROVE FALSE
  BY <1>1 DEF TimeInv
<1>3. d % TimeMod = d
  <2> HIDE DEF TimeMod, d
  <2> QED
    BY <1>1, <1>2, SMT
<1>4. Signed(d) = d
  BY <1>2, <1>3 DEF Signed
<1> QED
  BY <1>2, <1>4

\* Each half the guest may write keeps the deadline in the lower half.
LEMMA LowHalf ==
    ASSUME NEW val \in 0 .. Half - 1
    PROVE  val \in Nat /\ 2 * val < TimeMod
<1>1. 2 * Half <= Half * Half
  BY TimeAssumption, SMT
<1> QED
  BY <1>1, TimeAssumption DEF TimeMod

LEMMA HighHalf ==
    ASSUME NEW old \in Nat, NEW val \in Deadline
    PROVE  /\ (old % Half) + val * Half \in Nat
           /\ 2 * ((old % Half) + val * Half) < TimeMod
<1>1. Half \in Nat /\ Half >= 2 /\ Half % 2 = 0
  BY TimeAssumption
<1>2. PICK h \in Nat : Half = 2 * h
  BY <1>1, SMT
<1>3. val \in Nat /\ val <= h - 1
  BY <1>1, <1>2 DEF Deadline
<1>4. old % Half \in 0 .. Half - 1
  BY <1>1
<1>5. val * Half \in Nat /\ val * Half <= (h - 1) * Half
  BY <1>1, <1>2, <1>3, SMT
<1>6. 2 * ((h - 1) * Half) = Half * Half - 2 * Half
  BY <1>1, <1>2, SMT
<1>7. (h - 1) * Half \in Int
  BY <1>1, <1>2
<1>8. Half * Half \in Nat
  BY <1>1
<1> DEFINE a == old % Half  b == val * Half  c == (h - 1) * Half  t == Half * Half
<1> HIDE DEF a, b, c, t
<1>9. a \in Nat /\ a < Half /\ b \in Nat /\ b <= c /\ 2 * c = t - 2 * Half /\ c \in Int /\ t \in Nat
  BY <1>1, <1>4, <1>5, <1>6, <1>7, <1>8 DEF a, b, c, t
<1>10. a + b \in Nat /\ 2 * (a + b) < t
  BY <1>1, <1>9
<1> QED
  BY <1>10 DEF a, b, t, TimeMod

LEMMA InitTime == Init => TimeInv
<1> SUFFICES ASSUME Init PROVE TimeInv
  OBVIOUS
<1>1. Half * Half > 0
  BY TimeAssumption, SMT
<1> QED
  BY <1>1, TimeAssumption DEF Init, TimeInv, TimerNotEarly, TimeMod

\* What leaves the clock and the deadline alone and does not set MTIP.
LEMMA FrameTime ==
    ASSUME TimeInv, UNCHANGED timeVars, "MTIP" \in mip' => "MTIP" \in mip
    PROVE  TimeInv'
  BY DEF TimeInv, TimerNotEarly, timeVars

LEMMA NextTime == TimeInv /\ [Next]_vars => TimeInv'
<1> SUFFICES ASSUME TimeInv, [Next]_vars PROVE TimeInv'
  OBVIOUS
<1>1. CASE UNCHANGED <<mip, timeVars>>
  BY <1>1, FrameTime
<1>2. CASE \/ wfi \/ handle_sret \/ handle_mret \/ Exception \/ UNCHANGED vars
           \/ \E irq_num \in Irq : raise_interrupt(irq_num)
  BY <1>1, <1>2 DEF wfi, handle_sret, handle_mret, Exception, raise_interrupt, vars
<1>3. ASSUME NEW val, csr_write_mstatus(val) \/ csr_write_mie(val) \/ csr_write_mideleg(val)
      PROVE  TimeInv'
  BY <1>1, <1>3 DEF csr_write_mstatus, csr_write_mie, csr_write_mideleg
<1>4. ASSUME NEW val \in OneBit(mip, MipMask) \cup OneBit(mip, MidelegMask),
             csr_write_mip(val) \/ csr_write_sip(val)
      PROVE  TimeInv'
  <2>1. "MTIP" \in val <=> "MTIP" \in mip
    BY GuestAssumption DEF OneBit, MipMask, MidelegMask
  <2>2. PICK mask : mip' = (mip \ mask) \cup (val \cap mask)
    BY <1>4 DEF csr_write_mip, csr_write_sip
  <2>3. UNCHANGED timeVars
    BY <1>4 DEF csr_write_mip, csr_write_sip
  <2> QED
    BY <2>1, <2>2, <2>3, FrameTime
<1>5. ASSUME plic_update_mip, UNCHANGED timeVars PROVE TimeInv'
  BY <1>5, FrameTime DEF plic_update_mip, riscv_cpu_set_mip, riscv_cpu_reset_mip, ExtIrq
<1>6. CASE plic_read
  BY <1>5, <1>6 DEF plic_read
<1>7. ASSUME NEW i \in Lines, plic_write(i) PROVE TimeInv'
  BY <1>5, <1>7 DEF plic_write
<1>8. ASSUME NEW i \in Lines, NEW state \in BOOLEAN, plic_set_irq(i, state) PROVE TimeInv'
  BY <1>5, <1>8 DEF plic_set_irq
<1>9. ASSUME NEW val \in 0 .. Half - 1, clint_write_low(val) PROVE TimeInv'
  BY <1>9, LowHalf DEF clint_write_low, riscv_cpu_reset_mip, TimeInv, TimerNotEarly
<1>10. ASSUME NEW val \in Deadline, clint_write_high(val) PROVE TimeInv'
  <2>1. timecmp' \in Nat /\ 2 * timecmp' < TimeMod
    BY <1>10, HighHalf DEF clint_write_high, TimeInv
  <2> QED
    BY <1>10, <2>1 DEF clint_write_high, riscv_cpu_reset_mip, TimeInv, TimerNotEarly
<1>11. CASE riscv_machine_get_sleep_duration
  <2>1. timecmp <= rtc
    BY <1>11, SignedDelay DEF riscv_machine_get_sleep_duration
  <2> QED
    BY <1>11, <2>1 DEF riscv_machine_get_sleep_duration, TimeInv, TimerNotEarly, timeVars
<1>12. CASE Tick
  BY <1>12, TimeAssumption DEF Tick, TimeInv, TimerNotEarly
<1> QED
  BY <1>2, <1>3, <1>4, <1>6, <1>7, <1>8, <1>9, <1>10, <1>11, <1>12 DEF Next, Guest, Devices

(* A timer interrupt is never early, whatever halves of the deadline the   *)
(* guest writes in whatever order (clint_write), and although              *)
(* riscv_machine_get_sleep_duration compares times as signed numbers.      *)
THEOREM TimerNeverEarly == Spec => []TimerNotEarly
<1>1. TimeInv => TimerNotEarly
  BY DEF TimeInv
<1> QED
  BY InitTime, NextTime, <1>1, PTL DEF Spec

-----------------------------------------------------------------------------
(* Types                                                                   *)

\* The part of TypeOK that PrivInv, MieInv and TimeInv leave.
MaskInv ==
    /\ mip \in SUBSET Irq /\ mideleg \in SUBSET MidelegMask
    /\ power_down_flag \in BOOLEAN
    /\ plic_pending_irq \in SUBSET Lines /\ plic_served_irq \in SUBSET Lines
    /\ seip_written \in BOOLEAN

\* A set of natural numbers has a least element.
LEMMA LeastElement ==
    ASSUME NEW T, T \subseteq Nat, T # {}
    PROVE  \E n \in T : \A m \in T : n <= m
<1>1. PICK n \in T : \A m \in T : ~(<<m, n>> \in OpToRel(<, Nat))
  BY WFMin, NatLessThanWellFounded
<1>2. ASSUME NEW m \in T PROVE n <= m
  <2>1. n \in Nat /\ m \in Nat
    OBVIOUS
  <2>2. m < n => <<m, n>> \in OpToRel(<, Nat)
    BY <2>1, SMT DEF OpToRel
  <2>3. ~(m < n)
    BY <1>1, <2>2, Zenon
  <2> QED
    BY <2>1, <2>3
<1> QED
  BY <1>2

LEMMA SetResetType ==
    ASSUME MaskInv, NEW mask \in SUBSET Irq,
           riscv_cpu_set_mip(mask) \/ riscv_cpu_reset_mip(mask)
    PROVE  mip' \in SUBSET Irq /\ power_down_flag' \in BOOLEAN
<1>1. CASE riscv_cpu_set_mip(mask)
  BY <1>1, Zenon DEF riscv_cpu_set_mip, MaskInv
<1>2. CASE riscv_cpu_reset_mip(mask)
  BY <1>2, Zenon DEF riscv_cpu_reset_mip, MaskInv
<1> QED
  BY <1>1, <1>2

LEMMA UpdateMipType ==
    ASSUME MaskInv, plic_update_mip
    PROVE  mip' \in SUBSET Irq /\ power_down_flag' \in BOOLEAN /\ seip_written' \in BOOLEAN
<1>1. ExtIrq \in SUBSET Irq
  BY DEF Irq
<1> QED
  BY <1>1, SetResetType DEF plic_update_mip

LEMMA InitMask == Init => MaskInv
  BY DEF Init, MaskInv

LEMMA NextMask == MaskInv /\ [Next]_vars => MaskInv'
<1> SUFFICES ASSUME MaskInv, [Next]_vars PROVE MaskInv'
  OBVIOUS
<1>1. CASE UNCHANGED <<mip, mideleg, power_down_flag, plicVars>>
  BY <1>1 DEF MaskInv, plicVars
<1>2. CASE \/ handle_sret \/ handle_mret \/ Exception \/ Tick \/ UNCHANGED vars
           \/ \E irq_num \in Irq : raise_interrupt(irq_num)
  BY <1>1, <1>2 DEF handle_sret, handle_mret, Exception, raise_interrupt, Tick, vars, cpuVars
<1>3. ASSUME NEW val, csr_write_mstatus(val) \/ csr_write_mie(val) PROVE MaskInv'
  BY <1>1, <1>3 DEF csr_write_mstatus, csr_write_mie
<1>4. CASE wfi
  BY <1>4 DEF wfi, MaskInv, plicVars, cpuVars
<1>5. ASSUME NEW val \in OneBit(mideleg, MidelegMask), csr_write_mideleg(val) PROVE MaskInv'
  BY <1>5 DEF csr_write_mideleg, OneBit, MaskInv, plicVars
<1>6. ASSUME NEW val \in OneBit(mip, MipMask) \cup OneBit(mip, MidelegMask),
             csr_write_mip(val) \/ csr_write_sip(val)
      PROVE  MaskInv'
  <2>1. PICK mask : mip' = (mip \ mask) \cup (val \cap mask)
    BY <1>6 DEF csr_write_mip, csr_write_sip
  <2>2. val \in SUBSET Irq
    BY DEF OneBit, MaskInv, Irq, MipMask, MidelegMask, ExtIrq
  <2>3. mip' \in SUBSET Irq
    BY <2>1, <2>2 DEF MaskInv
  <2>4. seip_written' \in BOOLEAN
    BY <1>6 DEF csr_write_mip, csr_write_sip, MaskInv, plicVars
  <2> QED
    BY <1>6, <2>3, <2>4 DEF csr_write_mip, csr_write_sip, MaskInv, plicVars, cpuVars
<1>7. CASE plic_read
  <2> DEFINE mask == plic_pending_irq \ plic_served_irq
             i    == CHOOSE i \in mask : \A j \in mask : i <= j
  <2>1. mask \subseteq Lines /\ mask # {}
    BY <1>7 DEF plic_read, MaskInv
  <2>2. \E n \in mask : \A j \in mask : n <= j
    BY <2>1, LinesAssumption, LeastElement
  <2>3. i \in Lines
    BY <2>1, <2>2
  <2>4. plic_served_irq' = plic_served_irq \cup {i} /\ UNCHANGED plic_pending_irq
    BY <1>7 DEF plic_read
  <2> HIDE DEF i
  <2> QED
    BY <1>7, <2>3, <2>4, UpdateMipType DEF plic_read, MaskInv, cpuVars
<1>8. ASSUME NEW i \in Lines, plic_write(i) PROVE MaskInv'
  BY <1>8, UpdateMipType DEF plic_write, MaskInv, cpuVars
<1>9. ASSUME NEW i \in Lines, NEW state \in BOOLEAN, plic_set_irq(i, state) PROVE MaskInv'
  BY <1>9, UpdateMipType DEF plic_set_irq, MaskInv, cpuVars
<1>10. {"MTIP"} \in SUBSET Irq
  BY DEF Irq
<1>11. ASSUME NEW val, clint_write_low(val) \/ clint_write_high(val) PROVE MaskInv'
  BY <1>10, <1>11, SetResetType DEF clint_write_low, clint_write_high, MaskInv, cpuVars, plicVars
<1>12. CASE riscv_machine_get_sleep_duration
  BY <1>10, <1>12, SetResetType DEF riscv_machine_get_sleep_duration, MaskInv, cpuVars, plicVars
<1> QED
  BY <1>2, <1>3, <1>4, <1>5, <1>6, <1>7, <1>8, <1>9, <1>11, <1>12 DEF Next, Guest, Devices

(* Every register keeps its type: no mask ever holds a bit outside its     *)
(* set, and the two halves of the deadline never overflow it.              *)
THEOREM TypesCorrect == Spec => []TypeOK
<1>1. PrivInv /\ MieInv /\ TimeInv /\ MaskInv => TypeOK
  <2> SUFFICES ASSUME PrivInv, MieInv, TimeInv, MaskInv PROVE TypeOK
    OBVIOUS
  <2>1. TimeMod \in Int
    BY TimeAssumption DEF TimeMod
  <2>2. timecmp \in 0 .. TimeMod - 1
    BY <2>1 DEF TimeInv
  <2> QED
    BY <2>2 DEF PrivInv, MieInv, TimeInv, MaskInv, TypeOK
<1> QED
  BY InitPriv, NextPriv, InitMie, NextMie, InitTime, NextTime, InitMask, NextMask, <1>1, PTL
     DEF Spec
=============================================================================
