----------------------------- MODULE RiscvIrq ------------------------------
(***************************************************************************)
(* Interrupts of the RISC-V machine: the PLIC and the CLINT timer of       *)
(* src/tinyemu/riscv_machine.c, and the trap, return and wait-for-         *)
(* interrupt logic of src/tinyemu/riscv_cpu.c.                             *)
(*                                                                         *)
(* Bit masks are sets of interrupt names.  The guest is arbitrary code     *)
(* (external): it may execute any privileged instruction its privilege     *)
(* level allows, at any time the CPU is not powered down; GuestCsr names   *)
(* the registers it writes.  The main loop of the emulator runs            *)
(* riscv_machine_get_sleep_duration between slices of guest code; devices  *)
(* drive their interrupt lines at any time.                                *)
(***************************************************************************)
EXTENDS Integers, FiniteSets

CONSTANTS
    Lines,     \* PLIC interrupt sources, numbered from 1
    Half,      \* 2^32 in the code: timecmp is written in two halves
    TimeMax,   \* bound: the RTC stops here
    SoftIrq,   \* bound: which of "SSIP", "STIP" are in use
    GuestCsr   \* bound: which of "mstatus", "mie", "mideleg", "mip", "sip",
               \* "timecmp" the guest writes

ASSUME LinesAssumption == Lines \subseteq Nat /\ IsFiniteSet(Lines)
ASSUME TimeAssumption ==
    /\ Half \in Nat /\ Half >= 2 /\ Half % 2 = 0
    /\ TimeMax \in Nat /\ 2 * TimeMax < Half * Half
ASSUME GuestAssumption ==
    /\ SoftIrq \subseteq {"SSIP", "STIP"}
    /\ GuestCsr \subseteq {"mstatus", "mie", "mideleg", "mip", "sip", "timecmp"}

\* The level between S and M has no code of its own, but mstatus accepts
\* it in MPP and mret goes there.
PRV_U == 0
PRV_S == 1
PRV_H == 2
PRV_M == 3
Priv  == {PRV_U, PRV_S, PRV_H, PRV_M}

\* The bits of mip and mie, and their numbers: ctz32 takes the lowest first.
ExtIrq  == {"SEIP", "MEIP"}
AllIrq  == {"SSIP", "STIP", "MTIP"} \cup ExtIrq
Irq     == SoftIrq \cup {"MTIP"} \cup ExtIrq
IrqNum(i) == CASE i = "SSIP" -> 1 [] i = "STIP" -> 5 [] i = "MTIP" -> 7
               [] i = "SEIP" -> 9 [] i = "MEIP" -> 11

\* Masks of csr_write.  MSIP is never set: the machine has one hart.
MieMask     == SoftIrq \cup {"MTIP", "SEIP"}
MidelegMask == SoftIrq \cup {"SEIP"}
MipMask     == SoftIrq

VARIABLES
    priv,
    mstatus,          \* [ie, pie, pp]: xIE, xPIE and xPP by privilege level
    mip, mie, mideleg,
    power_down_flag,
    plic_pending_irq, plic_served_irq,
    seip_written,     \* history: the guest wrote SEIP since the last plic_update_mip
    timecmp, rtc

cpuVars  == <<priv, mstatus, mie, mideleg>>
plicVars == <<plic_pending_irq, plic_served_irq, seip_written>>
timeVars == <<timecmp, rtc>>
vars == <<cpuVars, mip, power_down_flag, plicVars, timeVars>>

Mstatus == [ie : [Priv -> BOOLEAN], pie : [{PRV_S, PRV_M} -> BOOLEAN],
            spp : {PRV_U, PRV_S}, mpp : Priv]
TimeMod == Half * Half

TypeOK ==
    /\ priv \in Priv
    /\ mstatus \in Mstatus
    /\ mip \in SUBSET Irq /\ mie \in SUBSET MieMask /\ mideleg \in SUBSET MidelegMask
    /\ power_down_flag \in BOOLEAN
    /\ plic_pending_irq \in SUBSET Lines /\ plic_served_irq \in SUBSET Lines
    /\ seip_written \in BOOLEAN
    /\ timecmp \in 0 .. TimeMod - 1 /\ rtc \in 0 .. TimeMax

\* riscv_cpu_init, riscv_machine_init: everything is zero, M level.
Init ==
    /\ priv = PRV_M
    /\ mstatus = [ie |-> [p \in Priv |-> FALSE], pie |-> [p \in {PRV_S, PRV_M} |-> FALSE],
                  spp |-> PRV_U, mpp |-> PRV_U]
    /\ mip = {} /\ mie = {} /\ mideleg = {}
    /\ power_down_flag = FALSE
    /\ plic_pending_irq = {} /\ plic_served_irq = {} /\ seip_written = FALSE
    /\ timecmp = 0 /\ rtc = 0

-----------------------------------------------------------------------------
(* mip and power down                                                      *)

\* Mutation: the CPU is not woken up.
SetMipNoWake(mask) ==
    /\ mip' = mip \cup mask
    /\ UNCHANGED power_down_flag

\* riscv_cpu_set_mip: an enabled interrupt ends power down.
riscv_cpu_set_mip(mask) ==
    /\ mip' = mip \cup mask
    /\ power_down_flag' = (power_down_flag /\ mip' \cap mie = {})

\* riscv_cpu_reset_mip.
riscv_cpu_reset_mip(mask) ==
    /\ mip' = mip \ mask
    /\ UNCHANGED power_down_flag

\* wfi: go to power down if no enabled interrupt is pending.
wfi ==
    /\ ~power_down_flag
    /\ priv # PRV_U
    /\ mip \cap mie = {}
    /\ power_down_flag' = TRUE
    /\ UNCHANGED <<cpuVars, mip, plicVars, timeVars>>

-----------------------------------------------------------------------------
(* Traps and returns                                                       *)

\* Mutation: SPIE is taken from SIE whatever level is left.
EnterSFromSie(m, p) ==
    [m EXCEPT !.pie[PRV_S] = m.ie[PRV_S], !.spp = p, !.ie[PRV_S] = FALSE]

\* The two branches of raise_exception2: the interrupt enable of the level
\* that is left goes to xPIE, the level to xPP, and xIE is cleared.
EnterS(m, p) ==
    [m EXCEPT !.pie[PRV_S] = m.ie[p], !.spp = p, !.ie[PRV_S] = FALSE]
EnterM(m, p) ==
    [m EXCEPT !.pie[PRV_M] = m.ie[p], !.mpp = p, !.ie[PRV_M] = FALSE]

raise_exception2(deleg) ==
    IF priv <= PRV_S /\ deleg
    THEN priv' = PRV_S /\ mstatus' = EnterS(mstatus, priv)
    ELSE priv' = PRV_M /\ mstatus' = EnterM(mstatus, priv)

\* The state handle_sret and handle_mret leave: the enable bit of the level
\* returned to is set from xPIE.
LeaveS(m) ==
    [m EXCEPT !.ie[m.spp] = m.pie[PRV_S], !.pie[PRV_S] = TRUE, !.spp = PRV_U]
LeaveM(m) ==
    [m EXCEPT !.ie[m.mpp] = m.pie[PRV_M], !.pie[PRV_M] = TRUE, !.mpp = PRV_U]

\* sret.
handle_sret ==
    /\ ~power_down_flag
    /\ priv >= PRV_S
    /\ priv' = mstatus.spp
    /\ mstatus' = LeaveS(mstatus)
    /\ UNCHANGED <<mip, mie, mideleg, power_down_flag, plicVars, timeVars>>

\* mret.
handle_mret ==
    /\ ~power_down_flag
    /\ priv = PRV_M
    /\ priv' = mstatus.mpp
    /\ mstatus' = LeaveM(mstatus)
    /\ UNCHANGED <<mip, mie, mideleg, power_down_flag, plicVars, timeVars>>

\* ecall, faults, illegal instructions: medeleg decides, and may hold any
\* value.
Exception ==
    /\ ~power_down_flag
    /\ \E deleg \in BOOLEAN : raise_exception2(deleg)
    /\ UNCHANGED <<mip, mie, mideleg, power_down_flag, plicVars, timeVars>>

\* Mutation: at M level delegation is not looked at.
PendingIgnoresMideleg ==
    {i \in mip \cap mie :
        \/ priv \in {PRV_U, PRV_H}
        \/ priv = PRV_S /\ (i \notin mideleg \/ mstatus.ie[PRV_S])
        \/ priv = PRV_M /\ mstatus.ie[PRV_M]}

\* get_pending_irq_mask: what is pending and enabled at this level.
get_pending_irq_mask ==
    {i \in mip \cap mie :
        \/ priv \in {PRV_U, PRV_H}
        \/ priv = PRV_S /\ (i \notin mideleg \/ mstatus.ie[PRV_S])
        \/ priv = PRV_M /\ i \notin mideleg /\ mstatus.ie[PRV_M]}

Lowest(mask) == CHOOSE i \in mask : \A j \in mask : IrqNum(i) <= IrqNum(j)

\* raise_interrupt, tried at the start of a slice and between blocks, when
\* irq_num is the lowest in the mask.
raise_interrupt(irq_num) ==
    /\ ~power_down_flag
    /\ get_pending_irq_mask # {}
    /\ irq_num = Lowest(get_pending_irq_mask)
    /\ raise_exception2(irq_num \in mideleg)
    /\ UNCHANGED <<mip, mie, mideleg, power_down_flag, plicVars, timeVars>>

-----------------------------------------------------------------------------
(* csr_write                                                               *)

Running(csr, level) == csr \in GuestCsr /\ ~power_down_flag /\ priv >= level

\* mstatus and sstatus: sstatus shows only the supervisor's part.
csr_write_mstatus(m) ==
    /\ Running("mstatus", PRV_S)
    /\ \/ priv = PRV_M
       \/ m = [mstatus EXCEPT !.ie[PRV_S] = m.ie[PRV_S], !.ie[PRV_U] = m.ie[PRV_U],
                              !.pie[PRV_S] = m.pie[PRV_S], !.spp = m.spp]
    /\ mstatus' = m
    /\ UNCHANGED <<priv, mie, mideleg, mip, power_down_flag, plicVars, timeVars>>

\* mie, and sie through the mask mideleg.
csr_write_mie(val) ==
    /\ Running("mie", PRV_S)
    /\ LET mask == IF priv = PRV_M THEN MieMask ELSE mideleg
       IN  mie' = (mie \ mask) \cup (val \cap mask)
    /\ UNCHANGED <<priv, mstatus, mideleg, mip, power_down_flag, plicVars, timeVars>>

csr_write_mideleg(val) ==
    /\ Running("mideleg", PRV_M)
    /\ mideleg' = val
    /\ UNCHANGED <<priv, mstatus, mie, mip, power_down_flag, plicVars, timeVars>>

csr_write_mip(val) ==
    /\ Running("mip", PRV_M)
    /\ mip' = (mip \ MipMask) \cup (val \cap MipMask)
    /\ UNCHANGED <<cpuVars, power_down_flag, plicVars, timeVars>>

\* sip, through the mask mideleg: a guest to which SEIP is delegated may
\* write it as well.
csr_write_sip(val) ==
    /\ Running("sip", PRV_S)
    /\ mip' = (mip \ mideleg) \cup (val \cap mideleg)
    /\ seip_written' = (seip_written \/ ("SEIP" \in mip' /\ "SEIP" \notin mip)
                                     \/ ("SEIP" \in mip /\ "SEIP" \notin mip'))
    /\ UNCHANGED <<cpuVars, power_down_flag, plic_pending_irq, plic_served_irq, timeVars>>

-----------------------------------------------------------------------------
(* PLIC                                                                    *)

\* plic_update_mip, after the sets pending and served have changed.
plic_update_mip ==
    /\ seip_written' = FALSE
    /\ IF plic_pending_irq' \ plic_served_irq' # {}
       THEN riscv_cpu_set_mip(ExtIrq)
       ELSE riscv_cpu_reset_mip(ExtIrq)

\* plic_set_irq: a device drives its line.
plic_set_irq(irq_num, state) ==
    /\ plic_pending_irq' = IF state THEN plic_pending_irq \cup {irq_num}
                                    ELSE plic_pending_irq \ {irq_num}
    /\ UNCHANGED plic_served_irq
    /\ plic_update_mip
    /\ UNCHANGED <<cpuVars, timeVars>>

\* plic_read at PLIC_HART_BASE + 4: the guest claims the lowest interrupt.
plic_read ==
    /\ ~power_down_flag
    /\ plic_pending_irq \ plic_served_irq # {}
    /\ LET mask == plic_pending_irq \ plic_served_irq
           i    == CHOOSE i \in mask : \A j \in mask : i <= j
       IN  plic_served_irq' = plic_served_irq \cup {i}
    /\ UNCHANGED plic_pending_irq
    /\ plic_update_mip
    /\ UNCHANGED <<cpuVars, timeVars>>

\* Mutation: completion does not look at the lines again.
CompleteNoUpdate(i) ==
    /\ ~power_down_flag
    /\ plic_served_irq' = plic_served_irq \ {i}
    /\ UNCHANGED plic_pending_irq
    /\ UNCHANGED <<mip, power_down_flag, seip_written>>
    /\ UNCHANGED <<cpuVars, timeVars>>

\* plic_write: the guest completes an interrupt.
plic_write(i) ==
    /\ ~power_down_flag
    /\ plic_served_irq' = plic_served_irq \ {i}
    /\ UNCHANGED plic_pending_irq
    /\ plic_update_mip
    /\ UNCHANGED <<cpuVars, timeVars>>

-----------------------------------------------------------------------------
(* CLINT timer                                                             *)

\* clint_write to the low half.  ~0xffffffff is a 32-bit constant, so the
\* high half is cleared; a 64-bit store writes the low half first.
clint_write_low(val) ==
    /\ "timecmp" \in GuestCsr /\ ~power_down_flag
    /\ timecmp' = val
    /\ riscv_cpu_reset_mip({"MTIP"})
    /\ UNCHANGED <<cpuVars, plicVars, rtc>>

\* Mutation: a pending timer interrupt is left.
WriteHighKeepsMtip(val) ==
    /\ "timecmp" \in GuestCsr /\ ~power_down_flag
    /\ timecmp' = (timecmp % Half) + val * Half
    /\ UNCHANGED <<mip, power_down_flag>>
    /\ UNCHANGED <<cpuVars, plicVars, rtc>>

\* clint_write to the high half.
clint_write_high(val) ==
    /\ "timecmp" \in GuestCsr /\ ~power_down_flag
    /\ timecmp' = (timecmp % Half) + val * Half
    /\ riscv_cpu_reset_mip({"MTIP"})
    /\ UNCHANGED <<cpuVars, plicVars, rtc>>

\* A difference of two times as the int64_t delay1 holds it.
Signed(d) == LET u == d % TimeMod IN IF 2 * u < TimeMod THEN u ELSE u - TimeMod

\* Mutation: the timer is only looked at while the CPU sleeps.
TimerOnlyAsleep ==
    /\ power_down_flag /\ "MTIP" \notin mip
    /\ Signed(timecmp - rtc) <= 0
    /\ riscv_cpu_set_mip({"MTIP"})
    /\ UNCHANGED <<cpuVars, plicVars, timeVars>>

\* The main loop asks how long it may sleep; this is where an expired timer
\* becomes an interrupt.
riscv_machine_get_sleep_duration ==
    /\ "MTIP" \notin mip
    /\ Signed(timecmp - rtc) <= 0
    /\ riscv_cpu_set_mip({"MTIP"})
    /\ UNCHANGED <<cpuVars, plicVars, timeVars>>

Tick ==
    /\ rtc < TimeMax
    /\ rtc' = rtc + 1
    /\ UNCHANGED <<cpuVars, mip, power_down_flag, plicVars, timecmp>>

-----------------------------------------------------------------------------
\* Deadlines the guest asks for are less than half the range away (2^63
\* ticks): a later one would look expired to delay1.
Deadline == 0 .. Half \div 2 - 1

\* The guest changes one field or bit at a time (csrrs, csrrc); any value
\* is reached by several such writes.
OneField ==
    {[mstatus EXCEPT !.ie[p] = ~@] : p \in {PRV_U, PRV_S, PRV_M}}
        \cup {[mstatus EXCEPT !.pie[p] = ~@] : p \in {PRV_S, PRV_M}}
        \cup {[mstatus EXCEPT !.spp = p] : p \in {PRV_U, PRV_S}}
        \cup {[mstatus EXCEPT !.mpp = p] : p \in Priv}
OneBit(old, mask) == {old \cup {i} : i \in mask} \cup {old \ {i} : i \in mask}

Guest ==
    \/ wfi \/ handle_sret \/ handle_mret \/ Exception
    \/ \E m \in OneField : csr_write_mstatus(m)
    \/ \E val \in OneBit(mie, MieMask) : csr_write_mie(val)
    \/ \E val \in OneBit(mideleg, MidelegMask) : csr_write_mideleg(val)
    \/ \E val \in OneBit(mip, MipMask) : csr_write_mip(val)
    \/ \E val \in OneBit(mip, MidelegMask) : csr_write_sip(val)
    \/ plic_read \/ \E i \in Lines : plic_write(i)
    \/ \E val \in 0 .. Half - 1 : clint_write_low(val)
    \/ \E val \in Deadline : clint_write_high(val)

Devices == \E i \in Lines, state \in BOOLEAN : plic_set_irq(i, state)

Next ==
    \/ Guest \/ Devices
    \/ \E irq_num \in Irq : raise_interrupt(irq_num)
    \/ riscv_machine_get_sleep_duration \/ Tick

\* Time passes, and the main loop keeps calling
\* riscv_machine_get_sleep_duration.
Fairness ==
    /\ WF_vars(riscv_machine_get_sleep_duration)
    /\ WF_vars(Tick)

Spec == Init /\ [][Next]_vars /\ Fairness
-----------------------------------------------------------------------------
(* Properties                                                              *)

(* The CPU never sleeps on a pending, enabled interrupt: the wake-up lies  *)
(* in riscv_cpu_set_mip alone, so every way to make an interrupt pending   *)
(* must go through it, and wfi must not race with one.                     *)
NoLostWakeup == power_down_flag => mip \cap mie = {}

(* The external interrupt bits always say whether the PLIC has an          *)
(* interrupt to claim, however lines, claims and completions interleave;   *)
(* SEIP unless the guest has written it through sip since the last change. *)
ExternalMatchesPlic ==
    /\ "MEIP" \in mip <=> plic_pending_irq \ plic_served_irq # {}
    /\ ~seip_written => ("SEIP" \in mip <=> "MEIP" \in mip)

(* A timer interrupt is never early: MTIP does not survive the moving of   *)
(* the deadline, not even between the writes of its two halves.            *)
TimerNotEarly == "MTIP" \in mip => timecmp <= rtc

(* get_pending_irq_mask and raise_exception2 agree on delegation: a        *)
(* delegated interrupt is taken at S level and never interrupts M level,   *)
(* any other is taken at M level; the level is never lowered, and code is  *)
(* interrupted at its own level only while that level's enable is set.     *)
(* (The level between S and M delegates nothing: raise_exception2.)        *)
InterruptsRespectPrivilege ==
    [][\A irq_num \in AllIrq : raise_interrupt(irq_num) =>
          /\ irq_num \in mip \cap mie
          /\ priv' = IF irq_num \in mideleg /\ priv # PRV_H THEN PRV_S ELSE PRV_M
          /\ priv' >= priv
          /\ priv' = priv => mstatus.ie[priv]]_vars

(* Returning from a trap restores the level and its interrupt enable,      *)
(* whatever mstatus held before.                                           *)
ReturnUndoesTrap ==
    /\ priv <= PRV_S =>
          LET m == EnterS(mstatus, priv)
          IN  m.spp = priv /\ LeaveS(m).ie[priv] = mstatus.ie[priv]
    /\ LET m == EnterM(mstatus, priv)
       IN  m.mpp = priv /\ LeaveM(m).ie[priv] = mstatus.ie[priv]

(* An expired timer becomes an interrupt, unless the guest moves the       *)
(* deadline first, and a CPU that waits for the timer wakes up when the    *)
(* deadline has passed.                                                    *)
TimerFires ==
    /\ (timecmp <= rtc) ~> ("MTIP" \in mip \/ timecmp > rtc)
    /\ (power_down_flag /\ "MTIP" \in mie /\ timecmp <= TimeMax) ~> ~power_down_flag
=============================================================================
