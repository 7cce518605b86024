----------------------------- MODULE RiscvCpu ------------------------------
(***************************************************************************)
(* The RISC-V CPU as one run: its interrupts, with the constants of the    *)
(* configuration for the PLIC and the timer, with those of Trap for        *)
(* arbitrary code at every privilege level and with those of Sip for a     *)
(* supervisor that writes sip, and its floating-point unit.                *)
(* The instances of RiscvIrq share their variables; the floating-point     *)
(* unit works on registers alone.  unit says what a behaviour exercises.   *)
(***************************************************************************)
EXTENDS RiscvIrq

VARIABLES unit, a, rm
fpVars == <<a, rm>>

Trap == INSTANCE RiscvIrq WITH
    Lines <- {}, Half <- 2, TimeMax <- 0, SoftIrq <- {"SSIP"},
    GuestCsr <- {"mstatus", "mie", "mideleg", "mip"}

Sip == INSTANCE RiscvIrq WITH
    Lines <- {1}, Half <- 2, TimeMax <- 0, SoftIrq <- {},
    GuestCsr <- {"mie", "mideleg", "sip"}

(* Operands: zero and subnormals, the smallest normal numbers, those below *)
(* and above one, the largest, infinity and NaN.                           *)
Fp == INSTANCE SoftFpRef WITH
    EXP_SIZE <- 5, MANT_SIZE <- 4, NarrowExp <- 3, NarrowMant <- 2,
    Exponents <- {0, 1, 14, 16, 30, 31}, Mantissas <- {0, 1, 8, 15},
    Thirds <- {0, 15}, IntSizes <- {4, 8}

ASSUME FpAssumption == Fp!FormatAssumption /\ Fp!OperandAssumption

CpuInit == unit \in {"timer", "trap", "sip", "fp"} /\ Init /\ Fp!Init

TimerStep == unit = "timer" /\ Next /\ UNCHANGED <<unit, fpVars>>
TrapStep  == unit = "trap" /\ Trap!Next /\ UNCHANGED <<unit, fpVars>>
SipStep   == unit = "sip" /\ Sip!Next /\ UNCHANGED <<unit, fpVars>>
FpStep    == unit = "fp" /\ Fp!Next /\ UNCHANGED <<unit, vars>>

CpuSpec ==
    /\ CpuInit /\ [][TimerStep \/ TrapStep \/ SipStep \/ FpStep]_<<unit, vars, fpVars>>
    /\ WF_vars(riscv_machine_get_sleep_duration)
    /\ WF_vars(unit = "timer" /\ Tick)

-----------------------------------------------------------------------------
(* The properties of SoftFpRef, for this composition                       *)

(* Arithmetic gives the exact result, rounded once.                        *)
ArithmeticIsExact == unit = "fp" => Fp!ArithmeticIsExact

(* Comparisons, minimum and maximum follow the order of the numbers.       *)
ComparisonsAgree == unit = "fp" => Fp!ComparisonsAgree

(* Conversions between formats and from and to integers round once.        *)
ConversionsRoundOnce == unit = "fp" => Fp!ConversionsRoundOnce
=============================================================================
