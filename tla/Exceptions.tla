----------------------------- MODULE Exceptions -----------------------------
(***************************************************************************)
(* Exception entry and return of the emulated CPU (cpu.cc), as driven by   *)
(* the loop of Emulator::execute_loop (emulator.cc).                       *)
(*                                                                         *)
(* One iteration of the loop is two steps: "check" (timer_count is         *)
(* advanced and check_interrupt runs) and "exec" (one instruction is       *)
(* fetched, decoded and executed).  The instruction is chosen by the guest *)
(* program, which is not part of the emulator: the specification lets it   *)
(* be any instruction the guest may use at its exception level.            *)
(*                                                                         *)
(* Abstractions.  Addresses are members of a set; what the code reads of   *)
(* one is bit 63 (util::bit(pc, 63)), which splits the set in KernelAddr   *)
(* and UserAddr.  Stack pointers are opaque.  Only bits 9..6 of daif and   *)
(* bits 2..0 of SPSR_EL1 are kept.  Whether the UART interrupts is a free  *)
(* choice here; module Uart models it, as module VirtioBlk models what     *)
(* disk_access does to memory.                                             *)
(***************************************************************************)
EXTENDS Naturals

CONSTANTS
    UserAddr,    \* addresses with bit 63 clear
    KernelAddr,  \* addresses with bit 63 set
    Succ,        \* Succ[a] is a + 4
    VBars,       \* values the guest puts in VBAR_EL1
    Vector,      \* Vector[b][slot] is b + the offset of the slot
    Stacks,      \* stack pointer values
    Imms,        \* immediates of DAIFSet and DAIFClr the guest uses
    TimerPeriod, \* 100 in the source
    RxEnabled    \* does the guest set the receive bit of UARTIMSC?

Addr == UserAddr \cup KernelAddr

DaifBits == {"D", "A", "I", "F"}

Slots == {"sync_el1", "irq_el1", "sync_el0", "irq_el0"}

ASSUME AddrAssumption ==
    /\ UserAddr \cap KernelAddr = {}
    /\ Succ \in [Addr -> Addr]
    /\ Vector \in [VBars -> [Slots -> Addr]]

ASSUME GuestAssumption == Imms \subseteq SUBSET DaifBits /\ RxEnabled \in BOOLEAN

ASSUME TimerAssumption == TimerPeriod \in Nat \ {0}

VARIABLES
    phase,     \* "check", "exec" or "halted": where the loop is
    pc, sp, el, daif,
    SP_EL0, SP_EL1, ELR_EL1,
    SPSR_EL1,  \* SPSR_EL1 & 7
    VBAR_EL1,
    ICC_IAR1_EL1,
    tick,      \* timer_count % TimerPeriod
    notify,    \* control_regs.queue_notify == 0
    quiet      \* history: checks in a row that found user code, unmasked,
               \* and interrupted nothing

vars == <<phase, pc, sp, el, daif, SP_EL0, SP_EL1, ELR_EL1, SPSR_EL1,
          VBAR_EL1, ICC_IAR1_EL1, tick, notify, quiet>>

Irqs == {0, 27, 33, 48}    \* other, timer 0x1b, UART 0x21, virtio 0x30

(***************************************************************************)
(* Type correctness: every register keeps a value of its kind, whatever    *)
(* order the guest uses it in.                                             *)
(***************************************************************************)
TypeOK ==
    /\ phase \in {"check", "exec", "halted"}
    /\ pc \in Addr
    /\ sp \in Stacks
    /\ el \in {0, 1}
    /\ daif \in SUBSET DaifBits
    /\ SP_EL0 \in Stacks
    /\ SP_EL1 \in Stacks
    /\ ELR_EL1 \in Addr
    /\ SPSR_EL1 \in 0..7
    /\ VBAR_EL1 \in VBars
    /\ ICC_IAR1_EL1 \in Irqs
    /\ tick \in 0..(TimerPeriod - 1)
    /\ notify \in BOOLEAN
    /\ quiet \in Nat

-----------------------------------------------------------------------------
(* The constructor leaves SP_EL0, SP_EL1, ELR_EL1, SPSR_EL1, VBAR_EL1,     *)
(* ICC_IAR1_EL1 and timer_count uninitialised: any value is possible.      *)
Init ==
    /\ phase = "check"
    /\ pc \in UserAddr           \* the ELF entry point, a physical address
    /\ sp \in Stacks
    /\ el = 1
    /\ daif = DaifBits           \* 0x3c0
    /\ SP_EL0 \in Stacks
    /\ SP_EL1 \in Stacks
    /\ ELR_EL1 \in Addr
    /\ SPSR_EL1 \in 0..7
    /\ VBAR_EL1 \in VBars
    /\ ICC_IAR1_EL1 \in Irqs
    /\ tick \in 0..(TimerPeriod - 1)
    /\ notify = FALSE
    /\ quiet = 0

-----------------------------------------------------------------------------
(* What an exception does to the banked state, common to cause_interrupt   *)
(* and to SVC.  DAIF is neither saved nor changed.                         *)
EnterEL1(return, fromEL0, fromEL1) ==
    /\ ELR_EL1' = return
    /\ el' = 1
    /\ IF el = 0
       THEN /\ SPSR_EL1' = 0
            /\ SP_EL0' = sp
            /\ sp' = SP_EL1
            /\ pc' = Vector[VBAR_EL1][fromEL0]
       ELSE /\ SPSR_EL1' = 5
            /\ pc' = Vector[VBAR_EL1][fromEL1]
            /\ UNCHANGED <<SP_EL0, sp>>

CauseInterruptKeepsIar(irq) ==
    /\ EnterEL1(pc, "irq_el0", "irq_el1")
    /\ quiet' = 0
    /\ UNCHANGED ICC_IAR1_EL1

CauseInterrupt(irq) ==
    /\ ICC_IAR1_EL1' = irq
    /\ EnterEL1(pc, "irq_el0", "irq_el1")
    /\ quiet' = 0

(* The loop: timer_count += 1, then check_interrupt.                       *)
NextTickUnwrapped == tick + 1
NextTick == (tick + 1) % TimerPeriod

Check ==
    /\ phase = "check"
    /\ phase' = "exec"
    /\ tick' = NextTick
    /\ UNCHANGED <<daif, SP_EL1, VBAR_EL1>>

Masked == "D" \in daif

TimerDueLate == pc \in UserAddr /\ tick = TimerPeriod
TimerDueAnywhere == NextTick = 0
TimerDue == pc \in UserAddr /\ NextTick = 0

Uninterrupted ==
    UNCHANGED <<pc, sp, el, SP_EL0, ELR_EL1, SPSR_EL1, ICC_IAR1_EL1, notify>>

CheckMasked ==
    /\ Check
    /\ Masked
    /\ quiet' = 0
    /\ Uninterrupted

TakeVirtio ==
    /\ Check
    /\ ~Masked
    /\ notify
    /\ notify' = FALSE
    /\ CauseInterrupt(48)

TakeTimer ==
    /\ Check
    /\ ~Masked
    /\ ~notify
    /\ TimerDue
    /\ UNCHANGED notify
    /\ CauseInterrupt(27)

TakeUart ==
    /\ Check
    /\ RxEnabled
    /\ ~Masked
    /\ ~notify
    /\ ~TimerDue
    /\ UNCHANGED notify
    /\ CauseInterrupt(33)

CheckNothing ==
    /\ Check
    /\ ~Masked
    /\ ~notify
    /\ ~TimerDue
    /\ quiet' = IF pc \in UserAddr THEN quiet + 1 ELSE 0
    /\ Uninterrupted

CheckInterrupt ==
    CheckMasked \/ TakeVirtio \/ TakeTimer \/ TakeUart \/ CheckNothing

-----------------------------------------------------------------------------
(* Instructions.                                                           *)
Exec ==
    /\ phase = "exec"
    /\ phase' = "check"
    /\ UNCHANGED <<tick, quiet, ICC_IAR1_EL1>>

(* Any instruction that touches none of the state above: it falls through  *)
(* or branches.                                                            *)
Ordinary(target) ==
    /\ Exec
    /\ pc' = target
    /\ UNCHANGED <<sp, el, daif, SP_EL0, SP_EL1, ELR_EL1, SPSR_EL1, VBAR_EL1,
                   notify>>

(* ADD, SUB and logical immediate to SP, and the write-back of a register  *)
(* pair.  (The write-back of a single register misses sp.)                 *)
MoveSp(value) ==
    /\ Exec
    /\ sp' = value
    /\ pc' = Succ[pc]
    /\ UNCHANGED <<el, daif, SP_EL0, SP_EL1, ELR_EL1, SPSR_EL1, VBAR_EL1,
                   notify>>

SVC ==
    /\ Exec
    /\ EnterEL1(Succ[pc], "sync_el0", "sync_el1")
    /\ UNCHANGED <<daif, SP_EL1, VBAR_EL1, notify>>

ERETKeepsSPEL1 ==
    /\ Exec
    /\ pc' = ELR_EL1
    /\ IF SPSR_EL1 = 0 \/ pc' \in UserAddr
       THEN el' = 0 /\ sp' = SP_EL0
       ELSE UNCHANGED <<el, sp>>
    /\ UNCHANGED <<daif, SP_EL0, SP_EL1, ELR_EL1, SPSR_EL1, VBAR_EL1, notify>>

ERETTrustsSPSR ==
    /\ Exec
    /\ SP_EL1' = sp
    /\ pc' = ELR_EL1
    /\ IF SPSR_EL1 = 0
       THEN el' = 0 /\ sp' = SP_EL0
       ELSE UNCHANGED <<el, sp>>
    /\ UNCHANGED <<daif, SP_EL0, ELR_EL1, SPSR_EL1, VBAR_EL1, notify>>

(* EL1 is left when SPSR says so or when the target is a user address; the *)
(* second test looks at the pc just set.                                   *)
ERET ==
    /\ Exec
    /\ SP_EL1' = sp
    /\ pc' = ELR_EL1
    /\ IF SPSR_EL1 = 0 \/ pc' \in UserAddr
       THEN el' = 0 /\ sp' = SP_EL0
       ELSE UNCHANGED <<el, sp>>
    /\ UNCHANGED <<daif, SP_EL0, ELR_EL1, SPSR_EL1, VBAR_EL1, notify>>

SetDaif(value) ==
    /\ Exec
    /\ daif' = value
    /\ pc' = Succ[pc]
    /\ UNCHANGED <<sp, el, SP_EL0, SP_EL1, ELR_EL1, SPSR_EL1, VBAR_EL1, notify>>

DAIFSetWithoutD(imm) == SetDaif(daif \cup (imm \ {"D"}))
DAIFSet(imm) == SetDaif(daif \cup imm)

(* util::mask takes its argument modulo 2^8 and the shift in it is modulo  *)
(* 64, so the mask DAIFClr builds from any immediate is 0.                 *)
ClrMaskKeepsAll(imm) == DaifBits
ClrMaskOthers(imm) == DaifBits \ imm
ClrMask(imm) == {}

DAIFClr(imm) == SetDaif(daif \cap ClrMask(imm))

MSR_DAIF(value) == SetDaif(value)

MSR_ELR(value) ==
    /\ Exec
    /\ ELR_EL1' = value
    /\ pc' = Succ[pc]
    /\ UNCHANGED <<sp, el, daif, SP_EL0, SP_EL1, SPSR_EL1, VBAR_EL1, notify>>

(* Bit 21 is not looked at: MSR SPSR_EL1 executes as MRS and leaves        *)
(* SPSR_EL1 alone.                                                         *)
MSR_SPSR(value) == Ordinary(Succ[pc])

MSR_SP_EL0(value) ==
    /\ Exec
    /\ SP_EL0' = value
    /\ pc' = Succ[pc]
    /\ UNCHANGED <<sp, el, daif, SP_EL1, ELR_EL1, SPSR_EL1, VBAR_EL1, notify>>

MSR_VBAR(value) ==
    /\ Exec
    /\ VBAR_EL1' = value
    /\ pc' = Succ[pc]
    /\ UNCHANGED <<sp, el, daif, SP_EL0, SP_EL1, ELR_EL1, SPSR_EL1, notify>>

(* Store to QueueNotify: only the value 0 is a pending request.            *)
StoreNotify(zero) ==
    /\ Exec
    /\ notify' = zero
    /\ pc' = Succ[pc]
    /\ UNCHANGED <<sp, el, daif, SP_EL0, SP_EL1, ELR_EL1, SPSR_EL1, VBAR_EL1>>

(* The fetched word is 0, the address unmapped or the instruction          *)
(* unsupported: the process ends.                                          *)
Halt ==
    /\ phase = "exec"
    /\ phase' = "halted"
    /\ UNCHANGED <<pc, sp, el, daif, SP_EL0, SP_EL1, ELR_EL1, SPSR_EL1,
                   VBAR_EL1, ICC_IAR1_EL1, tick, notify, quiet>>

-----------------------------------------------------------------------------
(* Guest assumption: at EL0 the guest only uses instructions that exist    *)
(* there.  The emulator does not enforce it: no handler looks at el.       *)
AnyLevel ==
    \/ \E a \in Addr : Ordinary(a)
    \/ \E s \in Stacks : MoveSp(s)
    \/ SVC

Privileged ==
    /\ el = 1
    /\ \/ ERET
       \/ \E m \in Imms : DAIFSet(m) \/ DAIFClr(m)
       \/ \E d \in Imms : MSR_DAIF(d)
       \/ \E a \in Addr : MSR_ELR(a)
       \/ \E v \in 0..7 : MSR_SPSR(v)
       \/ \E s \in Stacks : MSR_SP_EL0(s)
       \/ \E b \in VBars : MSR_VBAR(b)
       \/ \E z \in BOOLEAN : StoreNotify(z)

Instruction == AnyLevel \/ Privileged

Next == CheckInterrupt \/ Instruction \/ Halt

Spec == Init /\ [][Next]_vars

-----------------------------------------------------------------------------
(* The stack pointer of the level that is not running lives in SP_EL0 or   *)
(* SP_EL1, that of the level that runs in sp.                              *)
Banked ==
    [l \in {0, 1} |-> IF l = el THEN sp ELSE IF l = 0 THEN SP_EL0 ELSE SP_EL1]

BS == INSTANCE BankedStack WITH Stacks <- Stacks, el <- el, stack <- Banked

(* Exception entry and ERET together implement a bank of two stack         *)
(* pointers: no sequence of exceptions, nested ones included, loses or     *)
(* mixes up the stack pointer of the level it leaves.                      *)
RefinesBankedStack == BS!Spec

(* User code that runs unmasked is interrupted before the timer period is  *)
(* over: the check at the multiple of TimerPeriod cannot be passed over,   *)
(* even when a disk or UART interrupt competes with it.                    *)
PreemptedInTime == quiet < TimerPeriod

(* Why: every quiet check advances tick, and it only returns to 0 at a      *)
(* check that interrupts user code.                                        *)
QuietBehindTick == TypeOK /\ quiet <= tick
=============================================================================
