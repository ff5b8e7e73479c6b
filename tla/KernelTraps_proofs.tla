------------------------- MODULE KernelTraps_proofs --------------------------
(***************************************************************************)
(* First Exceptions alone, for every set of addresses and stacks, every    *)
(* placement of the vectors and every timer period: the types, the bound   *)
(* on preemption and the bank of stacks it implements.  Then               *)
(* the trap path for any number of processes, any nesting of interrupts,   *)
(* any stacks and any timer period: whatever interrupts the kernel, an     *)
(* exception is transparent to the code it interrupts, for as long as no   *)
(* exception arrived in a window where the kernel's registers are still in *)
(* use; and only a UART interrupt can arrive there.                        *)
(***************************************************************************)
EXTENDS KernelTraps, SequenceTheorems, TLAPS

(* The banked registers after an exception are of their types.             *)
LEMMA EnterEL1Typed ==
    ASSUME TypeOK,
           NEW r \in Addr, NEW s0 \in Slots, NEW s1 \in Slots,
           EnterEL1(r, s0, s1)
    PROVE  /\ pc' \in Addr
           /\ sp' \in Stacks
           /\ el' \in {0, 1}
           /\ SP_EL0' \in Stacks
           /\ ELR_EL1' \in Addr
           /\ SPSR_EL1' \in 0..7
<1>1. Vector[VBAR_EL1][s0] \in Addr /\ Vector[VBAR_EL1][s1] \in Addr
  BY AddrAssumption DEF TypeOK
<1> QED
  BY <1>1 DEF EnterEL1, TypeOK

(* The check preserves the types.                                          *)
LEMMA CheckTyped == TypeOK /\ CheckInterrupt => TypeOK'
<1> SUFFICES ASSUME TypeOK, CheckInterrupt PROVE TypeOK'
  OBVIOUS
<1>1. NextTick \in 0..(TimerPeriod - 1)
  BY TimerAssumption DEF TypeOK, NextTick
<1>2. CASE CheckMasked
  BY <1>1, <1>2 DEF CheckMasked, Check, Uninterrupted, TypeOK
<1>3. ASSUME NEW irq \in Irqs, CauseInterrupt(irq), Check, notify' \in BOOLEAN
      PROVE  TypeOK'
  <2>1. EnterEL1(pc, "irq_el0", "irq_el1")
    BY <1>3 DEF CauseInterrupt
  <2>2. pc \in Addr /\ "irq_el0" \in Slots /\ "irq_el1" \in Slots
    BY DEF TypeOK, Slots
  <2>3. /\ pc' \in Addr /\ sp' \in Stacks /\ el' \in {0, 1}
        /\ SP_EL0' \in Stacks /\ ELR_EL1' \in Addr /\ SPSR_EL1' \in 0..7
    BY <2>1, <2>2, EnterEL1Typed
  <2>4. ICC_IAR1_EL1' \in Irqs /\ quiet' \in Nat
    BY <1>3 DEF CauseInterrupt
  <2> QED
    BY <1>1, <1>3, <2>3, <2>4 DEF Check, TypeOK
<1>4. CASE TakeVirtio
  BY <1>3, <1>4 DEF TakeVirtio, Irqs
<1>5. CASE TakeTimer
  BY <1>3, <1>5 DEF TakeTimer, Irqs, TypeOK
<1>6. CASE TakeUart
  BY <1>3, <1>6 DEF TakeUart, Irqs, TypeOK
<1>7. CASE CheckNothing
  BY <1>1, <1>7 DEF CheckNothing, Check, Uninterrupted, TypeOK
<1> QED
  BY <1>2, <1>4, <1>5, <1>6, <1>7 DEF CheckInterrupt

(* Every instruction preserves the types.                                  *)
LEMMA InstructionTyped == TypeOK /\ Instruction => TypeOK'
<1> SUFFICES ASSUME TypeOK, Instruction PROVE TypeOK'
  OBVIOUS
<1>1. Succ[pc] \in Addr
  BY AddrAssumption DEF TypeOK
<1>2. ASSUME NEW a \in Addr, Ordinary(a) PROVE TypeOK'
  BY <1>2 DEF Ordinary, Exec, TypeOK
<1>3. ASSUME NEW s \in Stacks, MoveSp(s) PROVE TypeOK'
  BY <1>1, <1>3 DEF MoveSp, Exec, TypeOK
<1>4. CASE SVC
  <2>1. EnterEL1(Succ[pc], "sync_el0", "sync_el1")
    BY <1>4 DEF SVC
  <2>2. "sync_el0" \in Slots /\ "sync_el1" \in Slots
    BY DEF Slots
  <2>3. /\ pc' \in Addr /\ sp' \in Stacks /\ el' \in {0, 1}
        /\ SP_EL0' \in Stacks /\ ELR_EL1' \in Addr /\ SPSR_EL1' \in 0..7
    BY <1>1, <2>1, <2>2, EnterEL1Typed
  <2> QED
    BY <1>4, <2>3 DEF SVC, Exec, TypeOK
<1>5. CASE ERET
  BY <1>5 DEF ERET, Exec, TypeOK
<1>6. ASSUME NEW d \in SUBSET DaifBits, SetDaif(d) PROVE TypeOK'
  BY <1>1, <1>6 DEF SetDaif, Exec, TypeOK
<1>7. ASSUME NEW m \in Imms, DAIFSet(m) \/ DAIFClr(m) \/ MSR_DAIF(m)
      PROVE  TypeOK'
  <2>1. /\ m \in SUBSET DaifBits
        /\ daif \cup m \in SUBSET DaifBits
        /\ daif \cap ClrMask(m) \in SUBSET DaifBits
    BY GuestAssumption DEF TypeOK
  <2> QED
    BY <1>6, <1>7, <2>1 DEF DAIFSet, DAIFClr, MSR_DAIF
<1>8. ASSUME NEW a \in Addr, MSR_ELR(a) PROVE TypeOK'
  BY <1>1, <1>8 DEF MSR_ELR, Exec, TypeOK
<1>9. ASSUME NEW v \in 0..7, MSR_SPSR(v) PROVE TypeOK'
  BY <1>1, <1>2, <1>9 DEF MSR_SPSR
<1>10. ASSUME NEW s \in Stacks, MSR_SP_EL0(s) PROVE TypeOK'
  BY <1>1, <1>10 DEF MSR_SP_EL0, Exec, TypeOK
<1>11. ASSUME NEW b \in VBars, MSR_VBAR(b) PROVE TypeOK'
  BY <1>1, <1>11 DEF MSR_VBAR, Exec, TypeOK
<1>12. ASSUME NEW z \in BOOLEAN, StoreNotify(z) PROVE TypeOK'
  BY <1>1, <1>12 DEF StoreNotify, Exec, TypeOK
<1> QED
  BY <1>2, <1>3, <1>4, <1>5, <1>7, <1>8, <1>9, <1>10, <1>11, <1>12
  DEF Instruction, AnyLevel, Privileged

(* The initial values, indeterminate ones included, are of their types.    *)
LEMMA InitTyped == Init => TypeOK
<1> SUFFICES ASSUME Init PROVE TypeOK
  OBVIOUS
<1>1. pc \in Addr /\ 0 \in Irqs /\ DaifBits \in SUBSET DaifBits
  BY DEF Init, Addr, Irqs
<1>2. notify \in BOOLEAN
  BY Zenon DEF Init
<1> QED
  BY <1>1, <1>2 DEF Init, TypeOK

(* A step of any kind preserves the types.                                 *)
LEMMA StepTyped == TypeOK /\ [Next]_vars => TypeOK'
<1> SUFFICES ASSUME TypeOK, [Next]_vars PROVE TypeOK'
  OBVIOUS
<1>1. CASE Halt
  BY <1>1 DEF Halt, TypeOK
<1>2. CASE UNCHANGED vars
  BY <1>2 DEF vars, TypeOK
<1> QED
  BY <1>1, <1>2, CheckTyped, InstructionTyped DEF Next

(* Every register of the CPU keeps a value of its kind.                    *)
THEOREM TypeCorrect == Spec => []TypeOK
  BY InitTyped, StepTyped, PTL DEF Spec

-----------------------------------------------------------------------------
(* A check keeps quiet at or below tick: when tick wraps, either user code *)
(* is interrupted or the code is masked, in the kernel, or interrupted by  *)
(* something else, and each of them resets quiet.                          *)
LEMMA CheckKeepsQuiet ==
    QuietBehindTick /\ CheckInterrupt => quiet' <= tick'
<1> SUFFICES ASSUME QuietBehindTick, CheckInterrupt PROVE quiet' <= tick'
  OBVIOUS
<1> USE DEF QuietBehindTick
<1>1. NextTick \in Nat /\ (NextTick # 0 => NextTick = tick + 1)
  BY TimerAssumption DEF TypeOK, NextTick
<1>2. tick' = NextTick
  BY DEF CheckInterrupt, CheckMasked, TakeVirtio, TakeTimer, TakeUart,
         CheckNothing, Check
<1>3. CASE quiet' = 0
  BY <1>1, <1>2, <1>3
<1>4. CASE CheckNothing /\ pc \in UserAddr
  <2>1. NextTick # 0
    BY <1>4 DEF CheckNothing, TimerDue
  <2>2. quiet' = quiet + 1
    BY <1>4 DEF CheckNothing
  <2> QED
    BY <1>1, <1>2, <2>1, <2>2 DEF TypeOK
<1> QED
  BY <1>3, <1>4 DEF CheckInterrupt, CheckMasked, TakeVirtio, TakeTimer,
                    TakeUart, CheckNothing, CauseInterrupt

(* Instructions and halting do not count as checks.                        *)
LEMMA InstructionKeepsQuiet ==
    Instruction \/ Halt => UNCHANGED <<tick, quiet>>
  BY DEF Instruction, AnyLevel, Privileged, Halt, Exec, Ordinary, MoveSp, SVC,
         ERET, DAIFSet, DAIFClr, MSR_DAIF, SetDaif, MSR_ELR, MSR_SPSR,
         MSR_SP_EL0, MSR_VBAR, StoreNotify

(* quiet never overtakes tick.                                             *)
THEOREM QuietCorrect == Spec => []QuietBehindTick
<1>1. Init => QuietBehindTick
  BY InitTyped, TimerAssumption DEF Init, QuietBehindTick
<1>2. QuietBehindTick /\ [Next]_vars => QuietBehindTick'
  <2> SUFFICES ASSUME QuietBehindTick, [Next]_vars PROVE quiet' <= tick'
    BY StepTyped DEF QuietBehindTick
  <2>1. CASE CheckInterrupt
    BY <2>1, CheckKeepsQuiet
  <2>2. CASE Instruction \/ Halt
    BY <2>2, InstructionKeepsQuiet DEF QuietBehindTick
  <2>3. CASE UNCHANGED vars
    BY <2>3 DEF vars, QuietBehindTick
  <2> QED
    BY <2>1, <2>2, <2>3 DEF Next
<1> QED
  BY <1>1, <1>2, PTL DEF Spec

(* User code that runs unmasked never sees TimerPeriod quiet checks in a   *)
(* row, whatever the other devices do.                                     *)
THEOREM PreemptionBound == Spec => []PreemptedInTime
<1>1. QuietBehindTick => PreemptedInTime
  BY TimerAssumption DEF QuietBehindTick, TypeOK, PreemptedInTime
<1> QED
  BY <1>1, QuietCorrect, PTL

-----------------------------------------------------------------------------
(* Entering an exception moves neither stack pointer.                      *)
LEMMA EntryKeepsBank ==
    ASSUME TypeOK, NEW r, NEW s0, NEW s1,
           EnterEL1(r, s0, s1), UNCHANGED SP_EL1
    PROVE  BS!TakeException
<1>1. CASE el = 0
  <2>1. \A l \in {0, 1} : Banked'[l] = Banked[l]
    BY <1>1 DEF EnterEL1, Banked
  <2> QED
    BY <1>1, <2>1 DEF EnterEL1, Banked, BS!TakeException
<1>2. CASE el = 1
  BY <1>2 DEF EnterEL1, Banked, BS!TakeException
<1> QED
  BY <1>1, <1>2 DEF TypeOK

(* An instruction that leaves the level and the three registers alone.     *)
LEMMA SameRegistersSameBank ==
    UNCHANGED <<sp, el, SP_EL0, SP_EL1>> => UNCHANGED <<el, Banked>>
  BY DEF Banked

(* The instructions that name a stack pointer, and ERET.                   *)
LEMMA MoveSpInBank ==
    ASSUME TypeOK, NEW s \in Stacks, MoveSp(s) PROVE BS!MoveOwn
<1>1. Banked' = [Banked EXCEPT ![el] = s]
  BY DEF TypeOK, MoveSp, Banked
<1> QED
  BY <1>1 DEF MoveSp, BS!MoveOwn

LEMMA SetEL0InBank ==
    ASSUME TypeOK, el = 1, NEW s \in Stacks, MSR_SP_EL0(s) PROVE BS!SetEL0
<1>1. /\ Banked' = [l \in {0, 1} |-> IF l = 1 THEN sp ELSE s]
      /\ Banked = [l \in {0, 1} |-> IF l = 1 THEN sp ELSE SP_EL0]
  BY DEF MSR_SP_EL0, Banked
<1>2. Banked' = [Banked EXCEPT ![0] = s]
  BY <1>1
<1> QED
  BY <1>2 DEF MSR_SP_EL0, BS!SetEL0

LEMMA ERETInBank ==
    ASSUME TypeOK, el = 1, ERET PROVE BS!Return \/ UNCHANGED <<el, Banked>>
<1>1. Banked' = Banked
  BY DEF TypeOK, ERET, Banked
<1> QED
  BY <1>1 DEF ERET, BS!Return

(* Every step of the CPU is a step of the bank, or moves neither the level *)
(* nor a stack pointer.                                                    *)
LEMMA StepInBank ==
    TypeOK /\ [Next]_vars => [BS!Next]_(BS!vars)
<1> SUFFICES ASSUME TypeOK, [Next]_vars
             PROVE  BS!Next \/ UNCHANGED <<el, Banked>>
  BY DEF BS!vars
<1>1. CASE CheckMasked \/ CheckNothing
  BY <1>1, SameRegistersSameBank
  DEF CheckMasked, CheckNothing, Check, Uninterrupted
<1>2. CASE TakeVirtio \/ TakeTimer \/ TakeUart
  BY <1>2, EntryKeepsBank
  DEF TakeVirtio, TakeTimer, TakeUart, CauseInterrupt, Check, BS!Next
<1>3. CASE SVC
  BY <1>3, EntryKeepsBank DEF SVC, BS!Next
<1>4. ASSUME NEW a \in Addr, Ordinary(a) \/ MSR_ELR(a)
      PROVE  UNCHANGED <<el, Banked>>
  BY <1>4, SameRegistersSameBank DEF Ordinary, MSR_ELR
<1>5. ASSUME NEW s \in Stacks, MoveSp(s) PROVE BS!Next
  BY <1>5, MoveSpInBank DEF BS!Next
<1>6. CASE AnyLevel
  BY <1>3, <1>4, <1>5, <1>6 DEF AnyLevel
<1>7. CASE el = 1 /\ ERET
  BY <1>7, ERETInBank DEF BS!Next
<1>8. ASSUME NEW s \in Stacks, el = 1, MSR_SP_EL0(s) PROVE BS!Next
  BY <1>8, SetEL0InBank DEF BS!Next
<1>9. ASSUME NEW x, \/ DAIFSet(x) \/ DAIFClr(x) \/ MSR_DAIF(x) \/ MSR_SPSR(x)
                   \/ MSR_VBAR(x) \/ StoreNotify(x)
      PROVE  UNCHANGED <<el, Banked>>
  BY <1>9, SameRegistersSameBank
  DEF DAIFSet, DAIFClr, MSR_DAIF, SetDaif, MSR_SPSR, Ordinary, MSR_VBAR,
      StoreNotify
<1>10. CASE Privileged
  BY <1>4, <1>7, <1>8, <1>9, <1>10 DEF Privileged
<1>11. CASE Halt \/ UNCHANGED vars
  BY <1>11, SameRegistersSameBank DEF Halt, vars
<1> QED
  BY <1>1, <1>2, <1>6, <1>10, <1>11 DEF Next, CheckInterrupt, Instruction

(* The CPU implements the two-entry bank: the stack pointers the levels    *)
(* see are those of the abstract specification.                            *)
THEOREM ImplementsBankedStack == Spec => RefinesBankedStack
<1>1. Init => BS!Init
  BY DEF Init, BS!Init, Banked
<1> QED
  BY <1>1, StepInBank, TypeCorrect, PTL
  DEF Spec, RefinesBankedStack, BS!Spec

-----------------------------------------------------------------------------
(* The inductive invariant.                                                *)
(*                                                                         *)
(* Places of a process between its trap from user code and the way out,    *)
(* those of the scheduler, and those that serve every trap.                *)
InTrap == {"sync_el0", "irq_el0", "save_sys", "sys", "lock", "notify",
           "sleep", "unlock", "yield", "resume"}
InScheduler == {"sched", "pick"}
InAnyTrap == {"save_irq", "irq", "restore", "restore_spsr", "restore_sp", "eret"}

(* Can context c execute place a with n traps open?                        *)
Runs(c, a, n) ==
    \/ a \in InTrap /\ c \in Procs /\ n = 1
    \/ a \in InScheduler /\ c = Sched /\ n = 0
    \/ a \in InAnyTrap /\ n \in Nat \ {0}
    \/ a = "irq_el1" /\ n \in Nat \ {0} /\ (c \in Procs => n # 1)

(* Places where the last trap is not on the kernel stack yet, and those    *)
(* where its return address is back in ELR_EL1.                            *)
Unsaved == {"sync_el0", "irq_el0", "irq_el1", "save_sys", "save_irq"}
Restored == {"restore_spsr", "restore_sp", "eret"}
MaskedPlaces == {"notify", "sleep"}

(* The first trap of a process interrupted user code, all others kernel    *)
(* code, at a place where nothing was lost.                                *)
FromUser(t) == t.el = 0 /\ t.pc \in UserCode

FromKernel(c, t, n) ==
    /\ t.el = 1
    /\ t.sp = KernelStack(c)
    /\ t.irq # 27
    /\ t.pc \notin Window \cup MaskedPlaces
    /\ Runs(c, t.pc, n)

Traps(c, T) ==
    /\ T \in Seq(Trap)
    /\ \A k \in 1..Len(T) :
          IF c \in Procs /\ k = 1 THEN FromUser(T[k]) ELSE FromKernel(c, T[k], k - 1)

(* A frame returns to where its trap came from.                            *)
Holds(f, t) == f.elr = t.pc /\ (t.el = 0 => f.usp = t.sp)

Frames(T, F) ==
    /\ F \in Seq(Frame)
    /\ \A k \in 1..Len(F) : k \in 1..Len(T) /\ Holds(F[k], T[k])

SavedTraps(T) == IF pc \in Unsaved THEN Len(T) - 1 ELSE Len(T)

Suspended(c) == IF c \in Procs THEN 1 ELSE 0

StacksInv ==
    /\ \A c \in Contexts : Traps(c, traps[c]) /\ Frames(traps[c], frames[c])
    /\ Len(frames[cur]) = SavedTraps(traps[cur])
    /\ \A c \in Contexts \ {cur} :
          Len(traps[c]) = Suspended(c) /\ Len(frames[c]) = Suspended(c)

PlaceInv ==
    /\ el = 0 => /\ pc \in UserCode
                 /\ cur \in Procs
                 /\ Len(traps[cur]) = 0
                 /\ SP_EL1 = KernelStack(cur)
    /\ el = 1 => pc \in KernelCode /\ Runs(cur, pc, Len(traps[cur]))

RegisterInv ==
    Len(traps[cur]) # 0 =>
        LET t == LastOf(traps[cur])
        IN  /\ pc \in Unsaved \cup Restored => ELR_EL1 = t.pc
            /\ pc \in Unsaved \cup {"eret"} /\ t.el = 0 => SP_EL0 = t.sp
            /\ pc \in {"irq_el0", "irq_el1", "save_irq", "irq"} => ICC_IAR1_EL1 = t.irq
            /\ t.el = 1 => SPSR_EL1 = 5

MaskInv ==
    /\ "D" \in daif => pc \in MaskedPlaces \cup {"sched"}
    /\ pc \in MaskedPlaces => "D" \in daif

(* Between notify and the handler's dispatch the request is on its way:    *)
(* masked, then at the one place where it is unmasked, then in the handler *)
(* of its own interrupt.                                                   *)
Pending ==
    \/ pc = "sleep"
    \/ pc = "sched" /\ "D" \in daif
    \/ pc = "pick" /\ phase = "check"

RequestInv ==
    /\ notify => owner # Nobody /\ Pending
    /\ owner # Nobody /\ ~notify =>
          pc \in {"irq_el1", "save_irq", "irq"} /\ ICC_IAR1_EL1 = 48

BasicInv == KTypeOK /\ OwnStack /\ UserUnmasked

SoundInv == StacksInv /\ PlaceInv /\ RegisterInv /\ MaskInv /\ RequestInv

KernelInv == BasicInv /\ (~clobbered => SoundInv)

-----------------------------------------------------------------------------
(* Traps and frames, as sequences.                                         *)
LEMMA FrontIs ==
    ASSUME NEW S, NEW s \in Seq(S), Len(s) # 0
    PROVE  /\ FrontOf(s) \in Seq(S) /\ Len(FrontOf(s)) = Len(s) - 1
           /\ \A k \in 1..(Len(s) - 1) : FrontOf(s)[k] = s[k]
           /\ LastOf(s) \in S
<1>1. Len(s) \in Nat /\ \A k \in 1..Len(s) : s[k] \in S
  OBVIOUS
<1> DEFINE n == Len(s) - 1
<1>2. n \in Nat /\ \A k \in 1..n : s[k] \in S
  BY <1>1
<1>3. /\ SubSeq(s, 1, n) \in Seq(S)
      /\ Len(SubSeq(s, 1, n)) = IF 1 <= n THEN n - 1 + 1 ELSE 0
      /\ \A k \in 1..(n - 1 + 1) : SubSeq(s, 1, n)[k] = s[1 + k - 1]
  <2> HIDE DEF n
  <2>1. n \in Int
    BY <1>2
  <2>2. QED
    BY <1>2, <2>1, SubSeqProperties
<1>4. n - 1 + 1 = n /\ \A k \in 1..n : 1 + k - 1 = k
  OBVIOUS
<1>5. QED
  BY <1>1, <1>2, <1>3, <1>4 DEF FrontOf, LastOf

(* The trap an exception adds, and the traps ERET leaves.                  *)
TrapOf(c, t, n) ==
    IF c \in Procs /\ n = 0 THEN FromUser(t) ELSE FromKernel(c, t, n)

LEMMA TrapAdded ==
    ASSUME NEW c, NEW T, Traps(c, T), NEW t \in Trap, TrapOf(c, t, Len(T))
    PROVE  /\ Traps(c, Append(T, t)) /\ Len(Append(T, t)) = Len(T) + 1
           /\ LastOf(Append(T, t)) = t
<1>1. /\ T \in Seq(Trap) /\ Len(T) \in Nat
      /\ \A k \in 1..Len(T) :
            IF c \in Procs /\ k = 1 THEN FromUser(T[k]) ELSE FromKernel(c, T[k], k - 1)
  BY DEF Traps
<1>2. /\ Append(T, t) \in Seq(Trap) /\ Len(Append(T, t)) = Len(T) + 1
      /\ \A k \in 1..Len(T) : Append(T, t)[k] = T[k]
      /\ Append(T, t)[Len(T) + 1] = t
  BY <1>1, AppendProperties
<1>3. ASSUME NEW k \in 1..(Len(T) + 1)
      PROVE  IF c \in Procs /\ k = 1 THEN FromUser(Append(T, t)[k])
             ELSE FromKernel(c, Append(T, t)[k], k - 1)
  <2>1. CASE k \in 1..Len(T)
    BY <1>1, <1>2, <2>1
  <2>2. CASE k = Len(T) + 1
    <3>1. k - 1 = Len(T) /\ (k = 1 <=> Len(T) = 0)
      BY <1>1, <2>2
    <3>2. QED
      BY <1>2, <2>2, <3>1 DEF TrapOf
  <2>3. QED
    BY <1>1, <2>1, <2>2
<1>4. QED
  BY <1>1, <1>2, <1>3 DEF Traps, LastOf

LEMMA TrapRemoved ==
    ASSUME NEW c, NEW T, Traps(c, T), Len(T) # 0
    PROVE  /\ Traps(c, FrontOf(T)) /\ Len(FrontOf(T)) = Len(T) - 1
           /\ Len(T) - 1 \in Nat /\ LastOf(T) \in Trap
           /\ TrapOf(c, LastOf(T), Len(T) - 1)
           /\ Len(T) - 1 # 0 => TrapOf(c, LastOf(FrontOf(T)), Len(T) - 2)
<1>1. /\ T \in Seq(Trap) /\ Len(T) \in Nat
      /\ \A k \in 1..Len(T) :
            IF c \in Procs /\ k = 1 THEN FromUser(T[k]) ELSE FromKernel(c, T[k], k - 1)
  BY DEF Traps
<1>2. /\ FrontOf(T) \in Seq(Trap) /\ Len(FrontOf(T)) = Len(T) - 1
      /\ \A k \in 1..(Len(T) - 1) : FrontOf(T)[k] = T[k]
      /\ LastOf(T) \in Trap
  BY <1>1, FrontIs
<1>3. Traps(c, FrontOf(T))
  BY <1>1, <1>2 DEF Traps
<1>4. TrapOf(c, LastOf(T), Len(T) - 1)
  <2>1. Len(T) \in 1..Len(T) /\ (Len(T) = 1 <=> Len(T) - 1 = 0)
    BY <1>1
  <2>2. QED
    BY <1>1, <2>1 DEF TrapOf, LastOf
<1>5. ASSUME Len(T) - 1 # 0 PROVE TrapOf(c, LastOf(FrontOf(T)), Len(T) - 2)
  <2>1. /\ Len(T) - 1 \in 1..Len(T) /\ Len(T) - 1 \in 1..(Len(T) - 1)
        /\ (Len(T) - 1) - 1 = Len(T) - 2
        /\ Len(T) - 1 = 1 <=> Len(T) - 2 = 0
    <3>1. Len(T) \in Nat /\ Len(T) # 0 /\ Len(T) - 1 # 0
      BY <1>1, <1>5
    <3>2. \A n \in Nat : n # 0 /\ n - 1 # 0 =>
              /\ n - 1 \in 1..n /\ n - 1 \in 1..(n - 1) /\ (n - 1) - 1 = n - 2
              /\ n - 1 = 1 <=> n - 2 = 0
      OBVIOUS
    <3>3. QED
      BY <3>1, <3>2
  <2>2. LastOf(FrontOf(T)) = T[Len(T) - 1]
    BY <1>2, <2>1 DEF LastOf
  <2>3. IF c \in Procs /\ Len(T) - 1 = 1 THEN FromUser(T[Len(T) - 1])
        ELSE FromKernel(c, T[Len(T) - 1], (Len(T) - 1) - 1)
    BY <1>1, <2>1
  <2>4. QED
    BY <2>1, <2>2, <2>3 DEF TrapOf
<1>6. QED
  BY <1>1, <1>2, <1>3, <1>4, <1>5

(* Frames keep holding their traps when a trap is added, when its frame is *)
(* stacked, and when both are removed.                                     *)
LEMMA FramesUnderTrap ==
    ASSUME NEW T \in Seq(Trap), NEW F, Frames(T, F), NEW t \in Trap
    PROVE  Frames(Append(T, t), F)
<1>1. /\ Len(T) \in Nat /\ Len(Append(T, t)) = Len(T) + 1
      /\ \A k \in 1..Len(T) : Append(T, t)[k] = T[k]
  BY AppendProperties
<1>2. QED
  BY <1>1 DEF Frames

LEMMA FrameAdded ==
    ASSUME NEW T \in Seq(Trap), NEW F, Frames(T, F), NEW f \in Frame,
           Len(T) = Len(F) + 1, Holds(f, LastOf(T))
    PROVE  Frames(T, Append(F, f)) /\ Len(Append(F, f)) = Len(T)
<1>1. /\ F \in Seq(Frame) /\ Len(F) \in Nat
      /\ \A k \in 1..Len(F) : k \in 1..Len(T) /\ Holds(F[k], T[k])
  BY DEF Frames
<1>2. /\ Append(F, f) \in Seq(Frame) /\ Len(Append(F, f)) = Len(F) + 1
      /\ \A k \in 1..Len(F) : Append(F, f)[k] = F[k]
      /\ Append(F, f)[Len(F) + 1] = f
  BY <1>1, AppendProperties
<1>3. ASSUME NEW k \in 1..(Len(F) + 1)
      PROVE  k \in 1..Len(T) /\ Holds(Append(F, f)[k], T[k])
  <2>1. CASE k \in 1..Len(F)
    BY <1>1, <1>2, <2>1
  <2>2. CASE k = Len(F) + 1
    BY <1>1, <1>2, <2>2 DEF LastOf
  <2>3. QED
    BY <1>1, <2>1, <2>2
<1>4. QED
  BY <1>2, <1>3 DEF Frames

LEMMA FrameRemoved ==
    ASSUME NEW T \in Seq(Trap), NEW F, Frames(T, F), Len(F) = Len(T), Len(T) # 0
    PROVE  /\ Frames(FrontOf(T), FrontOf(F)) /\ Len(FrontOf(F)) = Len(T) - 1
           /\ LastOf(F) \in Frame /\ Holds(LastOf(F), LastOf(T))
<1>1. /\ F \in Seq(Frame) /\ Len(F) \in Nat
      /\ \A k \in 1..Len(F) : k \in 1..Len(T) /\ Holds(F[k], T[k])
  BY DEF Frames
<1>2. /\ FrontOf(F) \in Seq(Frame) /\ Len(FrontOf(F)) = Len(F) - 1
      /\ \A k \in 1..(Len(F) - 1) : FrontOf(F)[k] = F[k]
      /\ LastOf(F) \in Frame
  BY <1>1, FrontIs
<1>3. /\ FrontOf(T) \in Seq(Trap) /\ Len(FrontOf(T)) = Len(T) - 1
      /\ \A k \in 1..(Len(T) - 1) : FrontOf(T)[k] = T[k]
  BY FrontIs
<1>4. Holds(LastOf(F), LastOf(T))
  BY <1>1 DEF LastOf
<1>5. Frames(FrontOf(T), FrontOf(F))
  BY <1>1, <1>2, <1>3 DEF Frames
<1>6. QED
  BY <1>2, <1>4, <1>5

-----------------------------------------------------------------------------
(* Where the kernel is.                                                    *)
Sound == KernelInv /\ ~clobbered

LEMMA CodeApart ==
    /\ UserCode \subseteq Addr /\ KernelCode \subseteq Addr
    /\ \A a \in KernelCode : a \notin UserAddr /\ a \notin UserCode
  BY KernelAssumption, AddrAssumption DEF Addr

LEMMA InKernel ==
    ASSUME Sound, pc \in KernelCode
    PROVE  /\ el = 1 /\ sp = KernelStack(cur) /\ Runs(cur, pc, Len(traps[cur]))
           /\ cur \in Contexts
  BY CodeApart DEF Sound, KernelInv, BasicInv, SoundInv, KTypeOK, TypeOK, PlaceInv, OwnStack

LEMMA InUser ==
    ASSUME Sound, pc \in UserCode
    PROVE  /\ el = 0 /\ cur \in Procs /\ Len(traps[cur]) = 0
           /\ SP_EL1 = KernelStack(cur)
  BY CodeApart DEF Sound, KernelInv, BasicInv, SoundInv, KTypeOK, TypeOK, PlaceInv

(* The running context's traps and frames.                                 *)
LEMMA RunningStacks ==
    ASSUME Sound
    PROVE  /\ cur \in Contexts /\ traps \in [Contexts -> Seq(Trap)]
           /\ frames \in [Contexts -> Seq(Frame)]
           /\ Traps(cur, traps[cur]) /\ Frames(traps[cur], frames[cur])
           /\ Len(frames[cur]) = SavedTraps(traps[cur])
           /\ traps[cur] \in Seq(Trap) /\ Len(traps[cur]) \in Nat
  BY DEF Sound, KernelInv, BasicInv, SoundInv, KTypeOK, StacksInv

(* How many traps are open where.                                          *)
LEMMA Open ==
    ASSUME Sound
    PROVE  /\ pc \in InTrap => cur \in Procs /\ Len(traps[cur]) = 1
           /\ pc \in InScheduler => cur = Sched /\ Len(traps[cur]) = 0
           /\ pc \in InAnyTrap \cup {"irq_el1"} => Len(traps[cur]) # 0
  BY InKernel DEF Runs, InTrap, InScheduler, InAnyTrap, KernelCode, Slots

(* The trap that is handled, as recorded when it was taken.                *)
LEMMA LastTrap ==
    ASSUME Sound, Len(traps[cur]) # 0
    PROVE  LastOf(traps[cur]) \in Trap
           /\ TrapOf(cur, LastOf(traps[cur]), Len(traps[cur]) - 1)
  BY RunningStacks, TrapRemoved

-----------------------------------------------------------------------------
(* Every step of the kernel is one the CPU of module Exceptions can make   *)
(* at its level.                                                           *)
LEMMA SavedFrame ==
    ASSUME Sound, pc \in Restored \cup {"restore"}
    PROVE  /\ LastOf(frames[cur]) \in Frame
           /\ Holds(LastOf(frames[cur]), LastOf(traps[cur]))
<1>1. Len(traps[cur]) # 0
  BY Open DEF Restored, InAnyTrap
<1>2. Len(frames[cur]) = Len(traps[cur])
  BY RunningStacks DEF SavedTraps, Unsaved, Restored
<1>3. QED
  BY <1>1, <1>2, RunningStacks, FrameRemoved

LEMMA KernelIsPrivileged == ASSUME Sound, Kernel PROVE Instruction
<1>1. pc \in KernelCode
  BY DEF Kernel, PushRegisters, At, Save, Dispatch, SystemCall, Notify,
         SwitchToScheduler, Schedule, ReturnFromTrap, Return, KernelCode, Slots
<1>2. el = 1 /\ cur \in Contexts
  BY <1>1, InKernel
<1>3. ASSUME NEW a \in KernelCode, Ordinary(a) PROVE Instruction
  BY <1>3, CodeApart DEF Instruction, AnyLevel
<1>4. CASE PushRegisters
  BY <1>3, <1>4 DEF PushRegisters, GoTo, KernelCode
<1>5. CASE Save("save_sys", "sys") \/ Save("save_irq", "irq")
  BY <1>3, <1>5 DEF Save, KernelCode
<1>6. CASE Dispatch
  BY <1>3, <1>6 DEF Dispatch, KernelCode
<1>7. CASE SystemCall
  <2>1. ASSUME NEW imm \in Imms, DAIFSet(imm) \/ DAIFClr(imm)
        PROVE  Instruction
    BY <1>2, <2>1 DEF Instruction, Privileged
  <2>2. QED
    BY <1>3, <1>7, <2>1 DEF SystemCall, GoTo, KernelCode, Masks, Unmasks
<1>8. CASE Notify
  <2>1. \E z \in BOOLEAN : StoreNotify(z)
    BY <1>8 DEF Notify
  <2>2. QED
    BY <1>2, <2>1 DEF Instruction, Privileged
<1>9. ASSUME NEW c \in Contexts, MoveSp(KernelStack(c)) PROVE Instruction
  BY <1>9, ProgramAssumption DEF Instruction, AnyLevel
<1>10. CASE \/ SwitchToScheduler("sleep", "sleeping", "unlock")
            \/ SwitchToScheduler("yield", "ready", "restore")
  BY <1>9, <1>10 DEF SwitchToScheduler, Contexts
<1>11. CASE Schedule
  <2>1. CASE At("sched") /\ \E imm \in Unmasks : DAIFClr(imm)
    BY <1>2, <2>1 DEF Instruction, Privileged, Unmasks
  <2>2. CASE At("pick") /\ GoTo("sched")
    BY <1>3, <2>2 DEF GoTo, KernelCode
  <2>3. CASE \E p \in Procs : MoveSp(KernelStack(p))
    BY <1>9, <2>3 DEF Contexts
  <2>4. CASE At("resume") /\ GoTo(cont[cur])
    <3>1. cur \in Procs
      BY <2>4, Open DEF At, InTrap
    <3>2. cont[cur] \in KernelCode
      BY <3>1 DEF Sound, KernelInv, BasicInv, KTypeOK, KernelCode
    <3>3. QED
      BY <1>3, <2>4, <3>2 DEF GoTo
  <2>5. QED
    BY <1>11, <2>1, <2>2, <2>3, <2>4 DEF Schedule
<1>12. CASE ReturnFromTrap
  <2>1. LastOf(frames[cur]) \in Frame
    BY <1>12, SavedFrame DEF ReturnFromTrap, At, Restored
  <2>2. /\ LastOf(frames[cur]).elr \in Addr /\ LastOf(frames[cur]).spsr \in 0..7
        /\ LastOf(frames[cur]).usp \in Stacks
    BY <2>1 DEF Frame
  <2>3. QED
    BY <1>2, <1>12, <2>2 DEF ReturnFromTrap, Instruction, Privileged
<1>13. CASE Return
  BY <1>2, <1>13 DEF Return, Instruction, Privileged
<1>14. QED
  BY <1>4, <1>5, <1>6, <1>7, <1>8, <1>10, <1>11, <1>12, <1>13 DEF Kernel

LEMMA GuestStep == ASSUME KernelInv, KNext PROVE [Next]_vars
<1>1. CASE clobbered
  BY <1>1 DEF KNext, kvars
<1>2. CASE ~clobbered /\ KCheck
  BY <1>2 DEF KCheck, Next, CheckInterrupt
<1>3. CASE ~clobbered /\ User
  BY <1>3, CodeApart DEF User, Next, Instruction, AnyLevel
<1>4. CASE ~clobbered /\ Kernel
  BY <1>4, KernelIsPrivileged DEF Sound, Next
<1>5. QED
  BY <1>1, <1>2, <1>3, <1>4 DEF KNext

LEMMA TypeStep == ASSUME KernelInv, KNext PROVE TypeOK'
<1>1. TypeOK
  BY DEF KernelInv, BasicInv, KTypeOK
<1>2. QED
  BY <1>1, GuestStep, StepTyped

-----------------------------------------------------------------------------
(* What the parts of the invariant amount to after a step that stays in    *)
(* the kernel and in its context, and opens or closes no trap.             *)
Stays == el' = 1 /\ UNCHANGED <<sp, cur, state, cont, frames, traps, clobbered>>

LEMMA StaysInKernel ==
    ASSUME Sound, Stays, TypeOK', owner' \in Procs \cup {Nobody}, sp = KernelStack(cur),
           pc' \in KernelCode, Runs(cur, pc', Len(traps[cur])),
           pc \in Unsaved <=> pc' \in Unsaved
    PROVE  BasicInv' /\ StacksInv' /\ PlaceInv'
<1>1. KTypeOK'
  BY DEF Stays, Sound, KernelInv, BasicInv, KTypeOK
<1>2. OwnStack' /\ UserUnmasked'
  BY DEF Stays, OwnStack, UserUnmasked
<1>3. SavedTraps(traps[cur])' = SavedTraps(traps[cur])
  BY DEF Stays, SavedTraps
<1>4. StacksInv'
  BY <1>3 DEF Stays, Sound, KernelInv, SoundInv, StacksInv
<1>5. PlaceInv'
  BY DEF Stays, PlaceInv
<1>6. QED
  BY <1>1, <1>2, <1>4, <1>5 DEF BasicInv

LEMMA PushRegistersKeeps ==
    ASSUME Sound, PushRegisters, TypeOK' PROVE KernelInv'
<1>1. /\ pc \in {"sync_el0", "irq_el0", "irq_el1"}
      /\ pc' = IF pc = "sync_el0" THEN "save_sys" ELSE "save_irq"
      /\ UNCHANGED <<sp, el, daif, SP_EL0, SP_EL1, ELR_EL1, SPSR_EL1, notify,
                     ICC_IAR1_EL1, traps, clobbered, guest>>
  BY DEF PushRegisters, At, NoTrap, GoTo, Ordinary, Exec
<1>2. Stays /\ pc \in KernelCode /\ pc' \in KernelCode /\ sp = KernelStack(cur) /\ owner' = owner
  BY <1>1, InKernel DEF Stays, guest, KernelCode, Slots
<1>3. /\ Len(traps[cur]) # 0 /\ Len(traps[cur]) \in Nat
      /\ pc = "sync_el0" => cur \in Procs /\ Len(traps[cur]) = 1
  <2>1. pc \in InTrap \/ pc = "irq_el1"
    BY <1>1 DEF InTrap
  <2>2. Len(traps[cur]) # 0
    BY <2>1, Open
  <2>3. pc = "sync_el0" => pc \in InTrap
    BY DEF InTrap
  <2>4. QED
    BY <2>2, <2>3, Open, RunningStacks
<1>4. Runs(cur, pc', Len(traps[cur]))
  BY <1>1, <1>3 DEF Runs, InTrap, InAnyTrap
<1>5. pc \in Unsaved /\ pc' \in Unsaved
  BY <1>1 DEF Unsaved
<1>6. owner' \in Procs \cup {Nobody}
  BY <1>2 DEF Sound, KernelInv, BasicInv, KTypeOK
<1>7. BasicInv' /\ StacksInv' /\ PlaceInv'
  BY <1>2, <1>4, <1>5, <1>6, StaysInKernel
<1>8. RegisterInv'
  BY <1>1, <1>2, <1>5 DEF Stays, Sound, KernelInv, SoundInv, RegisterInv, Restored, Unsaved
<1>9. MaskInv'
  BY <1>1 DEF Sound, KernelInv, SoundInv, MaskInv, MaskedPlaces
<1>10. RequestInv'
  BY <1>1, <1>2 DEF Sound, KernelInv, SoundInv, RequestInv, Pending
<1>11. QED
  BY <1>7, <1>8, <1>9, <1>10 DEF KernelInv, SoundInv

(* The trap frame gets what the exception left in the banked registers.    *)
LEMMA SaveKeeps ==
    ASSUME Sound, NEW place, NEW next, TypeOK', Save(place, next),
           <<place, next>> \in {<<"save_sys", "sys">>, <<"save_irq", "irq">>}
    PROVE  KernelInv'
<1> DEFINE T == traps[cur]
           F == frames[cur]
           f == [elr |-> ELR_EL1, spsr |-> SPSR_EL1, usp |-> SP_EL0]
<1>1. /\ pc = place /\ pc' = next
      /\ \/ pc = "save_sys" /\ pc' = "sys"
         \/ pc = "save_irq" /\ pc' = "irq"
      /\ frames' = [frames EXCEPT ![cur] = Append(@, f)]
      /\ UNCHANGED <<sp, el, daif, SP_EL0, SP_EL1, ELR_EL1, SPSR_EL1, notify,
                     ICC_IAR1_EL1, traps, clobbered, cur, state, cont, owner>>
  BY DEF Save, At, NoTrap, Ordinary, Exec
<1>2. pc \in KernelCode /\ pc' \in KernelCode
  BY <1>1 DEF KernelCode
<1>3. el = 1 /\ sp = KernelStack(cur) /\ Runs(cur, pc, Len(T))
  BY <1>2, InKernel
<1>4. pc \in Unsaved /\ pc' \notin Unsaved /\ pc' \notin Restored
  BY <1>1 DEF Unsaved, Restored
<1>5. Len(T) # 0
  BY <1>1, Open DEF InTrap, InAnyTrap
<1>6. LastOf(T) \in Trap
  BY <1>5, LastTrap
<1>7. /\ cur \in Contexts /\ traps \in [Contexts -> Seq(Trap)]
      /\ frames \in [Contexts -> Seq(Frame)] /\ T \in Seq(Trap) /\ Len(T) \in Nat
      /\ Traps(cur, T) /\ Frames(T, F) /\ Len(F) = SavedTraps(T)
  BY RunningStacks
<1>8. f \in Frame
  BY DEF Sound, KernelInv, BasicInv, KTypeOK, TypeOK, Frame
<1>9. Holds(f, LastOf(T))
  BY <1>4, <1>5 DEF Sound, KernelInv, SoundInv, RegisterInv, Holds
<1>10. Len(T) = Len(F) + 1
  BY <1>4, <1>7 DEF SavedTraps
<1>11. Frames(T, Append(F, f)) /\ Len(Append(F, f)) = Len(T)
  BY <1>7, <1>8, <1>9, <1>10, FrameAdded
<1>12. BasicInv'
  <2> HIDE DEF f
  <2>0. frames' \in [Contexts -> Seq(Frame)]
    BY <1>1, <1>7, <1>11 DEF Frames
  <2>1. KTypeOK'
    BY <1>1, <2>0 DEF Sound, KernelInv, BasicInv, KTypeOK
  <2>2. QED
    BY <1>1, <1>3, <2>1 DEF BasicInv, OwnStack, UserUnmasked
<1>13. StacksInv'
  <2> HIDE DEF f
  <2>1. frames' \in [Contexts -> Seq(Frame)] /\ frames'[cur] = Append(F, f)
    BY <1>1, <1>7, <1>11 DEF Frames
  <2>2. \A c \in Contexts \ {cur} : frames'[c] = frames[c]
    BY <1>1, <1>7
  <2>3. SavedTraps(traps[cur])' = Len(T)
    BY <1>1, <1>4 DEF SavedTraps
  <2>4. QED
    BY <1>1, <1>7, <1>11, <2>1, <2>2, <2>3 DEF Sound, KernelInv, SoundInv, StacksInv
<1>14. PlaceInv'
  <2>1. Runs(cur, pc', Len(T))
    BY <1>1, <1>3, <1>5, <1>7 DEF Runs, InTrap, InAnyTrap, InScheduler
  <2>2. QED
    BY <1>1, <1>2, <1>3, <2>1 DEF PlaceInv
<1>15. RegisterInv'
  BY <1>1, <1>4 DEF Sound, KernelInv, SoundInv, RegisterInv
<1>16. MaskInv'
  BY <1>1 DEF Sound, KernelInv, SoundInv, MaskInv, MaskedPlaces
<1>17. RequestInv'
  BY <1>1 DEF Sound, KernelInv, SoundInv, RequestInv, Pending
<1>18. QED
  BY <1>12, <1>13, <1>14, <1>15, <1>16, <1>17 DEF KernelInv, SoundInv

(* The interrupt dispatched on is the one taken: the disk's number means   *)
(* that a request is outstanding, the timer's that user code was running.  *)
LEMMA DispatchKeeps == ASSUME Sound, Dispatch, TypeOK' PROVE KernelInv'
<1> DEFINE T == traps[cur]
<1>1. /\ pc = "irq" /\ pc' \in {"restore", "yield"}
      /\ pc' = "yield" => ICC_IAR1_EL1 = 27
      /\ \/ owner' = Nobody /\ state' = [state EXCEPT ![owner] = "ready"] /\ owner # Nobody
         \/ ICC_IAR1_EL1 # 48 /\ UNCHANGED <<owner, state>>
      /\ UNCHANGED <<sp, el, daif, SP_EL0, SP_EL1, ELR_EL1, SPSR_EL1, notify,
                     ICC_IAR1_EL1, traps, clobbered, cur, cont, frames>>
  BY DEF Dispatch, At, NoTrap, Ordinary, Exec
<1>2. pc \in KernelCode /\ pc' \in KernelCode
  BY <1>1 DEF KernelCode
<1>3. el = 1 /\ sp = KernelStack(cur) /\ cur \in Contexts
  BY <1>2, InKernel
<1>4. Len(T) # 0 /\ Len(T) \in Nat
  BY <1>1, Open, RunningStacks DEF InAnyTrap
<1>5. ICC_IAR1_EL1 = LastOf(T).irq
  BY <1>1, <1>4 DEF Sound, KernelInv, SoundInv, RegisterInv
<1>6. pc' = "yield" => cur \in Procs /\ Len(T) = 1
  <2>1. TrapOf(cur, LastOf(T), Len(T) - 1)
    BY <1>4, LastTrap
  <2>2. QED
    BY <1>1, <1>4, <1>5, <2>1 DEF TrapOf, FromKernel
<1>7. Runs(cur, pc', Len(T))
  BY <1>1, <1>4, <1>6 DEF Runs, InTrap, InAnyTrap
<1>8. pc \notin Unsaved /\ pc' \notin Unsaved /\ pc' \notin Restored
  BY <1>1 DEF Unsaved, Restored
<1>9. owner' \in Procs \cup {Nobody} /\ state' \in [Procs -> {"ready", "running", "sleeping"}]
  BY <1>1 DEF Sound, KernelInv, BasicInv, KTypeOK
<1>10. BasicInv'
  <2>1. KTypeOK'
    BY <1>1, <1>9 DEF Sound, KernelInv, BasicInv, KTypeOK
  <2>2. QED
    BY <1>1, <1>3, <2>1 DEF BasicInv, OwnStack, UserUnmasked
<1>11. StacksInv'
  <2>1. SavedTraps(traps[cur])' = SavedTraps(traps[cur])
    BY <1>1, <1>8 DEF SavedTraps
  <2>2. QED
    BY <1>1, <2>1 DEF Sound, KernelInv, SoundInv, StacksInv
<1>12. PlaceInv'
  BY <1>1, <1>2, <1>3, <1>7 DEF PlaceInv
<1>13. RegisterInv'
  BY <1>1, <1>8 DEF Sound, KernelInv, SoundInv, RegisterInv
<1>14. MaskInv'
  BY <1>1 DEF Sound, KernelInv, SoundInv, MaskInv, MaskedPlaces
<1>15. RequestInv'
  BY <1>1 DEF Sound, KernelInv, SoundInv, RequestInv, Pending
<1>16. QED
  BY <1>10, <1>11, <1>12, <1>13, <1>14, <1>15 DEF KernelInv, SoundInv

(* Taking and releasing the lock, and notifying the device: from the mask  *)
(* on, no interrupt can be taken, so the request is the only one.          *)
LEMMA SystemCallKeeps == ASSUME Sound, SystemCall, TypeOK' PROVE KernelInv'
<1>1. /\ \/ pc = "sys" /\ pc' \in {"restore", "lock"} /\ daif' = daif
         \/ pc = "lock" /\ pc' = "notify" /\ "D" \in daif'
         \/ pc = "unlock" /\ pc' = "restore" /\ daif' = {}
      /\ UNCHANGED <<sp, el, SP_EL0, SP_EL1, ELR_EL1, SPSR_EL1, notify,
                     ICC_IAR1_EL1, traps, clobbered, guest>>
  BY ProgramAssumption
  DEF SystemCall, At, NoTrap, GoTo, Ordinary, Masks, DAIFSet, DAIFClr, ClrMask, SetDaif, Exec
<1>2. /\ pc \in KernelCode /\ pc' \in KernelCode /\ pc \notin Unsaved /\ pc' \notin Unsaved
      /\ pc \in InTrap /\ pc \notin MaskedPlaces /\ pc' \notin Restored
  BY <1>1 DEF KernelCode, Unsaved, InTrap, MaskedPlaces, Restored
<1>3. el = 1 /\ sp = KernelStack(cur) /\ cur \in Procs /\ Len(traps[cur]) = 1
  BY <1>2, InKernel, Open
<1>4. Runs(cur, pc', Len(traps[cur]))
  BY <1>1, <1>3 DEF Runs, InTrap, InAnyTrap
<1>5. Stays /\ owner' \in Procs \cup {Nobody}
  BY <1>1, <1>3 DEF Stays, guest, Sound, KernelInv, BasicInv, KTypeOK
<1>6. BasicInv' /\ StacksInv' /\ PlaceInv'
  BY <1>2, <1>3, <1>4, <1>5, StaysInKernel
<1>7. RegisterInv'
  BY <1>1, <1>2 DEF guest, Sound, KernelInv, SoundInv, RegisterInv
<1>8. MaskInv'
  BY <1>1 DEF Sound, KernelInv, SoundInv, MaskInv, MaskedPlaces
<1>9. RequestInv'
  <2>1. owner' = owner /\ notify' = notify /\ ICC_IAR1_EL1' = ICC_IAR1_EL1
    BY <1>1 DEF guest
  <2>2. ~notify /\ owner = Nobody
    BY <1>1, <1>2 DEF Sound, KernelInv, SoundInv, RequestInv, Pending
  <2>3. QED
    BY <2>1, <2>2 DEF RequestInv
<1>10. QED
  BY <1>6, <1>7, <1>8, <1>9 DEF KernelInv, SoundInv

(* Nothing is outstanding when the kernel notifies.                        *)
LEMMA NothingOutstanding ==
    ASSUME Sound, pc = "notify" PROVE owner = Nobody /\ ~notify
  BY DEF Sound, KernelInv, SoundInv, RequestInv, Pending

LEMMA NotifyKeeps == ASSUME Sound, Notify, TypeOK' PROVE KernelInv'
<1>1. /\ pc = "notify" /\ pc' = "sleep" /\ owner' = cur /\ notify' = TRUE
      /\ UNCHANGED <<sp, el, daif, SP_EL0, SP_EL1, ELR_EL1, SPSR_EL1,
                     ICC_IAR1_EL1, traps, clobbered, cur, state, cont, frames>>
  BY ProgramAssumption DEF Notify, At, NoTrap, StoreNotify, Exec
<1>2. /\ pc \in KernelCode /\ pc' \in KernelCode /\ pc \notin Unsaved /\ pc' \notin Unsaved
      /\ pc \in InTrap /\ pc' \notin Restored
  BY <1>1 DEF KernelCode, Unsaved, InTrap, Restored
<1>3. el = 1 /\ sp = KernelStack(cur) /\ cur \in Procs /\ Len(traps[cur]) = 1
  BY <1>2, InKernel, Open
<1>4. Runs(cur, pc', Len(traps[cur]))
  BY <1>1, <1>3 DEF Runs, InTrap
<1>5. Stays /\ owner' \in Procs \cup {Nobody} /\ owner' # Nobody
  BY <1>1, <1>3, KernelAssumption DEF Stays, Contexts
<1>6. BasicInv' /\ StacksInv' /\ PlaceInv'
  BY <1>2, <1>3, <1>4, <1>5, StaysInKernel
<1>7. RegisterInv'
  BY <1>1, <1>2 DEF Sound, KernelInv, SoundInv, RegisterInv
<1>8. MaskInv'
  BY <1>1 DEF Sound, KernelInv, SoundInv, MaskInv, MaskedPlaces
<1>9. RequestInv'
  BY <1>1, <1>5 DEF RequestInv, Pending
<1>10. QED
  BY <1>6, <1>7, <1>8, <1>9 DEF KernelInv, SoundInv

(* ELR_EL1 and SP_EL0 get back what the frame holds; SPSR_EL1 keeps what   *)
(* the last exception left, which is right for a frame of kernel code.     *)
LEMMA ReturnFromTrapKeeps ==
    ASSUME Sound, ReturnFromTrap, TypeOK' PROVE KernelInv'
<1> DEFINE t == LastOf(traps[cur])
           f == LastOf(frames[cur])
<1>1. /\ \/ /\ pc = "restore" /\ pc' = "restore_spsr"
            /\ ELR_EL1' = f.elr /\ UNCHANGED SP_EL0
         \/ /\ pc = "restore_spsr" /\ pc' = "restore_sp"
            /\ UNCHANGED <<ELR_EL1, SP_EL0>>
         \/ /\ pc = "restore_sp" /\ pc' = "eret"
            /\ SP_EL0' = f.usp /\ UNCHANGED ELR_EL1
      /\ UNCHANGED <<sp, el, daif, SP_EL1, SPSR_EL1, notify, ICC_IAR1_EL1,
                     traps, clobbered, guest>>
  BY ProgramAssumption
  DEF ReturnFromTrap, At, NoTrap, MSR_ELR, MSR_SPSR, MSR_SP_EL0, Ordinary, Exec
<1>2. /\ pc \in KernelCode /\ pc' \in KernelCode /\ pc \notin Unsaved /\ pc' \notin Unsaved
      /\ pc \in InAnyTrap /\ pc' \in InAnyTrap /\ pc' \in Restored
      /\ pc \in Restored \cup {"restore"} /\ pc \notin MaskedPlaces \cup {"sched"}
      /\ pc' \notin MaskedPlaces
  BY <1>1 DEF KernelCode, Unsaved, InAnyTrap, Restored, MaskedPlaces
<1>3. el = 1 /\ sp = KernelStack(cur) /\ Len(traps[cur]) # 0 /\ Len(traps[cur]) \in Nat
  BY <1>2, InKernel, Open, RunningStacks
<1>4. Runs(cur, pc', Len(traps[cur]))
  BY <1>2, <1>3 DEF Runs
<1>5. Stays /\ owner' \in Procs \cup {Nobody}
  BY <1>1, <1>3 DEF Stays, guest, Sound, KernelInv, BasicInv, KTypeOK
<1>6. BasicInv' /\ StacksInv' /\ PlaceInv'
  BY <1>2, <1>3, <1>4, <1>5, StaysInKernel
<1>7. RegisterInv'
  <2>1. Holds(f, t)
    BY <1>2, SavedFrame
  <2>2. /\ pc \in Restored => ELR_EL1 = t.pc
        /\ t.el = 1 => SPSR_EL1 = 5
    BY <1>3 DEF Sound, KernelInv, SoundInv, RegisterInv
  <2>3. ELR_EL1' = t.pc
    BY <1>1, <2>1, <2>2 DEF Holds, Restored
  <2>4. pc' = "eret" /\ t.el = 0 => SP_EL0' = t.sp
    BY <1>1, <2>1 DEF Holds
  <2>5. pc' \notin {"irq_el0", "irq_el1", "save_irq", "irq"}
    BY <1>1
  <2>6. t' = t /\ SPSR_EL1' = SPSR_EL1
    BY <1>1 DEF guest
  <2>7. QED
    BY <1>2, <2>2, <2>3, <2>4, <2>5, <2>6 DEF RegisterInv
<1>8. MaskInv'
  BY <1>1, <1>2 DEF Sound, KernelInv, SoundInv, MaskInv
<1>9. RequestInv'
  <2>1. owner' = owner /\ notify' = notify /\ ICC_IAR1_EL1' = ICC_IAR1_EL1
    BY <1>1 DEF guest
  <2>2. ~notify /\ owner = Nobody
    BY <1>1 DEF Sound, KernelInv, SoundInv, RequestInv, Pending
  <2>3. QED
    BY <2>1, <2>2 DEF RequestInv
<1>10. QED
  BY <1>6, <1>7, <1>8, <1>9 DEF KernelInv, SoundInv

-----------------------------------------------------------------------------
(* Switching contexts: who stops has exactly the frame of its trap from    *)
(* user code, or none if it is the scheduler.                              *)
LEMMA ContextOpen ==
    ASSUME Sound, NEW c \in Contexts, c # cur
    PROVE  Len(traps[c]) = Suspended(c) /\ Len(frames[c]) = Suspended(c)
  BY DEF Sound, KernelInv, SoundInv, StacksInv

LEMMA SwitchKeeps ==
    ASSUME Sound, TypeOK', UNCHANGED <<frames, traps, clobbered, el>>,
           pc \in KernelCode, pc \notin Unsaved, Len(traps[cur]) = Suspended(cur),
           cur' \in Contexts, cur' # cur, sp' = KernelStack(cur'),
           pc' \in KernelCode, pc' \notin Unsaved, Runs(cur', pc', Suspended(cur')),
           state' \in [Procs -> {"ready", "running", "sleeping"}],
           cont' \in [Procs -> {"restore", "unlock"}], UNCHANGED owner
    PROVE  BasicInv' /\ StacksInv' /\ PlaceInv'
<1>1. el = 1
  BY InKernel
<1>2. BasicInv'
  <2>1. KTypeOK'
    BY DEF Sound, KernelInv, BasicInv, KTypeOK
  <2>2. QED
    BY <1>1, <2>1 DEF BasicInv, OwnStack, UserUnmasked
<1>3. Len(frames[cur]) = Suspended(cur)
  BY RunningStacks DEF SavedTraps
<1>4. \A c \in Contexts : Len(traps[c]) = Suspended(c) /\ Len(frames[c]) = Suspended(c)
  BY <1>3, ContextOpen
<1>5. StacksInv'
  <2>1. SavedTraps(traps[cur])' = Len(traps[cur'])
    BY DEF SavedTraps
  <2>2. Len(frames[cur]') = SavedTraps(traps[cur])'
    BY <1>4, <2>1
  <2>3. \A c \in Contexts : Suspended(c)' = Suspended(c)
    BY DEF Suspended
  <2>4. QED
    BY <1>4, <2>2, <2>3 DEF Sound, KernelInv, SoundInv, StacksInv
<1>6. PlaceInv'
  BY <1>1, <1>4 DEF PlaceInv
<1>7. QED
  BY <1>2, <1>5, <1>6

LEMMA ToSchedulerKeeps ==
    ASSUME Sound, NEW place, NEW newState, NEW next, TypeOK',
           SwitchToScheduler(place, newState, next),
           <<place, newState, next>> \in {<<"sleep", "sleeping", "unlock">>,
                                          <<"yield", "ready", "restore">>}
    PROVE  KernelInv'
<1>1. /\ pc \in {"sleep", "yield"} /\ pc' = "sched" /\ cur' = Sched
      /\ sp' = KernelStack(Sched)
      /\ state' = [state EXCEPT ![cur] = newState]
      /\ cont' = [cont EXCEPT ![cur] = next]
      /\ newState \in {"ready", "sleeping"} /\ next \in {"restore", "unlock"}
      /\ UNCHANGED <<el, daif, SP_EL0, SP_EL1, ELR_EL1, SPSR_EL1, notify,
                     ICC_IAR1_EL1, traps, clobbered, frames, owner>>
  BY ProgramAssumption DEF SwitchToScheduler, At, NoTrap, MoveSp, Exec
<1>2. /\ pc \in KernelCode /\ pc' \in KernelCode /\ pc \notin Unsaved /\ pc' \notin Unsaved
      /\ pc \in InTrap /\ pc' \in InScheduler
  BY <1>1 DEF KernelCode, Unsaved, InTrap, InScheduler
<1>3. cur \in Procs /\ Len(traps[cur]) = Suspended(cur)
  BY <1>2, Open DEF Suspended
<1>4. Sched \notin Procs /\ Sched \in Contexts /\ Suspended(Sched) = 0
  BY KernelAssumption DEF Contexts, Suspended
<1>5. Runs(cur', pc', Suspended(cur'))
  BY <1>1, <1>2, <1>4 DEF Runs
<1>6. /\ state' \in [Procs -> {"ready", "running", "sleeping"}]
      /\ cont' \in [Procs -> {"restore", "unlock"}]
  BY <1>1 DEF Sound, KernelInv, BasicInv, KTypeOK
<1>7. BasicInv' /\ StacksInv' /\ PlaceInv'
  BY <1>1, <1>2, <1>3, <1>4, <1>5, <1>6, SwitchKeeps
<1>8. RegisterInv'
  <2>1. Len(traps[Sched]) = 0
    BY <1>3, <1>4, ContextOpen
  <2>2. QED
    BY <1>1, <2>1 DEF RegisterInv
<1>9. MaskInv'
  BY <1>1 DEF MaskInv, MaskedPlaces
<1>10. RequestInv'
  BY <1>1 DEF Sound, KernelInv, SoundInv, RequestInv, Pending, MaskInv, MaskedPlaces
<1>11. QED
  BY <1>7, <1>8, <1>9, <1>10 DEF KernelInv, SoundInv

LEMMA PickKeeps ==
    ASSUME Sound, TypeOK', At("pick"), UNCHANGED <<cont, frames, owner>>,
           NEW p \in Procs, state' = [state EXCEPT ![p] = "running"], cur' = p,
           MoveSp(KernelStack(p))
    PROVE  KernelInv'
<1>1. /\ pc = "pick" /\ pc' = "resume" /\ phase = "exec"
      /\ sp' = KernelStack(p)
      /\ UNCHANGED <<el, daif, SP_EL0, SP_EL1, ELR_EL1, SPSR_EL1, notify,
                     ICC_IAR1_EL1, traps, clobbered>>
  BY ProgramAssumption DEF At, NoTrap, MoveSp, Exec
<1>2. /\ pc \in KernelCode /\ pc' \in KernelCode /\ pc \notin Unsaved /\ pc' \notin Unsaved
      /\ pc \in InScheduler /\ pc' \in InTrap /\ pc' \notin Restored
  BY <1>1 DEF KernelCode, Unsaved, InTrap, InScheduler, Restored
<1>3. /\ cur = Sched /\ Sched \notin Procs /\ Len(traps[cur]) = Suspended(cur)
      /\ p \in Contexts /\ p # cur /\ Suspended(p) = 1
  BY <1>2, Open, KernelAssumption DEF Suspended, Contexts
<1>4. Runs(cur', pc', Suspended(cur'))
  BY <1>2, <1>3 DEF Runs
<1>5. /\ state' \in [Procs -> {"ready", "running", "sleeping"}]
      /\ cont' \in [Procs -> {"restore", "unlock"}]
  BY DEF Sound, KernelInv, BasicInv, KTypeOK
<1>6. BasicInv' /\ StacksInv' /\ PlaceInv'
  BY <1>1, <1>2, <1>3, <1>4, <1>5, SwitchKeeps
<1>7. RegisterInv'
  <2>1. Len(traps[p]) = 1 /\ Traps(p, traps[p])
    BY <1>3, ContextOpen DEF Sound, KernelInv, SoundInv, StacksInv
  <2>2. TrapOf(p, LastOf(traps[p]), Len(traps[p]) - 1)
    <3>1. Len(traps[p]) # 0
      BY <2>1
    <3>2. QED
      BY <2>1, <3>1, TrapRemoved
  <2>3. LastOf(traps[p]).el = 0
    BY <2>1, <2>2 DEF TrapOf, FromUser
  <2>4. pc' \notin {"irq_el0", "irq_el1", "save_irq", "irq", "eret"}
    BY <1>1
  <2>5. QED
    BY <1>1, <1>2, <2>3, <2>4 DEF RegisterInv
<1>8. MaskInv'
  BY <1>1 DEF Sound, KernelInv, SoundInv, MaskInv, MaskedPlaces
<1>9. RequestInv'
  BY <1>1 DEF Sound, KernelInv, SoundInv, RequestInv, Pending
<1>10. QED
  BY <1>6, <1>7, <1>8, <1>9 DEF KernelInv, SoundInv

LEMMA ScheduleKeeps == ASSUME Sound, Schedule, TypeOK' PROVE KernelInv'
<1>1. ASSUME /\ \/ pc = "sched" /\ pc' = "pick" /\ daif' = {} /\ phase' = "check"
                \/ pc = "pick" /\ pc' = "sched" /\ daif' = daif /\ phase = "exec"
             /\ UNCHANGED <<sp, el, SP_EL0, SP_EL1, ELR_EL1, SPSR_EL1, notify,
                            ICC_IAR1_EL1, traps, clobbered, guest>>
      PROVE  KernelInv'
  <2>1. /\ pc \in KernelCode /\ pc' \in KernelCode /\ pc \notin Unsaved /\ pc' \notin Unsaved
        /\ pc \in InScheduler /\ pc' \in InScheduler
    BY <1>1 DEF KernelCode, Unsaved, InScheduler
  <2>2. el = 1 /\ sp = KernelStack(cur) /\ cur = Sched /\ Len(traps[cur]) = 0
    BY <2>1, InKernel, Open
  <2>3. Runs(cur, pc', Len(traps[cur]))
    BY <2>1, <2>2 DEF Runs
  <2>4. Stays /\ owner' \in Procs \cup {Nobody}
    BY <1>1, <2>2 DEF Stays, guest, Sound, KernelInv, BasicInv, KTypeOK
  <2>5. BasicInv' /\ StacksInv' /\ PlaceInv'
    BY <2>1, <2>2, <2>3, <2>4, StaysInKernel
  <2>6. RegisterInv'
    BY <1>1, <2>2 DEF guest, RegisterInv
  <2>7. MaskInv'
    BY <1>1 DEF Sound, KernelInv, SoundInv, MaskInv, MaskedPlaces
  <2>8. RequestInv'
    BY <1>1 DEF guest, Sound, KernelInv, SoundInv, RequestInv, Pending
  <2>9. QED
    BY <2>5, <2>6, <2>7, <2>8 DEF KernelInv, SoundInv
<1>2. CASE At("sched") /\ (\E imm \in Unmasks : DAIFClr(imm)) /\ UNCHANGED guest
  BY <1>1, <1>2, ProgramAssumption DEF At, NoTrap, DAIFClr, ClrMask, SetDaif, Exec
<1>3. CASE At("pick") /\ GoTo("sched")
  BY <1>1, <1>3 DEF At, NoTrap, GoTo, Ordinary, Exec
<1>4. CASE /\ At("pick") /\ UNCHANGED <<cont, frames, owner>>
           /\ \E p \in Procs : /\ state' = [state EXCEPT ![p] = "running"]
                               /\ cur' = p /\ MoveSp(KernelStack(p))
  BY <1>4, PickKeeps
<1>5. CASE At("resume") /\ GoTo(cont[cur])
  <2>1. /\ pc = "resume" /\ pc' = cont[cur]
        /\ UNCHANGED <<sp, el, daif, SP_EL0, SP_EL1, ELR_EL1, SPSR_EL1, notify,
                       ICC_IAR1_EL1, traps, clobbered, guest>>
    BY <1>5 DEF At, NoTrap, GoTo, Ordinary, Exec
  <2>2. pc \in KernelCode /\ pc \notin Unsaved /\ pc \in InTrap /\ pc \notin MaskedPlaces
    BY <2>1 DEF KernelCode, Unsaved, InTrap, MaskedPlaces
  <2>3. el = 1 /\ sp = KernelStack(cur) /\ cur \in Procs /\ Len(traps[cur]) = 1
    BY <2>2, InKernel, Open
  <2>4. pc' \in {"restore", "unlock"}
    BY <2>1, <2>3 DEF Sound, KernelInv, BasicInv, KTypeOK
  <2>5. /\ pc' \in KernelCode /\ pc' \notin Unsaved /\ pc' \notin Restored
        /\ pc' \in InTrap \cup InAnyTrap /\ pc' \notin MaskedPlaces
    BY <2>4 DEF KernelCode, Unsaved, Restored, InTrap, InAnyTrap, MaskedPlaces
  <2>6. Runs(cur, pc', Len(traps[cur]))
    BY <2>3, <2>5 DEF Runs
  <2>7. Stays /\ owner' \in Procs \cup {Nobody}
    BY <2>1, <2>3 DEF Stays, guest, Sound, KernelInv, BasicInv, KTypeOK
  <2>8. BasicInv' /\ StacksInv' /\ PlaceInv'
    BY <2>2, <2>3, <2>5, <2>6, <2>7, StaysInKernel
  <2>9. RegisterInv'
    BY <2>1, <2>4, <2>5 DEF guest, Sound, KernelInv, SoundInv, RegisterInv
  <2>10. MaskInv'
    BY <2>1, <2>2, <2>5 DEF Sound, KernelInv, SoundInv, MaskInv
  <2>11. RequestInv'
    <3>1. owner' = owner /\ notify' = notify /\ ICC_IAR1_EL1' = ICC_IAR1_EL1
      BY <2>1 DEF guest
    <3>2. ~notify /\ owner = Nobody
      BY <2>1 DEF Sound, KernelInv, SoundInv, RequestInv, Pending
    <3>3. QED
      BY <3>1, <3>2 DEF RequestInv
  <2>12. QED
    BY <2>8, <2>9, <2>10, <2>11 DEF KernelInv, SoundInv
<1>6. QED
  BY <1>2, <1>3, <1>4, <1>5 DEF Schedule

-----------------------------------------------------------------------------
(* In the kernel, a process has a trap open.                               *)
LEMMA ProcessTrapped ==
    ASSUME NEW c \in Procs, NEW a, NEW n, Runs(c, a, n) PROVE n # 0 /\ n \in Nat
<1>1. c # Sched
  BY KernelAssumption
<1>2. QED
  BY <1>1 DEF Runs

(* Taking an exception.  Whatever it destroys, the level, the stack and    *)
(* the mask are right.                                                     *)
LEMMA EntryBasic ==
    ASSUME Sound, TypeOK', NEW return \in Addr, NEW irq \in Irqs, NEW s0, NEW s1,
           Trapped(return, irq), EnterEL1(return, s0, s1), pc \in UserCode \cup KernelCode
    PROVE  BasicInv'
<1>1. KTypeOK'
  <2> DEFINE t == [pc |-> return, el |-> el, sp |-> sp, irq |-> irq]
  <2>1. t \in Trap
    BY DEF Trap, Sound, KernelInv, BasicInv, KTypeOK, TypeOK
  <2> HIDE DEF t
  <2>2. /\ traps \in [Contexts -> Seq(Trap)] /\ cur \in Contexts
        /\ traps' = [traps EXCEPT ![cur] = Append(@, t)]
    BY DEF t, Trapped, Sound, KernelInv, BasicInv, KTypeOK
  <2>3. Append(traps[cur], t) \in Seq(Trap)
    BY <2>1, <2>2, AppendProperties
  <2>4. traps' \in [Contexts -> Seq(Trap)]
    BY <2>2, <2>3
  <2>5. QED
    BY <2>4, Zenon DEF Trapped, guest, Sound, KernelInv, BasicInv, KTypeOK
<1>2. el' = 1 /\ cur' = cur /\ sp' = IF el = 0 THEN SP_EL1 ELSE sp
  BY DEF EnterEL1, Trapped, guest
<1>3. sp' = KernelStack(cur)
  BY <1>2, InUser, InKernel
<1>4. QED
  BY <1>1, <1>2, <1>3 DEF BasicInv, OwnStack, UserUnmasked

(* Where nothing is destroyed, the exception only adds a trap that its     *)
(* frame has yet to hold.                                                  *)
LEMMA EntryKeeps ==
    ASSUME Sound, TypeOK', NEW return \in Addr, NEW irq \in Irqs, NEW s0 \in Slots, NEW s1 \in Slots,
           Trapped(return, irq), EnterEL1(return, s0, s1), UNCHANGED <<daif, SP_EL1>>,
           pc \notin Window, "D" \notin daif, ~notify',
           \/ pc \in UserCode /\ return \in UserCode /\ s0 \in {"sync_el0", "irq_el0"}
           \/ pc \in KernelCode /\ return = pc /\ irq # 27 /\ s1 = "irq_el1",
           pc' \in {"irq_el0", "irq_el1"} => ICC_IAR1_EL1' = irq,
           owner # Nobody => pc' = "irq_el1" /\ irq = 48
    PROVE  KernelInv'
<1> DEFINE t == [pc |-> return, el |-> el, sp |-> sp, irq |-> irq]
           T == traps[cur]
<1>1. /\ el' = 1 /\ ELR_EL1' = return
      /\ el = 0 => SP_EL0' = sp
      /\ el # 0 => SPSR_EL1' = 5
      /\ pc' = IF el = 0 THEN s0 ELSE s1
      /\ traps' = [traps EXCEPT ![cur] = Append(@, t)]
      /\ UNCHANGED <<cur, frames, owner>>
  BY ProgramAssumption DEF EnterEL1, Trapped, guest, Sound, KernelInv, BasicInv, KTypeOK, TypeOK
<1>2. /\ pc' \in {"sync_el0", "irq_el0", "irq_el1"} /\ pc' \in Unsaved /\ pc' \in KernelCode
      /\ pc \notin Unsaved /\ pc \notin MaskedPlaces
      /\ pc \in UserCode <=> el = 0
      /\ pc \in KernelCode <=> el = 1
  <2>1. pc' \in {"sync_el0", "irq_el0", "irq_el1"}
    BY <1>1, InUser, InKernel
  <2>2. pc' \in Unsaved /\ pc' \in KernelCode /\ pc \notin Unsaved
    BY <2>1 DEF Unsaved, KernelCode, Window, Slots
  <2>3. pc \notin MaskedPlaces
    BY DEF Sound, KernelInv, SoundInv, MaskInv
  <2>4. QED
    BY <2>1, <2>2, <2>3, InUser, InKernel
<1>3. /\ cur \in Contexts /\ traps \in [Contexts -> Seq(Trap)]
      /\ T \in Seq(Trap) /\ Len(T) \in Nat /\ Traps(cur, T) /\ Frames(T, frames[cur])
      /\ Len(frames[cur]) = Len(T)
  BY <1>2, RunningStacks DEF SavedTraps
<1>4. t \in Trap
  BY DEF Trap, Sound, KernelInv, BasicInv, KTypeOK, TypeOK
<1>5. TrapOf(cur, t, Len(T))
  <2>1. CASE pc \in UserCode
    BY <2>1, <1>2, InUser DEF TrapOf, FromUser
  <2>2. CASE pc \in KernelCode
    <3>1. /\ el = 1 /\ sp = KernelStack(cur) /\ Runs(cur, pc, Len(T))
      BY <2>2, InKernel
    <3>2. ~(cur \in Procs /\ Len(T) = 0)
      BY <3>1, ProcessTrapped
    <3>3. return = pc /\ irq # 27
      BY <2>2, CodeApart
    <3>4. FromKernel(cur, t, Len(T))
      BY <1>2, <3>1, <3>3 DEF FromKernel
    <3>5. QED
      BY <3>2, <3>4 DEF TrapOf
  <2>3. QED
    BY <2>1, <2>2
<1> HIDE DEF t
<1>6. /\ Traps(cur, Append(T, t)) /\ Len(Append(T, t)) = Len(T) + 1
      /\ LastOf(Append(T, t)) = t /\ Frames(Append(T, t), frames[cur])
  BY <1>3, <1>4, <1>5, TrapAdded, FramesUnderTrap
<1>7. /\ traps' \in [Contexts -> Seq(Trap)] /\ traps'[cur] = Append(T, t)
      /\ \A c \in Contexts \ {cur} : traps'[c] = traps[c]
  BY <1>1, <1>3, <1>6 DEF Traps
<1>8. BasicInv'
  BY EntryBasic
<1>9. StacksInv'
  <2>1. SavedTraps(traps[cur])' = Len(T)
    BY <1>1, <1>2, <1>3, <1>6, <1>7 DEF SavedTraps
  <2>2. QED
    BY <1>1, <1>3, <1>6, <1>7, <2>1 DEF Sound, KernelInv, SoundInv, StacksInv
<1>10. PlaceInv'
  <2>1. Runs(cur, pc', Len(T) + 1)
    <3>1. CASE pc \in UserCode
      <4>1. pc' \in InTrap /\ cur \in Procs /\ Len(T) + 1 = 1
        BY <3>1, <1>1, <1>2, InUser, CodeApart DEF InTrap
      <4>2. QED
        BY <4>1 DEF Runs
    <3>2. CASE pc \in KernelCode
      <4>1. pc' = "irq_el1" /\ Runs(cur, pc, Len(T))
        BY <3>2, <1>1, <1>2, InKernel, CodeApart
      <4>2. cur \in Procs => Len(T) + 1 # 1
        BY <1>3, <4>1, ProcessTrapped
      <4>3. QED
        BY <1>3, <4>1, <4>2 DEF Runs
    <3>3. QED
      BY <3>1, <3>2
  <2>2. QED
    BY <1>1, <1>2, <1>6, <1>7, <2>1 DEF PlaceInv
<1>11. RegisterInv'
  <2>1. t.pc = return /\ t.el = el /\ t.sp = sp /\ t.irq = irq
    BY DEF t
  <2>2. LastOf(traps[cur])' = t
    BY <1>1, <1>6, <1>7
  <2>3. pc' \in {"irq_el0", "irq_el1", "save_irq", "irq"} => ICC_IAR1_EL1' = irq
    BY <1>2
  <2>4. pc' # "eret"
    BY <1>2
  <2>5. QED
    BY <1>1, <2>1, <2>2, <2>3, <2>4 DEF RegisterInv
<1>12. MaskInv'
  BY <1>2 DEF MaskInv, MaskedPlaces
<1>13. RequestInv'
  BY <1>1, <1>2 DEF RequestInv
<1>14. QED
  BY <1>8, <1>9, <1>10, <1>11, <1>12, <1>13 DEF KernelInv, SoundInv

(* The running context is in user or in kernel code.                       *)
LEMMA SomeCode == ASSUME Sound PROVE pc \in UserCode \cup KernelCode /\ pc \in Addr
  BY DEF Sound, KernelInv, BasicInv, SoundInv, KTypeOK, TypeOK, PlaceInv

(* A pending request is taken at one place only, as soon as it is unmasked.*)
LEMMA RequestTaken == ASSUME Sound, TakeVirtio PROVE pc = "pick"
<1>1. notify /\ "D" \notin daif
  BY DEF TakeVirtio, Masked
<1>2. Pending /\ pc \notin MaskedPlaces
  BY <1>1 DEF Sound, KernelInv, SoundInv, RequestInv, MaskInv
<1>3. QED
  BY <1>1, <1>2 DEF Pending, MaskedPlaces

(* The check of the loop, with and without an interrupt.                   *)
LEMMA NoInterruptKeeps ==
    ASSUME Sound, CheckMasked \/ CheckNothing, NoTrap, UNCHANGED guest, TypeOK'
    PROVE  KernelInv'
<1>1. /\ UNCHANGED <<pc, sp, el, daif, SP_EL0, SP_EL1, ELR_EL1, SPSR_EL1, notify,
                     ICC_IAR1_EL1, traps, clobbered, cur, state, cont, frames, owner>>
      /\ "D" \in daif \/ ~notify
  BY DEF CheckMasked, CheckNothing, Check, Uninterrupted, Masked, NoTrap, guest
<1>2. BasicInv'
  BY <1>1 DEF Sound, KernelInv, BasicInv, KTypeOK, OwnStack, UserUnmasked
<1>3. StacksInv' /\ PlaceInv' /\ RegisterInv' /\ MaskInv'
  <2>1. SavedTraps(traps[cur])' = SavedTraps(traps[cur])
    BY <1>1 DEF SavedTraps
  <2>2. StacksInv'
    BY <1>1, <2>1 DEF Sound, KernelInv, SoundInv, StacksInv
  <2>3. PlaceInv' /\ MaskInv'
    BY <1>1 DEF Sound, KernelInv, SoundInv, PlaceInv, MaskInv
  <2>4. RegisterInv'
    BY <1>1 DEF Sound, KernelInv, SoundInv, RegisterInv
  <2>5. QED
    BY <2>2, <2>3, <2>4
<1>4. RequestInv'
  BY <1>1 DEF Sound, KernelInv, SoundInv, RequestInv, Pending, MaskInv, MaskedPlaces
<1>5. QED
  BY <1>2, <1>3, <1>4 DEF KernelInv, SoundInv

LEMMA InterruptKeeps ==
    ASSUME Sound, TypeOK',
           \/ TakeVirtio /\ Trapped(pc, 48)
           \/ TakeTimer /\ Trapped(pc, 27)
           \/ TakeUart /\ Trapped(pc, 33)
    PROVE  KernelInv'
<1>1. /\ pc \in UserCode \cup KernelCode /\ pc \in Addr
      /\ "irq_el0" \in Slots /\ "irq_el1" \in Slots
      /\ EnterEL1(pc, "irq_el0", "irq_el1")
      /\ UNCHANGED <<daif, SP_EL1>> /\ "D" \notin daif
      /\ {27, 33, 48} \subseteq Irqs
  BY SomeCode DEF TakeVirtio, TakeTimer, TakeUart, Check, CauseInterrupt, Masked, Slots, Irqs
<1>2. CASE TakeVirtio /\ Trapped(pc, 48)
  <2>1. pc = "pick" /\ pc \notin Window /\ pc \in KernelCode
    BY <1>2, RequestTaken DEF Window, Slots, KernelCode
  <2>2. el = 1
    BY <2>1, InKernel
  <2>3. pc' = "irq_el1" /\ ICC_IAR1_EL1' = 48 /\ ~notify'
    BY <1>1, <1>2, <2>2, ProgramAssumption
    DEF TakeVirtio, CauseInterrupt, EnterEL1, Sound, KernelInv, BasicInv, KTypeOK, TypeOK
  <2>4. Trapped(pc, 48) /\ 48 \in Irqs /\ 48 # 27
    BY <1>1, <1>2
  <2>5. QED
    BY <1>1, <2>1, <2>3, <2>4, EntryKeeps
<1>3. CASE TakeTimer /\ Trapped(pc, 27)
  <2>1. pc \in UserCode /\ pc \notin Window
    BY <1>1, <1>3, CodeApart DEF TakeTimer, TimerDue, Window, Slots, UserCode
  <2>2. /\ ICC_IAR1_EL1' = 27 /\ ~notify' /\ ~notify
    BY <1>3 DEF TakeTimer, CauseInterrupt
  <2>3. owner = Nobody
    BY <2>1, <2>2 DEF Sound, KernelInv, SoundInv, RequestInv, UserCode
  <2>4. Trapped(pc, 27) /\ 27 \in Irqs
    BY <1>1, <1>3
  <2>5. QED
    BY <1>1, <2>1, <2>2, <2>3, <2>4, EntryKeeps
<1>4. CASE TakeUart /\ Trapped(pc, 33)
  <2>1. ICC_IAR1_EL1' = 33 /\ ~notify' /\ ~notify
    BY <1>4 DEF TakeUart, CauseInterrupt
  <2>2. Trapped(pc, 33) /\ 33 \in Irqs /\ 33 # 27
    BY <1>1, <1>4
  <2>3. CASE pc \in Window
    <3>1. clobbered'
      BY <2>2, <2>3 DEF Trapped
    <3>2. BasicInv'
      BY <1>1, <2>2, EntryBasic
    <3>3. QED
      BY <3>1, <3>2 DEF KernelInv
  <2>4. CASE pc \notin Window
    <3>1. owner = Nobody
      BY <2>1, <2>4 DEF Sound, KernelInv, SoundInv, RequestInv, Window, Slots
    <3>2. QED
      BY <1>1, <2>1, <2>2, <2>4, <3>1, EntryKeeps
  <2>5. QED
    BY <2>3, <2>4
<1>5. QED
  BY <1>2, <1>3, <1>4

LEMMA CheckKeeps == ASSUME Sound, KCheck, TypeOK' PROVE KernelInv'
  BY NoInterruptKeeps, InterruptKeeps DEF KCheck

(* User code and its system calls.                                         *)
LEMMA UserKeeps == ASSUME Sound, User, TypeOK' PROVE KernelInv'
<1>1. /\ pc \in UserCode /\ el = 0 /\ cur \in Procs /\ Len(traps[cur]) = 0
      /\ SP_EL1 = KernelStack(cur)
  BY InUser DEF User
<1>2. owner = Nobody /\ ~notify /\ "D" \notin daif
  BY <1>1 DEF Sound, KernelInv, SoundInv, BasicInv, RequestInv, Pending, UserCode, UserUnmasked
<1>3. CASE (\E a \in UserCode : Ordinary(a)) /\ NoTrap /\ UNCHANGED guest
  <2>1. /\ pc' \in UserCode
        /\ UNCHANGED <<sp, el, daif, SP_EL0, SP_EL1, ELR_EL1, SPSR_EL1, notify,
                       ICC_IAR1_EL1, traps, clobbered, cur, state, cont, frames, owner>>
    BY <1>3 DEF Ordinary, Exec, NoTrap, guest
  <2>2. BasicInv'
    BY <2>1 DEF Sound, KernelInv, BasicInv, KTypeOK, OwnStack, UserUnmasked
  <2>3. pc \notin Unsaved /\ pc' \notin Unsaved
    BY <1>1, <2>1 DEF Unsaved, UserCode
  <2>4. StacksInv'
    <3>1. SavedTraps(traps[cur])' = SavedTraps(traps[cur])
      BY <2>1, <2>3 DEF SavedTraps
    <3>2. QED
      BY <2>1, <3>1 DEF Sound, KernelInv, SoundInv, StacksInv
  <2>5. PlaceInv'
    BY <1>1, <2>1 DEF PlaceInv
  <2>6. RegisterInv'
    BY <1>1, <2>1 DEF RegisterInv
  <2>7. MaskInv'
    BY <1>2, <2>1 DEF MaskInv, MaskedPlaces, UserCode
  <2>8. RequestInv'
    BY <1>2, <2>1 DEF RequestInv
  <2>9. QED
    BY <2>2, <2>4, <2>5, <2>6, <2>7, <2>8 DEF KernelInv, SoundInv
<1>4. CASE SVC /\ Trapped(Succ[pc], 0)
  <2>1. /\ EnterEL1(Succ[pc], "sync_el0", "sync_el1") /\ Trapped(Succ[pc], 0)
        /\ UNCHANGED <<daif, SP_EL1, notify>>
    BY <1>4 DEF SVC
  <2>2. /\ Succ[pc] \in UserCode /\ Succ[pc] \in Addr /\ 0 \in Irqs
        /\ "sync_el0" \in Slots /\ "sync_el1" \in Slots /\ pc \notin Window
    BY <1>1, ProgramAssumption, CodeApart DEF Irqs, Slots, Window, UserCode
  <2>3. pc' = "sync_el0"
    BY <1>1, <2>1, <2>2, ProgramAssumption
    DEF EnterEL1, Sound, KernelInv, BasicInv, KTypeOK, TypeOK
  <2>4. pc' \notin {"irq_el0", "irq_el1"} /\ ~notify'
    BY <1>2, <2>1, <2>3
  <2>5. QED
    BY <1>1, <1>2, <2>1, <2>2, <2>4, EntryKeeps
<1>5. QED
  BY <1>3, <1>4 DEF User

-----------------------------------------------------------------------------
(* ERET goes back to what the last trap interrupted: to user code, which   *)
(* its address tells whatever SPSR_EL1 holds, or to kernel code, for which *)
(* SPSR_EL1 is still what the trap left.                                   *)
LEMMA ReturnGoesBack ==
    ASSUME Sound, Return
    PROVE  LET t == LastOf(traps[cur])
           IN  /\ Len(traps[cur]) # 0
               /\ pc' = t.pc /\ el' = t.el /\ sp' = t.sp
               /\ SP_EL1' = KernelStack(cur)
<1> DEFINE t == LastOf(traps[cur])
<1>1. /\ pc = "eret" /\ SP_EL1' = sp /\ pc' = ELR_EL1
      /\ IF SPSR_EL1 = 0 \/ pc' \in UserAddr
         THEN el' = 0 /\ sp' = SP_EL0 ELSE UNCHANGED <<el, sp>>
  BY DEF Return, ERET
<1>2. pc \in KernelCode /\ pc \in InAnyTrap /\ pc \in Restored /\ pc \in Unsaved \cup {"eret"}
  BY <1>1 DEF KernelCode, InAnyTrap, Restored
<1>3. el = 1 /\ sp = KernelStack(cur) /\ Len(traps[cur]) # 0 /\ Len(traps[cur]) \in Nat
  BY <1>2, InKernel, Open, RunningStacks
<1>4. TrapOf(cur, t, Len(traps[cur]) - 1)
  BY <1>3, LastTrap
<1>5. /\ ELR_EL1 = t.pc
      /\ t.el = 0 => SP_EL0 = t.sp
      /\ t.el = 1 => SPSR_EL1 = 5
  BY <1>2, <1>3 DEF Sound, KernelInv, SoundInv, RegisterInv
<1>6. CASE FromUser(t)
  <2>1. t.el = 0 /\ pc' \in UserAddr
    BY <1>1, <1>5, <1>6, KernelAssumption DEF FromUser
  <2>2. QED
    BY <1>1, <1>3, <1>5, <2>1
<1>7. CASE FromKernel(cur, t, Len(traps[cur]) - 1)
  <2>1. t.el = 1 /\ t.sp = KernelStack(cur) /\ Runs(cur, t.pc, Len(traps[cur]) - 1)
    BY <1>7 DEF FromKernel
  <2>2. t.pc \in KernelCode
    BY <2>1 DEF Runs, InTrap, InScheduler, InAnyTrap, KernelCode, Slots
  <2>3. pc' \notin UserAddr /\ SPSR_EL1 = 5
    BY <1>1, <1>5, <2>1, <2>2, CodeApart
  <2>4. QED
    BY <1>1, <1>3, <1>5, <2>1, <2>3
<1>8. QED
  BY <1>4, <1>6, <1>7 DEF TrapOf

LEMMA ReturnKeeps == ASSUME Sound, Return, TypeOK' PROVE KernelInv'
<1> DEFINE T == traps[cur]
           F == frames[cur]
           t == LastOf(T)
<1>1. /\ pc = "eret"
      /\ frames' = [frames EXCEPT ![cur] = FrontOf(@)]
      /\ traps' = [traps EXCEPT ![cur] = FrontOf(@)]
      /\ UNCHANGED <<cur, state, cont, owner, clobbered, daif, SPSR_EL1, notify, ICC_IAR1_EL1>>
  BY DEF Return, ERET, Exec
<1>2. /\ Len(T) # 0 /\ pc' = t.pc /\ el' = t.el /\ sp' = t.sp /\ SP_EL1' = KernelStack(cur)
  BY ReturnGoesBack
<1>3. /\ cur \in Contexts /\ traps \in [Contexts -> Seq(Trap)]
      /\ frames \in [Contexts -> Seq(Frame)] /\ T \in Seq(Trap) /\ Len(T) \in Nat
      /\ Traps(cur, T) /\ Frames(T, F) /\ Len(F) = Len(T)
  BY <1>1, RunningStacks DEF SavedTraps, Unsaved
<1>4. /\ Traps(cur, FrontOf(T)) /\ Len(FrontOf(T)) = Len(T) - 1 /\ Len(T) - 1 \in Nat
      /\ TrapOf(cur, t, Len(T) - 1)
      /\ Len(T) - 1 # 0 => TrapOf(cur, LastOf(FrontOf(T)), Len(T) - 2)
  BY <1>2, <1>3, TrapRemoved
<1>5. Frames(FrontOf(T), FrontOf(F)) /\ Len(FrontOf(F)) = Len(T) - 1
  BY <1>2, <1>3, FrameRemoved
<1>6. "D" \notin daif
  BY <1>1 DEF Sound, KernelInv, SoundInv, MaskInv, MaskedPlaces
<1>7. /\ owner = Nobody /\ ~notify
  BY <1>1 DEF Sound, KernelInv, SoundInv, RequestInv, Pending
<1>8. /\ traps' \in [Contexts -> Seq(Trap)] /\ traps'[cur] = FrontOf(T)
      /\ frames' \in [Contexts -> Seq(Frame)] /\ frames'[cur] = FrontOf(F)
      /\ \A c \in Contexts \ {cur} : traps'[c] = traps[c] /\ frames'[c] = frames[c]
  BY <1>1, <1>3, <1>4, <1>5 DEF Traps, Frames
<1>9. pc' \notin Unsaved \cup Restored \cup MaskedPlaces \cup {"irq"}
  <2>1. CASE FromUser(t)
    BY <1>2, <2>1 DEF FromUser, UserCode, Unsaved, Restored, MaskedPlaces
  <2>2. CASE FromKernel(cur, t, Len(T) - 1)
    BY <1>2, <2>2 DEF FromKernel, Window, Slots, Unsaved, Restored, MaskedPlaces
  <2>3. QED
    BY <1>4, <2>1, <2>2 DEF TrapOf
<1>10. BasicInv'
  <2>1. KTypeOK'
    BY <1>1, <1>8 DEF Sound, KernelInv, BasicInv, KTypeOK
  <2>2. OwnStack'
    BY <1>1, <1>2, <1>4 DEF OwnStack, TrapOf, FromUser, FromKernel
  <2>3. UserUnmasked'
    BY <1>1, <1>6 DEF UserUnmasked
  <2>4. QED
    BY <2>1, <2>2, <2>3 DEF BasicInv
<1>11. StacksInv'
  <2>1. SavedTraps(traps[cur])' = Len(T) - 1
    BY <1>1, <1>4, <1>8, <1>9 DEF SavedTraps
  <2>2. QED
    BY <1>1, <1>3, <1>4, <1>5, <1>8, <2>1 DEF Sound, KernelInv, SoundInv, StacksInv
<1>12. PlaceInv'
  <2>1. CASE cur \in Procs /\ Len(T) - 1 = 0
    <3>1. t.el = 0 /\ t.pc \in UserCode
      BY <1>4, <2>1 DEF TrapOf, FromUser
    <3>2. /\ el' = 0 /\ pc' \in UserCode /\ cur' = cur
          /\ Len(traps[cur])' = 0 /\ SP_EL1' = KernelStack(cur)
      BY <1>1, <1>2, <1>4, <1>8, <2>1, <3>1
    <3>3. QED
      BY <2>1, <3>2 DEF PlaceInv
  <2>2. CASE ~(cur \in Procs /\ Len(T) - 1 = 0)
    <3>1. t.el = 1 /\ Runs(cur, t.pc, Len(T) - 1)
      BY <1>4, <2>2 DEF TrapOf, FromKernel
    <3>2. t.pc \in KernelCode
      BY <3>1 DEF Runs, InTrap, InScheduler, InAnyTrap, KernelCode, Slots
    <3>3. QED
      BY <1>1, <1>2, <1>4, <1>8, <3>1, <3>2 DEF PlaceInv
  <2>3. QED
    BY <2>1, <2>2
<1>13. RegisterInv'
  <2>1. SUFFICES ASSUME Len(T) - 1 # 0
                 PROVE  LastOf(FrontOf(T)).el = 1 => SPSR_EL1 = 5
    <3>1. pc' \notin Unsaved \cup Restored /\ pc' \notin Unsaved \cup {"eret"}
          /\ pc' \notin {"irq_el0", "irq_el1", "save_irq", "irq"}
      BY <1>9 DEF Unsaved, Restored
    <3>2. Len(traps[cur])' = Len(T) - 1 /\ LastOf(traps[cur])' = LastOf(FrontOf(T))
      BY <1>1, <1>4, <1>8
    <3>3. QED
      BY <1>1, <2>1, <3>1, <3>2 DEF RegisterInv
  <2>2. t.el = 1
    BY <1>4, <2>1 DEF TrapOf, FromKernel
  <2>3. QED
    BY <1>2, <2>2 DEF Sound, KernelInv, SoundInv, RegisterInv
<1>14. MaskInv'
  BY <1>1, <1>6, <1>9 DEF MaskInv
<1>15. RequestInv'
  BY <1>1, <1>7 DEF RequestInv
<1>16. QED
  BY <1>10, <1>11, <1>12, <1>13, <1>14, <1>15 DEF KernelInv, SoundInv

-----------------------------------------------------------------------------
(* The three facts of the invariance.                                      *)
LEMMA KernelInit == ASSUME KInit PROVE KernelInv
<1> DEFINE fr(c) == [elr |-> "u0", spsr |-> 0, usp |-> UserStack(c)]
           tr(c) == [pc |-> "u0", el |-> 0, sp |-> UserStack(c), irq |-> 0]
<1>1. /\ cur = Sched /\ pc = "sched" /\ el = 1 /\ sp = KernelStack(Sched)
      /\ notify = FALSE /\ owner = Nobody /\ clobbered = FALSE
      /\ frames = [c \in Contexts |-> IF c = Sched THEN <<>> ELSE <<fr(c)>>]
      /\ traps = [c \in Contexts |-> IF c = Sched THEN <<>> ELSE <<tr(c)>>]
      /\ Sched \in Contexts /\ Sched \notin Procs
  BY KernelAssumption DEF KInit, Contexts
<1>2. "u0" \in UserCode /\ "u0" \in Addr /\ "sched" \in Addr /\ DaifBits \in SUBSET DaifBits
  BY CodeApart DEF UserCode, KernelCode
<1>3. TypeOK
  <2>1. notify \in BOOLEAN
    BY <1>1, Zenon
  <2>2. sp \in Stacks /\ SP_EL0 \in Stacks /\ SP_EL1 \in Stacks
    BY <1>1, ProgramAssumption DEF KInit
  <2>3. QED
    BY <1>1, <1>2, <2>1, <2>2, TimerAssumption DEF KInit, TypeOK
<1>4. ASSUME NEW p \in Procs
      PROVE  fr(p) \in Frame /\ tr(p) \in Trap /\ FromUser(tr(p)) /\ Holds(fr(p), tr(p))
  BY <1>2, ProgramAssumption DEF Frame, Trap, Irqs, FromUser, Holds
<1> HIDE DEF fr, tr
<1>5. ASSUME NEW p \in Procs
      PROVE  /\ traps[p] \in Seq(Trap) /\ frames[p] \in Seq(Frame)
             /\ Len(traps[p]) = 1 /\ Len(frames[p]) = 1
             /\ traps[p][1] = tr(p) /\ frames[p][1] = fr(p)
  BY <1>1, <1>4 DEF Contexts
<1>6. /\ Len(traps[Sched]) = 0 /\ Len(frames[Sched]) = 0
      /\ traps[Sched] \in Seq(Trap) /\ frames[Sched] \in Seq(Frame)
  BY <1>1
<1>7. BasicInv
  <2>1. KTypeOK
    <3>1. clobbered \in BOOLEAN
      BY <1>1, Zenon
    <3>2. traps \in [Contexts -> Seq(Trap)] /\ frames \in [Contexts -> Seq(Frame)]
      BY <1>1, <1>5, <1>6 DEF Contexts
    <3>3. QED
      BY <1>1, <1>3, <3>1, <3>2 DEF KInit, KTypeOK
  <2>2. QED
    BY <1>1, <2>1 DEF BasicInv, OwnStack, UserUnmasked
<1>8. StacksInv
  <2>1. ASSUME NEW p \in Procs PROVE Traps(p, traps[p]) /\ Frames(traps[p], frames[p])
    BY <1>4, <1>5 DEF Traps, Frames
  <2>2. Traps(Sched, traps[Sched]) /\ Frames(traps[Sched], frames[Sched])
    BY <1>6 DEF Traps, Frames
  <2>3. SavedTraps(traps[cur]) = 0
    BY <1>1, <1>6 DEF SavedTraps, Unsaved
  <2>4. QED
    BY <1>1, <1>5, <1>6, <2>1, <2>2, <2>3 DEF StacksInv, Contexts, Suspended
<1>9. PlaceInv /\ RegisterInv
  BY <1>1, <1>6 DEF PlaceInv, RegisterInv, Runs, InScheduler, KernelCode
<1>10. MaskInv /\ RequestInv
  BY <1>1 DEF MaskInv, RequestInv, MaskedPlaces
<1>11. QED
  BY <1>7, <1>8, <1>9, <1>10 DEF KernelInv, SoundInv

LEMMA KernelUnchanged == ASSUME KernelInv, UNCHANGED kvars PROVE KernelInv'
<1>1. /\ UNCHANGED <<phase, pc, sp, el, daif, SP_EL0, SP_EL1, ELR_EL1, SPSR_EL1, VBAR_EL1,
                     ICC_IAR1_EL1, tick, notify, quiet>>
      /\ UNCHANGED <<cur, state, cont, frames, owner, traps, clobbered>>
  BY DEF kvars, vars, guest
<1>2. BasicInv'
  BY <1>1 DEF KernelInv, BasicInv, KTypeOK, TypeOK, OwnStack, UserUnmasked
<1>3. ASSUME ~clobbered PROVE SoundInv'
  <2>1. SoundInv
    BY <1>3 DEF KernelInv
  <2>2. StacksInv'
    BY <1>1, <2>1 DEF SoundInv, StacksInv, SavedTraps
  <2>3. PlaceInv' /\ MaskInv' /\ RequestInv'
    BY <1>1, <2>1 DEF SoundInv, PlaceInv, MaskInv, RequestInv, Pending
  <2>4. RegisterInv'
    BY <1>1, <2>1 DEF SoundInv, RegisterInv
  <2>5. QED
    BY <2>2, <2>3, <2>4 DEF SoundInv
<1>4. QED
  BY <1>1, <1>2, <1>3 DEF KernelInv

LEMMA KernelStep == ASSUME KernelInv, [KNext]_kvars PROVE KernelInv'
<1>1. CASE UNCHANGED kvars
  BY <1>1, KernelUnchanged
<1>2. CASE ~clobbered /\ (KCheck \/ User \/ Kernel)
  <2>1. Sound /\ TypeOK'
    BY <1>2, TypeStep DEF Sound, KNext
  <2>2. CASE KCheck
    BY <2>1, <2>2, CheckKeeps
  <2>3. CASE User
    BY <2>1, <2>3, UserKeeps
  <2>4. CASE Kernel
    <3>1. /\ PushRegisters => KernelInv'
          /\ Dispatch => KernelInv'
          /\ SystemCall => KernelInv'
          /\ Notify => KernelInv'
          /\ Schedule => KernelInv'
          /\ ReturnFromTrap => KernelInv'
          /\ Return => KernelInv'
      BY <2>1, PushRegistersKeeps, DispatchKeeps, SystemCallKeeps, NotifyKeeps,
         ScheduleKeeps, ReturnFromTrapKeeps, ReturnKeeps
    <3>2. Save("save_sys", "sys") \/ Save("save_irq", "irq") => KernelInv'
      BY <2>1, SaveKeeps
    <3>3. \/ SwitchToScheduler("sleep", "sleeping", "unlock")
          \/ SwitchToScheduler("yield", "ready", "restore")
          => KernelInv'
      BY <2>1, ToSchedulerKeeps
    <3>4. QED
      BY <2>4, <3>1, <3>2, <3>3 DEF Kernel
  <2>5. QED
    BY <1>2, <2>2, <2>3, <2>4
<1>3. QED
  BY <1>1, <1>2 DEF KNext

LEMMA KernelCorrect == KSpec => []KernelInv
  BY KernelInit, KernelStep, PTL DEF KSpec

-----------------------------------------------------------------------------
(* The registers and the kernel's bookkeeping keep values of their kinds.  *)
THEOREM KernelTypes == KSpec => []KTypeOK
<1>1. KernelInv => KTypeOK
  BY DEF KernelInv, BasicInv
<1>2. QED
  BY <1>1, KernelCorrect, PTL

(* Kernel code of a context runs on that context's stack: SP_EL1 holds it  *)
(* whenever user code of the context runs, so every exception enters on it.*)
THEOREM KernelOnOwnStack == KSpec => []OwnStack
<1>1. KernelInv => OwnStack
  BY DEF KernelInv, BasicInv
<1>2. QED
  BY <1>1, KernelCorrect, PTL

(* User code never runs masked.                                            *)
THEOREM UserRunsUnmasked == KSpec => []UserUnmasked
<1>1. KernelInv => UserUnmasked
  BY DEF KernelInv, BasicInv
<1>2. QED
  BY <1>1, KernelCorrect, PTL

(* The handler reads from ICC_IAR1_EL1 the number of the interrupt that it *)
(* was entered for.                                                        *)
THEOREM HandlesTakenIrq == KSpec => []RightIrq
<1>1. ASSUME KernelInv PROVE RightIrq
  <2>1. SUFFICES ASSUME pc = "irq", ~clobbered
                 PROVE  ICC_IAR1_EL1 = LastOf(traps[cur]).irq
    BY DEF RightIrq
  <2>2. Sound /\ pc \in InAnyTrap
    BY <1>1, <2>1 DEF Sound, InAnyTrap
  <2>3. Len(traps[cur]) # 0
    BY <2>2, Open
  <2>4. QED
    BY <2>1, <2>2, <2>3 DEF Sound, KernelInv, SoundInv, RegisterInv
<1>2. QED
  BY <1>1, KernelCorrect, PTL

(* What a step does to the histories and the request: the base of the      *)
(* action properties.                                                      *)
LEMMA StepIs ==
    ASSUME KernelInv, [KNext]_kvars
    PROVE  /\ ~clobbered /\ Return =>
                  LET t == LastOf(traps[cur])
                  IN  pc' = t.pc /\ el' = t.el /\ sp' = t.sp
           /\ ~clobbered /\ Notify => owner = Nobody /\ ~notify
           /\ clobbered' # clobbered => TakeUart
<1>1. ~clobbered => Sound
  BY DEF Sound
<1>2. ~clobbered /\ Notify => owner = Nobody /\ ~notify
  BY <1>1, NothingOutstanding DEF Notify, At
<1>3. ~clobbered /\ Return =>
          LET t == LastOf(traps[cur])
          IN  pc' = t.pc /\ el' = t.el /\ sp' = t.sp
  BY <1>1, ReturnGoesBack
<1>4. clobbered' # clobbered => TakeUart
  <2>0. ASSUME NEW return, NEW irq, Trapped(return, irq), pc \notin Window
        PROVE  clobbered' = clobbered
    <3>1. clobbered \in BOOLEAN
      BY DEF KernelInv, BasicInv, KTypeOK
    <3>2. clobbered' = (clobbered \/ pc \in Window)
      BY <2>0 DEF Trapped
    <3>3. QED
      BY <2>0, <3>1, <3>2, Zenon
  <2>1. CASE UNCHANGED kvars \/ clobbered
    BY <2>1 DEF kvars, KNext
  <2>2. CASE ~clobbered /\ KCheck
    <3>1. CASE TakeVirtio /\ Trapped(pc, 48)
      <4>1. pc = "pick"
        BY <1>1, <2>2, <3>1, RequestTaken
      <4>2. pc \notin Window
        BY <4>1 DEF Window, Slots
      <4>3. QED
        BY <2>0, <3>1, <4>2
    <3>2. CASE TakeTimer /\ Trapped(pc, 27)
      <4>1. pc \in UserCode
        BY <1>1, <2>2, <3>2, SomeCode, CodeApart DEF TakeTimer, TimerDue
      <4>2. pc \notin Window
        BY <4>1 DEF Window, Slots, UserCode
      <4>3. QED
        BY <2>0, <3>2, <4>2
    <3>3. QED
      BY <2>2, <3>1, <3>2 DEF KCheck, NoTrap
  <2>3. CASE ~clobbered /\ User
    <3>1. pc \notin Window
      BY <2>3 DEF User, UserCode, Window, Slots
    <3>2. QED
      BY <2>0, <2>3, <3>1 DEF User, NoTrap
  <2>4. CASE ~clobbered /\ Kernel
    BY <2>4 DEF Kernel, PushRegisters, At, NoTrap, Save, Dispatch, SystemCall, Notify,
                SwitchToScheduler, Schedule, ReturnFromTrap, Return
  <2>5. QED
    BY <2>1, <2>2, <2>3, <2>4 DEF KNext
<1>5. QED
  BY <1>2, <1>3, <1>4

(* An exception is transparent to what it interrupts, across nesting and   *)
(* process switches.                                                       *)
THEOREM TrapsAreTransparent == KSpec => ReturnsToInterrupted
<1>1. KernelInv /\ [KNext]_kvars =>
          [~clobbered /\ Return =>
              LET t == LastOf(traps[cur])
              IN  pc' = t.pc /\ el' = t.el /\ sp' = t.sp]_kvars
  BY StepIs
<1>2. QED
  BY <1>1, KernelCorrect, PTL DEF KSpec, ReturnsToInterrupted

(* The kernel never notifies before it was told of the last completion.    *)
THEOREM SingleRequest == KSpec => OneRequest
<1>1. KernelInv /\ [KNext]_kvars => [Notify => owner = Nobody /\ ~notify]_kvars
  <2>1. SUFFICES ASSUME KernelInv, KNext, Notify PROVE owner = Nobody /\ ~notify
    OBVIOUS
  <2>2. CASE clobbered
    <3>1. UNCHANGED phase
      BY <2>1, <2>2 DEF KNext, kvars, vars
    <3>2. QED
      BY <2>1, <3>1 DEF Notify, StoreNotify, Exec
  <2>3. QED
    BY <2>1, <2>2, StepIs
<1>2. QED
  BY <1>1, KernelCorrect, PTL DEF KSpec, OneRequest

(* Only a UART receive interrupt can arrive while a register is in use.    *)
THEOREM WindowsAreUarts == KSpec => OnlyUartClobbers
<1>1. KernelInv /\ [KNext]_kvars => [clobbered' # clobbered => TakeUart]_kvars
  BY StepIs
<1>2. QED
  BY <1>1, KernelCorrect, PTL DEF KSpec, OnlyUartClobbers

(* The kernel uses the CPU only as module Exceptions lets a guest use it,  *)
(* so what is proved of the steps of that module holds under this kernel:  *)
(* the types, the bank of stack pointers and the bound on preemption.      *)
THEOREM KernelIsGuest == KSpec => [][Next]_vars
<1>1. KernelInv /\ [KNext]_kvars => [Next]_vars
  <2>1. UNCHANGED kvars => UNCHANGED vars
    BY DEF kvars
  <2>2. QED
    BY <2>1, GuestStep
<1>2. QED
  BY <1>1, KernelCorrect, PTL DEF KSpec

(* User code, which UserRunsUnmasked says is never masked, is interrupted  *)
(* before the timer period is over.                                        *)
THEOREM KernelPreempts == KSpec => []PreemptedInTime
<1>1. KInit => QuietBehindTick
  <2>1. KInit => TypeOK /\ quiet = 0 /\ tick = 0
    BY KernelInit DEF KernelInv, BasicInv, KTypeOK, KInit
  <2>2. QED
    BY <2>1 DEF QuietBehindTick
<1>2. QuietBehindTick /\ [Next]_vars => QuietBehindTick'
  <2> SUFFICES ASSUME QuietBehindTick, [Next]_vars PROVE quiet' <= tick'
    BY StepTyped DEF QuietBehindTick
  <2>1. CASE CheckInterrupt
    BY <2>1, CheckKeepsQuiet
  <2>2. CASE Instruction \/ Halt
    BY <2>2, InstructionKeepsQuiet DEF QuietBehindTick
  <2>3. CASE UNCHANGED vars
    BY <2>3 DEF vars, QuietBehindTick
  <2> QED
    BY <2>1, <2>2, <2>3 DEF Next
<1>3. QuietBehindTick => PreemptedInTime
  BY TimerAssumption DEF QuietBehindTick, TypeOK, PreemptedInTime
<1>4. QED
  BY <1>1, <1>2, <1>3, KernelIsGuest, PTL DEF KSpec
=============================================================================
