---------------------------- MODULE KernelTraps -----------------------------
(***************************************************************************)
(* The CPU of module Exceptions under a kernel like the one the emulator   *)
(* is made for (README: xv6): processes run at EL0, trap into the kernel,  *)
(* sleep on the disk and are scheduled.  The kernel is not part of this    *)
(* repository; the model keeps of it what its trap path asks of the CPU:   *)
(* when it saves and restores ELR_EL1, SPSR_EL1 and SP_EL0, which stack it *)
(* is on, when it masks, and that it never masks on exception entry by     *)
(* hand, because the architecture would.                                   *)
(*                                                                         *)
(* An address is a place of the guest program; what the guest does there   *)
(* is a step of Exceptions together with what it does to memory.           *)
(***************************************************************************)
EXTENDS Exceptions, Sequences

CONSTANTS
    Procs,    \* processes
    Sched,    \* the scheduler's own context
    Nobody,   \* no owner
    MaxDepth  \* traps nested on one kernel stack (bound)

Contexts == Procs \cup {Sched}

(* The immediates the kernel masks and unmasks interrupts with: those that *)
(* do so by the architecture, and on this CPU, which tests D, mask too.    *)
Masks == {imm \in Imms : {"D", "I"} \subseteq imm}
Unmasks == {imm \in Imms : "I" \in imm}

UserCode == {"u0", "u1"}

KernelCode == Slots \cup
    {"save_sys", "sys", "lock", "notify", "sleep", "unlock",
     "save_irq", "irq", "yield", "sched", "pick", "resume",
     "restore", "restore_spsr", "restore_sp", "eret"}

KernelStack(c) == <<"kernel", c>>
UserStack(p) == <<"user", p>>

ASSUME KernelAssumption ==
    /\ UserCode \subseteq UserAddr
    /\ KernelCode \subseteq KernelAddr
    /\ Masks # {}
    /\ Sched \notin Procs /\ Nobody \notin Contexts
    /\ MaxDepth \in Nat

(* How the kernel is laid out, which the emulator does not choose: the     *)
(* vectors hold the places named after their slots, each straight-line     *)
(* part falls through to the next instruction, user code stays user code,  *)
(* and every context has stacks.                                           *)
ASSUME ProgramAssumption ==
    /\ \A b \in VBars : \A s \in Slots : Vector[b][s] = s
    /\ \A u \in UserCode : Succ[u] \in UserCode
    /\ Succ["lock"] = "notify" /\ Succ["notify"] = "sleep"
    /\ Succ["sleep"] = "sched" /\ Succ["yield"] = "sched"
    /\ Succ["sched"] = "pick" /\ Succ["pick"] = "resume"
    /\ Succ["unlock"] = "restore" /\ Succ["restore"] = "restore_spsr"
    /\ Succ["restore_spsr"] = "restore_sp" /\ Succ["restore_sp"] = "eret"
    /\ \A c \in Contexts : KernelStack(c) \in Stacks
    /\ \A p \in Procs : UserStack(p) \in Stacks

VARIABLES
    cur,        \* the context the kernel runs in
    state,      \* state[p]: "ready", "running" or "sleeping"
    cont,       \* cont[p]: where p goes on when it is picked
    frames,     \* frames[c]: trap frames on the kernel stack of c
    owner,      \* who waits for the outstanding disk request
    traps,      \* history: traps[c], the contexts exceptions interrupted
    clobbered   \* history: an exception overwrote ELR_EL1 or ICC_IAR1_EL1
                \* before the kernel was done with it

(* A trap frame, and what the history keeps of an open trap.               *)
Frame == [elr : Addr, spsr : 0..7, usp : Stacks]
Trap == [pc : Addr, el : {0, 1}, sp : Stacks, irq : Irqs]

guest == <<cur, state, cont, frames, owner>>
kvars == <<vars, guest, traps, clobbered>>

FrontOf(s) == SubSeq(s, 1, Len(s) - 1)
LastOf(s) == s[Len(s)]

(* After boot: the scheduler runs, masked; each process has the frame its  *)
(* first return to user code pops.                                         *)
KInit ==
    /\ phase = "check"
    /\ pc = "sched"
    /\ sp = KernelStack(Sched)
    /\ el = 1
    /\ daif = DaifBits
    /\ SP_EL0 \in {UserStack(p) : p \in Procs}
    /\ SP_EL1 = KernelStack(Sched)
    /\ ELR_EL1 = "u0"
    /\ SPSR_EL1 \in {0, 5}
    /\ VBAR_EL1 \in VBars
    /\ ICC_IAR1_EL1 \in Irqs
    /\ tick = 0
    /\ notify = FALSE
    /\ quiet = 0
    /\ cur = Sched
    /\ state = [p \in Procs |-> "ready"]
    /\ cont = [p \in Procs |-> "restore"]
    /\ frames = [c \in Contexts |->
           IF c = Sched THEN <<>> ELSE <<[elr |-> "u0", spsr |-> 0, usp |-> UserStack(c)]>>]
    /\ owner = Nobody
    /\ traps = [c \in Contexts |->
           IF c = Sched THEN <<>>
           ELSE <<[pc |-> "u0", el |-> 0, sp |-> UserStack(c), irq |-> 0]>>]
    /\ clobbered = FALSE

-----------------------------------------------------------------------------
(* Where an exception to EL1 destroys something the kernel still needs:    *)
(* the return address not saved yet or just restored, or the number of the *)
(* interrupt being handled.                                                *)
Window ==
    Slots \cup {"save_sys", "save_irq", "irq", "restore_spsr", "restore_sp", "eret"}

(* The exception's effect on the histories.                                *)
Trapped(return, irq) ==
    /\ traps' = [traps EXCEPT ![cur] =
           Append(@, [pc |-> return, el |-> el, sp |-> sp, irq |-> irq])]
    /\ clobbered' = (clobbered \/ pc \in Window)
    /\ UNCHANGED guest

NoTrap == UNCHANGED <<traps, clobbered>>

KCheck ==
    \/ (CheckMasked \/ CheckNothing) /\ NoTrap /\ UNCHANGED guest
    \/ TakeVirtio /\ Trapped(pc, 48)
    \/ TakeTimer /\ Trapped(pc, 27)
    \/ TakeUart /\ Len(frames[cur]) < MaxDepth /\ Trapped(pc, 33)

-----------------------------------------------------------------------------
(* User code: runs and makes system calls.                                 *)
User ==
    /\ pc \in UserCode
    /\ \/ (\E a \in UserCode : Ordinary(a)) /\ NoTrap /\ UNCHANGED guest
       \/ SVC /\ Trapped(Succ[pc], 0)

At(place) == pc = place /\ NoTrap

GoTo(target) == Ordinary(target) /\ UNCHANGED guest

PushRegisters ==
    \/ At("sync_el0") /\ GoTo("save_sys")
    \/ At("irq_el0") /\ GoTo("save_irq")
    \/ At("irq_el1") /\ GoTo("save_irq")

(* MRS of ELR_EL1, SPSR_EL1 and SP_EL0 and the stores to the trap frame.   *)
Save(place, next) ==
    /\ At(place)
    /\ Ordinary(next)
    /\ frames' = [frames EXCEPT ![cur] =
                      Append(@, [elr |-> ELR_EL1, spsr |-> SPSR_EL1,
                                 usp |-> SP_EL0])]
    /\ UNCHANGED <<cur, state, cont, owner>>

(* MRS ICC_IAR1_EL1 and the branch on it.                                  *)
Dispatch ==
    /\ At("irq")
    /\ UNCHANGED <<cur, cont, frames>>
    /\ \/ /\ ICC_IAR1_EL1 = 48
          /\ owner # Nobody
          /\ state' = [state EXCEPT ![owner] = "ready"]
          /\ owner' = Nobody
          /\ Ordinary("restore")
       \/ /\ ICC_IAR1_EL1 = 27
          /\ Ordinary("yield")
          /\ UNCHANGED <<state, owner>>
       \/ /\ ICC_IAR1_EL1 = 33
          /\ Ordinary("restore")
          /\ UNCHANGED <<state, owner>>

(* A system call either returns at once or reads the disk: take the lock,  *)
(* which masks; notify the device; sleep with the lock held.               *)
SystemCall ==
    \/ At("sys") /\ GoTo("restore")
    \/ At("sys") /\ GoTo("lock")
    \/ At("lock") /\ (\E imm \in Masks : DAIFSet(imm)) /\ UNCHANGED guest
    \/ At("unlock") /\ (\E imm \in Unmasks : DAIFClr(imm)) /\ UNCHANGED guest

Notify ==
    /\ At("notify")
    /\ StoreNotify(TRUE)
    /\ owner' = cur
    /\ UNCHANGED <<cur, state, cont, frames>>

SwitchToScheduler(place, newState, next) ==
    /\ At(place)
    /\ MoveSp(KernelStack(Sched))
    /\ state' = [state EXCEPT ![cur] = newState]
    /\ cont' = [cont EXCEPT ![cur] = next]
    /\ cur' = Sched
    /\ UNCHANGED <<frames, owner>>

(* The scheduler unmasks, then runs a ready process or goes round again.   *)
Schedule ==
    \/ At("sched") /\ (\E imm \in Unmasks : DAIFClr(imm)) /\ UNCHANGED guest
    \/ /\ At("pick")
       /\ \A p \in Procs : state[p] # "ready"
       /\ GoTo("sched")
    \/ /\ At("pick")
       /\ \E p \in Procs :
             /\ state[p] = "ready"
             /\ state' = [state EXCEPT ![p] = "running"]
             /\ cur' = p
             /\ MoveSp(KernelStack(p))
       /\ UNCHANGED <<cont, frames, owner>>
    \/ At("resume") /\ GoTo(cont[cur])

(* The way out: ELR_EL1, SPSR_EL1 and SP_EL0 from the frame, then ERET.    *)
ReturnFromTrap ==
    \/ At("restore") /\ MSR_ELR(LastOf(frames[cur]).elr) /\ UNCHANGED guest
    \/ At("restore_spsr") /\ MSR_SPSR(LastOf(frames[cur]).spsr) /\ UNCHANGED guest
    \/ At("restore_sp") /\ MSR_SP_EL0(LastOf(frames[cur]).usp) /\ UNCHANGED guest

Return ==
    /\ pc = "eret"
    /\ ERET
    /\ frames' = [frames EXCEPT ![cur] = FrontOf(@)]
    /\ traps' = [traps EXCEPT ![cur] = FrontOf(@)]
    /\ UNCHANGED <<cur, state, cont, owner, clobbered>>

Kernel ==
    \/ PushRegisters
    \/ Save("save_sys", "sys")
    \/ Save("save_irq", "irq")
    \/ Dispatch
    \/ SystemCall
    \/ Notify
    \/ SwitchToScheduler("sleep", "sleeping", "unlock")
    \/ SwitchToScheduler("yield", "ready", "restore")
    \/ Schedule
    \/ ReturnFromTrap
    \/ Return

(* What the guest does once a register was clobbered is not modelled.      *)
KNext ==
    \/ ~clobbered /\ (KCheck \/ User \/ Kernel)
    \/ clobbered /\ UNCHANGED kvars

(* The loop of execute_loop never waits: the emulator always makes its     *)
(* next step.                                                              *)
KSpec == KInit /\ [][KNext]_kvars /\ WF_kvars(KNext)

-----------------------------------------------------------------------------
(* Registers, processes, trap frames and open traps are of their types,    *)
(* also after a step that clobbers a register.                             *)
KTypeOK ==
    /\ TypeOK
    /\ cur \in Contexts
    /\ state \in [Procs -> {"ready", "running", "sleeping"}]
    /\ cont \in [Procs -> {"restore", "unlock"}]
    /\ frames \in [Contexts -> Seq(Frame)]
    /\ traps \in [Contexts -> Seq(Trap)]
    /\ owner \in Procs \cup {Nobody}
    /\ clobbered \in BOOLEAN

(* An exception is transparent to what it interrupts: ERET goes back to    *)
(* the very pc, level and stack pointer of the innermost open trap of the  *)
(* context that runs, across nesting and process switches, although        *)
(* cause_interrupt does not mask and MSR SPSR_EL1 does nothing.            *)
ReturnsToInterrupted ==
    [][~clobbered /\ Return =>
          LET t == LastOf(traps[cur])
          IN  pc' = t.pc /\ el' = t.el /\ sp' = t.sp]_kvars

(* Entry and return need no mask against the timer, which spares kernel    *)
(* code, nor against the disk, which has nothing pending there: only a     *)
(* UART receive interrupt can overwrite a register still in use.           *)
OnlyUartClobbers == [][clobbered' # clobbered => TakeUart]_kvars

(* disk_access reads one fixed slot of the available ring and there is one *)
(* notify register, so the kernel may never notify again before it was     *)
(* told of the completion; the mask held over the sleep ensures it.        *)
OneRequest == [][Notify => owner = Nobody /\ ~notify]_kvars

(* Kernel code of a context runs on that context's stack.                  *)
OwnStack == el = 1 => sp = KernelStack(cur)

(* The handler dispatches on the interrupt that was taken.                 *)
RightIrq ==
    pc = "irq" /\ ~clobbered => ICC_IAR1_EL1 = LastOf(traps[cur]).irq

(* User code never runs masked, whatever bits the kernel masks with and    *)
(* whether or not it unmasks with the bit the CPU tests: with              *)
(* PreemptedInTime no process can keep the CPU.                            *)
UserUnmasked == el = 0 => "D" \notin daif

(* A process that sleeps on the disk is woken, for as long as the kernel   *)
(* runs on registers that are its own.                                     *)
SleeperWakes ==
    \A p \in Procs : state[p] = "sleeping" ~> state[p] = "ready" \/ clobbered

(* The comment above decode_system_register_move in cpu.cc tells MSR from  *)
(* MRS by bit 21: a kernel that restores SPSR_EL1 from its frame with MSR  *)
(* finds it restored when it executes ERET.                                *)
SpsrRestored ==
    pc = "eret" /\ ~clobbered => SPSR_EL1 = LastOf(frames[cur]).spsr
=============================================================================
