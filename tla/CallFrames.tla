----------------------------- MODULE CallFrames -----------------------------
(***************************************************************************)
(* Calls and stack frames as the instructions of cpu.cc make them: BL and  *)
(* BLR set x30, RET jumps to it, STP/LDP and STR/LDR move registers        *)
(* between the stack and the register file and write the address back, and *)
(* an interrupt handler borrows the stack of the code it interrupts.       *)
(*                                                                         *)
(* The program is any sequence of calls a compiler could emit: a function  *)
(* that calls keeps x29 and x30 in a frame, a leaf function does not.  A   *)
(* cell is eight bytes; offsets count cells.  Spec is a program that keeps *)
(* its frames with STP and LDP, as compilers emit it, SingleSpec one that  *)
(* pushes x30 with STR and LDR, as tests/data/adds.s does.                 *)
(***************************************************************************)
EXTENDS Integers, Sequences

CONSTANTS
    Sites,      \* return addresses: the instructions behind a BL
    Resume,     \* the instruction behind the handler's BL
    Frame,      \* cells of a function's frame: x29, x30 and a local
    MaxCalls,   \* open calls (bound)
    Data        \* a value that is neither an address nor a return address

HandlerFrame == 2
Top == MaxCalls * Frame + HandlerFrame
Cells == 0..Top

Code == {"enter", "frame", "locals", "body", "ret"}
HandlerCode == {"irq", "h_save", "h_call", Resume, "h_add", "h_eret"}
Nowhere == "nowhere"

ASSUME FrameAssumption ==
    /\ Frame \in Nat /\ Frame >= 3 /\ MaxCalls \in Nat
    /\ (Sites \cup {Data}) \cap (Code \cup HandlerCode \cup {Nowhere}) = {}
    /\ Resume \notin Code \cup {"irq", "h_save", "h_call", "h_add", "h_eret", Nowhere}

VARIABLES
    fp, lr,   \* xregs[29], xregs[30]
    x31,      \* xregs[31], which is not the stack pointer
    sp,
    mem,      \* the stack
    pc,
    elr,      \* ELR_EL1 while the handler runs, Nowhere otherwise
    calls,    \* history: for each open call where it returns to, x29 and
              \* sp at the call, and whether the callee has its frame
    intr      \* history: the registers at the interrupt

registers == <<fp, lr, x31, sp, mem>>
vars == <<registers, pc, elr, calls, intr>>

Values == Sites \cup Cells \cup {Data, Resume}

(* The stack pointer and the frame pointers stay inside the stack.         *)
TypeOK ==
    /\ fp \in Values /\ lr \in Values
    /\ x31 \in Int
    /\ sp \in Cells
    /\ mem \in [Cells -> Values]
    /\ pc \in Sites \cup Code \cup HandlerCode
    /\ elr \in Sites \cup Code \cup {Nowhere}
    /\ Len(calls) <= MaxCalls

Init ==
    /\ fp = Data /\ lr = Data /\ x31 = 0
    /\ sp = Top
    /\ mem = [c \in Cells |-> Data]
    /\ pc = "body"
    /\ elr = Nowhere
    /\ calls = <<>>
    /\ intr = [pc |-> Nowhere, fp |-> Data, lr |-> Data, sp |-> Top]

LastCall == calls[Len(calls)]
SetFramed(b) == calls' = [calls EXCEPT ![Len(calls)].framed = b]

-----------------------------------------------------------------------------
(* The instructions.                                                       *)
At(places, next) ==
    /\ pc \in places
    /\ pc' = next
    /\ UNCHANGED <<elr, intr>>

Address(mode, offset) == IF mode = "post" THEN sp ELSE sp + offset

WritesBackStores(load, mode) == mode # "offset" /\ ~load
WritesBack(load, mode) == mode # "offset"

MovesFirstTwice(load, address) ==
    IF load
    THEN fp' = mem[address] /\ lr' = mem[address + 1] /\ UNCHANGED mem
    ELSE /\ mem' = [mem EXCEPT ![address] = fp, ![address + 1] = fp]
         /\ UNCHANGED <<fp, lr>>

(* decode_ldst_register_pair of x29, x30 and sp.                           *)
Moves(load, address) ==
    IF load
    THEN fp' = mem[address] /\ lr' = mem[address + 1] /\ UNCHANGED mem
    ELSE /\ mem' = [mem EXCEPT ![address] = fp, ![address + 1] = lr]
         /\ UNCHANGED <<fp, lr>>

Pair(load, mode, offset) ==
    /\ Moves(load, Address(mode, offset))
    /\ sp' = IF WritesBack(load, mode) THEN sp + offset ELSE sp
    /\ UNCHANGED x31

(* decode_ldst_reg_immediate with base 31: the access uses sp, the         *)
(* write-back goes to xregs[31].                                           *)
WriteBack31(mode, offset) ==
    /\ x31' = IF mode # "offset" THEN x31 + offset ELSE x31
    /\ UNCHANGED <<fp, sp>>

STR(value, mode, offset) ==
    /\ mem' = [mem EXCEPT ![Address(mode, offset)] = value]
    /\ WriteBack31(mode, offset)
    /\ UNCHANGED lr

LDR(mode, offset) ==
    /\ lr' = mem[Address(mode, offset)]
    /\ WriteBack31(mode, offset)
    /\ UNCHANGED mem

(* decode_add_sub_imm with destination 31.                                 *)
AddSp(imm) == sp' = sp + imm /\ UNCHANGED <<fp, lr, x31, mem>>

-----------------------------------------------------------------------------
(* Functions.  BL and BLR differ only in where the target comes from.      *)
Branch(site) ==
    /\ Len(calls) < MaxCalls
    /\ lr' = site
    /\ calls' = Append(calls, [ret |-> site, fp |-> fp, sp |-> sp, framed |-> FALSE])
    /\ UNCHANGED <<fp, x31, sp, mem>>

BL == \E site \in Sites : At(Sites \cup {"body"}, "enter") /\ Branch(site)

Leaf == At({"enter"}, "ret") /\ UNCHANGED <<registers, calls>>

Push == At({"enter"}, "frame") /\ Pair(FALSE, "pre", -Frame) /\ SetFramed(TRUE)

(* MOV x29, sp.                                                            *)
SetFramePointer ==
    /\ At({"frame"}, "locals")
    /\ fp' = sp
    /\ UNCHANGED <<lr, x31, sp, mem, calls>>

(* The local lies above the saved registers.                               *)
StoreLocal ==
    /\ At({"locals"}, "body")
    /\ STR(Data, "offset", 2)
    /\ UNCHANGED calls

Pop ==
    /\ calls # <<>>
    /\ At(Sites \cup {"body"}, "ret")
    /\ Pair(TRUE, "post", Frame)
    /\ SetFramed(FALSE)

RET ==
    /\ pc = "ret"
    /\ pc' = lr
    /\ calls' = SubSeq(calls, 1, Len(calls) - 1)
    /\ UNCHANGED <<registers, elr, intr>>

-----------------------------------------------------------------------------
(* An interrupt of kernel code stays on its stack (cause_interrupt).  The  *)
(* handler keeps x29 and x30 below it, calls a function and returns.       *)
Interrupt ==
    /\ elr = Nowhere
    /\ Len(calls) < MaxCalls
    /\ elr' = pc
    /\ pc' = "irq"
    /\ intr' = [pc |-> pc, fp |-> fp, lr |-> lr, sp |-> sp]
    /\ UNCHANGED <<registers, calls>>

Handler ==
    \/ At({"irq"}, "h_save") /\ AddSp(-HandlerFrame) /\ UNCHANGED calls
    \/ At({"h_save"}, "h_call") /\ Pair(FALSE, "offset", 0) /\ UNCHANGED calls
    \/ At({"h_call"}, "enter") /\ Branch(Resume)
    \/ At({Resume}, "h_add") /\ Pair(TRUE, "offset", 0) /\ UNCHANGED calls
    \/ At({"h_add"}, "h_eret") /\ AddSp(HandlerFrame) /\ UNCHANGED calls

ERET ==
    /\ pc = "h_eret"
    /\ pc' = elr
    /\ elr' = Nowhere
    /\ UNCHANGED <<registers, calls, intr>>

Call == BL \/ Leaf \/ StoreLocal \/ RET

Interruption == Interrupt \/ Handler \/ ERET

Next == Call \/ Push \/ SetFramePointer \/ Pop \/ Interruption

Spec == Init /\ [][Next]_vars

(* The same program with "str lr, [sp, #-16]!" and "ldr lr, [sp], #16".    *)
PushLR == At({"enter"}, "locals") /\ STR(lr, "pre", -Frame) /\ SetFramed(TRUE)

PopLR ==
    /\ calls # <<>>
    /\ At(Sites \cup {"body"}, "ret")
    /\ LDR("post", Frame)
    /\ SetFramed(FALSE)

SingleSpec == Init /\ [][Call \/ PushLR \/ PopLR]_vars

-----------------------------------------------------------------------------
(* The frames of all open calls hold what their functions will restore,    *)
(* however deep the calls behind them and wherever the handler wrote.      *)
SavedLinks ==
    \A k \in 1..Len(calls) :
        LET c == calls[k]
        IN  c.framed => /\ mem[c.sp - Frame] = c.fp
                        /\ mem[c.sp - Frame + 1] = c.ret

(* RET goes to the instruction behind the call with the caller's frame and *)
(* stack pointers (decode_unconditional_branch_reg); tests/data/adds.s     *)
(* relies on it with "push LR" and "pop LR".                               *)
ReturnsToCaller ==
    [][RET => pc' = LastCall.ret /\ fp' = LastCall.fp /\ sp' = LastCall.sp]_vars

(* The handler is transparent: the interrupted instruction goes on with    *)
(* the registers it had, though its call overwrote x30 and used its stack. *)
HandlerTransparent ==
    [][ERET => /\ pc' = intr.pc /\ fp' = intr.fp
               /\ lr' = intr.lr /\ sp' = intr.sp]_vars
=============================================================================
