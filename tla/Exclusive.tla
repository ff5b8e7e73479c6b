------------------------------ MODULE Exclusive ------------------------------
(***************************************************************************)
(* LDXR and STXR (decode_ldst_exclusive, cpu.cc) under the interrupts of   *)
(* check_interrupt.  The emulator has no exclusive monitor: STXR stores    *)
(* and reports success whatever happened since the LDXR.  What makes a     *)
(* lock built of them work is that nothing happens in between.             *)
(*                                                                         *)
(* The contexts are threads, which the timer switches while they run user  *)
(* code, and the activations of the kernel's interrupt handler.  An entry  *)
(* does not mask, so that a handler may be interrupted like what it        *)
(* interrupted: activation n + 1 runs on top of activation n.  All of them *)
(* take one lock of the kernel, which masks interrupts around it.          *)
(***************************************************************************)
EXTENDS Naturals

CONSTANTS
    Threads,
    MaxNested   \* bound: handlers on top of each other

Handlers == 1 .. MaxNested

ASSUME ContextAssumption ==
    MaxNested \in Nat /\ Threads \cap Handlers = {}

Contexts == Threads \cup Handlers

VARIABLES
    word,       \* the lock word in memory
    val,        \* val[c]: the register LDXR loaded
    status,     \* status[c]: the register STXR wrote
    at,         \* at[c]: the instruction c executes next
    masked,     \* daif bit 9
    thread,     \* the thread that runs or is interrupted
    depth,      \* activations of the handler on top of it
    written     \* history: written[c], somebody else stored to the word
                \* since c executed its LDXR

vars == <<word, val, status, at, masked, thread, depth, written>>

running == IF depth = 0 THEN thread ELSE depth

Places == {"user", "mask", "ldxr", "test", "stxr", "check", "critical",
           "stlr", "unmask"}

TypeOK ==
    /\ word \in {0, 1}
    /\ val \in [Contexts -> {0, 1}] /\ status \in [Contexts -> {0, 1}]
    /\ at \in [Contexts -> Places]
    /\ masked \in BOOLEAN
    /\ thread \in Threads /\ depth \in 0 .. MaxNested
    /\ written \in [Contexts -> BOOLEAN]

Init ==
    /\ word = 0
    /\ val = [c \in Contexts |-> 0] /\ status = [c \in Contexts |-> 1]
    /\ at = [c \in Contexts |-> "user"]
    /\ masked = FALSE
    /\ thread \in Threads /\ depth = 0
    /\ written = [c \in Contexts |-> FALSE]

-----------------------------------------------------------------------------
(* check_interrupt, before each instruction.  The timer only interrupts    *)
(* user code; its handler yields to another thread.  The devices interrupt *)
(* kernel code as well, their own handler included.                        *)
InUserCode(c) == c \in Threads /\ at[c] = "user"

UnmaskedAlways == TRUE
Unmasked == ~masked

TimerUngated ==
    /\ depth = 0
    /\ thread' \in Threads \ {thread}
    /\ UNCHANGED <<word, val, status, at, masked, depth, written>>

Timer ==
    /\ Unmasked
    /\ InUserCode(running)
    /\ thread' \in Threads \ {thread}
    /\ UNCHANGED <<word, val, status, at, masked, depth, written>>

Device ==
    /\ Unmasked
    /\ depth < MaxNested
    /\ depth' = depth + 1
    /\ at' = [at EXCEPT ![depth + 1] = "mask"]
    /\ UNCHANGED <<word, val, status, masked, thread, written>>

-----------------------------------------------------------------------------
(* Instructions of the context that runs.                                  *)
Step(from, to) ==
    /\ at[running] = from
    /\ at' = [at EXCEPT ![running] = to]
    /\ UNCHANGED <<thread, depth>>

Enter ==
    /\ depth = 0
    /\ Step("user", "mask")
    /\ UNCHANGED <<word, val, status, masked, written>>

Mask ==
    /\ Step("mask", "ldxr")
    /\ masked' = TRUE
    /\ UNCHANGED <<word, val, status, written>>

LDXR ==
    /\ Step("ldxr", "test")
    /\ val' = [val EXCEPT ![running] = word]
    /\ written' = [written EXCEPT ![running] = FALSE]
    /\ UNCHANGED <<word, status, masked>>

(* CBNZ of the value: somebody holds the lock, read it again.              *)
Test ==
    /\ Step("test", IF val[running] = 0 THEN "stxr" ELSE "ldxr")
    /\ UNCHANGED <<word, val, status, masked, written>>

Written == [c \in Contexts |-> c # running \/ written[c]]

STXR ==
    /\ Step("stxr", "check")
    /\ word' = 1
    /\ status' = [status EXCEPT ![running] = 0]
    /\ written' = Written
    /\ UNCHANGED <<val, masked>>

(* CBNZ of the status: the store failed, begin again.                      *)
Check ==
    /\ Step("check", IF status[running] = 0 THEN "critical" ELSE "ldxr")
    /\ UNCHANGED <<word, val, status, masked, written>>

Leave ==
    /\ Step("critical", "stlr")
    /\ UNCHANGED <<word, val, status, masked, written>>

STLRLost ==
    /\ Step("stlr", "unmask")
    /\ UNCHANGED <<word, val, status, masked, written>>

(* decode_ldst_ordered.                                                    *)
STLR ==
    /\ Step("stlr", "unmask")
    /\ word' = 0
    /\ written' = Written
    /\ UNCHANGED <<val, status, masked>>

Unmask ==
    /\ Step("unmask", "user")
    /\ masked' = FALSE
    /\ UNCHANGED <<word, val, status, written>>

(* ERET of the handler.                                                    *)
HandlerReturns ==
    /\ depth > 0
    /\ at[depth] = "user"
    /\ depth' = depth - 1
    /\ UNCHANGED <<word, val, status, at, masked, thread, written>>

Instruction ==
    Enter \/ Mask \/ LDXR \/ Test \/ STXR \/ Check \/ Leave \/ STLR \/ Unmask
    \/ HandlerReturns

Next == Timer \/ Device \/ Instruction

(* execute_loop executes an instruction in every iteration.                *)
Spec == Init /\ [][Next]_vars /\ WF_vars(Instruction)

-----------------------------------------------------------------------------
Inside(c) == at[c] \in {"critical", "stlr"}

(* One context at a time holds the kernel's lock, whatever interrupts      *)
(* arrive between the LDXR and the STXR that take it.                      *)
MutualExclusion ==
    \A c, d \in Contexts : Inside(c) /\ Inside(d) => c = d

(* The store is exclusive although STXR always reports success: nobody     *)
(* else stored since the LDXR of the context that is told so.              *)
ExclusiveStore ==
    [][STXR /\ status'[running] = 0 => ~written[running]]_vars

(* No handler waits for what it interrupted: whoever spins for the lock    *)
(* gets it, and the handlers return to the thread unless the devices       *)
(* interrupt forever, which nothing in check_interrupt keeps them from.    *)
HandlerEnds ==
    /\ \A h \in Handlers : at[h] = "ldxr" ~> at[h] = "critical"
    /\ []<><<Device>>_vars \/ (depth > 0 ~> depth = 0)
=============================================================================
