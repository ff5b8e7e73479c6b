---------------------------- MODULE BankedStack -----------------------------
(***************************************************************************)
(* What the guest is promised about stack pointers: each exception level   *)
(* has its own, instructions at a level move only that level's, EL1 may    *)
(* set EL0's, and entering or leaving an exception moves neither.          *)
(***************************************************************************)
CONSTANT Stacks

VARIABLES
    el,     \* the exception level that runs
    stack   \* stack[l] is the stack pointer of level l

vars == <<el, stack>>

TypeOK == el \in {0, 1} /\ stack \in [{0, 1} -> Stacks]

Init == el = 1 /\ stack \in [{0, 1} -> Stacks]

MoveOwn ==
    /\ \E s \in Stacks : stack' = [stack EXCEPT ![el] = s]
    /\ UNCHANGED el

SetEL0 ==
    /\ el = 1
    /\ \E s \in Stacks : stack' = [stack EXCEPT ![0] = s]
    /\ UNCHANGED el

TakeException == el' = 1 /\ UNCHANGED stack

Return == el = 1 /\ el' = 0 /\ UNCHANGED stack

Next == MoveOwn \/ SetEL0 \/ TakeException \/ Return

Spec == Init /\ [][Next]_vars
=============================================================================
