----------------------------- MODULE UartStream -----------------------------
(***************************************************************************)
(* What the console promises: the characters typed reach the guest's       *)
(* driver in the order they were typed, each of them once.                 *)
(***************************************************************************)
EXTENDS Sequences

CONSTANT Lines

VARIABLES
    wire,  \* typed, not yet received
    got    \* received by the driver

vars == <<wire, got>>

Init == wire = <<>> /\ got = <<>>

Type(line) == wire' = wire \o line /\ UNCHANGED got

Receive ==
    /\ wire # <<>>
    /\ got' = Append(got, Head(wire))
    /\ wire' = Tail(wire)

Next == Receive \/ \E line \in Lines : Type(line)

Step == [Next]_vars

Spec == Init /\ [][Next]_vars
=============================================================================
