--------------------------- MODULE MCKernelTraps ----------------------------
(* Addresses are the places of the guest program, the vectors are places   *)
(* of their own, and Succ is the fall-through of the straight-line parts.  *)
EXTENDS KernelTraps, TLC

MCVBars == {"table"}
MCVector == [b \in MCVBars |-> [s \in Slots |-> s]]
MCImms == {DaifBits, {"D", "I"}, {"I"}}
MCStacks == {KernelStack(c) : c \in Contexts} \cup {UserStack(p) : p \in Procs}

FallThrough ==
    "lock" :> "notify" @@ "notify" :> "sleep" @@ "sleep" :> "sched" @@
    "unlock" :> "restore" @@ "yield" :> "sched" @@ "sched" :> "pick" @@
    "pick" :> "resume" @@ "restore" :> "restore_spsr" @@
    "restore_spsr" :> "restore_sp" @@ "restore_sp" :> "eret" @@
    "u0" :> "u1" @@ "u1" :> "u0"

MCSucc == [a \in UserCode \cup KernelCode |->
              IF a \in DOMAIN FallThrough THEN FallThrough[a] ELSE a]
=============================================================================
