---------------------------- MODULE MCExceptions ----------------------------
(* One user address, one plain kernel address and the four vector slots;   *)
(* a + 4 stays on the same side of bit 63.                                 *)
EXTENDS Exceptions

MCUserAddr == {"user"}
MCKernelAddr == {"kernel"} \cup Slots
MCSucc == [a \in MCUserAddr \cup MCKernelAddr |->
              IF a \in MCUserAddr THEN "user" ELSE "kernel"]
MCVBars == {"table"}
MCVector == [b \in MCVBars |-> [s \in Slots |-> s]]
MCImms == {{"I"}, DaifBits, {}}
=============================================================================
