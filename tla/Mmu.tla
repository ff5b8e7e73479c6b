--------------------------------- MODULE Mmu ---------------------------------
(***************************************************************************)
(* Address translation (mmu.cc): the walk through tables in guest memory,  *)
(* made anew for every fetch, load and store, and the guest kernel that    *)
(* builds the tables, one 64-bit store at a time, while it runs on them.   *)
(*                                                                         *)
(* A virtual address is its bit 63 and its three indices; the page offset  *)
(* passes through unchanged and is left out.  Physical addresses are frame *)
(* numbers.  The walk that begins at level 0 is not here: it keeps 16 bits *)
(* of the number of the next table's frame, and RAM begins at 0x40000.     *)
(***************************************************************************)
EXTENDS Integers, FiniteSets

CONSTANTS
    N,         \* entries of a table, 512
    Pool,      \* frames the kernel makes tables of
    Pages,     \* frames it maps
    Procs,
    Kernel,    \* the space behind TTBR1_EL1
    UserSizes, KernelSizes,  \* sizes of the two halves, in bits, that TCR_EL1
                             \* is set to
    NoFrame

ASSUME MmuAssumption ==
    /\ N \in Nat \ {0, 1}
    /\ Pages \subseteq Nat /\ Pool \cap Pages = {} /\ NoFrame \notin Pages \cup {0}
    /\ Kernel \notin Procs /\ NoFrame \notin Pool
    /\ (UserSizes \cup KernelSizes) \subseteq 12..38

Spaces == Procs \cup {Kernel}
Index == 0..(N - 1)
VA == [hi : BOOLEAN, i1 : Index, i2 : Index, i3 : Index]
Levels == 1..3

(* What translates to physical address 1.                                  *)
Fault == -1

Entry == [valid : BOOLEAN, table : BOOLEAN, frame : {0} \cup Pages \cup Pool]
Zero == [valid |-> FALSE, table |-> FALSE, frame |-> 0]

VARIABLES
    mem,        \* the table frames
    t0, t1,     \* 64 - T0SZ and 64 - T1SZ, cut to the maximum size
    ttbr0_el1, ttbr1_el1,
    enabled,    \* SCTLR_EL1 bit 0
    root,       \* root[s]: the kernel's note of the first table of s
    free,       \* table frames not in use
    space       \* history: space[s], where the kernel wants each address

vars == <<mem, t0, t1, ttbr0_el1, ttbr1_el1, enabled, root, free, space>>

-----------------------------------------------------------------------------
(* mmu.cc.                                                                 *)
L3IgnoringValid(va, base) == mem[base][va.i3].frame

L3(va, base) ==
    LET entry == mem[base][va.i3]
    IN  IF entry.valid THEN entry.frame ELSE Fault

L2BlockWithoutOffset(va, frame) == frame - (frame % N)

L2Block(va, frame) == frame - (frame % N) + va.i3

L2(va, base) ==
    LET entry == mem[base][va.i2]
    IN  IF ~entry.valid THEN Fault
        ELSE IF entry.table THEN L3(va, entry.frame)
        ELSE L2Block(va, entry.frame)

L1Block(va, frame) == frame - (frame % (N * N)) + va.i2 * N + va.i3

L1(va, base) ==
    LET entry == mem[base][va.i1]
    IN  IF ~entry.valid THEN Fault
        ELSE IF entry.table THEN L2(va, entry.frame)
        ELSE L1Block(va, entry.frame)

StartLevel(size) == IF size >= 30 THEN 1 ELSE IF size >= 21 THEN 2 ELSE 3

TtbrLow(va) == ttbr0_el1
Ttbr(va) == IF va.hi THEN ttbr1_el1 ELSE ttbr0_el1

Translate(va) ==
    LET level == StartLevel(IF va.hi THEN t1 ELSE t0)
    IN  IF ~enabled THEN (va.i1 * N + va.i2) * N + va.i3
        ELSE IF level = 1 THEN L1(va, Ttbr(va))
        ELSE IF level = 2 THEN L2(va, Ttbr(va))
        ELSE L3(va, Ttbr(va))

-----------------------------------------------------------------------------
(* The kernel.                                                             *)
LevelOf(s) == StartLevel(IF s = Kernel THEN t1 ELSE t0)

(* The addresses of space s: indices above the first level are 0.          *)
AddressesOf(s) ==
    {va \in VA : /\ va.hi = (s = Kernel)
                 /\ LevelOf(s) > 1 => va.i1 = 0
                 /\ LevelOf(s) > 2 => va.i2 = 0}

IndexAt(va, level) == <<va.i1, va.i2, va.i3>>[level]

(* The table of space s that holds the entry of va at a level, if the      *)
(* tables above lead to one.                                               *)
Below(base, va, level) ==
    IF base = NoFrame THEN NoFrame
    ELSE LET entry == mem[base][IndexAt(va, level)]
         IN  IF entry.valid /\ entry.table THEN entry.frame ELSE NoFrame

TableAt(s, va, level) ==
    LET at1 == root[s]
        at2 == IF LevelOf(s) = 1 THEN Below(at1, va, 1) ELSE root[s]
        at3 == IF LevelOf(s) <= 2 THEN Below(at2, va, 2) ELSE root[s]
    IN  IF level < LevelOf(s) THEN NoFrame ELSE <<at1, at2, at3>>[level]

TablesOf(s) ==
    {TableAt(s, va, level) : va \in AddressesOf(s), level \in Levels} \ {NoFrame}

(* One address for each entry of a level.                                  *)
FirstOf(va, level) == \A k \in (level + 1)..3 : IndexAt(va, k) = 0

Put(table, index, entry) == mem' = [mem EXCEPT ![table][index] = entry]

Unused(s, va, level) ==
    /\ TableAt(s, va, level) # NoFrame
    /\ ~mem[TableAt(s, va, level)][IndexAt(va, level)].valid

Init ==
    /\ mem = [f \in Pool |-> [i \in Index |-> Zero]]
    /\ t0 \in UserSizes /\ t1 \in KernelSizes
    /\ enabled = FALSE
    /\ \E f \in Pool : root = [s \in Spaces |-> IF s = Kernel THEN f ELSE NoFrame]
    /\ ttbr1_el1 = root[Kernel] /\ ttbr0_el1 = root[Kernel]
    /\ free = Pool \ {root[Kernel]}
    /\ space = [s \in Spaces |-> [va \in AddressesOf(s) |-> Fault]]

registers == <<t0, t1, ttbr0_el1, ttbr1_el1, enabled>>

(* A free frame, which is zero, for the first table of a process.          *)
NewSpace(p) ==
    /\ root[p] = NoFrame
    /\ \E f \in free :
          /\ root' = [root EXCEPT ![p] = f]
          /\ free' = free \ {f}
    /\ UNCHANGED <<registers, mem, space>>

(* The store of a table entry that leads to a free frame, which is zero.   *)
AddTable(s, va, level) ==
    /\ FirstOf(va, level) /\ Unused(s, va, level)
    /\ \E f \in free :
          /\ free' = free \ {f}
          /\ Put(TableAt(s, va, level), IndexAt(va, level),
                 [valid |-> TRUE, table |-> TRUE, frame |-> f])
    /\ UNCHANGED <<registers, root, space>>

(* The store of a page entry.                                              *)
MapPage(s, va, page) ==
    /\ Unused(s, va, 3)
    /\ Put(TableAt(s, va, 3), va.i3, [valid |-> TRUE, table |-> TRUE, frame |-> page])
    /\ space' = [space EXCEPT ![s][va] = page]
    /\ UNCHANGED <<registers, root, free>>

(* A block: the addresses that share the indices down to its level, mapped *)
(* to consecutive frames.                                                  *)
SameBlock(s, va, level) ==
    {a \in AddressesOf(s) : \A k \in 1..level : IndexAt(a, k) = IndexAt(va, k)}

MapBlock(s, va, level, page) ==
    /\ FirstOf(va, level) /\ Unused(s, va, level)
    /\ page % (IF level = 1 THEN N * N ELSE N) = 0
    /\ Put(TableAt(s, va, level), IndexAt(va, level),
           [valid |-> TRUE, table |-> FALSE, frame |-> page])
    /\ space' = [space EXCEPT ![s] = [a \in AddressesOf(s) |->
           IF a \in SameBlock(s, va, level)
           THEN page + (IF level = 1 THEN a.i2 * N ELSE 0) + a.i3
           ELSE space[s][a]]]
    /\ UNCHANGED <<registers, root, free>>

Unmap(s, va) ==
    /\ TableAt(s, va, 3) # NoFrame
    /\ space[s][va] # Fault
    /\ Put(TableAt(s, va, 3), va.i3, Zero)
    /\ space' = [space EXCEPT ![s][va] = Fault]
    /\ UNCHANGED <<registers, root, free>>

(* MSR TTBR0_EL1 on a process switch.                                      *)
SwitchToAny(p) ==
    /\ ttbr0_el1' = root[p]
    /\ UNCHANGED <<mem, t0, t1, ttbr1_el1, enabled, root, free, space>>

Switch(p) ==
    /\ root[p] # NoFrame
    /\ ttbr0_el1' = root[p]
    /\ UNCHANGED <<mem, t0, t1, ttbr1_el1, enabled, root, free, space>>

(* The tables of a process that ended, not of the one whose tables are in  *)
(* use, go back to the pool.  They are cleared here and not when they are  *)
(* taken again: no walk reaches them in between.                           *)
Exit(p) ==
    /\ root[p] \notin {NoFrame, ttbr0_el1}
    /\ free' = free \cup TablesOf(p)
    /\ root' = [root EXCEPT ![p] = NoFrame]
    /\ space' = [space EXCEPT ![p] = [va \in AddressesOf(p) |-> Fault]]
    /\ mem' = [f \in Pool |-> IF f \in TablesOf(p) THEN [i \in Index |-> Zero] ELSE mem[f]]
    /\ UNCHANGED registers

(* MSR SCTLR_EL1.                                                          *)
Enable ==
    /\ ~enabled
    /\ enabled' = TRUE
    /\ UNCHANGED <<mem, t0, t1, ttbr0_el1, ttbr1_el1, root, free, space>>

Next ==
    \/ Enable
    \/ \E p \in Procs : NewSpace(p) \/ Switch(p) \/ Exit(p)
    \/ \E s \in Spaces : \E va \in AddressesOf(s) :
          \/ Unmap(s, va)
          \/ \E level \in {1, 2} : AddTable(s, va, level)
          \/ \E page \in Pages : MapPage(s, va, page)
    \/ \E va \in AddressesOf(Kernel), level \in {1, 2}, page \in Pages :
          MapBlock(Kernel, va, level, page)

Spec == Init /\ [][Next]_vars

-----------------------------------------------------------------------------
TypeOK ==
    /\ mem \in [Pool -> [Index -> Entry]]
    /\ t0 \in UserSizes /\ t1 \in KernelSizes
    /\ {ttbr0_el1, ttbr1_el1} \subseteq Pool
    /\ enabled \in BOOLEAN
    /\ root \in [Spaces -> Pool \cup {NoFrame}]
    /\ free \subseteq Pool

(* Every address of the process whose tables TTBR0_EL1 points to           *)
(* translates to the frame the kernel mapped it to, or to none, whatever   *)
(* the other processes did and at every moment between two stores.         *)
ProcessTranslation ==
    \A p \in Procs : enabled /\ root[p] = ttbr0_el1 =>
        \A va \in AddressesOf(p) : Translate(va) = space[p][va]

(* So does every kernel address, whichever process is switched in.         *)
KernelTranslation ==
    enabled => \A va \in AddressesOf(Kernel) : Translate(va) = space[Kernel][va]
=============================================================================
