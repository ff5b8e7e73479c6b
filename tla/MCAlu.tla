-------------------------------- MODULE MCAlu -------------------------------
(* Instructions that set flags, the other data processing instructions,    *)
(* loads and stores, and the registers of the interrupt controller share   *)
(* no state here: one of the machines runs while the others are in an      *)
(* initial state.  Words have eight bits, and the patterns differ in       *)
(* signs, in both halves and at the borders of their parts.                *)
EXTENDS MCAluFlags, DataProcessing, LoadStore, Gic

MCRegisters == {{}, {0}, {1, 3}, {7}, {0, 1, 2}, {4, 6}, {0, 2, 3, 7}, Bits}

MCMemories == {[b \in Mapping |-> IF b % 3 = r THEN {} ELSE {0}] : r \in 0..1}
MCData == {{}, {7}, {0, 2, 3, 4}, Bits}
MCOffsets ==
    {{}, {0}, {1}, {3}, {0, 1, 2, 3}, {1, 2, 3}, {5}, {2, 3, 4, 5, 6, 7}, Bits}

(* One in each window, the borders of memory, and one to go round from.    *)
MCBases == {16, 36, 44, 64, 67, 72, 200}

(* Registers that share a field and registers that do not.                 *)
MCGicRegisters ==
    [name : {"GICD_ISENABLER"}, offset : {0, 4, 32}] \cup
    [name : {"GICD_IPRIORITYR"}, offset : {2, 4, 256}] \cup
    [name : {"GICR_IPRIORITYR"}, offset : {4}] \cup
    [name : {"GICD_ICPENDR", "GICR_CTLR", "GICD_ITARGETSR"}, offset : {0}]
MCGicValues == {[k \in 0..3 |-> k], [k \in 0..3 |-> 255]}

FlagsIdle == op = "none" /\ ~nzcv.N /\ ~nzcv.Z /\ ~nzcv.C /\ ~nzcv.V
LoadStoreIdle == access = NoAccess /\ ram = CHOOSE m \in Memories : TRUE
GicIdle ==
    \A r \in GicRegisters :
        /\ written[r] = Nothing
        /\ r.name \in Uninitialized => GicLoad(r) = CHOOSE v \in GicValues : TRUE

MCInit ==
    /\ Init /\ DPInit /\ LSInit /\ GicInit
    /\ Cardinality({k \in 1..3 : ~<<FlagsIdle, LoadStoreIdle, GicIdle>>[k]}) <= 1

MCNext ==
    \/ /\ last = None /\ LoadStoreIdle /\ GicIdle
       /\ Next /\ UNCHANGED <<last, ram, access, gicd, written>>
    \/ /\ FlagsIdle /\ LoadStoreIdle /\ GicIdle
       /\ DPNext /\ UNCHANGED <<vars, ram, access, gicd, written>>
    \/ /\ FlagsIdle /\ last = None /\ GicIdle
       /\ LSNext /\ UNCHANGED <<vars, last, gicd, written>>
    \/ /\ FlagsIdle /\ last = None /\ LoadStoreIdle
       /\ GicNext /\ UNCHANGED <<vars, last, ram, access>>

MCSpec == MCInit /\ [][MCNext]_<<vars, last, ram, access, gicd, written>>
=============================================================================
