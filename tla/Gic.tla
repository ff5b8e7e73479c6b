--------------------------------- MODULE Gic ---------------------------------
(***************************************************************************)
(* The registers of the interrupt controller (gic.cc).  They are storage   *)
(* only: no interrupt goes through them, the cpu asks UART and virtio      *)
(* itself.  A register is its name and its offset from the first of that   *)
(* name; its value is its four bytes.  The size of an access is not passed *)
(* on: a store of one byte stores the low four of the cpu's register.      *)
(***************************************************************************)
EXTENDS Integers

CONSTANTS
    GicRegisters,   \* [name, offset], the registers a driver uses
    GicValues       \* values it stores, of four bytes

Banks == {"GICD_IGROUPR", "GICD_ISENABLER", "GICD_ICPENDR"}
Ignored == {"GICD_ITARGETSR", "unknown"}

ASSUME GicAssumption ==
    /\ \A r \in GicRegisters :
          r.offset \in 0..(CASE r.name \in Banks -> 127
                             [] r.name = "GICD_IPRIORITYR" -> 1023
                             [] r.name = "GICR_IPRIORITYR" -> 31
                             [] OTHER -> 0)
    /\ GicValues \subseteq [0..3 -> 0..255]

VARIABLES
    gicd,      \* the bytes of the object's fields
    written    \* history: the value last stored to a register, or Nothing
               \* once one that shares its field was stored to

(* The byte of a field that holds byte k of a register.  One word for 32   *)
(* bytes of a bank; the priorities' index is an uint8_t.                   *)
CellCopied(r, k) ==
    CASE r.name \in Banks ->
           [name |-> "GICD_ISENABLER", index |-> r.offset \div 32, byte |-> k]
      [] r.name = "GICD_IPRIORITYR" ->
           [name |-> r.name, index |-> (r.offset % 256) + k, byte |-> 0]
      [] r.name = "GICR_IPRIORITYR" ->
           [name |-> r.name, index |-> r.offset \div 4, byte |-> k]
      [] OTHER -> [name |-> r.name, index |-> 0, byte |-> k]

Cell(r, k) ==
    CASE r.name \in Banks -> [name |-> r.name, index |-> r.offset \div 32, byte |-> k]
      [] r.name = "GICD_IPRIORITYR" ->
           [name |-> r.name, index |-> (r.offset % 256) + k, byte |-> 0]
      [] r.name = "GICR_IPRIORITYR" ->
           [name |-> r.name, index |-> r.offset \div 4, byte |-> k]
      [] OTHER -> [name |-> r.name, index |-> 0, byte |-> k]

Cells == {Cell(r, k) : r \in {q \in GicRegisters : q.name \notin Ignored}, k \in 0..3}

GicLoad(r) ==
    [k \in 0..3 |-> IF r.name \in Ignored THEN 0 ELSE gicd[Cell(r, k)]]

(* Two registers the fields of which are the same, by the interrupts they  *)
(* are about.                                                              *)
Shares(r, q) ==
    r.name = q.name /\
        CASE r.name \in Banks -> r.offset \div 32 = q.offset \div 32
          [] r.name = "GICD_IPRIORITYR" ->
               LET apart == (r.offset % 256) - (q.offset % 256) IN apart \in -3..3
          [] r.name = "GICR_IPRIORITYR" -> r.offset \div 4 = q.offset \div 4
          [] OTHER -> TRUE

Nothing == <<>>

(* Four of the fields have no initializer.                                 *)
Uninitialized == {"GICD_CTLR", "GICR_CTLR", "GICR_IGROUPR0", "GICR_IGRPMODR0"}
Reset(name) ==
    CASE name = "GICD_TYPER" -> [k \in 0..3 |-> <<7, 0, 120, 3>>[k + 1]]
      [] name = "GICR_WAKER" -> [k \in 0..3 |-> IF k = 0 THEN 2 ELSE 0]
      [] OTHER -> [k \in 0..3 |-> 0]

GicInit ==
    /\ \E v \in GicValues :
          gicd = [c \in Cells |->
              IF c.name \in Uninitialized THEN v[c.byte] ELSE Reset(c.name)[c.byte]]
    /\ written = [r \in GicRegisters |-> Nothing]

GicStore(r, value) ==
    /\ gicd' = [c \in Cells |->
           IF r.name \notin Ignored /\ \E k \in 0..3 : Cell(r, k) = c
           THEN value[CHOOSE k \in 0..3 : Cell(r, k) = c] ELSE gicd[c]]
    /\ written' = [q \in GicRegisters |->
           IF r.name \in Ignored THEN written[q]
           ELSE IF q = r THEN value
           ELSE IF Shares(q, r) THEN Nothing ELSE written[q]]

GicNext == \E r \in GicRegisters, value \in GicValues : GicStore(r, value)

-----------------------------------------------------------------------------
(* A register reads as what was last stored to it, whatever the driver     *)
(* stored elsewhere since, but for registers of the same bank within 32    *)
(* bytes and priorities of interrupts whose numbers are 256 apart or whose *)
(* words overlap; a register the object does not have reads as zero.       *)
ReadsBack ==
    \A r \in GicRegisters :
        /\ r.name \in Ignored => GicLoad(r) = [k \in 0..3 |-> 0]
        /\ written[r] # Nothing => GicLoad(r) = written[r]
=============================================================================
