--------------------------- MODULE DataProcessing ---------------------------
(***************************************************************************)
(* The data processing instructions that set no condition flag (module     *)
(* AluFlags has the others) and the pc-relative ones: what each writes to  *)
(* its destination, for any contents of the registers it reads.            *)
(*                                                                         *)
(* last is the last instruction: its form, its fields, the registers n, m  *)
(* and d it read (d is the old destination, or Ra) and what it wrote.  An  *)
(* instruction the emulator exits on is not in the model.                  *)
(***************************************************************************)
EXTENDS Words, FiniteSetsExt

CONSTANTS
    Registers,  \* contents of the registers that are read
    ImmBits,    \* width of the immediates of ADR and the branches
    PageBits    \* 12

ASSUME RegistersAssumption ==
    /\ Registers \subseteq SUBSET Bits
    /\ {ImmBits, PageBits} \subseteq Nat \ {0}
    /\ ImmBits + PageBits <= Dword /\ ImmBits + 2 <= Dword

VARIABLE last

-----------------------------------------------------------------------------
(* decode_bit_masks: the size e of an element, s + 1 ones rotated right by *)
(* r in it, repeated.                                                      *)
ElementSize(n, imms) ==
    LET field == n * Dword + (Dword - 1 - imms)
    IN  Power[CHOOSE l \in 0..LogDword : Power[l] <= field /\ field < Power[l + 1]]

DecodeBitMasksLeft(n, imms, immr) ==
    LET e    == ElementSize(n, imms)
        r    == immr % e
        ones == 0..(imms % e)
        mask == IF r = 0 THEN ones
                ELSE (Shl(ones, r) \cup Shr(ones, e - r)) \cap 0..(e - 1)
    IN  {i \in Bits : i % e \in mask}

DecodeBitMasks(n, imms, immr) ==
    LET e    == ElementSize(n, imms)
        r    == immr % e
        ones == 0..(imms % e)
        mask == IF r = 0 THEN ones
                ELSE (Shr(ones, r) \cup Shl(ones, e - r)) \cap 0..(e - 1)
    IN  {i \in Bits : i % e \in mask}

Combine(opc, a, b) ==
    CASE opc \in {"and", "ands"} -> a \cap b
      [] opc = "orr" -> a \cup b
      [] opc = "eor" -> (a \ b) \cup (b \ a)

Execute(op, sf, arg, n, m, d, out) ==
    last' = [op |-> op, sf |-> sf, arg |-> arg, n |-> n, m |-> m, d |-> d,
             out |-> out]

-----------------------------------------------------------------------------
(* decode_logical_imm.  N of a W form looks at bit 31, Z at all bits.      *)
LogicalImm(opc, sf, n, imms, immr, a) ==
    LET result == Combine(opc, a, DecodeBitMasks(n, imms, immr))
    IN  Execute("LogicalImm", sf,
            [opc |-> opc, n |-> n, imms |-> imms, immr |-> immr,
             N |-> (IF sf THEN Dword - 1 ELSE Half32 - 1) \in result,
             Z |-> result = {}],
            a, {}, {}, Cut(sf, result))

(* decode_move_wide_imm.  MOVK of a W register keeps its upper half.       *)
MoveWide(opc, sf, hw, imm, d) ==
    LET shifted == Shl(imm, hw * Piece)
        kept    == {i \in d : i \notin (hw * Piece)..(hw * Piece + Piece - 1)}
    IN  Execute("MoveWide", sf, [opc |-> opc, hw |-> hw, imm |-> imm], {}, {}, d,
            CASE opc = "movn" -> Cut(sf, Negate(shifted))
              [] opc = "movz" -> Cut(sf, shifted)
              [] opc = "movk" -> kept \cup shifted)

(* decode_bitfield: the field is held in a uint32_t.                       *)
FieldLength(immr, imms) == IF imms >= immr THEN imms - immr + 1 ELSE imms + 1
FieldTo(sf, immr, imms) ==
    IF imms >= immr THEN 0 ELSE (IF sf THEN Dword ELSE Half32) - immr

Field(sf, immr, imms, n) ==
    LET from == IF imms >= immr THEN immr ELSE 0
        bits == {i \in Shr(n, from) : i < FieldLength(immr, imms)}
    IN  Shl(bits, FieldTo(sf, immr, imms)) \cap Lower

BitfieldResult(opc, sf, immr, imms, n, d) ==
    LET imm == Field(sf, immr, imms, n)
        to  == FieldTo(sf, immr, imms)
        len == FieldLength(immr, imms)
    IN  CASE opc = "sbfm" -> SignedExtend(imm, to + len - 1)
          [] opc = "ubfm" -> imm
          [] opc = "bfm" -> imm \cup {i \in d : i < to + len}

(* The shift 1 << to is on an int: not defined, and not modelled, for BFM  *)
(* with to at its sign bit or above.                                       *)
Bitfield(opc, sf, immr, imms, n, d) ==
    /\ opc = "bfm" => FieldTo(sf, immr, imms) < Half32 - 1
    /\ Execute("Bitfield", sf, [opc |-> opc, immr |-> immr, imms |-> imms],
               n, {}, d, BitfieldResult(opc, sf, immr, imms, n, d))

-----------------------------------------------------------------------------
(* decode_logical_shifted_reg.  The second operand is shifted with 64      *)
(* bits.  ORR with register 31 and no shift is MOV, and copies 64 bits;    *)
(* AND does not cut its result; ANDS takes N from bit 63.  Other forms,    *)
(* EOR among them, exit.                                                   *)
LogicalShifted(opc, inv, sf, right, amount, zr, n, m, d) ==
    LET op1    == IF zr THEN {} ELSE n
        moved  == IF right THEN Shr(m, amount) ELSE Shl(m, amount)
        op2    == IF inv THEN Negate(moved) ELSE moved
        result == Combine(opc, op1, op2)
    IN  /\ opc = "ands" => ~inv
        /\ Execute("LogicalShifted", sf,
               [opc |-> opc, inv |-> inv, type |-> IF right THEN 1 ELSE 0,
                amount |-> amount, N |-> Dword - 1 \in result, Z |-> result = {}],
               op1, m, d,
               IF \/ opc = "and"
                  \/ opc = "orr" /\ zr /\ ~right /\ amount = 0
               THEN result
               ELSE IF opc = "orr" /\ ~sf THEN (d \cap Upper) \cup (result \cap Lower)
               ELSE Cut(sf, result))

(* decode_conditional_select; no width.                                    *)
ConditionalSelect(opc, taken, sf, n, m) ==
    Execute("ConditionalSelect", sf, [opc |-> opc, taken |-> taken], n, m, {},
        IF taken THEN n
        ELSE CASE opc = "csel" -> m
               [] opc = "csinc" -> Bitset(Value(m) + 1)
               [] opc = "csinv" -> Negate(m)
               [] opc = "csneg" -> Bitset(Value(Negate(m)) + 1))

(* decode_data_processing_2source: a division by register number 0 gives   *)
(* 0, any other by a register that holds 0 is the host's exception.        *)
TwoSource(opc, sf, rm, n, m) ==
    /\ opc # "lsrv" => rm = 0 \/ m # {}
    /\ Execute("TwoSource", sf, [opc |-> opc, rm |-> rm], n, m, {},
         LET quotient == IF rm = 0 THEN {} ELSE Bitset(Value(n) \div Value(m))
         IN  CASE opc = "udiv" -> Cut(sf, quotient)
               [] opc = "sdiv" ->
                    IF sf THEN quotient
                    ELSE SignedExtend(quotient \cap Lower, Half32 - 1)
               [] opc = "lsrv" ->
                    Shr(n, Value(m) % (IF sf THEN Dword ELSE Half32)))

(* decode_data_processing_3source.                                         *)
ThreeSource(opc, sf, n, m, a) ==
    LET product == Value(n) * Value(m)
    IN  Execute("ThreeSource", sf, [opc |-> opc], n, m, a,
            Cut(sf, IF opc = "madd" THEN Bitset(Value(a) + product)
                    ELSE Bitset((Value(a) - product) % Power[Dword])))

-----------------------------------------------------------------------------
(* add_imm.                                                                *)
AddImm(a, b, sub) ==
    Bitset(Value(a) + (IF sub THEN Value(Negate(b)) + 1 ELSE Value(b)))

(* util::shift_with_type: 0 LSL, 1 LSR, 2 ASR.                             *)
ShiftWithType(a, type, amount) ==
    CASE type = 0 -> Shl(a, amount)
      [] type = 1 -> Shr(a, amount)
      [] type = 2 -> SignedExtend(Shr(a, amount), Dword - 1 - amount)

(* ExtendValue: UXTB, UXTH, UXTW, UXTX, SXTB, SXTH, SXTW, SXTX.            *)
ExtendLength ==
    <<ByteBits, Piece, Half32, Dword, ByteBits, ByteBits, Half32, Dword>>

ExtendValue(a, type, shift) ==
    LET len   == Min({ExtendLength[type + 1], Dword - shift})
        value == Shl({i \in a : i < len}, shift)
    IN  IF type < 4 THEN value ELSE SignExtend(value, len + shift)

AddSubImm(sub, sf, imm, n) ==
    Execute("AddSub", sf, [sub |-> sub, form |-> "imm", type |-> 0, amount |-> 0],
            n, imm, {}, Cut(sf, AddImm(n, imm, sub)))

AddSubShifted(sub, sf, type, amount, n, m) ==
    /\ sf \/ amount < Half32
    /\ Execute("AddSub", sf,
           [sub |-> sub, form |-> "shifted", type |-> type, amount |-> amount],
           n, m, {}, Cut(sf, AddImm(n, ShiftWithType(m, type, amount), sub)))

(* Only the lower half of the register is extended, whatever the type.     *)
AddSubExtended(sub, sf, type, amount, n, m, d) ==
    LET result == AddImm(n, ExtendValue(m \cap Lower, type, amount), sub)
    IN  Execute("AddSub", sf,
            [sub |-> sub, form |-> "extended", type |-> type, amount |-> amount],
            n, m, d,
            IF sf THEN result ELSE (d \cap Upper) \cup (result \cap Lower))

(* decode_pc_rel and the offsets of CBZ and TBZ, whose lengths are that of *)
(* the immediate and two bits; ADR does not extend its immediate.          *)
PcRel(opc, pc, imm) ==
    Execute("PcRel", TRUE, [opc |-> opc, imm |-> imm], pc, {}, {},
        CASE opc = "adr" -> Bitset(Value(pc) + Value(imm))
          [] opc = "adrp" ->
               AddImm({i \in pc : i >= PageBits},
                      SignExtend(Shl(imm, PageBits), ImmBits + PageBits), FALSE)
          [] opc = "cbz" ->
               AddImm(pc, SignExtend(Shl(imm, 2), ImmBits + 2), FALSE)
          [] opc = "tbz" ->
               AddImm(pc, SignedExtend(Shl(imm, 2), ImmBits + 1), FALSE))

-----------------------------------------------------------------------------
None == [op |-> "none"]

DPInit == last = None

(* The next instruction.                                                   *)
Retire == last # None /\ last' = None

Encodings(sf) ==
    {e \in (IF sf THEN 0..1 ELSE {0}) \X (0..(Dword - 1)) :
        /\ e[1] * Dword + (Dword - 1 - e[2]) >= 2
        /\ e[2] % ElementSize(e[1], e[2]) # ElementSize(e[1], e[2]) - 1}

Amounts(sf) == 0..((IF sf THEN Dword ELSE Half32) - 1)

Logical ==
    \E sf \in BOOLEAN, n \in Registers :
        \/ \E opc \in {"and", "orr", "eor", "ands"}, r \in 0..(Dword - 1) :
             \E e \in Encodings(sf) : LogicalImm(opc, sf, e[1], e[2], r, n)
        \/ \E opc \in {"and", "orr", "ands"}, inv, right, zr \in BOOLEAN,
              amount \in Amounts(sf), m \in Registers, d \in {{}, Bits} :
             LogicalShifted(opc, inv, sf, right, amount, zr, n, m, d)

Moves ==
    \E sf \in BOOLEAN, d \in Registers :
        \/ \E opc \in {"movn", "movz", "movk"},
              hw \in (IF sf THEN 0..3 ELSE 0..1), imm \in SUBSET (0..(Piece - 1)) :
             MoveWide(opc, sf, hw, imm, d)
        \/ \E opc \in {"sbfm", "bfm", "ubfm"}, n \in Registers,
              immr, imms \in Amounts(sf) : Bitfield(opc, sf, immr, imms, n, d)
        \/ \E opc \in {"csel", "csinc", "csinv", "csneg"}, taken \in BOOLEAN,
              n \in Registers : ConditionalSelect(opc, taken, sf, n, d)

Arithmetic ==
    \E sf, sub \in BOOLEAN, n, m \in Registers :
        \/ \E opc \in {"udiv", "sdiv", "lsrv"}, rm \in 0..1 :
             TwoSource(opc, sf, rm, n, m)
        \/ \E opc \in {"madd", "msub"}, a \in Registers :
             ThreeSource(opc, sf, n, m, a)
        \/ AddSubImm(sub, sf, m, n)
        \/ \E type \in 0..2, amount \in Amounts(TRUE) :
             AddSubShifted(sub, sf, type, amount, n, m)
        \/ \E type \in 0..7, amount \in 0..2, d \in {{}, Bits} :
             AddSubExtended(sub, sf, type, amount, n, m, d)

PcRelative ==
    \E opc \in {"adr", "adrp", "cbz", "tbz"}, pc \in Registers,
       imm \in SUBSET (0..(ImmBits - 1)) : PcRel(opc, pc, imm)

DPNext ==
    \/ last = None /\ (Logical \/ Moves \/ Arithmetic \/ PcRelative)
    \/ Retire

-----------------------------------------------------------------------------
(* The architecture's results, bit by bit, for X and W alike: size is the  *)
(* width of the form, a and b its operands cut to it.                      *)
Size == IF last.sf THEN Dword ELSE Half32
Numbers == Power[Size]
Num(a) == Value({i \in a : i < Size})
SignedNum(a) == IF Size - 1 \in a THEN Num(a) - Numbers ELSE Num(a)

(* A bit mask immediate: bit i of an element of e is the rotation's.       *)
MaskBit(n, imms, immr, i) ==
    LET e == ElementSize(n, imms)
    IN  (i + immr) % e <= imms % e

(* Bit i of SBFM, BFM or UBFM.                                             *)
BitfieldBit(i) ==
    LET immr == last.arg.immr
        imms == last.arg.imms
        to   == IF imms >= immr THEN 0 ELSE Size - immr
        top  == (imms - immr) % Size
    IN  IF i \in to..top THEN (i + immr) % Size \in last.n
        ELSE CASE last.arg.opc = "ubfm" -> FALSE
               [] last.arg.opc = "bfm" -> i \in last.d
               [] last.arg.opc = "sbfm" -> i > top /\ imms \in last.n

(* Bit i of a register extended to size and shifted left.                  *)
ExtendedBit(i) ==
    LET len  == Min({<<ByteBits, Piece, Half32, Dword>>[(last.arg.type % 4) + 1], Size})
        from == i - last.arg.amount
    IN  \/ from \in 0..(len - 1) /\ from \in last.m
        \/ from >= len /\ last.arg.type >= 4 /\ len - 1 \in last.m

ShiftedBit(i) ==
    LET amount == last.arg.amount
    IN  CASE last.arg.type = 0 -> i - amount \in last.m
          [] last.arg.type = 1 -> i + amount < Size /\ i + amount \in last.m
          [] last.arg.type = 2 -> Min({i + amount, Size - 1}) \in last.m

MovedBit(i) ==
    LET bit == i - last.arg.hw * Piece
    IN  CASE last.arg.opc = "movz" -> bit \in last.arg.imm
          [] last.arg.opc = "movn" -> bit \notin last.arg.imm
          [] last.arg.opc = "movk" ->
               IF bit \in 0..(Piece - 1) THEN bit \in last.arg.imm ELSE i \in last.d

Selected ==
    IF last.arg.taken THEN Num(last.n)
    ELSE CASE last.arg.opc = "csel" -> Num(last.m)
           [] last.arg.opc = "csinc" -> Num(last.m) + 1
           [] last.arg.opc = "csinv" -> -1 - Num(last.m)
           [] last.arg.opc = "csneg" -> -Num(last.m)

Magnitude(v) == IF v < 0 THEN -v ELSE v

SignedQuotient(a, b) ==
    IF (a < 0) = (b < 0) THEN Magnitude(a) \div Magnitude(b)
    ELSE -(Magnitude(a) \div Magnitude(b))

Quotient ==
    IF last.arg.opc = "lsrv" THEN Num(last.n) \div Power[Num(last.m) % Size]
    ELSE IF Num(last.m) = 0 THEN 0
    ELSE IF last.arg.opc = "udiv" THEN Num(last.n) \div Num(last.m)
    ELSE SignedQuotient(SignedNum(last.n), SignedNum(last.m))

Target ==
    LET imm == Value(last.arg.imm)
        offset == IF ImmBits - 1 \in last.arg.imm THEN imm - Power[ImmBits] ELSE imm
        pc == Num(last.n)
    IN  CASE last.arg.opc = "adr" -> pc + offset
          [] last.arg.opc = "adrp" -> (pc - (pc % Power[PageBits])) + offset * Power[PageBits]
          [] last.arg.opc \in {"cbz", "tbz"} -> pc + 4 * offset

OfBits(Bit(_)) == {i \in 0..(Size - 1) : Bit(i)}
OfNumber(v) == Bitset(v % Numbers)
Sum(b) ==
    IF last.arg.sub THEN Num(last.n) - Num(b) ELSE Num(last.n) + Num(b)

Expected ==
    CASE last.op = "LogicalImm" ->
           OfBits(LAMBDA i : i \in Combine(last.arg.opc, last.n,
               OfBits(LAMBDA j : MaskBit(last.arg.n, last.arg.imms, last.arg.immr, j))))
      [] last.op = "LogicalShifted" ->
           OfBits(LAMBDA i : i \in Combine(last.arg.opc, last.n,
               OfBits(LAMBDA j : ShiftedBit(j) # last.arg.inv)))
      [] last.op = "MoveWide" -> OfBits(MovedBit)
      [] last.op = "Bitfield" -> OfBits(BitfieldBit)
      [] last.op = "ConditionalSelect" -> OfNumber(Selected)
      [] last.op = "TwoSource" -> OfNumber(Quotient)
      [] last.op = "ThreeSource" ->
           OfNumber(IF last.arg.opc = "madd"
                    THEN Num(last.d) + Num(last.n) * Num(last.m)
                    ELSE Num(last.d) - Num(last.n) * Num(last.m))
      [] last.op = "AddSub" ->
           OfNumber(Sum(CASE last.arg.form = "imm" -> last.m
                          [] last.arg.form = "shifted" -> OfBits(ShiftedBit)
                          [] last.arg.form = "extended" -> OfBits(ExtendedBit)))
      [] last.op = "PcRel" -> OfNumber(Target)

-----------------------------------------------------------------------------
(* Where the code departs from the architecture.                           *)
Clean(a) == a \subseteq Lower

(* Right shifts and divisions of W forms work on all 64 bits, ASR takes    *)
(* bit 63 for the sign.                                                    *)
WordShiftedRight ==
    /\ ~last.sf
    /\ \/ last.op \in {"LogicalShifted", "AddSub"} /\ last.arg.type = 1 /\ ~Clean(last.m)
       \/ last.op = "AddSub" /\ last.arg.form = "shifted" /\ last.arg.type = 2
          /\ last.arg.amount > 0 /\ ~(last.m \subseteq 0..(Half32 - 2))
       \/ last.op = "TwoSource" /\ ~(Clean(last.n) /\ Clean(last.m))

(* A field or result that needs more than 32 bits is cut; BFM merges the   *)
(* new field with the old one and drops what is above.                     *)
FieldCut ==
    /\ last.op = "Bitfield"
    /\ LET to  == FieldTo(last.sf, last.arg.immr, last.arg.imms)
           top == to + FieldLength(last.arg.immr, last.arg.imms) - 1
       IN  \/ \E i \in to..top : BitfieldBit(i) /\ i \notin Lower
           \/ last.arg.opc = "bfm" /\ \E i \in last.d :
                  i > top \/ (i >= to /\ ~BitfieldBit(i))

(* A divisor is zero by its number; SDIV is unsigned.                      *)
Division ==
    /\ last.op = "TwoSource" /\ last.arg.opc # "lsrv"
    /\ \/ last.arg.rm = 0 /\ last.m # {}
       \/ last.arg.opc = "sdiv" /\ {SignedNum(last.n), SignedNum(last.m)} \cap Nat
                                     # {SignedNum(last.n), SignedNum(last.m)}

(* SXTH extends 8 bits; UXTX and SXTX see 32.                              *)
Extension ==
    /\ last.op = "AddSub" /\ last.arg.form = "extended"
    /\ \/ last.arg.type = 5
          /\ \E i \in ByteBits..(Piece - 1) : (i \in last.m) # (ByteBits - 1 \in last.m)
       \/ last.sf /\ last.arg.type \in {3, 7} /\ ~Clean(last.m)

BackwardAdr ==
    last.op = "PcRel" /\ last.arg.opc = "adr" /\ ImmBits - 1 \in last.arg.imm

Departs == WordShiftedRight \/ FieldCut \/ Division \/ Extension \/ BackwardAdr

(* Every other instruction computes what the architecture says, a W form   *)
(* in its lower half whatever the upper halves of its operands hold; and   *)
(* TST and ANDS of X registers set N and Z accordingly.                    *)
Agrees ==
    last # None /\ ~Departs =>
        /\ last.out \cap 0..(Size - 1) = Expected
        /\ last.sf /\ last.op \in {"LogicalImm", "LogicalShifted"} =>
               /\ last.arg.N <=> Size - 1 \in Expected
               /\ last.arg.Z <=> Expected = {}

(* W forms whose operands have clear upper halves leave one in their       *)
(* destination, so that the 64-bit reads of W registers (index, divisor,   *)
(* shifted operand) are right in a program of W forms, except MVN, SBFM    *)
(* and SDIV of negative numbers and the selections that compute.           *)
UpperHalfStaysClear ==
    /\ last # None /\ ~last.sf
    /\ Clean(last.n) /\ Clean(last.m) /\ Clean(last.d)
    /\ ~(last.op = "LogicalShifted" /\ last.arg.inv /\ last.n = {})
    /\ last.op # "ConditionalSelect" \/ last.arg.taken \/ last.arg.opc = "csel"
    /\ last.op \in {"Bitfield", "TwoSource"} =>
          last.arg.opc \notin {"sbfm", "sdiv"} \/ Half32 - 1 \notin last.out
    => Clean(last.out)
=============================================================================
