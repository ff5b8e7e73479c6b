------------------------------ MODULE LoadStore -----------------------------
(***************************************************************************)
(* One load or store of a single register (cpu.cc, decode_ldst...), through*)
(* the bus (bus.cc) to guest memory (mem.cc) or a device.  Translation is  *)
(* module Mmu's; pairs and write-back are in module CallFrames, the use of *)
(* the exclusive instructions in module Exclusive.                         *)
(*                                                                         *)
(* A register is a word of module Words, a byte of memory the set of its   *)
(* bits, an address a number.  Memory is mapped from RamBase on, Mapped    *)
(* bytes of it; the bus passes on more.  An access that touches bytes      *)
(* behind the mapping is undefined behaviour: its outcome is "outside" and *)
(* the model says nothing of its result.  A device answers anything.       *)
(***************************************************************************)
EXTENDS Words

CONSTANTS
    GicBase, GicSize, UartBase, UartSize, VirtioBase, VirtioSize,
    RamBase, RamSize,  \* what the bus passes to Mem, 1 GiB
    Mapped,            \* RAM_SIZE, what the loader maps, 128 MiB
    Offset,            \* width of the signed immediates, 9 or 21
    Memories,          \* contents of guest memory
    Data,              \* contents of data registers
    OffsetRegisters,   \* contents of offset registers
    Bases              \* contents of base registers

Mapping == RamBase..(RamBase + Mapped - 1)

ASSUME MapAssumption ==
    /\ {GicBase, GicSize, UartBase, UartSize, VirtioBase, VirtioSize, RamBase,
        RamSize, Mapped, Offset} \subseteq Nat
    /\ GicBase + GicSize <= UartBase /\ UartBase + UartSize < VirtioBase
    /\ VirtioBase + VirtioSize < RamBase /\ Mapped <= RamSize
    /\ Memories \subseteq [Mapping -> SUBSET (0..(ByteBits - 1))]
    /\ Data \cup OffsetRegisters \subseteq SUBSET Bits
    /\ Bases \subseteq 0..(Power[Dword] - 1) /\ Offset \in 1..Dword

VARIABLES
    ram,
    access   \* the instruction, what it did, and memory before it

-----------------------------------------------------------------------------
(* Bus::load and Bus::store; the windows of UART, virtio and RAM include   *)
(* the address behind them.                                                *)
Window(a) ==
    IF a >= GicBase /\ a < GicBase + GicSize THEN "gic"
    ELSE IF a >= UartBase /\ a <= UartBase + UartSize THEN "uart"
    ELSE IF a >= VirtioBase /\ a <= VirtioBase + VirtioSize THEN "virtio"
    ELSE IF a >= RamBase /\ a <= RamBase + RamSize THEN "ram"
    ELSE "unknown"

(* Mem reads or writes that many bytes; load32 looks at p[4] as well and   *)
(* drops it in its result.                                                 *)
Length(size) == Power[size]
LoadTouchesMore(size) == Length(size) + 1
LoadTouches(size) == IF size = 2 THEN 5 ELSE Length(size)

LittleEndian(a, length) ==
    {i \in Bits : /\ i \div ByteBits < length
                  /\ a + (i \div ByteBits) \in Mapping
                  /\ i % ByteBits \in ram[a + (i \div ByteBits)]}

Byte(x, k) == {b \in 0..(ByteBits - 1) : k * ByteBits + b \in x}

Outcome(a, touches) ==
    CASE Window(a) = "unknown" -> "exit"
      [] Window(a) = "ram" ->
           IF a..(a + touches - 1) \subseteq Mapping THEN "done" ELSE "outside"
      [] OTHER -> "device"

BusLoad(a, size) ==
    IF Window(a) = "ram" THEN {LittleEndian(a, Length(size))} ELSE Data

BusStore(a, x, size) ==
    ram' = [b \in Mapping |->
               IF Window(a) = "ram" /\ b - a \in 0..(Length(size) - 1)
               THEN Byte(x, b - a) ELSE ram[b]]

-----------------------------------------------------------------------------
(* Addresses: unscaled, pre-indexed and literal offsets are signed; the    *)
(* scaled one is not; shift_and_extend shifts the offset register first    *)
(* and extends its sign at a fixed bit, zero extensions do nothing.        *)
Wrap(a) == a % Power[Dword]

SignedOffsetUnextended(base, imm) == Wrap(base + Value(imm))
SignedOffset(base, imm) == Wrap(base + Value(SignExtend(imm, Offset)))
ScaledOffset(base, imm, size) == Wrap(base + Value(imm) * Length(size))

ShiftAndExtend(m, shift, scale, type) ==
    LET v == IF shift THEN Shl(m, scale) ELSE m
    IN  CASE type \in 0..3 -> v
          [] type = 4 -> SignedExtend(v, ByteBits - 1)
          [] type = 5 -> SignedExtend(v, Piece - 1)
          [] type = 6 -> SignedExtend(v, Half32 - 1)
          [] type = 7 -> SignedExtend(v, Dword - 1)

RegisterOffset(base, m, shift, scale, type) ==
    Wrap(base + Value(ShiftAndExtend(m, shift, scale, type)))

-----------------------------------------------------------------------------
FieldBits(size) == {i \in Bits : i < Length(size) * ByteBits}

(* Register offsets and literals always load eight bytes.                  *)
LoadSize(form, size) ==
    IF form \in {"reg", "regs", "literal", "literals"} THEN 3 ELSE size

(* What goes into Rt, d being its old contents.  LDRSB and LDRSH of a W    *)
(* register keep its upper half; signed loads with a register offset do    *)
(* not extend; LDXR and LDAR compare size with eleven and cut to 32 bits.  *)
LoadResult(form, size, v, d) ==
    CASE form = "ldur" -> v
      [] form \in {"ldr", "reg", "regs"} -> v \cap FieldBits(size)
      [] form \in {"ldrsx", "literals"} -> SignExtend(v, Length(size) * ByteBits)
      [] form = "ldrsw" ->
           (d \cap Upper) \cup (SignExtend(v, Length(size) * ByteBits) \cap Lower)
      [] form = "literal" -> IF size = 2 THEN v \cap Lower ELSE v
      [] form = "ldxr" -> v \cap Lower

Access(kind, form, size, where, d, outcome, out) ==
    access' = [kind |-> kind, form |-> form, size |-> size, where |-> where,
               d |-> d, old |-> ram, outcome |-> outcome, out |-> out]

(* where is the address with what it was computed from.                    *)
Load(form, size, where, d) ==
    /\ \E v \in BusLoad(where.addr, LoadSize(form, size)) :
         Access("load", form, size, where, d,
                Outcome(where.addr, LoadTouches(LoadSize(form, size))),
                LoadResult(form, size, v, d))
    /\ UNCHANGED ram

Store(form, size, where, x) ==
    /\ Access("store", form, size, where, x, Outcome(where.addr, Length(size)), x)
    /\ BusStore(where.addr, x, size)

Immediates == SUBSET (0..(Offset - 1))
Plain(base) == [addr |-> base, base |-> base, mode |-> "base"]
Signed9(base, imm) ==
    [addr |-> SignedOffset(base, imm), base |-> base, mode |-> "signed", imm |-> imm]
Scaled(base, imm, size) ==
    [addr |-> ScaledOffset(base, imm, size), base |-> base, mode |-> "scaled",
     imm |-> imm]

(* decode_ldst_reg_unscaled_immediate: LDURB and signed forms exit.        *)
UnscaledImmediate(size, base, imm, x) ==
    \/ size > 0 /\ Load("ldur", size, Signed9(base, imm), x)
    \/ Store("stur", size, Signed9(base, imm), x)

(* decode_ldst_reg_immediate: unsigned, pre-indexed and post-indexed.      *)
Immediate(size, base, imm, x) ==
    \E where \in {Scaled(base, imm, size), Signed9(base, imm), Plain(base)} :
        \/ Store("str", size, where, x)
        \/ Load("ldr", size, where, x)
        \/ size < 3 /\ Load("ldrsx", size, where, x)
        \/ size < 2 /\ Load("ldrsw", size, where, x)

(* decode_ldst_reg_reg_offset; LDRSB and LDRSH of a W register do nothing. *)
RegOffset(size, base, m, shift, type, x) ==
    LET where == [addr |-> RegisterOffset(base, m, shift, size, type),
                  base |-> base, mode |-> "register", m |-> m, shift |-> shift,
                  type |-> type]
    IN  \/ Store("str", size, where, x)
        \/ Load("reg", size, where, x)
        \/ size < 3 /\ Load("regs", size, where, x)
        \/ /\ size < 2
           /\ Access("none", "regw", size, where, x, "done", x)
           /\ UNCHANGED ram

(* decode_ldst_load_register_literal; base is the pc.                      *)
Literal(base, imm) ==
    \/ \E size \in 2..3 : Load("literal", size, Signed9(base, imm), {})
    \/ Load("literals", 2, Signed9(base, imm), {})

(* decode_ldst_exclusive and decode_ldst_ordered.                          *)
ExclusiveOrdered(size, base, x) ==
    \/ Load("ldxr", size, Plain(base), x)
    \/ Store("stxr", size, Plain(base), x)

NoAccess == [kind |-> "none", form |-> "none"]

LSInit == ram \in Memories /\ access = NoAccess

LSNext ==
    \/ /\ access = NoAccess
       /\ \E base \in Bases, x \in Data :
            \/ \E size \in 0..3, imm \in Immediates :
                 UnscaledImmediate(size, base, imm, x)
            \/ \E size \in 0..3, imm \in Immediates : Immediate(size, base, imm, x)
            \/ \E size \in 0..3, m \in OffsetRegisters, shift \in BOOLEAN,
                  type \in {2, 3, 6, 7} : RegOffset(size, base, m, shift, type, x)
            \/ \E imm \in Immediates : Literal(base, imm)
            \/ \E size \in 0..3 : ExclusiveOrdered(size, base, x)
    \/ access # NoAccess /\ UNCHANGED <<ram, access>>

-----------------------------------------------------------------------------
(* The architecture's address.                                             *)
SignedNumber(v, bits) == IF v >= Power[bits - 1] THEN v - Power[bits] ELSE v

ExtendedOffset(w) ==
    LET low == Value(w.m \cap Lower)
        offset == CASE w.type = 2 -> low
                    [] w.type = 6 -> SignedNumber(low, Half32)
                    [] w.type \in {3, 7} -> Value(w.m)
    IN  IF w.shift THEN offset * Length(access.size) ELSE offset

Effective(w) ==
    Wrap(w.base +
         CASE w.mode = "base" -> 0
           [] w.mode = "signed" -> SignedNumber(Value(w.imm), Offset)
           [] w.mode = "scaled" -> Value(w.imm) * Length(access.size)
           [] w.mode = "register" -> ExtendedOffset(w))

(* UXTW and SXTW do not drop the upper half of the offset register, and    *)
(* SXTW takes its sign behind the shift.                                   *)
OffsetDeparts(w) ==
    /\ w.mode = "register"
    /\ LET top == {i \in Lower : i >= Half32 - 1 - IF w.shift THEN access.size ELSE 0}
       IN  \/ w.type = 2 /\ ~(w.m \subseteq Lower)
           \/ /\ w.type = 6 /\ ~(top \subseteq w.m)
              /\ top \cap w.m # {} \/ ~(w.m \subseteq Lower)

(* The bytes of the access are mapped guest memory.                        *)
InMemory ==
    LET ea == Effective(access.where)
    IN  ea..(ea + Length(access.size) - 1) \subseteq Mapping

Loaded ==
    LET raw  == LittleEndian(Effective(access.where), Length(access.size))
        full == SignedExtend(raw, Length(access.size) * ByteBits - 1)
    IN  CASE access.form \in {"ldr", "ldur", "reg", "literal", "ldxr"} -> raw
          [] access.form \in {"ldrsx", "literals", "regs"} -> full
          [] access.form = "ldrsw" -> full \cap Lower

(* Signed loads with a register offset do not extend, LDRSB and LDRSH of W *)
(* keep the upper half, LDXR and LDAR cut to 32 bits.                      *)
ResultDeparts ==
    \/ access.form = "regs" /\ Length(access.size) * ByteBits - 1 \in Loaded
    \/ access.form = "ldrsw" /\ ~(access.d \subseteq Lower)
    \/ access.form = "ldxr" /\ ~(Loaded \subseteq Lower)

(* The bits that are right even then.                                      *)
RightBits ==
    CASE access.form = "regs" -> FieldBits(access.size)
      [] access.form \in {"ldrsw", "ldxr"} -> Lower
      [] OTHER -> Bits

Supported == access.kind # "none" /\ ~OffsetDeparts(access.where) /\ InMemory

(* Unless the offset register departs, a load gets the bytes of memory the *)
(* architecture names, extended as it says; where the result departs, the  *)
(* loaded field or the lower half is still right.  A store changes these   *)
(* bytes of memory and no other, to the register's low bytes.              *)
AccessAgrees ==
    Supported =>
        /\ access.kind = "load" /\ access.outcome = "done" =>
               /\ access.out \cap RightBits = Loaded \cap RightBits
               /\ ~ResultDeparts => access.out = Loaded
        /\ access.kind = "store" =>
               LET ea == Effective(access.where)
               IN  \A b \in Mapping :
                      ram[b] = IF b \in ea..(ea + Length(access.size) - 1)
                               THEN Byte(access.d, b - ea) ELSE access.old[b]

(* An access to mapped memory never reaches a device or ends the emulator, *)
(* and stays there but for two known over-reads: a load with a register    *)
(* offset or literal address reads eight bytes, one of a word five, which  *)
(* at the end of memory are partly behind the mapping.                     *)
OutsideOnlyAtEnd ==
    Supported =>
        \/ access.outcome = "done"
        \/ /\ access.outcome = "outside" /\ access.kind = "load"
           /\ LET end == Effective(access.where) - RamBase
              IN  \/ /\ access.form \in {"reg", "regs", "literal", "literals"}
                     /\ end + 8 > Mapped
                  \/ access.size = 2 /\ end + 5 > Mapped
=============================================================================
