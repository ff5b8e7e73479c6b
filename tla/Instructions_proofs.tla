--------------------------- MODULE Instructions_proofs -------------------------
(***************************************************************************)
(* The instructions on registers and memory, for words of any size.        *)
(*                                                                         *)
(* Data processing computes what the architecture says, except where       *)
(* Departs says it does not, for any contents of the registers.  A load or *)
(* store of the supported forms reads or writes the bytes the architecture *)
(* names and no other, for any map of the address space the assumptions    *)
(* allow and any contents of registers and memory.  And the locks built of *)
(* the exclusive ones exclude, for any number of threads.                  *)
(***************************************************************************)
EXTENDS DataProcessing, LoadStore, Exclusive, Words_proofs

-----------------------------------------------------------------------------
(***************************************************************************)
(* Data processing.  An instruction is executed in one step, so the proof  *)
(* goes operation by operation: the operands and the result as numbers or  *)
(* bits within the width of the form (Span), what the code computes, what  *)
(* the architecture says, and the two compared.                            *)
(***************************************************************************)

SizeOf(sf) == IF sf THEN Dword ELSE Half32
Span(sf) == 0..(SizeOf(sf) - 1)

LEMMA WidthIs ==
    ASSUME NEW sf \in BOOLEAN
    PROVE  /\ SizeOf(sf) \in 0..Dword /\ SizeOf(sf) \in Nat /\ SizeOf(sf) >= 4
           /\ Span(sf) \subseteq Bits
           /\ SizeOf(sf) - 1 \in Span(sf)
           /\ Power[SizeOf(sf)] \in Nat \ {0}
<1>1. /\ SizeOf(sf) \in 0..Dword /\ SizeOf(sf) \in Nat /\ SizeOf(sf) >= 4
      /\ Span(sf) \subseteq Bits /\ SizeOf(sf) - 1 \in Span(sf)
  BY Sizes DEF SizeOf, Span, Bits
<1>2. QED
  BY <1>1, PowerPositive

LEMMA Widths ==
    /\ Bits = 0..(Dword - 1) /\ Lower = 0..(Half32 - 1) /\ Lower \subseteq Bits
    /\ Upper = Bits \ Lower /\ Dword \in Nat /\ Half32 \in Nat /\ Half32 >= 4
    /\ Dword = 2 * Half32 /\ Half32 = 2 * Piece /\ Piece = 2 * ByteBits
    /\ Piece \in Nat /\ ByteBits \in Nat /\ ByteBits > 0
  BY Sizes DEF Lower, Bits, Upper

(* An operand or result within its form's width.                           *)
LEMMA CutIs ==
    ASSUME NEW sf \in BOOLEAN, NEW a \in SUBSET Bits
    PROVE  Cut(sf, a) \cap Span(sf) = a \cap Span(sf) /\ Cut(sf, a) \in SUBSET Bits
  BY Widths DEF Cut, Span, SizeOf

-----------------------------------------------------------------------------
(* The instruction that is executed.                                       *)
LEMMA ExecutedIs ==
    ASSUME NEW op, NEW sf \in BOOLEAN, NEW arg, NEW n, NEW m, NEW d, NEW out,
           Execute(op, sf, arg, n, m, d, out)
    PROVE  /\ last'.op = op /\ last'.sf = sf /\ last'.arg = arg /\ last'.n = n
           /\ last'.m = m /\ last'.d = d /\ last'.out = out
           /\ Size' = SizeOf(sf) /\ (0..(Size - 1))' = Span(sf)
           /\ Numbers' = Power[SizeOf(sf)]
<1>1. /\ last'.op = op /\ last'.sf = sf /\ last'.arg = arg /\ last'.n = n
      /\ last'.m = m /\ last'.d = d /\ last'.out = out
  BY DEF Execute
<1>2. Size' = SizeOf(sf)
  BY <1>1 DEF Size, SizeOf
<1>3. QED
  BY <1>1, <1>2 DEF Span, Numbers

(* Agreement of an instruction that is not a logical one.                  *)
LEMMA AgreesIf ==
    ASSUME NEW op, NEW sf \in BOOLEAN, NEW arg, NEW n, NEW m, NEW d, NEW out,
           Execute(op, sf, arg, n, m, d, out), op \notin {"LogicalImm", "LogicalShifted"},
           ~Departs' => out \cap Span(sf) = Expected'
    PROVE  Agrees'
<1>1. /\ last'.op = op /\ last'.out = out /\ (0..(Size - 1))' = Span(sf)
  BY ExecutedIs
<1>2. QED
  BY <1>1 DEF Agrees

-----------------------------------------------------------------------------
(* decode_bit_masks.                                                       *)
LEMMA ElementSizeIs ==
    ASSUME NEW n \in 0..1, NEW imms \in 0..(Dword - 1),
           n * Dword + (Dword - 1 - imms) >= 2
    PROVE  ElementSize(n, imms) \in 1..Dword
<1> DEFINE field == n * Dword + (Dword - 1 - imms)
           Fits(l) == Power[l] <= field /\ field < Power[l + 1]
           S == {l \in Nat : field < Power[l + 1]}
<1>1. field \in Nat /\ field >= 2 /\ field < 2 * Dword /\ Dword \in Nat
  <2>1. n * Dword = 0 \/ n * Dword = Dword
    BY Widths, n = 0 \/ n = 1
  <2>2. QED
    BY <2>1, Widths
<1> HIDE DEF field
<1>2. LogDword \in Nat /\ LogDword \in S /\ Power[LogDword] = Dword
  <2>1. LogDword \in Nat /\ Power[LogDword] = Dword
    BY LogDwordAssumption DEF Dword
  <2>2. Power[LogDword + 1] = 2 * Dword
    BY <2>1, PowerIs
  <2>3. QED
    BY <1>1, <2>1, <2>2
<1>3. PICK l \in S : \A k \in S : l <= k
  <2>1. S \in SUBSET Nat /\ S # {}
    BY <1>2
  <2> HIDE DEF S
  <2>2. QED
    BY <2>1, LeastOf
<1>4. l \in 0..LogDword /\ Fits(l)
  <2>1. l \in Nat /\ l <= LogDword /\ field < Power[l + 1]
    BY <1>2, <1>3
  <2>2. CASE l = 0
    BY <1>1, <2>1, <2>2, PowerIs
  <2>3. CASE l # 0
    <3>1. l - 1 \in Nat /\ l - 1 + 1 = l /\ l - 1 \notin S
      BY <1>3, <2>1, <2>3
    <3>2. ~(field < Power[l]) /\ Power[l] \in Nat
      BY <2>1, <3>1, PowerIs
    <3>3. QED
      BY <1>1, <2>1, <3>2, <1>2
  <2>4. QED
    BY <2>2, <2>3
<1>5. \E k \in 0..LogDword : Fits(k)
  BY <1>4
<1> DEFINE j == CHOOSE k \in 0..LogDword : Fits(k)
<1>6. j \in 0..LogDword
  <2> HIDE DEF Fits
  <2>1. QED  BY <1>5
<1>7. ElementSize(n, imms) = Power[j]
  BY DEF ElementSize, field
<1> HIDE DEF j
<1>8. Power[j] \in Nat \ {0} /\ Power[j] <= Power[LogDword]
  <2>1. j \in Nat /\ j <= LogDword
    BY <1>2, <1>6
  <2>2. QED
    BY <1>2, <2>1, PowerPositive, PowerGrows
<1>9. QED
  BY <1>1, <1>2, <1>7, <1>8

(* Rotating a position within an element.                                  *)
LEMMA RotatedPlace ==
    ASSUME NEW e \in Nat \ {0}, NEW i \in Nat, NEW k \in Nat
    PROVE  /\ i % e \in 0..(e - 1) /\ k % e \in 0..(e - 1)
           /\ (i + k) % e = IF (i % e) + (k % e) < e THEN (i % e) + (k % e)
                          ELSE (i % e) + (k % e) - e
<1>1. PICK p \in Int, x \in 0..(e - 1) : i = p * e + x /\ x = i % e
  <2>1. i \in Int
    OBVIOUS
  <2>2. QED
    BY <2>1, DivMod
<1>2. PICK q \in Int, y \in 0..(e - 1) : k = q * e + y /\ y = k % e
  <2>1. k \in Int
    OBVIOUS
  <2>2. QED
    BY <2>1, DivMod
<1>3. i + k \in Int /\ p * e \in Int /\ q * e \in Int
  OBVIOUS
<1>4. CASE x + y < e
  <2>1. i + k = (p + q) * e + (x + y)
    <3>1. (p + q) * e = p * e + q * e
      OBVIOUS
    <3>2. PICK pe \in Int, qe \in Int : pe = p * e /\ qe = q * e
      BY <1>3
    <3>3. i = pe + x /\ k = qe + y /\ (p + q) * e = pe + qe
      BY <1>1, <1>2, <3>1, <3>2
    <3>4. QED
      BY <3>3
  <2>2. PICK g \in Int, z \in 0..(e - 1) : g = p + q /\ z = x + y
    BY <1>4
  <2>3. i + k = g * e + z
    BY <2>1, <2>2
  <2>4. (i + k) % e = z
    <3>1. PICK c \in Int : c = i + k
      BY <1>3
    <3>2. c = g * e + z
      BY <2>3, <3>1
    <3>3. c % e = z
      BY <3>2, DivisionIs
    <3>4. QED
      BY <3>1, <3>3
  <2>5. QED
    BY <1>1, <1>2, <1>4, <2>2, <2>4
<1>5. CASE ~(x + y < e)
  <2>1. i + k = (p + q + 1) * e + (x + y - e)
    <3>1. (p + q + 1) * e = p * e + q * e + e
      OBVIOUS
    <3>2. QED
      BY <1>1, <1>2, <1>3, <3>1
  <2>2. PICK g \in Int, z \in 0..(e - 1) : g = p + q + 1 /\ z = x + y - e
    BY <1>5
  <2>3. i + k = g * e + z
    BY <2>1, <2>2
  <2>4. (i + k) % e = z
    <3>1. PICK c \in Int : c = i + k
      BY <1>3
    <3>2. c = g * e + z
      BY <2>3, <3>1
    <3>3. c % e = z
      BY <3>2, DivisionIs
    <3>4. QED
      BY <3>1, <3>3
  <2>5. QED
    BY <1>1, <1>2, <1>5, <2>2, <2>4
<1>6. QED
  BY <1>4, <1>5, <1>1, <1>2

LEMMA MasksAre ==
    ASSUME NEW n \in 0..1, NEW imms \in 0..(Dword - 1), NEW immr \in 0..(Dword - 1),
           n * Dword + (Dword - 1 - imms) >= 2,
           imms % ElementSize(n, imms) # ElementSize(n, imms) - 1
    PROVE  /\ DecodeBitMasks(n, imms, immr) \in SUBSET Bits
           /\ \A i \in Bits : i \in DecodeBitMasks(n, imms, immr) <=> MaskBit(n, imms, immr, i)
<1>1. PICK e \in 1..Dword : e = ElementSize(n, imms)
  BY ElementSizeIs
<1>2. PICK r \in 0..(e - 1), s \in 0..(e - 1) : r = immr % e /\ s = imms % e
  <2>1. e \in Nat \ {0} /\ immr \in Nat /\ imms \in Nat
    BY Widths
  <2>2. QED
    BY <2>1, RotatedPlace
<1>3. s < e - 1
  BY <1>1, <1>2
<1> DEFINE ones == 0..s
           mask == IF r = 0 THEN ones
                   ELSE (Shr(ones, r) \cup Shl(ones, e - r)) \cap 0..(e - 1)
<1>4. DecodeBitMasks(n, imms, immr) = {i \in Bits : i % e \in mask}
  BY <1>1, <1>2 DEF DecodeBitMasks
<1>5. ASSUME NEW i \in Bits PROVE i % e \in mask <=> MaskBit(n, imms, immr, i)
  <2>1. PICK x \in 0..(e - 1) :
          x = i % e /\ (i + immr) % e = IF x + r < e THEN x + r ELSE x + r - e
    <3>1. e \in Nat \ {0} /\ i \in Nat /\ immr \in Nat
      BY Widths
    <3>2. QED
      BY <1>2, <3>1, RotatedPlace
  <2>2. MaskBit(n, imms, immr, i) <=> (IF x + r < e THEN x + r ELSE x + r - e) <= s
    BY <1>1, <1>2, <2>1 DEF MaskBit
  <2>3. x \in mask <=> (IF x + r < e THEN x + r ELSE x + r - e) <= s
    <3>1. x \in Bits
      BY Widths
    <3>2. CASE r = 0
      BY <3>2
    <3>3. CASE r # 0
      <4>1. x \in Shr(ones, r) <=> x + r \in 0..s
        BY <3>1 DEF Shr
      <4>2. x \in Shl(ones, e - r) <=> x - (e - r) \in 0..s
        BY <3>1 DEF Shl
      <4>3. x \in mask <=> (x + r \in 0..s \/ x - (e - r) \in 0..s)
        BY <3>3, <4>1, <4>2
      <4>4. \A u, v, w, z \in Nat : u < w /\ v < w /\ z < w - 1 =>
               ((u + v \in 0..z \/ u - (w - v) \in 0..z)
                  <=> (IF u + v < w THEN u + v ELSE u + v - w) <= z)
        OBVIOUS
      <4>5. x \in Nat /\ r \in Nat /\ e \in Nat /\ s \in Nat /\ x < e /\ r < e
        BY Widths
      <4> HIDE DEF mask
      <4>6. QED
        BY <1>3, <4>3, <4>4, <4>5
    <3>4. QED
      BY <3>2, <3>3
  <2>4. QED
    BY <2>1, <2>2, <2>3
<1>6. QED
  <2> HIDE DEF mask
  <2>1. QED  BY <1>4, <1>5

-----------------------------------------------------------------------------
LEMMA MoveWideAgrees ==
    ASSUME NEW opc \in {"movn", "movz", "movk"}, NEW sf \in BOOLEAN,
           NEW hw \in (IF sf THEN 0..3 ELSE 0..1), NEW imm \in SUBSET (0..(Piece - 1)),
           NEW d \in SUBSET Bits, MoveWide(opc, sf, hw, imm, d)
    PROVE  Agrees' /\ UpperHalfStaysClear'
<1> DEFINE arg == [opc |-> opc, hw |-> hw, imm |-> imm]
           shifted == Shl(imm, hw * Piece)
           kept == {i \in d : i \notin (hw * Piece)..(hw * Piece + Piece - 1)}
           out == CASE opc = "movn" -> Cut(sf, Negate(shifted))
                    [] opc = "movz" -> Cut(sf, shifted)
                    [] opc = "movk" -> kept \cup shifted
<1>1. Execute("MoveWide", sf, arg, {}, {}, d, out)
  BY DEF MoveWide
<1> HIDE DEF out
<1>2. /\ last'.op = "MoveWide" /\ last'.sf = sf /\ last'.arg = arg /\ last'.n = {}
      /\ last'.m = {} /\ last'.d = d /\ last'.out = out
      /\ Size' = SizeOf(sf) /\ (0..(Size - 1))' = Span(sf)
  BY <1>1, ExecutedIs
<1>3. Expected' = {i \in Span(sf) : MovedBit(i)'}
  BY <1>2 DEF Expected, OfBits
<1>4. hw * Piece \in Nat
  BY Widths
<1> DEFINE k == hw * Piece
<1>5. Agrees'
  <2> HIDE DEF k
  <2>1. /\ shifted = {i \in Bits : i - k \in imm}
        /\ kept = {i \in d : i \notin k..(k + Piece - 1)}
    BY DEF Shl, k
  <2>2. Cut(sf, shifted) \cap Span(sf) = shifted \cap Span(sf)
    BY <2>1, CutIs
  <2>3. Cut(sf, Negate(shifted)) \cap Span(sf) = (Bits \ shifted) \cap Span(sf)
    BY CutIs DEF Negate
  <2>4. \A i \in Bits : i \in k..(k + Piece - 1) <=> i - k \in 0..(Piece - 1)
    BY <1>4, Widths DEF k
  <2>5. Span(sf) \subseteq Bits
    BY WidthIs
  <2>6. out \cap Span(sf) = Expected'
    <3>1. CASE opc = "movz"
      <4>1. \A i : MovedBit(i)' <=> i - k \in imm
        BY <1>2, <3>1 DEF MovedBit, k
      <4>2. out = Cut(sf, shifted)
        BY <3>1 DEF out
      <4>3. QED
        BY <1>3, <2>1, <2>2, <2>5, <4>1, <4>2
    <3>2. CASE opc = "movn"
      <4>1. \A i : MovedBit(i)' <=> i - k \notin imm
        BY <1>2, <3>2 DEF MovedBit, k
      <4>2. out = Cut(sf, Negate(shifted))
        BY <3>2 DEF out
      <4>3. QED
        BY <1>3, <2>1, <2>3, <2>5, <4>1, <4>2
    <3>3. CASE opc = "movk"
      <4>1. \A i : MovedBit(i)' <=> IF i - k \in 0..(Piece - 1) THEN i - k \in imm
                                      ELSE i \in d
        BY <1>2, <3>3 DEF MovedBit, k
      <4>2. out = kept \cup shifted
        BY <3>3 DEF out
      <4>3. QED
        BY <1>3, <2>1, <2>4, <2>5, <4>1, <4>2
    <3>4. QED
      BY <3>1, <3>2, <3>3
  <2>7. QED
    BY <1>1, <2>6, AgreesIf
<1>6. UpperHalfStaysClear'
  <2>1. SUFFICES ASSUME ~sf, d \subseteq Lower PROVE out \subseteq Lower
    BY <1>2 DEF UpperHalfStaysClear, Clean
  <2>2. hw = 0 \/ hw = 1
    BY <2>1
  <2>3. k + Piece <= Half32
    BY <2>2, Widths
  <2>4. shifted \subseteq Lower
    BY <1>4, <2>3, Widths DEF Shl
  <2>5. \A a : Cut(sf, a) \subseteq Lower
    BY <2>1 DEF Cut
  <2>6. QED
    BY <2>1, <2>4, <2>5 DEF out
<1>7. QED
  BY <1>5, <1>6

-----------------------------------------------------------------------------
(* Numbers within a form's width.                                          *)
NumOf(sf, a) == Value({i \in a : i < SizeOf(sf)})
Modulus(sf) == Power[SizeOf(sf)]
NumberOf(sf, v) == Bitset(v % Modulus(sf))

LEMMA Computed ==
    ASSUME NEW sf \in BOOLEAN, NEW u \in Int, NEW v \in Int, Congruent(u, v, Modulus(sf))
    PROVE  Bitset(u) \cap Span(sf) = NumberOf(sf, v)
<1>1. SizeOf(sf) \in 0..Dword /\ Modulus(sf) = Power[SizeOf(sf)]
  BY WidthIs DEF Modulus
<1>2. {i \in Bitset(u) : i < SizeOf(sf)} = {i \in Bitset(v) : i < SizeOf(sf)}
  BY <1>1, BitsetCongruent
<1>3. NumberOf(sf, v) = {i \in Bitset(v) : i < SizeOf(sf)}
  BY <1>1, LowBits DEF NumberOf
<1>4. Bitset(u) \cap Span(sf) = {i \in Bitset(u) : i < SizeOf(sf)}
  <2>1. Bitset(u) \subseteq Bits
    BY DEF Bitset
  <2>2. \A i \in Bits : i \in Span(sf) <=> i < SizeOf(sf)
    BY WidthIs, Widths DEF Span
  <2>3. QED
    BY <2>1, <2>2
<1>5. QED
  BY <1>2, <1>3, <1>4

LEMMA Kept ==
    ASSUME NEW sf \in BOOLEAN, NEW a \in SUBSET Bits, NEW v \in Int,
           Congruent(Value(a), v, Modulus(sf))
    PROVE  a \cap Span(sf) = NumberOf(sf, v)
<1>1. Value(a) \in Int /\ Bitset(Value(a)) = a
  BY ValueNat, BitsetValue
<1>2. PICK u \in Int : u = Value(a)
  BY <1>1
<1>3. Bitset(u) \cap Span(sf) = NumberOf(sf, v)
  BY <1>2, Computed
<1>4. QED
  BY <1>1, <1>2, <1>3

LEMMA Operand ==
    ASSUME NEW sf \in BOOLEAN, NEW a
    PROVE  /\ NumOf(sf, a) \in Nat /\ NumOf(sf, a) \in Int /\ Value(a) \in Int
           /\ NumOf(sf, a) < Modulus(sf)
           /\ Congruent(Value(a), NumOf(sf, a), Modulus(sf))
           /\ Modulus(sf) \in Int /\ Modulus(sf) \in Nat \ {0}
<1>1. SizeOf(sf) \in 0..Dword /\ Modulus(sf) = Power[SizeOf(sf)] /\ Modulus(sf) \in Nat \ {0}
  BY WidthIs DEF Modulus
<1>2. /\ Congruent(Value(a), NumOf(sf, a), Modulus(sf))
      /\ NumOf(sf, a) \in 0..(Modulus(sf) - 1)
  BY <1>1, LowCongruent DEF NumOf
<1>3. Value(a) \in Int
  BY ValueNat
<1>4. QED
  BY <1>1, <1>2, <1>3

(* An X operand, or a W operand with a clear upper half, is its number.    *)
LEMMA WholeOperand ==
    ASSUME NEW sf \in BOOLEAN, NEW a \in SUBSET Bits, sf \/ Clean(a)
    PROVE  NumOf(sf, a) = Value(a) /\ {i \in a : i < SizeOf(sf)} = a
<1>1. {i \in a : i < SizeOf(sf)} = a
  <2>1. \A i \in a : i < SizeOf(sf)
    <3>1. CASE sf
      BY <3>1, Widths DEF SizeOf
    <3>2. CASE ~sf
      BY <3>2, Widths DEF SizeOf, Clean
    <3>3. QED
      BY <3>1, <3>2
  <2>2. QED
    BY <2>1
<1>2. QED
  BY <1>1 DEF NumOf

(* Only the bits within the width count.                                   *)
LEMMA SameOperand ==
    ASSUME NEW sf \in BOOLEAN, NEW a \in SUBSET Bits, NEW b \in SUBSET Bits,
           a \cap Span(sf) = b \cap Span(sf)
    PROVE  NumOf(sf, a) = NumOf(sf, b)
<1>1. \A i \in Bits : i \in Span(sf) <=> i < SizeOf(sf)
  BY WidthIs, Widths DEF Span
<1>2. {i \in a : i < SizeOf(sf)} = {i \in b : i < SizeOf(sf)}
  BY <1>1
<1>3. QED
  BY <1>2 DEF NumOf

LEMMA DwordVanishes ==
    ASSUME NEW sf \in BOOLEAN
    PROVE  /\ Power[Dword] \in Int /\ Congruent(Power[Dword], 0, Modulus(sf))
           /\ Congruent(0, Power[Dword], Modulus(sf))
<1>1. SizeOf(sf) \in 0..Dword /\ Modulus(sf) = Power[SizeOf(sf)] /\ Modulus(sf) \in Int
  BY WidthIs, Operand DEF Modulus
<1>2. Power[Dword] \in Int
  BY PowerPositive, DwordNat
<1>3. Congruent(Power[Dword], 0, Modulus(sf))
  BY <1>1, DwordCongruent
<1>4. QED
  BY <1>1, <1>2, <1>3, CongruentBack

(* Congruence modulo 2^64 is congruence modulo 2^32 as well.               *)
LEMMA Narrower ==
    ASSUME NEW sf \in BOOLEAN, NEW u \in Int, NEW v \in Int, Congruent(u, v, Power[Dword])
    PROVE  Congruent(u, v, Modulus(sf))
<1>1. PICK k \in Nat : Dword = SizeOf(sf) + k /\ SizeOf(sf) \in Nat
  BY WidthIs, Widths DEF SizeOf
<1>2. Power[Dword] = Modulus(sf) * Power[k]
  BY <1>1, PowerSum DEF Modulus
<1>3. Power[k] \in Int /\ Modulus(sf) \in Int
  BY PowerPositive, Operand
<1>4. PICK p \in Int : p = Power[k]
  BY <1>3
<1>5. Congruent(u, v, Modulus(sf) * p)
  BY <1>2, <1>4
<1>6. QED
  BY <1>3, <1>5, CongruentDivisor

LEMMA NumbersAre ==
    ASSUME NEW op, NEW sf \in BOOLEAN, NEW arg, NEW n, NEW m, NEW d, NEW out,
           Execute(op, sf, arg, n, m, d, out)
    PROVE  /\ \A a : Num(a)' = NumOf(sf, a)
           /\ \A v : OfNumber(v)' = NumberOf(sf, v)
           /\ Num(last.n)' = NumOf(sf, n) /\ Num(last.m)' = NumOf(sf, m)
           /\ Num(last.d)' = NumOf(sf, d)
<1>1. /\ Size' = SizeOf(sf) /\ Numbers' = Power[SizeOf(sf)]
      /\ last'.n = n /\ last'.m = m /\ last'.d = d
  BY ExecutedIs
<1>2. \A a : Num(a)' = NumOf(sf, a)
  BY <1>1 DEF Num, NumOf
<1>3. \A v : OfNumber(v)' = NumberOf(sf, v)
  BY <1>1 DEF OfNumber, NumberOf, Modulus
<1>4. Num(last.n)' = NumOf(sf, n) /\ Num(last.m)' = NumOf(sf, m) /\ Num(last.d)' = NumOf(sf, d)
  BY <1>1 DEF Num, NumOf
<1>5. QED
  BY <1>2, <1>3, <1>4

LEMMA ConditionalSelectAgrees ==
    ASSUME NEW opc \in {"csel", "csinc", "csinv", "csneg"}, NEW taken \in BOOLEAN,
           NEW sf \in BOOLEAN, NEW n \in SUBSET Bits, NEW m \in SUBSET Bits,
           ConditionalSelect(opc, taken, sf, n, m)
    PROVE  Agrees' /\ UpperHalfStaysClear'
<1> DEFINE arg == [opc |-> opc, taken |-> taken]
           out == IF taken THEN n
                  ELSE CASE opc = "csel" -> m
                         [] opc = "csinc" -> Bitset(Value(m) + 1)
                         [] opc = "csinv" -> Negate(m)
                         [] opc = "csneg" -> Bitset(Value(Negate(m)) + 1)
           x == NumOf(sf, n)
           y == NumOf(sf, m)
           M == Modulus(sf)
<1>1. Execute("ConditionalSelect", sf, arg, n, m, {}, out)
  BY DEF ConditionalSelect
<1> HIDE DEF out
<1>2. /\ last'.op = "ConditionalSelect" /\ last'.sf = sf /\ last'.arg = arg
      /\ last'.n = n /\ last'.m = m /\ last'.d = {} /\ last'.out = out
      /\ Numbers' = Power[SizeOf(sf)] /\ Num(last.n)' = x /\ Num(last.m)' = y
  <2> HIDE DEF arg
  <2>1. /\ last'.op = "ConditionalSelect" /\ last'.sf = sf /\ last'.arg = arg
        /\ last'.n = n /\ last'.m = m /\ last'.d = {} /\ last'.out = out
        /\ Numbers' = Power[SizeOf(sf)]
    BY <1>1, ExecutedIs
  <2>2. Num(last.n)' = x /\ Num(last.m)' = y
    <3> HIDE DEF x, y, M
    <3>1. PICK none : none = {}
      OBVIOUS
    <3>2. Execute("ConditionalSelect", sf, arg, n, m, none, out)
      BY <1>1, <3>1
    <3>3. Num(last.n)' = NumOf(sf, n) /\ Num(last.m)' = NumOf(sf, m)
      BY <3>2, NumbersAre, SMTT(20)
    <3>4. QED
      BY <3>3 DEF x, y
  <2>3. QED
    BY <2>1, <2>2
<1>3. Expected' = NumberOf(sf, Selected')
  BY <1>2 DEF Expected, OfNumber, NumberOf, Modulus
<1>4. /\ x \in Int /\ y \in Int /\ M \in Int /\ Value(n) \in Int /\ Value(m) \in Int
      /\ Congruent(Value(n), x, M) /\ Congruent(Value(m), y, M)
      /\ 0 \in Int /\ 1 \in Int /\ -1 \in Int /\ Power[Dword] \in Int
      /\ Congruent(Power[Dword], 0, M) /\ Congruent(1, 1, M) /\ Congruent(-1, -1, M)
  BY Operand, DwordVanishes, CongruentSelf
<1>5. Value(Negate(m)) = Power[Dword] - 1 - Value(m) /\ Negate(m) \in SUBSET Bits
  BY NegateValue DEF Negate
<1> HIDE DEF x, y, M
<1>6. PICK p \in Int, v \in Int, w \in Int : p = Power[Dword] /\ v = Value(m) /\ w = Value(n)
  BY <1>4
<1>7. Congruent(p - v, 0 - y, M) /\ p - v \in Int /\ 0 - y \in Int
  <2>1. PICK zero \in Int : zero = 0
    BY <1>4
  <2>2. Congruent(p, zero, M) /\ Congruent(v, y, M)
    BY <1>4, <1>6, <2>1
  <2>3. Congruent(p - v, zero - y, M)
    BY <1>4, <2>2, CongruentSum
  <2>4. QED
    BY <1>4, <2>1, <2>3
<1>8. out \cap Span(sf) = NumberOf(sf, Selected')
  <2>1. CASE taken
    <3>1. Selected' = x /\ out = n
      BY <1>2, <2>1 DEF Selected, out
    <3>2. QED
      BY <3>1, <1>4, Kept DEF M
  <2>2. CASE ~taken /\ opc = "csel"
    <3>1. Selected' = y /\ out = m
      BY <1>2, <2>2 DEF Selected, out
    <3>2. QED
      BY <3>1, <1>4, Kept DEF M
  <2>3. CASE ~taken /\ opc = "csinc"
    <3>1. Selected' = y + 1 /\ out = Bitset(v + 1)
      BY <1>2, <1>6, <2>3 DEF Selected, out
    <3>2. PICK one \in Int : one = 1
      BY <1>4
    <3>3. Congruent(v, y, M) /\ Congruent(one, one, M)
      BY <1>4, <1>6, <3>2
    <3>4. Congruent(v + one, y + one, M) /\ v + one \in Int /\ y + one \in Int
      BY <1>4, <3>3, CongruentSum
    <3>5. QED
      BY <3>1, <3>2, <3>4, Computed DEF M
  <2>4. CASE ~taken /\ opc = "csinv"
    <3>1. Selected' = -1 - y /\ out = Negate(m)
      BY <1>2, <2>4 DEF Selected, out
    <3>2. Congruent((p - v) - 1, (0 - y) - 1, M)
      BY <1>4, <1>7, CongruentSum
    <3>3. (p - v) - 1 = Value(Negate(m)) /\ (0 - y) - 1 = -1 - y /\ -1 - y \in Int
      BY <1>4, <1>5, <1>6
    <3>4. Congruent(Value(Negate(m)), -1 - y, M)
      BY <3>2, <3>3
    <3>5. QED
      BY <1>5, <3>1, <3>3, <3>4, Kept DEF M
  <2>5. CASE ~taken /\ opc = "csneg"
    <3>1. Selected' = -y /\ out = Bitset(Value(Negate(m)) + 1)
      BY <1>2, <2>5 DEF Selected, out
    <3>2. PICK t \in Int, s \in Int : t = p - v /\ s = 0 - y
      BY <1>7
    <3>3. Value(Negate(m)) + 1 = t /\ -y = s
      BY <1>4, <1>5, <1>6, <3>2
    <3>4. Congruent(t, s, Modulus(sf))
      BY <1>7, <3>2 DEF M
    <3>5. Bitset(t) \cap Span(sf) = NumberOf(sf, s)
      BY <3>2, <3>4, Computed
    <3>6. QED
      BY <3>1, <3>3, <3>5
  <2>6. QED
    BY <2>1, <2>2, <2>3, <2>4, <2>5
<1>9. Agrees'
  BY <1>1, <1>3, <1>8, AgreesIf
<1>10. UpperHalfStaysClear'
  <2>1. SUFFICES ASSUME n \subseteq Lower, m \subseteq Lower, taken \/ opc = "csel"
                 PROVE  out \subseteq Lower
    BY <1>2 DEF UpperHalfStaysClear, Clean
  <2>2. QED
    BY <2>1 DEF out
<1>11. QED
  BY <1>9, <1>10

-----------------------------------------------------------------------------
(* ADD and SUB: the second operand's negation is its complement and one.   *)
LEMMA AddImmIs ==
    ASSUME NEW sf \in BOOLEAN, NEW sub \in BOOLEAN,
           NEW a \in SUBSET Bits, NEW b \in SUBSET Bits
    PROVE  /\ AddImm(a, b, sub) \in SUBSET Bits
           /\ AddImm(a, b, sub) \cap Span(sf) =
                NumberOf(sf, IF sub THEN NumOf(sf, a) - NumOf(sf, b)
                             ELSE NumOf(sf, a) + NumOf(sf, b))
<1> DEFINE M == Modulus(sf)
<1>1. PICK x \in Int, y \in Int, v \in Int, w \in Int, p \in Int, zero \in Int :
          /\ x = NumOf(sf, a) /\ y = NumOf(sf, b) /\ v = Value(a) /\ w = Value(b)
          /\ p = Power[Dword] /\ zero = 0
  <2>1. 0 \in Int
    OBVIOUS
  <2>2. QED
    BY <2>1, Operand, DwordVanishes
<1>2. /\ Congruent(v, x, M) /\ Congruent(w, y, M) /\ Congruent(p, zero, M) /\ M \in Int
  BY <1>1, Operand, DwordVanishes
<1> HIDE DEF M
<1>3. AddImm(a, b, sub) = Bitset(v + (IF sub THEN (p - 1 - w) + 1 ELSE w))
  BY <1>1, NegateValue DEF AddImm
<1>4. AddImm(a, b, sub) \in SUBSET Bits
  BY DEF AddImm, Bitset
<1>5. CASE sub
  <2>1. Congruent(p - w, zero - y, M)
    BY <1>2, CongruentSum
  <2>2. PICK r \in Int, s \in Int : r = p - w /\ s = zero - y
    OBVIOUS
  <2>3. Congruent(r, s, M)
    BY <2>1, <2>2
  <2>4. Congruent(v + r, x + s, M) /\ v + r \in Int /\ x + s \in Int
    BY <1>2, <2>3, CongruentSum
  <2>5. v + r = v + ((p - 1 - w) + 1) /\ x + s = x - y
    BY <1>1, <2>2
  <2>6. AddImm(a, b, sub) = Bitset(v + r)
    BY <1>3, <1>5, <2>5
  <2>7. Bitset(v + r) \cap Span(sf) = NumberOf(sf, x + s)
    BY <2>4, Computed DEF M
  <2>8. QED
    BY <1>1, <1>5, <1>4, <2>5, <2>6, <2>7
<1>6. CASE ~sub
  <2>1. Congruent(v + w, x + y, M) /\ v + w \in Int /\ x + y \in Int
    BY <1>2, CongruentSum
  <2>2. AddImm(a, b, sub) = Bitset(v + w)
    BY <1>3, <1>6
  <2>3. QED
    BY <1>1, <1>6, <1>4, <2>1, <2>2, Computed DEF M
<1>7. QED
  BY <1>5, <1>6

(* The second operand that the code adds agrees with the architecture's on *)
(* the width of the form.                                                  *)
LEMMA SumAgrees ==
    ASSUME NEW sf \in BOOLEAN, NEW sub \in BOOLEAN, NEW form, NEW type, NEW amount,
           NEW n \in SUBSET Bits, NEW m \in SUBSET Bits, NEW d, NEW out,
           NEW b \in SUBSET Bits,
           Execute("AddSub", sf,
               [sub |-> sub, form |-> form, type |-> type, amount |-> amount], n, m, d, out),
           out \cap Span(sf) = AddImm(n, b, sub) \cap Span(sf),
           ~Departs' =>
             /\ form = "imm" => b = m
             /\ form = "shifted" => b \cap Span(sf) = {i \in Span(sf) : ShiftedBit(i)'}
             /\ form = "extended" => b \cap Span(sf) = {i \in Span(sf) : ExtendedBit(i)'},
           form \in {"imm", "shifted", "extended"}
    PROVE  Agrees'
<1> DEFINE arg == [sub |-> sub, form |-> form, type |-> type, amount |-> amount]
           c == CASE form = "imm" -> m
                  [] form = "shifted" -> {i \in Span(sf) : ShiftedBit(i)'}
                  [] form = "extended" -> {i \in Span(sf) : ExtendedBit(i)'}
<1>1. Execute("AddSub", sf, arg, n, m, d, out)
  OBVIOUS
<1>2. /\ last'.op = "AddSub" /\ last'.arg = arg /\ last'.n = n /\ last'.m = m
      /\ (0..(Size - 1))' = Span(sf) /\ Numbers' = Power[SizeOf(sf)]
      /\ Size' = SizeOf(sf)
  <2> HIDE DEF arg
  <2>1. QED  BY <1>1, ExecutedIs
<1>3. Expected' = NumberOf(sf, IF sub THEN NumOf(sf, n) - NumOf(sf, c)
                               ELSE NumOf(sf, n) + NumOf(sf, c))
  <2>1. CASE form = "imm"
    <3>1. c = m
      BY <2>1
    <3>2. QED
      BY <1>2, <2>1, <3>1 DEF Expected, Sum, OfNumber, NumberOf, Modulus, Num, NumOf
  <2>2. CASE form = "shifted"
    <3>1. c = {i \in Span(sf) : ShiftedBit(i)'}
      BY <2>2
    <3>2. OfBits(ShiftedBit)' = c
      BY <1>2, <3>1 DEF OfBits
    <3>3. QED
      BY <1>2, <2>2, <3>2 DEF Expected, Sum, OfNumber, NumberOf, Modulus, Num, NumOf
  <2>3. CASE form = "extended"
    <3>1. c = {i \in Span(sf) : ExtendedBit(i)'}
      BY <2>3
    <3>2. OfBits(ExtendedBit)' = c
      BY <1>2, <3>1 DEF OfBits
    <3>3. QED
      BY <1>2, <2>3, <3>2 DEF Expected, Sum, OfNumber, NumberOf, Modulus, Num, NumOf
  <2>4. QED
    BY <2>1, <2>2, <2>3
<1>4. ASSUME ~Departs' PROVE out \cap Span(sf) = Expected'
  <2>1. c \in SUBSET Bits /\ b \cap Span(sf) = c \cap Span(sf)
    <3>1. Span(sf) \subseteq Bits
      BY WidthIs
    <3>2. CASE form = "imm"
      BY <1>4, <3>2
    <3>3. CASE form = "shifted"
      BY <1>4, <3>1, <3>3
    <3>4. CASE form = "extended"
      BY <1>4, <3>1, <3>4
    <3>5. QED
      BY <3>2, <3>3, <3>4
  <2> HIDE DEF c
  <2>2. NumOf(sf, b) = NumOf(sf, c)
    BY <2>1, SameOperand
  <2>3. QED
    BY <1>3, <2>2, AddImmIs
<1> HIDE DEF c, arg
<1>5. QED
  BY <1>1, <1>4, AgreesIf

LEMMA AddSubImmAgrees ==
    ASSUME NEW sub \in BOOLEAN, NEW sf \in BOOLEAN, NEW imm \in SUBSET Bits,
           NEW n \in SUBSET Bits, AddSubImm(sub, sf, imm, n)
    PROVE  Agrees' /\ UpperHalfStaysClear'
<1> DEFINE arg == [sub |-> sub, form |-> "imm", type |-> 0, amount |-> 0]
           out == Cut(sf, AddImm(n, imm, sub))
<1>1. Execute("AddSub", sf, arg, n, imm, {}, out)
  BY DEF AddSubImm
<1>2. out \cap Span(sf) = AddImm(n, imm, sub) \cap Span(sf)
  BY AddImmIs, CutIs
<1>3. ~sf => out \subseteq Lower
  BY DEF Cut
<1> HIDE DEF out
<1>4. Agrees'
  BY <1>1, <1>2, SumAgrees
<1>5. UpperHalfStaysClear'
  <2> HIDE DEF arg
  <2>1. last'.sf = sf /\ last'.out = out
    BY <1>1, ExecutedIs
  <2>2. QED
    BY <1>3, <2>1 DEF UpperHalfStaysClear, Clean
<1>6. QED
  BY <1>4, <1>5

LEMMA MinOfTwo ==
    ASSUME NEW a \in Int, NEW b \in Int
    PROVE  Min({a, b}) = IF a <= b THEN a ELSE b
<1> DEFINE Least(x) == \A y \in {a, b} : x <= y
           c == IF a <= b THEN a ELSE b
<1>1. Min({a, b}) = CHOOSE x \in {a, b} : Least(x)
  BY DEF Min
<1>2. c \in {a, b} /\ Least(c)
  OBVIOUS
<1>3. \A x \in {a, b} : Least(x) => x = c
  OBVIOUS
<1> HIDE DEF Least
<1>4. (CHOOSE x \in {a, b} : Least(x)) = c
  BY <1>2, <1>3
<1>5. QED
  BY <1>1, <1>4

LEMMA ShiftedOperand ==
    ASSUME NEW sf \in BOOLEAN, NEW sub, NEW type \in 0..2, NEW amount \in 0..(Dword - 1),
           NEW n, NEW m \in SUBSET Bits, NEW out,
           Execute("AddSub", sf,
               [sub |-> sub, form |-> "shifted", type |-> type, amount |-> amount],
               n, m, {}, out),
           ~Departs'
    PROVE  /\ ShiftWithType(m, type, amount) \in SUBSET Bits
           /\ ShiftWithType(m, type, amount) \cap Span(sf)
                = {i \in Span(sf) : ShiftedBit(i)'}
<1> DEFINE arg == [sub |-> sub, form |-> "shifted", type |-> type, amount |-> amount]
           b == ShiftWithType(m, type, amount)
           size == SizeOf(sf)
<1>1. /\ last'.op = "AddSub" /\ last'.arg = arg /\ last'.m = m /\ last'.sf = sf
      /\ Size' = size
  <2> HIDE DEF arg
  <2>1. QED  BY ExecutedIs DEF arg
<1>2. ~sf /\ type = 1 => m \subseteq Lower
  BY <1>1 DEF Departs, WordShiftedRight, Clean
<1>3. ~sf /\ type = 2 /\ amount > 0 => m \subseteq 0..(Half32 - 2)
  BY <1>1 DEF Departs, WordShiftedRight
<1>4. /\ size = (IF sf THEN Dword ELSE Half32) /\ Span(sf) = 0..(size - 1)
      /\ Bits = 0..(Dword - 1) /\ Lower = 0..(Half32 - 1)
      /\ Dword \in Nat /\ Half32 \in Nat /\ Half32 >= 4 /\ Dword = 2 * Half32
  BY Widths DEF SizeOf, Span
<1> HIDE DEF size, b
<1>5. CASE type = 0
  <2>1. b = {i \in Bits : i - amount \in m}
    BY <1>5 DEF ShiftWithType, Shl, b
  <2>2. \A i : ShiftedBit(i)' <=> i - amount \in m
    BY <1>1, <1>5 DEF ShiftedBit
  <2>3. QED
    BY <1>4, <2>1, <2>2 DEF b
<1>6. CASE type = 1
  <2>1. b = {i \in Bits : i + amount \in m}
    BY <1>6 DEF ShiftWithType, Shr, b
  <2>2. \A i : ShiftedBit(i)' <=> i + amount < size /\ i + amount \in m
    BY <1>1, <1>6 DEF ShiftedBit
  <2>3. \A k \in m : k < size
    BY <1>2, <1>4, <1>6
  <2>4. QED
    BY <1>4, <2>1, <2>2, <2>3 DEF b
<1>7. CASE type = 2
  <2>1. b = SignedExtend({i \in Bits : i + amount \in m}, Dword - 1 - amount)
    BY <1>7 DEF ShiftWithType, Shr, b
  <2>2. Dword - 1 - amount \in Bits /\ Dword - 1 - amount + amount = Dword - 1
    BY <1>4
  <2>3. \A i : i \in b <=>
          i \in Bits /\ (i + amount \in m \/ (i >= Dword - 1 - amount /\ Dword - 1 \in m))
    BY <2>1, <2>2 DEF SignedExtend
  <2>4. \A i \in Span(sf) : i + amount \in Int /\ size - 1 \in Int
    BY <1>4
  <2>5. ASSUME NEW i \in Span(sf)
        PROVE  ShiftedBit(i)' <=> IF i + amount <= size - 1 THEN i + amount \in m
                                  ELSE size - 1 \in m
    <3>1. ShiftedBit(i)' <=> Min({i + amount, size - 1}) \in m
      BY <1>1, <1>7 DEF ShiftedBit
    <3>2. QED
      BY <2>4, <3>1, MinOfTwo
  <2>6. \A i \in Span(sf) : i \in b <=> ShiftedBit(i)'
    BY <1>3, <1>4, <1>7, <2>3, <2>5
  <2>7. b \in SUBSET Bits /\ Span(sf) \subseteq Bits
    BY <1>4, <2>3
  <2>8. QED
    BY <2>6, <2>7 DEF b
<1>8. QED
  BY <1>5, <1>6, <1>7

LEMMA AddSubShiftedAgrees ==
    ASSUME NEW sub \in BOOLEAN, NEW sf \in BOOLEAN, NEW type \in 0..2,
           NEW amount \in 0..(Dword - 1), NEW n \in SUBSET Bits, NEW m \in SUBSET Bits,
           AddSubShifted(sub, sf, type, amount, n, m)
    PROVE  Agrees' /\ UpperHalfStaysClear'
<1> DEFINE arg == [sub |-> sub, form |-> "shifted", type |-> type, amount |-> amount]
           b == ShiftWithType(m, type, amount)
           out == Cut(sf, AddImm(n, b, sub))
<1>1. Execute("AddSub", sf, arg, n, m, {}, out)
  BY DEF AddSubShifted
<1>2. b \in SUBSET Bits
  BY DEF ShiftWithType, Shl, Shr, SignedExtend
<1> HIDE DEF b
<1>3. out \cap Span(sf) = AddImm(n, b, sub) \cap Span(sf)
  BY <1>2, AddImmIs, CutIs
<1>4. ~sf => out \subseteq Lower
  BY DEF Cut
<1> HIDE DEF out
<1>5. ~Departs' => b \cap Span(sf) = {i \in Span(sf) : ShiftedBit(i)'}
  BY <1>1, ShiftedOperand DEF b
<1>6. Agrees'
  BY <1>1, <1>2, <1>3, <1>5, SumAgrees
<1>7. UpperHalfStaysClear'
  <2> HIDE DEF arg
  <2>1. last'.sf = sf /\ last'.out = out
    BY <1>1, ExecutedIs
  <2>2. QED
    BY <1>4, <2>1 DEF UpperHalfStaysClear, Clean
<1>8. QED
  BY <1>6, <1>7

(* ExtendValue of a 32-bit register.                                       *)
LEMMA ExtendedOperand ==
    ASSUME NEW sf \in BOOLEAN, NEW sub, NEW type \in 0..7, NEW amount \in 0..2,
           NEW n, NEW m \in SUBSET Bits, NEW d, NEW out, NEW arg,
           arg = [sub |-> sub, form |-> "extended", type |-> type, amount |-> amount],
           Execute("AddSub", sf, arg, n, m, d, out), ~Departs'
    PROVE  \A i \in Span(sf) :
             i \in ExtendValue(m \cap Lower, type, amount) <=> ExtendedBit(i)'
<1> DEFINE b == ExtendValue(m \cap Lower, type, amount)
           size == SizeOf(sf)
<1>1. /\ last'.op = "AddSub" /\ last'.arg = arg /\ last'.m = m /\ last'.sf = sf
      /\ Size' = size
  BY ExecutedIs
<1>2. type = 5 => \A i \in ByteBits..(Piece - 1) : (i \in m) = (ByteBits - 1 \in m)
  BY <1>1 DEF Departs, Extension
<1>3. sf /\ type \in {3, 7} => m \subseteq Lower
  BY <1>1 DEF Departs, Extension, Clean
<1>4. /\ size = (IF sf THEN Dword ELSE Half32) /\ Span(sf) = 0..(size - 1)
      /\ Bits = 0..(Dword - 1) /\ Lower = 0..(Half32 - 1)
      /\ Dword \in Nat /\ Half32 \in Nat /\ Half32 >= 4 /\ Dword = 2 * Half32
      /\ Half32 = 2 * Piece /\ Piece = 2 * ByteBits /\ Piece \in Nat
      /\ ByteBits \in Nat /\ ByteBits > 0
  BY Widths DEF SizeOf, Span
<1> HIDE DEF size
<1>5. type \in {0, 1, 2, 3, 4, 5, 6, 7} /\ amount \in {0, 1, 2}
  OBVIOUS
<1>6. PICK field \in Nat :
        /\ Min({ExtendLength[type + 1], Dword - amount}) = field
        /\ type \in {0, 4, 5} => field = ByteBits
        /\ type = 1 => field = Piece
        /\ type \in {2, 6} => field = Half32
        /\ type \in {3, 7} => field = Dword - amount
  <2>1. ASSUME NEW l \in Nat
        PROVE  Min({l, Dword - amount}) = IF l <= Dword - amount THEN l ELSE Dword - amount
    BY <1>4, <1>5, MinOfTwo
  <2>2. CASE type \in {0, 4, 5}
    <3>1. ExtendLength[type + 1] = ByteBits
      BY <2>2 DEF ExtendLength
    <3>2. Min({ExtendLength[type + 1], Dword - amount}) = ByteBits
      BY <1>4, <1>5, <2>1, <3>1
    <3>3. QED
      BY <1>4, <2>2, <3>2
  <2>3. CASE type = 1
    <3>1. ExtendLength[type + 1] = Piece
      BY <2>3 DEF ExtendLength
    <3>2. Min({ExtendLength[type + 1], Dword - amount}) = Piece
      BY <1>4, <1>5, <2>1, <3>1
    <3>3. QED
      BY <1>4, <2>3, <3>2
  <2>4. CASE type \in {2, 6}
    <3>1. ExtendLength[type + 1] = Half32
      BY <2>4 DEF ExtendLength
    <3>2. Min({ExtendLength[type + 1], Dword - amount}) = Half32
      BY <1>4, <1>5, <2>1, <3>1
    <3>3. QED
      BY <1>4, <2>4, <3>2
  <2>5. CASE type \in {3, 7}
    <3>1. ExtendLength[type + 1] = Dword
      BY <2>5 DEF ExtendLength
    <3>2. Min({ExtendLength[type + 1], Dword - amount}) = Dword - amount
      BY <1>4, <1>5, <2>1, <3>1
    <3>3. Dword - amount \in Nat
      <4>1. Dword \in Nat /\ Dword >= 8 /\ amount \in Nat /\ amount <= 2
        BY <1>4, <1>5
      <4>2. QED
        BY <4>1
    <3>4. QED
      BY <2>5, <3>2, <3>3
  <2>6. QED
    BY <1>5, <2>2, <2>3, <2>4, <2>5
<1>7. PICK width \in Nat :
        /\ Min({<<ByteBits, Piece, Half32, Dword>>[(type % 4) + 1], size}) = width
        /\ type \in {0, 4} => width = ByteBits
        /\ type \in {1, 5} => width = Piece
        /\ type \in {2, 6} => width = Half32
        /\ type \in {3, 7} => width = size
  <2> DEFINE t == <<ByteBits, Piece, Half32, Dword>>
  <2>1. ASSUME NEW l \in Nat
        PROVE  Min({l, size}) = IF l <= size THEN l ELSE size
    BY <1>4, MinOfTwo
  <2>2. CASE type \in {0, 4}
    <3>1. (type % 4) + 1 = 1
      BY <2>2
    <3>2. t[(type % 4) + 1] = ByteBits
      BY <3>1
    <3>3. Min({t[(type % 4) + 1], size}) = ByteBits
      BY <1>4, <2>1, <3>2
    <3>4. QED
      BY <1>4, <2>2, <3>3
  <2>3. CASE type \in {1, 5}
    <3>1. (type % 4) + 1 = 2
      BY <2>3
    <3>2. t[(type % 4) + 1] = Piece
      BY <3>1
    <3>3. Min({t[(type % 4) + 1], size}) = Piece
      BY <1>4, <2>1, <3>2
    <3>4. QED
      BY <1>4, <2>3, <3>3
  <2>4. CASE type \in {2, 6}
    <3>1. (type % 4) + 1 = 3
      BY <2>4
    <3>2. t[(type % 4) + 1] = Half32
      BY <3>1
    <3>3. Min({t[(type % 4) + 1], size}) = Half32
      BY <1>4, <2>1, <3>2
    <3>4. QED
      BY <1>4, <2>4, <3>3
  <2>5. CASE type \in {3, 7}
    <3>1. (type % 4) + 1 = 4
      BY <2>5
    <3>2. t[(type % 4) + 1] = Dword
      BY <3>1
    <3>3. Min({t[(type % 4) + 1], size}) = size
      BY <1>4, <2>1, <3>2
    <3>4. QED
      BY <1>4, <2>5, <3>3
  <2>6. QED
    BY <1>5, <2>2, <2>3, <2>4, <2>5
<1> HIDE DEF b
<1> DEFINE low == {i \in Bits : i - amount \in {j \in m \cap Lower : j < field}}
<1>8. b = IF type < 4 THEN low ELSE SignExtend(low, field + amount)
  BY <1>6 DEF b, ExtendValue, Shl
<1>9. {i \in low : i < field + amount} = low
  <2>1. \A i \in Bits : i \in Int /\ amount \in Int
    BY <1>4
  <2>2. QED
    BY <2>1
<1>10. \A i \in Bits : i \in b <=>
         \/ i - amount \in m \cap Lower /\ i - amount < field
         \/ type >= 4 /\ field + amount - 1 \in low /\ i >= field + amount - 1
  BY <1>8, <1>9 DEF SignExtend, SignedExtend
<1>11. field + amount - 1 \in low <=> field - 1 \in m \cap Lower
  BY <1>4, <1>5, <1>6
<1>12. \A i : ExtendedBit(i)' <=>
         \/ i - amount \in 0..(width - 1) /\ i - amount \in m
         \/ i - amount >= width /\ type >= 4 /\ width - 1 \in m
  BY <1>1, <1>7 DEF ExtendedBit
<1> HIDE DEF low
<1>13. \A i \in Span(sf) : i \in b <=> ExtendedBit(i)'
  <2>1. ASSUME NEW i \in Span(sf)
        PROVE  (\/ i - amount \in m \cap Lower /\ i - amount < field
                \/ type >= 4 /\ field - 1 \in m \cap Lower /\ i >= field + amount - 1)
               <=>
               (\/ i - amount \in 0..(width - 1) /\ i - amount \in m
                \/ i - amount >= width /\ type >= 4 /\ width - 1 \in m)
    <3>1. /\ i \in Int /\ amount \in Int /\ i < size /\ i >= 0 /\ amount >= 0
          /\ amount <= 2 /\ size \in Int
      BY <1>4
    <3>2. PICK from \in Int : from = i - amount
      BY <3>1
    <3>3. /\ from \in m \cap Lower <=> from \in m /\ 0 <= from /\ from < Half32
          /\ field - 1 \in m \cap Lower
               <=> field - 1 \in m /\ 0 <= field - 1 /\ field - 1 < Half32
      BY <1>4, <3>2
    <3>4. CASE type \in {0, 1, 2}
      <4>1. field = width /\ field <= Half32
        BY <1>4, <1>6, <1>7, <3>4
      <4>2. QED
        BY <1>4, <3>1, <3>2, <3>3, <3>4, <4>1
    <3>5. CASE type = 3
      <4>1. field = Dword - amount /\ width = size
        BY <1>6, <1>7, <3>5
      <4>2. QED
        BY <1>3, <1>4, <3>1, <3>2, <3>3, <3>5, <4>1
    <3>6. CASE type \in {4, 6}
      <4>1. field = width /\ field <= Half32 /\ field > 0 /\ field \in Int
        BY <1>4, <1>6, <1>7, <3>6
      <4>2. from >= field \/ from < field - 1 \/ from = field - 1
        BY <3>2, <4>1
      <4>3. QED
        BY <1>4, <3>1, <3>2, <3>3, <3>6, <4>1, <4>2
    <3>7. CASE type = 5
      <4>1. field = ByteBits /\ width = Piece
        BY <1>6, <1>7, <3>7
      <4>2. Piece - 1 \in ByteBits..(Piece - 1)
        BY <1>4
      <4>3. Piece - 1 \in m <=> ByteBits - 1 \in m
        BY <1>2, <3>7, <4>2
      <4>4. from \in ByteBits..(Piece - 1) => (from \in m <=> ByteBits - 1 \in m)
        BY <1>2, <3>7
      <4>5. from < ByteBits - 1 \/ from = ByteBits - 1 \/ from \in ByteBits..(Piece - 1)
              \/ from >= Piece
        BY <1>4, <3>2
      <4>6. QED
        BY <1>4, <3>1, <3>2, <3>3, <3>7, <4>1, <4>3, <4>4, <4>5
    <3>8. CASE type = 7
      <4>1. field = Dword - amount /\ width = size
        BY <1>6, <1>7, <3>8
      <4>2. QED
        BY <1>3, <1>4, <3>1, <3>2, <3>3, <3>8, <4>1
    <3>9. QED
      BY <1>5, <3>4, <3>5, <3>6, <3>7, <3>8
  <2>2. Span(sf) \subseteq Bits
    BY WidthIs
  <2>3. QED
    BY <1>10, <1>11, <1>12, <2>1, <2>2
<1>14. QED
  BY <1>13 DEF b

LEMMA AddSubExtendedAgrees ==
    ASSUME NEW sub \in BOOLEAN, NEW sf \in BOOLEAN, NEW type \in 0..7,
           NEW amount \in 0..2, NEW n \in SUBSET Bits, NEW m \in SUBSET Bits,
           NEW d \in SUBSET Bits, AddSubExtended(sub, sf, type, amount, n, m, d)
    PROVE  Agrees' /\ UpperHalfStaysClear'
<1> DEFINE arg == [sub |-> sub, form |-> "extended", type |-> type, amount |-> amount]
           b == ExtendValue(m \cap Lower, type, amount)
           out == IF sf THEN AddImm(n, b, sub)
                  ELSE (d \cap Upper) \cup (AddImm(n, b, sub) \cap Lower)
<1>1. Execute("AddSub", sf, arg, n, m, d, out)
  BY DEF AddSubExtended
<1>2. b \in SUBSET Bits
  BY DEF ExtendValue, Shl, SignExtend, SignedExtend
<1> HIDE DEF b
<1>3. out \cap Span(sf) = AddImm(n, b, sub) \cap Span(sf)
  <2>1. AddImm(n, b, sub) \in SUBSET Bits
    BY <1>2, AddImmIs
  <2>2. ~sf => Span(sf) = Lower
    BY DEF Span, SizeOf, Lower
  <2>3. QED
    BY <2>1, <2>2, Widths
<1>4. ~sf /\ d \subseteq Lower => out \subseteq Lower
  BY Widths
<1> HIDE DEF out
<1>5. ASSUME ~Departs' PROVE b \cap Span(sf) = {i \in Span(sf) : ExtendedBit(i)'}
  <2>1. arg = [sub |-> sub, form |-> "extended", type |-> type, amount |-> amount]
    OBVIOUS
  <2> HIDE DEF arg
  <2>2. \A i \in Span(sf) :
          i \in ExtendValue(m \cap Lower, type, amount) <=> ExtendedBit(i)'
    BY <1>1, <1>5, <2>1, ExtendedOperand
  <2>3. QED
    BY <2>2 DEF b
<1>6. Agrees'
  BY <1>1, <1>2, <1>3, <1>5, SumAgrees
<1>7. UpperHalfStaysClear'
  <2> HIDE DEF arg
  <2>1. last'.sf = sf /\ last'.out = out /\ last'.d = d
    BY <1>1, ExecutedIs
  <2>2. QED
    BY <1>4, <2>1 DEF UpperHalfStaysClear, Clean
<1>8. QED
  BY <1>6, <1>7

-----------------------------------------------------------------------------
LEMMA ThreeSourceAgrees ==
    ASSUME NEW opc \in {"madd", "msub"}, NEW sf \in BOOLEAN, NEW n \in SUBSET Bits,
           NEW m \in SUBSET Bits, NEW a \in SUBSET Bits, ThreeSource(opc, sf, n, m, a)
    PROVE  Agrees' /\ UpperHalfStaysClear'
<1> DEFINE arg == [opc |-> opc]
           result == IF opc = "madd" THEN Bitset(Value(a) + Value(n) * Value(m))
                     ELSE Bitset((Value(a) - Value(n) * Value(m)) % Power[Dword])
           out == Cut(sf, result)
           M == Modulus(sf)
           expected == IF opc = "madd" THEN NumOf(sf, a) + NumOf(sf, n) * NumOf(sf, m)
                       ELSE NumOf(sf, a) - NumOf(sf, n) * NumOf(sf, m)
<1>1. Execute("ThreeSource", sf, arg, n, m, a, out)
  BY DEF ThreeSource
<1>2. /\ last'.op = "ThreeSource" /\ last'.sf = sf /\ last'.arg = arg /\ last'.n = n
      /\ last'.m = m /\ last'.d = a /\ last'.out = out /\ Size' = SizeOf(sf)
      /\ Numbers' = Power[SizeOf(sf)]
  <2> HIDE DEF arg, out
  <2>1. QED  BY <1>1, ExecutedIs
<1>3. Expected' = NumberOf(sf, expected)
  BY <1>2 DEF Expected, OfNumber, NumberOf, Modulus, Num, NumOf
<1>4. PICK x \in Int, y \in Int, z \in Int, u \in Int, v \in Int, w \in Int :
        /\ x = NumOf(sf, n) /\ y = NumOf(sf, m) /\ z = NumOf(sf, a)
        /\ u = Value(n) /\ v = Value(m) /\ w = Value(a)
  BY Operand
<1>5. Congruent(u, x, M) /\ Congruent(v, y, M) /\ Congruent(w, z, M) /\ M \in Int
  BY <1>4, Operand
<1> HIDE DEF M
<1>6. Congruent(u * v, x * y, M)
  BY <1>5, CongruentProduct
<1>7. PICK p \in Int, q \in Int : p = u * v /\ q = x * y
  OBVIOUS
<1>8. Congruent(p, q, M)
  BY <1>6, <1>7
<1>9. Congruent(w + p, z + q, M) /\ Congruent(w - p, z - q, M)
  BY <1>5, <1>8, CongruentSum
<1>10. result \in SUBSET Bits
  BY DEF Bitset
<1>11. result \cap Span(sf) = NumberOf(sf, expected)
  <2>1. CASE opc = "madd"
    <3>1. result = Bitset(w + p) /\ expected = z + q /\ w + p \in Int /\ z + q \in Int
      BY <1>4, <1>7, <2>1
    <3>2. QED
      BY <1>9, <3>1, Computed DEF M
  <2>2. CASE opc = "msub"
    <3>1. w - p \in Int /\ z - q \in Int /\ Dword \in 0..Dword
      BY Widths
    <3>2. Bitset((w - p) % Power[Dword]) = {i \in Bitset(w - p) : i < Dword}
      BY <3>1, LowBits
    <3>3. \A i \in Bitset(w - p) : i < Dword
      BY Widths DEF Bitset
    <3>4. result = Bitset((w - p) % Power[Dword]) /\ expected = z - q
      BY <1>4, <1>7, <2>2
    <3>5. result = Bitset(w - p)
      BY <3>2, <3>3, <3>4
    <3>6. QED
      BY <1>9, <3>1, <3>4, <3>5, Computed DEF M
  <2>3. QED
    BY <2>1, <2>2
<1> HIDE DEF result, expected, arg
<1>12. out \cap Span(sf) = result \cap Span(sf)
  BY <1>10, CutIs
<1>13. ~sf => out \subseteq Lower
  BY DEF Cut
<1> HIDE DEF out
<1>14. Agrees'
  BY <1>1, <1>3, <1>11, <1>12, AgreesIf
<1>15. UpperHalfStaysClear'
  BY <1>2, <1>13 DEF UpperHalfStaysClear, Clean
<1>16. QED
  BY <1>14, <1>15

LEMMA ZeroIs ==
    ASSUME NEW m \in SUBSET Bits
    PROVE  Value(m) = 0 <=> m = {}
<1>1. Value({}) = 0 /\ {} \in SUBSET Bits
  <2>1. Dword \in 0..Dword
    BY Widths
  <2>2. QED
    BY <2>1, NoBits
<1>2. QED
  BY <1>1, SameValue

LEMMA QuotientInt ==
    ASSUME NEW x \in Nat, NEW y \in Nat, y # 0
    PROVE  x \div y \in Nat
  OBVIOUS

(* UDIV, SDIV and LSRV: with no operand above the width and no negative    *)
(* one, the 64-bit quotient is the architecture's.                         *)
LEMMA TwoSourceAgrees ==
    ASSUME NEW opc \in {"udiv", "sdiv", "lsrv"}, NEW sf \in BOOLEAN, NEW rm \in 0..1,
           NEW n \in SUBSET Bits, NEW m \in SUBSET Bits, TwoSource(opc, sf, rm, n, m)
    PROVE  Agrees' /\ UpperHalfStaysClear'
<1> DEFINE arg == [opc |-> opc, rm |-> rm]
           quotient == IF rm = 0 THEN {} ELSE Bitset(Value(n) \div Value(m))
           amount == Value(m) % (IF sf THEN Dword ELSE Half32)
           out == CASE opc = "udiv" -> Cut(sf, quotient)
                    [] opc = "sdiv" -> IF sf THEN quotient
                                       ELSE SignedExtend(quotient \cap Lower, Half32 - 1)
                    [] opc = "lsrv" -> Shr(n, amount)
           size == SizeOf(sf)
           x == NumOf(sf, n)
           y == NumOf(sf, m)
<1>1. /\ opc # "lsrv" => rm = 0 \/ m # {}
      /\ Execute("TwoSource", sf, arg, n, m, {}, out)
  BY DEF TwoSource
<1>2. /\ last'.op = "TwoSource" /\ last'.sf = sf /\ last'.arg = arg /\ last'.n = n
      /\ last'.m = m /\ last'.d = {} /\ last'.out = out /\ Size' = size
      /\ Numbers' = Power[size]
  <2> HIDE DEF arg, out
  <2>1. QED  BY <1>1, ExecutedIs
<1>3. Expected' = NumberOf(sf, Quotient')
  BY <1>2 DEF Expected, OfNumber, NumberOf, Modulus
<1>4. Num(last.n)' = x /\ Num(last.m)' = y
  BY <1>2 DEF Num, NumOf
<1>5. /\ x \in Nat /\ y \in Nat /\ x < Modulus(sf) /\ y < Modulus(sf)
      /\ Modulus(sf) \in Int /\ Value(n) \in Nat /\ Value(m) \in Nat
      /\ size \in Nat \ {0} /\ size \in Int
  BY Operand, ValueNat, WidthIs
<1>6. quotient \in SUBSET Bits
  BY DEF Bitset
<1>7. amount \in Nat /\ amount = Value(m) % size
  <2>1. amount = Value(m) % size
    BY DEF SizeOf
  <2>2. Value(m) \in Int /\ size \in Nat \ {0}
    BY <1>5
  <2> HIDE DEF size, amount
  <2>3. Value(m) % size \in 0..(size - 1)
    BY <2>2, DivMod
  <2>4. QED
    BY <1>5, <2>1, <2>3
<1> HIDE DEF x, y, size, quotient, amount
<1>8. SignedExtend(quotient \cap Lower, Half32 - 1) \cap Lower = quotient \cap Lower
      /\ (Half32 - 1 \notin SignedExtend(quotient \cap Lower, Half32 - 1)
            => SignedExtend(quotient \cap Lower, Half32 - 1) = quotient \cap Lower)
  BY <1>6, Widths DEF SignedExtend
<1>9. ASSUME ~Departs' PROVE out \cap Span(sf) = Expected'
  <2>1. sf \/ (Clean(n) /\ Clean(m))
    BY <1>2, <1>9 DEF Departs, WordShiftedRight, Clean
  <2>2. x = Value(n) /\ y = Value(m)
    BY <2>1, WholeOperand DEF x, y
  <2>3. CASE opc = "lsrv"
    <3>1. Quotient' = Num(last.n)' \div Power[Num(last.m)' % Size']
      BY <1>2, <2>3 DEF Quotient
    <3>2. Quotient' = Value(n) \div Power[amount] /\ out = Shr(n, amount)
      BY <1>2, <1>4, <1>7, <2>2, <2>3, <3>1
    <3>3. Value(Shr(n, amount)) = Value(n) \div Power[amount]
      BY <1>7, ShrValue
    <3>4. Shr(n, amount) \in SUBSET Bits
      BY DEF Shr
    <3>5. PICK v \in Int : v = Value(Shr(n, amount))
      BY ValueNat
    <3>6. Congruent(Value(Shr(n, amount)), v, Modulus(sf))
      BY <1>5, <3>5, CongruentSelf
    <3>7. Shr(n, amount) \cap Span(sf) = NumberOf(sf, v)
      BY <3>4, <3>6, Kept
    <3>8. QED
      BY <1>3, <3>2, <3>3, <3>5, <3>7
  <2>4. CASE opc # "lsrv"
    <3>1. rm # 0 \/ m = {}
      BY <1>2, <1>9, <2>4 DEF Departs, Division
    <3>2. y = 0 <=> m = {}
      BY <2>2, ZeroIs
    <3>3. out \cap Span(sf) = quotient \cap Span(sf)
      <4>1. CASE opc = "udiv"
        BY <1>6, <4>1, CutIs
      <4>2. CASE opc = "sdiv" /\ sf
        BY <4>2
      <4>3. CASE opc = "sdiv" /\ ~sf
        <5>1. Span(sf) = Lower
          BY <4>3 DEF Span, SizeOf, Lower
        <5>2. QED
          BY <1>8, <4>3, <5>1
      <4>4. QED
        BY <2>4, <4>1, <4>2, <4>3
    <3>4. CASE y = 0
      <4>1. Quotient' = 0
        BY <1>2, <1>4, <2>4, <3>4 DEF Quotient
      <4>2. quotient = {}
        BY <1>1, <2>4, <3>2, <3>4 DEF quotient
      <4>3. PICK v \in Int : v = 0 /\ Value({}) = v /\ {} \in SUBSET Bits
        BY ZeroIs
      <4>4. Congruent(Value({}), v, Modulus(sf))
        BY <1>5, <4>3, CongruentSelf
      <4>5. {} \cap Span(sf) = NumberOf(sf, v)
        BY <4>3, <4>4, Kept
      <4>6. QED
        BY <1>3, <3>3, <4>1, <4>2, <4>3, <4>5
    <3>5. CASE y # 0
      <4>1. PICK v \in Int : v = x \div y
        BY <1>5, <3>5, QuotientInt
      <4>2. quotient = Bitset(v)
        BY <2>2, <3>1, <3>2, <3>5, <4>1 DEF quotient
      <4>3. Quotient' = v
        <5>1. CASE opc = "udiv"
          BY <1>2, <1>4, <3>5, <4>1, <5>1 DEF Quotient
        <5>2. CASE opc = "sdiv"
          <6>1. SignedNum(last.n)' \in Nat /\ SignedNum(last.m)' \in Nat
            BY <1>2, <1>9, <5>2 DEF Departs, Division
          <6>2. /\ SignedNum(last.n)' = IF size - 1 \in n THEN x - Modulus(sf) ELSE x
                /\ SignedNum(last.m)' = IF size - 1 \in m THEN y - Modulus(sf) ELSE y
            BY <1>2, <1>4 DEF SignedNum, Modulus, size
          <6>3. SignedNum(last.n)' = x /\ SignedNum(last.m)' = y
            BY <1>5, <6>1, <6>2
          <6>4. SignedQuotient(x, y) = x \div y
            BY <1>5 DEF SignedQuotient, Magnitude
          <6>5. Quotient' = SignedQuotient(SignedNum(last.n)', SignedNum(last.m)')
            BY <1>2, <1>4, <3>5, <5>2 DEF Quotient, SignedQuotient, Magnitude
          <6>6. QED
            BY <4>1, <6>3, <6>4, <6>5
        <5>3. QED
          BY <2>4, <5>1, <5>2
      <4>4. Congruent(v, v, Modulus(sf))
        BY <1>5, CongruentSelf
      <4>5. Bitset(v) \cap Span(sf) = NumberOf(sf, v)
        BY <4>4, Computed
      <4>6. QED
        BY <1>3, <3>3, <4>2, <4>3, <4>5
    <3>6. QED
      BY <3>4, <3>5
  <2>5. QED
    BY <2>3, <2>4
<1>10. Agrees'
  <2> HIDE DEF out, arg
  <2>1. QED  BY <1>1, <1>9, AgreesIf
<1>11. UpperHalfStaysClear'
  <2>1. SUFFICES ASSUME ~sf, n \subseteq Lower, opc # "sdiv" \/ Half32 - 1 \notin out
                 PROVE  out \subseteq Lower
    <3> HIDE DEF out
    <3>1. QED  BY <1>2 DEF UpperHalfStaysClear, Clean
  <2>2. CASE opc = "udiv"
    BY <2>1, <2>2 DEF Cut
  <2>3. CASE opc = "sdiv"
    BY <1>8, <2>1, <2>3
  <2>4. CASE opc = "lsrv"
    <3>1. Shr(n, amount) \subseteq Lower
      <4>1. \A i \in Bits : i + amount \in Lower => i \in Lower
        BY <1>7, Widths
      <4>2. QED
        BY <2>1, <4>1 DEF Shr
    <3>2. QED
      BY <2>4, <3>1
  <2>5. QED
    BY <2>2, <2>3, <2>4
<1>12. QED
  BY <1>10, <1>11

-----------------------------------------------------------------------------
(* The logical operations, bit by bit.                                     *)
LEMMA CombineIs ==
    ASSUME NEW opc \in {"and", "ands", "orr", "eor"}, NEW a, NEW b, NEW i
    PROVE  i \in Combine(opc, a, b) <=>
             \/ opc \in {"and", "ands"} /\ i \in a /\ i \in b
             \/ opc = "orr" /\ (i \in a \/ i \in b)
             \/ opc = "eor" /\ ((i \in a /\ i \notin b) \/ (i \in b /\ i \notin a))
<1>1. CASE opc \in {"and", "ands"}
  <2>1. Combine(opc, a, b) = a \cap b
    BY <1>1 DEF Combine
  <2>2. QED
    BY <1>1, <2>1
<1>2. CASE opc = "orr"
  <2>1. Combine(opc, a, b) = a \cup b
    BY <1>2 DEF Combine
  <2>2. QED
    BY <1>2, <2>1
<1>3. CASE opc = "eor"
  <2>1. Combine(opc, a, b) = (a \ b) \cup (b \ a)
    BY <1>3 DEF Combine
  <2>2. QED
    BY <1>3, <2>1
<1>4. QED
  BY <1>1, <1>2, <1>3

LEMMA CombineSame ==
    ASSUME NEW opc \in {"and", "ands", "orr", "eor"}, NEW a, NEW b, NEW c, NEW S,
           \A i \in S : i \in b <=> i \in c
    PROVE  \A i \in S : i \in Combine(opc, a, b) <=> i \in Combine(opc, a, c)
  BY CombineIs

LEMMA CombineBits ==
    ASSUME NEW opc \in {"and", "ands", "orr", "eor"}, NEW S,
           NEW a \in SUBSET S, NEW b \in SUBSET S
    PROVE  Combine(opc, a, b) \in SUBSET S
  BY CombineIs

LEMMA LogicalAgreesIf ==
    ASSUME NEW op, NEW sf \in BOOLEAN, NEW arg, NEW n, NEW m, NEW d,
           NEW out \in SUBSET Bits,
           Execute(op, sf, arg, n, m, d, out),
           sf => (arg.N <=> Dword - 1 \in out) /\ (arg.Z <=> out = {}),
           ~Departs' => out \cap Span(sf) = Expected'
    PROVE  Agrees'
<1>1. /\ last'.sf = sf /\ last'.arg = arg /\ last'.out = out
      /\ (0..(Size - 1))' = Span(sf) /\ Size' = SizeOf(sf)
  BY ExecutedIs
<1>2. sf => Span(sf) = Bits /\ SizeOf(sf) = Dword
  BY DEF Span, SizeOf, Bits
<1>3. SizeOf(sf) - 1 \in Span(sf)
  BY WidthIs
<1>4. ASSUME ~Departs', sf
      PROVE  (arg.N <=> SizeOf(sf) - 1 \in Expected') /\ (arg.Z <=> Expected' = {})
  BY <1>2, <1>3, <1>4
<1>5. QED
  BY <1>1, <1>4 DEF Agrees

LEMMA LogicalImmAgrees ==
    ASSUME NEW opc \in {"and", "orr", "eor", "ands"}, NEW sf \in BOOLEAN,
           NEW n \in 0..1, NEW imms \in 0..(Dword - 1), NEW immr \in 0..(Dword - 1),
           n * Dword + (Dword - 1 - imms) >= 2,
           imms % ElementSize(n, imms) # ElementSize(n, imms) - 1,
           NEW a \in SUBSET Bits, LogicalImm(opc, sf, n, imms, immr, a)
    PROVE  Agrees' /\ UpperHalfStaysClear'
<1> DEFINE masks == DecodeBitMasks(n, imms, immr)
           result == Combine(opc, a, masks)
           arg == [opc |-> opc, n |-> n, imms |-> imms, immr |-> immr,
                   N |-> (IF sf THEN Dword - 1 ELSE Half32 - 1) \in result,
                   Z |-> result = {}]
           out == Cut(sf, result)
<1>1. Execute("LogicalImm", sf, arg, a, {}, {}, out)
  BY DEF LogicalImm
<1>2. masks \in SUBSET Bits /\ \A i \in Bits : i \in masks <=> MaskBit(n, imms, immr, i)
  BY MasksAre
<1> HIDE DEF masks
<1>3. result \in SUBSET Bits
  BY <1>2, CombineBits
<1>4. out \in SUBSET Bits /\ out \cap Span(sf) = result \cap Span(sf)
      /\ (~sf => out \subseteq Lower)
  <2>1. ~sf => out \subseteq Lower
    BY DEF Cut
  <2> HIDE DEF result, out
  <2>2. QED
    BY <1>3, <2>1, CutIs DEF out
<1>5. /\ sf => (arg.N <=> Dword - 1 \in out) /\ (arg.Z <=> out = {})
      /\ arg.opc = opc /\ arg.n = n /\ arg.imms = imms /\ arg.immr = immr
  BY DEF Cut
<1> HIDE DEF arg, out
<1>6. /\ last'.op = "LogicalImm" /\ last'.sf = sf /\ last'.arg = arg /\ last'.n = a
      /\ last'.out = out /\ (0..(Size - 1))' = Span(sf)
  BY <1>1, ExecutedIs
<1> DEFINE c == {j \in Span(sf) : MaskBit(n, imms, immr, j)}
<1>7. Expected' = {i \in Span(sf) : i \in Combine(opc, a, c)}
  BY <1>5, <1>6 DEF Expected, OfBits
<1>8. \A i \in Span(sf) : i \in masks <=> i \in c
  BY <1>2, WidthIs
<1> HIDE DEF c
<1>9. \A i \in Span(sf) : i \in result <=> i \in Combine(opc, a, c)
  BY <1>8, CombineSame
<1> HIDE DEF result
<1>10. out \cap Span(sf) = Expected'
  BY <1>4, <1>7, <1>9
<1>11. Agrees'
  BY <1>1, <1>4, <1>5, <1>10, LogicalAgreesIf
<1>12. UpperHalfStaysClear'
  BY <1>4, <1>6 DEF UpperHalfStaysClear, Clean
<1>13. QED
  BY <1>11, <1>12

LEMMA LogicalShiftedAgrees ==
    ASSUME NEW opc \in {"and", "orr", "ands"}, NEW inv \in BOOLEAN, NEW sf \in BOOLEAN,
           NEW right \in BOOLEAN, NEW amount \in 0..(SizeOf(sf) - 1), NEW zr \in BOOLEAN,
           NEW n \in SUBSET Bits, NEW m \in SUBSET Bits, NEW d \in SUBSET Bits,
           LogicalShifted(opc, inv, sf, right, amount, zr, n, m, d)
    PROVE  Agrees' /\ UpperHalfStaysClear'
<1> DEFINE op1 == IF zr THEN {} ELSE n
           moved == IF right THEN Shr(m, amount) ELSE Shl(m, amount)
           op2 == IF inv THEN Negate(moved) ELSE moved
           result == Combine(opc, op1, op2)
           type == IF right THEN 1 ELSE 0
           arg == [opc |-> opc, inv |-> inv, type |-> type, amount |-> amount,
                   N |-> Dword - 1 \in result, Z |-> result = {}]
           copies == opc = "and" \/ (opc = "orr" /\ zr /\ ~right /\ amount = 0)
           out == IF copies THEN result
                  ELSE IF opc = "orr" /\ ~sf THEN (d \cap Upper) \cup (result \cap Lower)
                  ELSE Cut(sf, result)
           size == SizeOf(sf)
<1>1. Execute("LogicalShifted", sf, arg, op1, m, d, out)
  BY DEF LogicalShifted
<1>2. moved \in SUBSET Bits /\ op1 \in SUBSET Bits
  BY DEF Shr, Shl
<1>3. \A i \in Bits : i \in moved <=> IF right THEN i + amount \in m ELSE i - amount \in m
  BY DEF Shr, Shl
<1>4. amount = 0 /\ ~right => moved = m
  <2>1. \A i \in Bits : i - 0 = i
    BY Widths
  <2>2. QED
    BY <1>2, <1>3, <2>1
<1> HIDE DEF moved, op1
<1>5. op2 \in SUBSET Bits /\ \A i \in Bits : i \in op2 <=> (i \in moved) # inv
  BY <1>2 DEF Negate
<1>6. ~inv => op2 = moved
  OBVIOUS
<1> HIDE DEF op2
<1>7. result \in SUBSET Bits
  BY <1>2, <1>5, CombineBits
<1>8. /\ arg.opc = opc /\ arg.inv = inv /\ arg.type = type /\ arg.amount = amount
      /\ sf => (arg.N <=> Dword - 1 \in out) /\ (arg.Z <=> out = {})
  BY DEF Cut
<1>9. out \in SUBSET Bits /\ out \cap Span(sf) = result \cap Span(sf)
  <2>1. ~sf => Span(sf) = Lower
    BY DEF Span, SizeOf, Lower
  <2>2. Cut(sf, result) \cap Span(sf) = result \cap Span(sf)
        /\ Cut(sf, result) \in SUBSET Bits
    <3> HIDE DEF result
    <3>1. QED  BY <1>7, CutIs
  <2> HIDE DEF result, copies
  <2>3. QED
    BY <1>7, <2>1, <2>2, Widths
<1> HIDE DEF arg, out, type
<1>10. /\ last'.op = "LogicalShifted" /\ last'.sf = sf /\ last'.arg = arg
       /\ last'.n = op1 /\ last'.m = m /\ last'.d = d /\ last'.out = out
       /\ (0..(Size - 1))' = Span(sf) /\ Size' = size
  BY <1>1, ExecutedIs
<1> DEFINE c == {j \in Span(sf) : ShiftedBit(j)' # inv}
<1>11. Expected' = {i \in Span(sf) : i \in Combine(opc, op1, c)}
  BY <1>8, <1>10 DEF Expected, OfBits
<1>12. ASSUME ~Departs' PROVE out \cap Span(sf) = Expected'
  <2>1. sf \/ ~right \/ m \subseteq Lower
    BY <1>8, <1>10, <1>12 DEF Departs, WordShiftedRight, Clean, type
  <2>2. right => \A k \in m : k < size
    <3>1. CASE sf
      BY <3>1, Widths DEF size, SizeOf
    <3>2. CASE ~sf
      BY <2>1, <3>2, Widths DEF size, SizeOf
    <3>3. QED
      BY <3>1, <3>2
  <2> HIDE DEF size
  <2>3. \A i : ShiftedBit(i)' <=>
          IF right THEN i + amount < size /\ i + amount \in m ELSE i - amount \in m
    <3>1. CASE right
      <4>1. \A i : ShiftedBit(i)' <=> i + amount < size /\ i + amount \in m
        <5>1. last'.arg.type = 1 /\ last'.arg.amount = amount /\ last'.m = m /\ Size' = size
          BY <1>8, <1>10, <3>1 DEF type
        <5>2. QED
          BY <5>1 DEF ShiftedBit
      <4>2. QED
        BY <3>1, <4>1
    <3>2. CASE ~right
      <4>1. \A i : ShiftedBit(i)' <=> i - amount \in m
        <5>1. last'.arg.type = 0 /\ last'.arg.amount = amount /\ last'.m = m
          BY <1>8, <1>10, <3>2 DEF type
        <5>2. QED
          BY <5>1 DEF ShiftedBit
      <4>2. QED
        BY <3>2, <4>1
    <3>3. QED
      BY <3>1, <3>2
  <2>4. Span(sf) \subseteq Bits
    BY WidthIs
  <2>5. \A i \in Span(sf) : ShiftedBit(i)' <=> i \in moved
    BY <1>3, <2>2, <2>3, <2>4
  <2>6. \A i \in Span(sf) : i \in op2 <=> i \in c
    <3>1. \A i \in Span(sf) : i \in c <=> (ShiftedBit(i)' # inv)
      OBVIOUS
    <3>2. ASSUME NEW i \in Span(sf) PROVE (ShiftedBit(i)' # inv) <=> ((i \in moved) # inv)
      <4>1. ShiftedBit(i)' = (i \in moved)
        <5>1. ShiftedBit(i)' \in BOOLEAN
          <6>1. last'.arg.type = 0 \/ last'.arg.type = 1
            BY <1>8, <1>10 DEF type
          <6>2. CASE last'.arg.type = 0
            BY <6>2 DEF ShiftedBit
          <6>3. CASE last'.arg.type = 1
            BY <6>3 DEF ShiftedBit
          <6>4. QED
            BY <6>1, <6>2, <6>3
        <5>2. ShiftedBit(i)' <=> i \in moved
          BY <2>5
        <5>3. QED
          BY <5>1, <5>2
      <4>2. QED
        BY <4>1
    <3> HIDE DEF c
    <3>3. QED
      BY <1>5, <2>4, <3>1, <3>2
  <2> HIDE DEF c
  <2>7. \A i \in Span(sf) : i \in result <=> i \in Combine(opc, op1, c)
    BY <2>6, CombineSame
  <2> HIDE DEF result
  <2>8. QED
    BY <1>9, <1>11, <2>7
<1>13. Agrees'
  <2> HIDE DEF result, copies
  <2>1. QED  BY <1>1, <1>8, <1>9, <1>12, LogicalAgreesIf
<1>14. UpperHalfStaysClear'
  <2>1. SUFFICES ASSUME ~sf, op1 \subseteq Lower, m \subseteq Lower, d \subseteq Lower,
                        ~(inv /\ op1 = {})
                 PROVE  out \subseteq Lower
    BY <1>8, <1>10 DEF UpperHalfStaysClear, Clean
  <2>2. CASE opc = "and"
    <3>1. result = op1 \cap op2 /\ out = result
      BY <2>2 DEF Combine, out
    <3>2. QED
      BY <2>1, <3>1
  <2>3. CASE opc = "orr" /\ zr /\ ~right /\ amount = 0
    <3>1. op1 = {} /\ op2 = m
      BY <1>4, <1>6, <2>1, <2>3 DEF op1
    <3>2. result = m /\ out = result
      BY <2>3, <3>1 DEF Combine, out
    <3>3. QED
      BY <2>1, <3>2
  <2>4. CASE ~copies
    BY <2>1, <2>4, Widths DEF out, Cut
  <2>5. QED
    BY <2>2, <2>3, <2>4
<1>15. QED
  BY <1>13, <1>14

-----------------------------------------------------------------------------
(* The place of a bit field: to..top in the result.                        *)
FieldTop(sf, immr, imms) ==
    IF imms >= immr THEN imms - immr ELSE SizeOf(sf) + imms - immr

FieldBit(sf, immr, imms, n, i) ==
    (IF imms >= immr THEN i + immr ELSE i + immr - SizeOf(sf)) \in n

LEMMA FieldIs ==
    ASSUME NEW sf \in BOOLEAN, NEW immr \in 0..(SizeOf(sf) - 1),
           NEW imms \in 0..(SizeOf(sf) - 1), NEW n \in SUBSET Bits
    PROVE  LET to == FieldTo(sf, immr, imms)
               top == FieldTop(sf, immr, imms)
           IN  /\ to \in Nat /\ top \in Nat /\ to <= top /\ top < SizeOf(sf)
               /\ to + FieldLength(immr, imms) - 1 = top
               /\ top = (imms - immr) % SizeOf(sf)
               /\ to = IF imms >= immr THEN 0 ELSE SizeOf(sf) - immr
               /\ \A i \in to..top :
                     (i + immr) % SizeOf(sf) \in n <=> FieldBit(sf, immr, imms, n, i)
               /\ FieldBit(sf, immr, imms, n, top) <=> imms \in n
               /\ \A i : i \in Field(sf, immr, imms, n) <=>
                     i \in Lower /\ i \in to..top /\ FieldBit(sf, immr, imms, n, i)
<1> DEFINE size == SizeOf(sf)
           to == FieldTo(sf, immr, imms)
           top == FieldTop(sf, immr, imms)
           len == FieldLength(immr, imms)
           from == IF imms >= immr THEN immr ELSE 0
<1>1. size \in Nat /\ size >= 4 /\ size <= Dword /\ Dword \in Nat
      /\ immr \in Nat /\ imms \in Nat /\ immr < size /\ imms < size
  <2>1. size \in 0..Dword /\ size \in Nat /\ size >= 4
    BY WidthIs
  <2>2. immr \in 0..(size - 1) /\ imms \in 0..(size - 1)
    OBVIOUS
  <2> HIDE DEF size
  <2>3. QED
    BY <2>1, <2>2, Widths
<1>2. to = IF imms >= immr THEN 0 ELSE size - immr
  BY DEF FieldTo, SizeOf
<1>3. top = IF imms >= immr THEN imms - immr ELSE size + imms - immr
  BY DEF FieldTop
<1>4. len = IF imms >= immr THEN imms - immr + 1 ELSE imms + 1
  BY DEF FieldLength
<1>5. \A i : FieldBit(sf, immr, imms, n, i) <=>
         (IF imms >= immr THEN i + immr ELSE i + immr - size) \in n
  BY DEF FieldBit
<1>6. \A i : i \in Field(sf, immr, imms, n) <=>
         i \in Lower /\ i \in Bits /\ i - to \in Bits /\ i - to + from \in n /\ i - to < len
  BY Widths DEF Field, Shl, Shr
<1> HIDE DEF size, to, top, len
<1>7. to \in Nat /\ top \in Nat /\ to <= top /\ top < size /\ to + len - 1 = top
  BY <1>1, <1>2, <1>3, <1>4
<1>8. ASSUME NEW v \in Int, v >= 0, v < size PROVE v % size = v
  <2>1. size \in Nat \ {0} /\ v = 0 * size + v /\ v \in 0..(size - 1) /\ 0 \in Int
    BY <1>1, <1>8
  <2>2. QED
    BY <2>1, DivisionIs
<1>9. top = (imms - immr) % size
  <2>1. CASE imms >= immr
    BY <1>1, <1>3, <1>8, <2>1
  <2>2. CASE ~(imms >= immr)
    <3>1. PICK a \in Int : a = imms - immr
      BY <1>1
    <3>2. size \in Nat \ {0} /\ -1 \in Int /\ top \in 0..(size - 1)
      BY <1>1, <1>7
    <3>3. a = (-1) * size + top
      BY <1>1, <1>3, <2>2, <3>1
    <3>4. a % size = top
      BY <3>2, <3>3, DivisionIs
    <3>5. QED
      BY <3>1, <3>4
  <2>3. QED
    BY <2>1, <2>2
<1>10. ASSUME NEW i \in to..top
       PROVE  (i + immr) % size = IF imms >= immr THEN i + immr ELSE i + immr - size
  <2>1. i \in Nat /\ i >= to /\ i <= top
    BY <1>7
  <2>2. CASE imms >= immr
    BY <1>1, <1>2, <1>3, <1>8, <2>1, <2>2
  <2>3. CASE ~(imms >= immr)
    <3>1. PICK a \in Int, b \in Int : a = i + immr /\ b = i + immr - size
      BY <1>1, <2>1
    <3>2. size \in Nat \ {0} /\ 1 \in Int /\ b \in 0..(size - 1)
      BY <1>1, <1>2, <1>3, <2>1, <2>3, <3>1
    <3>3. a = 1 * size + b
      BY <1>1, <2>1, <3>1
    <3>4. a % size = b
      BY <3>2, <3>3, DivisionIs
    <3>5. QED
      BY <2>3, <3>1, <3>4
  <2>4. QED
    BY <2>2, <2>3
<1>11. \A i \in to..top : (i + immr) % size \in n <=> FieldBit(sf, immr, imms, n, i)
  BY <1>5, <1>10
<1>12. FieldBit(sf, immr, imms, n, top) <=> imms \in n
  <2>1. (IF imms >= immr THEN top + immr ELSE top + immr - size) = imms
    BY <1>1, <1>3
  <2>2. QED
    BY <1>5, <2>1
<1>13. ASSUME NEW i
       PROVE  i \in Field(sf, immr, imms, n) <=>
                i \in Lower /\ i \in to..top /\ FieldBit(sf, immr, imms, n, i)
  <2>1. i \in Lower => i \in Int /\ i \in Bits /\ i >= 0 /\ i < Dword
    BY Widths
  <2>2. i \in Lower /\ i \in to..top =>
          i - to \in Bits /\ i - to < len
          /\ i - to + from = IF imms >= immr THEN i + immr ELSE i + immr - size
    <3>1. SUFFICES ASSUME i \in Lower, i \in to..top
                   PROVE  /\ i - to \in Bits /\ i - to < len
                          /\ i - to + from
                               = IF imms >= immr THEN i + immr ELSE i + immr - size
      OBVIOUS
    <3>2. i \in Int /\ i >= to /\ i <= top /\ i < Dword /\ len \in Int /\ to \in Int
      BY <1>1, <1>4, <1>7, <2>1, <3>1
    <3>3. i - to < len /\ i - to >= 0 /\ i - to < Dword
      BY <1>1, <1>7, <3>2
    <3>4. i - to \in Bits
      BY <3>2, <3>3, Widths
    <3>5. i - to + from = IF imms >= immr THEN i + immr ELSE i + immr - size
      BY <1>1, <1>2, <3>2
    <3>6. QED
      BY <3>3, <3>4, <3>5
  <2>3. i \in Lower /\ i - to \in Bits /\ i - to < len => i \in to..top
    BY <1>7, <1>4, <1>1, <2>1, Widths
  <2>4. QED
    BY <1>5, <1>6, <2>1, <2>2, <2>3
<1>14. QED
  BY <1>2, <1>7, <1>9, <1>11, <1>12, <1>13 DEF size, to, top, len

LEMMA BitfieldAgrees ==
    ASSUME NEW opc \in {"sbfm", "bfm", "ubfm"}, NEW sf \in BOOLEAN,
           NEW immr \in 0..(SizeOf(sf) - 1), NEW imms \in 0..(SizeOf(sf) - 1),
           NEW n \in SUBSET Bits, NEW d \in SUBSET Bits,
           Bitfield(opc, sf, immr, imms, n, d)
    PROVE  Agrees' /\ UpperHalfStaysClear'
<1> DEFINE arg == [opc |-> opc, immr |-> immr, imms |-> imms]
           out == BitfieldResult(opc, sf, immr, imms, n, d)
           size == SizeOf(sf)
           to == FieldTo(sf, immr, imms)
           top == FieldTop(sf, immr, imms)
           len == FieldLength(immr, imms)
           field == Field(sf, immr, imms, n)
           Within(i) == FieldBit(sf, immr, imms, n, i)
<1>1. Execute("Bitfield", sf, arg, n, {}, d, out)
  BY DEF Bitfield
<1>2. /\ to \in Nat /\ top \in Nat /\ to <= top /\ top < size /\ to + len - 1 = top
      /\ top = (imms - immr) % size
      /\ to = IF imms >= immr THEN 0 ELSE size - immr
      /\ \A i \in to..top : (i + immr) % size \in n <=> Within(i)
      /\ Within(top) <=> imms \in n
      /\ \A i : i \in field <=> i \in Lower /\ i \in to..top /\ Within(i)
  BY FieldIs
<1>3. /\ opc = "ubfm" => out = field
      /\ opc = "sbfm" => out = SignedExtend(field, top)
      /\ opc = "bfm" => out = field \cup {i \in d : i <= top}
  <2>1. len \in Int /\ \A i \in Bits : i < to + len <=> i <= top
    BY <1>2, Widths DEF FieldLength, SizeOf
  <2>2. opc = "bfm" => out = field \cup {i \in d : i < to + len}
    BY DEF BitfieldResult
  <2>3. \A i \in d : i < to + len <=> i <= top
    BY <2>1
  <2>4. opc = "bfm" => out = field \cup {i \in d : i <= top}
    <3> HIDE DEF out, to, len, field, top
    <3>1. QED  BY <2>2, <2>3
  <2>5. opc = "sbfm" => out = SignedExtend(field, top)
    BY <1>2 DEF BitfieldResult
  <2>6. opc = "ubfm" => out = field
    BY DEF BitfieldResult
  <2>7. QED
    BY <2>4, <2>5, <2>6
<1> HIDE DEF out
<1>4. /\ last'.op = "Bitfield" /\ last'.sf = sf /\ last'.arg = arg /\ last'.n = n
      /\ last'.d = d /\ last'.out = out /\ Size' = size /\ (0..(Size - 1))' = Span(sf)
  <2> HIDE DEF arg
  <2>1. QED  BY <1>1, ExecutedIs
<1>5. arg.opc = opc /\ arg.immr = immr /\ arg.imms = imms
  OBVIOUS
<1> HIDE DEF arg, to, top, len, field, Within, size
<1>6. ASSUME NEW i
      PROVE  BitfieldBit(i)' <=>
               IF i \in to..top THEN Within(i)
               ELSE \/ opc = "bfm" /\ i \in d
                    \/ opc = "sbfm" /\ i > top /\ imms \in n
  <2>1. /\ last'.arg.opc = opc /\ last'.arg.immr = immr /\ last'.arg.imms = imms
        /\ last'.n = n /\ last'.d = d /\ Size' = size
    BY <1>4, <1>5
  <2>2. CASE i \in to..top
    <3>1. BitfieldBit(i)' <=> (i + immr) % size \in n
      BY <1>2, <2>1, <2>2 DEF BitfieldBit
    <3>2. QED
      BY <1>2, <2>2, <3>1
  <2>3. CASE i \notin to..top
    <3>1. CASE opc = "ubfm"
      BY <1>2, <2>1, <2>3, <3>1 DEF BitfieldBit
    <3>2. CASE opc = "bfm"
      BY <1>2, <2>1, <2>3, <3>2 DEF BitfieldBit
    <3>3. CASE opc = "sbfm"
      BY <1>2, <2>1, <2>3, <3>3 DEF BitfieldBit
    <3>4. QED
      BY <3>1, <3>2, <3>3
  <2>4. QED
    BY <2>2, <2>3
<1>7. Expected' = {i \in Span(sf) : BitfieldBit(i)'}
  BY <1>4 DEF Expected, OfBits
<1>8. field \subseteq Lower /\ Lower \subseteq Bits /\ Span(sf) \subseteq Bits
      /\ \A i \in Bits : i \in Int
  BY <1>2, Widths, WidthIs
<1>9. ASSUME ~Departs' PROVE out \cap Span(sf) = Expected'
  <2>1. /\ \A i \in to..top : BitfieldBit(i)' => i \in Lower
        /\ opc = "bfm" => \A i \in d : i <= top /\ (i < to \/ BitfieldBit(i)')
    <3>1. /\ last'.op = "Bitfield" /\ last'.arg.opc = opc /\ last'.d = d
          /\ FieldTo(last.sf, last.arg.immr, last.arg.imms)' = to
          /\ (FieldTo(last.sf, last.arg.immr, last.arg.imms)
                + FieldLength(last.arg.immr, last.arg.imms) - 1)' = top
      BY <1>2, <1>4, <1>5 DEF to, len
    <3>2. ~FieldCut'
      BY <1>9 DEF Departs
    <3>3. to \in Int /\ top \in Int /\ \A i \in d : i \in Int
      BY <1>2, <1>8
    <3>4. /\ \A i \in to..top : BitfieldBit(i)' => i \in Lower
          /\ opc = "bfm" => \A i \in d : ~(i > top) /\ ~(i >= to /\ ~BitfieldBit(i)')
      BY <3>1, <3>2 DEF FieldCut
    <3>5. QED
      BY <3>3, <3>4
  <2>2. \A i \in to..top : i \in field <=> Within(i)
    BY <1>2, <1>6, <2>1
  <2>3. \A i : i \in field => i \in to..top
    BY <1>2
  <2>4. to \in Int /\ top \in Int /\ top < size
    BY <1>2, WidthIs DEF size
  <2>5. ASSUME NEW i \in Span(sf) PROVE i \in out <=> BitfieldBit(i)'
    <3>1. i \in Bits /\ i \in Int
      BY <1>8
    <3>2. CASE opc = "ubfm"
      BY <1>3, <1>6, <2>2, <2>3, <3>2
    <3>3. CASE opc = "bfm"
      <4>1. i \in out <=> i \in field \/ (i \in d /\ i <= top)
        BY <1>3, <3>3
      <4>2. i \in d => i <= top /\ (i < to \/ BitfieldBit(i)')
        BY <2>1, <3>3
      <4>3. CASE i \in to..top
        BY <1>6, <2>2, <2>4, <3>1, <4>1, <4>2, <4>3
      <4>4. CASE i \notin to..top
        BY <1>6, <2>3, <2>4, <3>1, <3>3, <4>1, <4>2, <4>4
      <4>5. QED
        BY <4>3, <4>4
    <3>4. CASE opc = "sbfm"
      <4>1. top \in to..top /\ (top \in field <=> imms \in n)
        BY <1>2, <2>2, <2>4
      <4>2. i \in out <=> i \in field \/ (imms \in n /\ i >= top)
        BY <1>3, <3>1, <3>4, <4>1 DEF SignedExtend
      <4>3. CASE i = top
        BY <1>6, <2>2, <4>1, <4>2, <4>3, <1>2
      <4>4. CASE i # top /\ i \in to..top
        BY <1>6, <2>2, <2>4, <3>1, <4>2, <4>4
      <4>5. CASE i \notin to..top
        BY <1>6, <2>3, <2>4, <3>1, <3>4, <4>1, <4>2, <4>5
      <4>6. QED
        BY <4>3, <4>4, <4>5
    <3>5. QED
      BY <3>2, <3>3, <3>4
  <2>6. QED
    BY <1>7, <2>5
<1>10. Agrees'
  BY <1>1, <1>9, AgreesIf
<1>11. UpperHalfStaysClear'
  <2>1. SUFFICES ASSUME ~sf, d \subseteq Lower, opc # "sbfm" \/ Half32 - 1 \notin out
                 PROVE  out \subseteq Lower
    BY <1>4, <1>5 DEF UpperHalfStaysClear, Clean
  <2>2. CASE opc = "sbfm"
    <3>1. size = Half32 /\ Half32 - 1 \in Bits /\ top \in Int /\ Half32 \in Int
      BY <1>2, <2>1, Widths DEF size, SizeOf
    <3>2. top <= Half32 - 1
      BY <1>2, <3>1
    <3>3. out = field
      BY <1>3, <2>1, <2>2, <3>1, <3>2 DEF SignedExtend
    <3>4. QED
      BY <1>8, <3>3
  <2>3. CASE opc # "sbfm"
    BY <1>3, <1>8, <2>1, <2>3
  <2>4. QED
    BY <2>2, <2>3
<1>12. QED
  BY <1>10, <1>11

-----------------------------------------------------------------------------
(* An immediate of w bits, shifted by s and sign-extended.                 *)
LEMMA OffsetIs ==
    ASSUME NEW w \in Nat \ {0}, NEW s \in Nat, w + s <= Dword,
           NEW imm \in SUBSET (0..(w - 1))
    PROVE  /\ SignExtend(Shl(imm, s), w + s) = SignedExtend(Shl(imm, s), w + s - 1)
           /\ SignedExtend(Shl(imm, s), w + s - 1) \in SUBSET Bits
           /\ Congruent(Value(SignedExtend(Shl(imm, s), w + s - 1)),
                 (IF w - 1 \in imm THEN Value(imm) - Power[w] ELSE Value(imm)) * Power[s],
                 Power[Dword])
<1> DEFINE a == Shl(imm, s)
           t == w + s - 1
<1>1. /\ t \in 0..(Dword - 1) /\ t \in Nat /\ w \in Nat /\ s \in 0..Dword /\ s \in Int
      /\ imm \in SUBSET Bits /\ t - s = w - 1 /\ t + 1 = w + s /\ Bits = 0..(Dword - 1)
      /\ Dword \in Nat
  BY Widths
<1>2. a = {i \in Bits : i - s \in imm}
  BY DEF Shl
<1> HIDE DEF a
<1>3. a \in SUBSET (0..t) /\ a \in SUBSET Bits
  BY <1>1, <1>2
<1>4. {i \in a : i < w + s} = a
  <2>1. \A i \in 0..t : i < w + s
    BY <1>1
  <2>2. QED
    BY <1>3, <2>1
<1>5. t \in a <=> w - 1 \in imm
  BY <1>1, <1>2
<1> HIDE DEF t
<1>6. PICK v \in Int, x \in Int, p \in Int, q \in Int, D \in Int, k \in Int :
        /\ v = Value(a) /\ x = Value(imm) /\ p = Power[s] /\ q = Power[w]
        /\ D = Power[Dword] /\ k = Power[t + 1]
  <2>1. /\ Power[s] \in Int /\ Power[w] \in Int /\ Power[Dword] \in Int
        /\ Power[t + 1] \in Int /\ Value(a) \in Int /\ Value(imm) \in Int
    BY <1>1, PowerPositive, ValueNat
  <2>2. QED
    BY <2>1
<1>7. k = q * p
  BY <1>1, <1>6, PowerSum
<1>8. Congruent(v, x * p, D)
  BY <1>1, <1>6, ShlValue DEF a
<1>9. Congruent(Value(SignedExtend(a, t)), IF t \in a THEN v - k ELSE v, D)
  BY <1>1, <1>3, <1>6, SignedExtendValue
<1>10. PICK e \in Int, y \in Int, z \in Int :
          e = Value(SignedExtend(a, t)) /\ y = x * p /\ z = v - k
  BY <1>6, ValueNat
<1>11. (IF w - 1 \in imm THEN x - q ELSE x) * p = IF t \in a THEN y - k ELSE y
  <2>1. (x - q) * p = x * p - q * p
    <3>1. \A c, f, g \in Int : (c - f) * g = c * g - f * g
      OBVIOUS
    <3>2. QED
      BY <3>1
  <2>2. QED
    BY <1>5, <1>7, <1>10, <2>1
<1>12. Congruent(e, IF t \in a THEN y - k ELSE y, D)
  <2>1. CASE t \in a
    <3>1. Congruent(e, z, D)
      BY <1>9, <1>10, <2>1
    <3>2. Congruent(k, k, D)
      BY CongruentSelf
    <3>3. Congruent(v, y, D)
      BY <1>8, <1>10
    <3>4. Congruent(v - k, y - k, D)
      BY <3>2, <3>3, CongruentSum
    <3>5. PICK h \in Int : h = y - k
      OBVIOUS
    <3>6. Congruent(z, h, D)
      BY <1>10, <3>4, <3>5
    <3>7. Congruent(e, h, D)
      BY <3>1, <3>6, CongruentAll
    <3>8. QED
      BY <2>1, <3>5, <3>7
  <2>2. CASE t \notin a
    <3>1. Congruent(e, v, D) /\ Congruent(v, y, D)
      BY <1>8, <1>9, <1>10, <2>2
    <3>2. Congruent(e, y, D)
      BY <3>1, CongruentAll
    <3>3. QED
      BY <2>2, <3>2
  <2>3. QED
    BY <2>1, <2>2
<1>13. SignExtend(a, w + s) = SignedExtend(a, t)
  BY <1>4 DEF SignExtend, t
<1>14. SignedExtend(a, t) \in SUBSET Bits
  BY <1>3 DEF SignedExtend
<1>15. QED
  BY <1>6, <1>10, <1>11, <1>12, <1>13, <1>14 DEF a, t

LEMMA AddOffset ==
    ASSUME NEW a \in SUBSET Bits, NEW b \in SUBSET Bits, NEW w \in Int,
           Congruent(Value(b), w, Power[Dword])
    PROVE  AddImm(a, b, FALSE) \cap Span(TRUE) = NumberOf(TRUE, Value(a) + w)
<1>1. TRUE \in BOOLEAN /\ FALSE \in BOOLEAN
  OBVIOUS
<1>2. NumOf(TRUE, a) = Value(a) /\ NumOf(TRUE, b) = Value(b) /\ Modulus(TRUE) = Power[Dword]
  BY <1>1, WholeOperand DEF Modulus, SizeOf
<1>3. AddImm(a, b, FALSE) \cap Span(TRUE) = NumberOf(TRUE, Value(a) + Value(b))
  <2>1. ASSUME NEW sf \in BOOLEAN, NEW sub \in BOOLEAN, ~sub
        PROVE  AddImm(a, b, sub) \cap Span(sf)
                 = NumberOf(sf, NumOf(sf, a) + NumOf(sf, b))
    BY <2>1, AddImmIs
  <2>2. AddImm(a, b, FALSE) \cap Span(TRUE)
          = NumberOf(TRUE, NumOf(TRUE, a) + NumOf(TRUE, b))
    BY <2>1, Zenon
  <2>3. QED
    BY <1>2, <2>2
<1>4. PICK x \in Int, y \in Int, D \in Nat \ {0} :
        x = Value(a) /\ y = Value(b) /\ D = Power[Dword]
  <2>1. Power[Dword] \in Nat \ {0}
    BY PowerPositive, Widths
  <2>2. QED
    BY <2>1, ValueNat
<1>5. Congruent(y, w, D) /\ Congruent(x, x, D) /\ D \in Int
  BY <1>4, CongruentSelf
<1>6. Congruent(x + y, x + w, D)
  BY <1>5, CongruentSum
<1>7. PICK g \in Int, h \in Int : g = x + y /\ h = x + w
  OBVIOUS
<1>8. Congruent(g, h, D)
  BY <1>6, <1>7
<1>9. g % D = h % D
  BY <1>8, CongruentMod
<1>10. QED
  BY <1>2, <1>3, <1>4, <1>7, <1>9 DEF NumberOf

(* The page of an address.                                                 *)
LEMMA PageIs ==
    ASSUME NEW pc \in SUBSET Bits, NEW s \in 0..Dword
    PROVE  Value({i \in pc : i >= s}) = Value(pc) - (Value(pc) % Power[s])
<1> DEFINE high == {i \in pc : i >= s}
           low == {i \in pc : i < s}
<1>1. \A i \in pc : i \in Int /\ s \in Int
  BY Widths
<1>2. high \cup low = pc /\ high \cap low = {}
  BY <1>1
<1>3. Value(low) = Sums(pc)[s] /\ Value(pc) % Power[s] = Sums(pc)[s]
  BY CutValue
<1> HIDE DEF high, low
<1>4. Value(pc) = Value(high) + Value(low)
  BY <1>2, UnionValue
<1>5. PICK x \in Int, y \in Int, z \in Int : x = Value(pc) /\ y = Value(high) /\ z = Value(low)
  BY ValueNat
<1>6. y = x - z
  BY <1>4, <1>5
<1>7. QED
  BY <1>3, <1>5, <1>6 DEF high

LEMMA PcRelAgrees ==
    ASSUME NEW opc \in {"adr", "adrp", "cbz", "tbz"}, NEW pc \in SUBSET Bits,
           NEW imm \in SUBSET (0..(ImmBits - 1)), PcRel(opc, pc, imm)
    PROVE  Agrees' /\ UpperHalfStaysClear'
<1> DEFINE arg == [opc |-> opc, imm |-> imm]
           page == {i \in pc : i >= PageBits}
           far == SignExtend(Shl(imm, PageBits), ImmBits + PageBits)
           near == SignExtend(Shl(imm, 2), ImmBits + 2)
           out == CASE opc = "adr" -> Bitset(Value(pc) + Value(imm))
                    [] opc = "adrp" -> AddImm(page, far, FALSE)
                    [] opc = "cbz" -> AddImm(pc, near, FALSE)
                    [] opc = "tbz" ->
                         AddImm(pc, SignedExtend(Shl(imm, 2), ImmBits + 1), FALSE)
           offset == IF ImmBits - 1 \in imm THEN Value(imm) - Power[ImmBits]
                     ELSE Value(imm)
<1>1. Execute("PcRel", TRUE, arg, pc, {}, {}, out)
  BY DEF PcRel
<1>2. /\ arg.opc = opc /\ arg.imm = imm /\ TRUE \in BOOLEAN
      /\ SizeOf(TRUE) = Dword /\ Modulus(TRUE) = Power[Dword]
  BY DEF SizeOf, Modulus
<1>3. /\ last'.op = "PcRel" /\ last'.sf /\ last'.arg = arg /\ last'.n = pc
      /\ last'.out = out /\ Numbers' = Power[Dword] /\ Num(last.n)' = Value(pc)
  <2> HIDE DEF arg, out
  <2>1. /\ last'.op = "PcRel" /\ last'.sf = TRUE /\ last'.arg = arg /\ last'.n = pc
        /\ last'.out = out
    BY <1>1 DEF Execute
  <2>2. Numbers' = Power[Dword] /\ Size' = Dword
    BY <2>1 DEF Numbers, Size
  <2>3. Num(last.n)' = NumOf(TRUE, pc)
    BY <1>2, <2>1, <2>2 DEF Num, NumOf
  <2>4. NumOf(TRUE, pc) = Value(pc)
    BY WholeOperand
  <2>5. QED
    BY <2>1, <2>2, <2>3, <2>4
<1> HIDE DEF arg, out
<1>4. Expected' = NumberOf(TRUE, Target')
  BY <1>2, <1>3 DEF Expected, OfNumber, NumberOf
<1>5. PICK w \in Nat \ {0}, s \in Nat \ {0} :
        /\ w = ImmBits /\ s = PageBits /\ w + s <= Dword /\ w + 2 <= Dword
        /\ s \in 0..Dword
  <2>1. ImmBits \in Nat \ {0} /\ PageBits \in Nat \ {0}
        /\ ImmBits + PageBits <= Dword /\ ImmBits + 2 <= Dword
    BY RegistersAssumption
  <2>2. QED
    BY <2>1, Widths
<1>6. /\ Value(pc) \in Int /\ Value(imm) \in Int /\ offset \in Int
      /\ Power[2] = 4 /\ Power[PageBits] \in Int /\ 2 \in Nat
  <2>1. Power[0 + 1] = 2 /\ Power[1 + 1] = 4
    BY PowerIs
  <2>2. Power[w] \in Int /\ Power[s] \in Int
    BY <1>5, PowerPositive
  <2>3. QED
    BY <1>5, <2>1, <2>2, ValueNat
<1>7. /\ opc = "adr" => Target' = Value(pc) + offset
      /\ opc = "adrp" => Target' = (Value(pc) - (Value(pc) % Power[PageBits]))
                                     + offset * Power[PageBits]
      /\ opc \in {"cbz", "tbz"} => Target' = Value(pc) + 4 * offset
  <2>1. last'.arg.opc = opc /\ last'.arg.imm = imm /\ Num(last.n)' = Value(pc)
    BY <1>2, <1>3
  <2>2. CASE opc = "adr"
    BY <2>1, <2>2 DEF Target
  <2>3. CASE opc = "adrp"
    BY <2>1, <2>3 DEF Target
  <2>4. CASE opc \in {"cbz", "tbz"}
    BY <2>1, <2>4 DEF Target
  <2>5. QED
    BY <2>2, <2>3, <2>4
<1> HIDE DEF offset
<1>8. /\ near = SignedExtend(Shl(imm, 2), ImmBits + 1) /\ near \in SUBSET Bits
      /\ Congruent(Value(near), offset * Power[2], Power[Dword])
  <2>1. imm \in SUBSET (0..(w - 1))
    BY <1>5
  <2>2. /\ SignExtend(Shl(imm, 2), w + 2) = SignedExtend(Shl(imm, 2), w + 2 - 1)
        /\ SignedExtend(Shl(imm, 2), w + 2 - 1) \in SUBSET Bits
        /\ Congruent(Value(SignedExtend(Shl(imm, 2), w + 2 - 1)),
              (IF w - 1 \in imm THEN Value(imm) - Power[w] ELSE Value(imm)) * Power[2],
              Power[Dword])
    BY <1>5, <1>6, <2>1, OffsetIs
  <2>3. w + 2 - 1 = w + 1
    BY <1>5
  <2>4. QED
    BY <1>5, <2>2, <2>3 DEF offset
<1>9. /\ far \in SUBSET Bits
      /\ Congruent(Value(far), offset * Power[PageBits], Power[Dword])
  <2>1. imm \in SUBSET (0..(w - 1)) /\ s \in Nat
    BY <1>5
  <2>2. /\ SignExtend(Shl(imm, s), w + s) = SignedExtend(Shl(imm, s), w + s - 1)
        /\ SignedExtend(Shl(imm, s), w + s - 1) \in SUBSET Bits
        /\ Congruent(Value(SignedExtend(Shl(imm, s), w + s - 1)),
              (IF w - 1 \in imm THEN Value(imm) - Power[w] ELSE Value(imm)) * Power[s],
              Power[Dword])
    BY <1>5, <2>1, OffsetIs
  <2>3. QED
    BY <1>5, <2>2 DEF offset
<1> HIDE DEF near, far
<1>10. ASSUME ~Departs' PROVE out \cap Span(TRUE) = Expected'
  <2>1. CASE opc = "adr"
    <3>1. ImmBits - 1 \notin imm
      BY <1>2, <1>3, <1>10, <2>1 DEF Departs, BackwardAdr
    <3>2. PICK v \in Int : v = Value(pc) + Value(imm)
      BY <1>6
    <3>3. Target' = v /\ out = Bitset(v)
      BY <1>7, <2>1, <3>1, <3>2 DEF offset, out
    <3>4. Congruent(v, v, Modulus(TRUE))
      BY <1>2, CongruentSelf, Operand
    <3>5. Bitset(v) \cap Span(TRUE) = NumberOf(TRUE, v)
      BY <1>2, <3>4, Computed
    <3>6. QED
      BY <1>4, <3>3, <3>5
  <2>2. CASE opc = "adrp"
    <3>1. page \in SUBSET Bits /\ Value(page) = Value(pc) - (Value(pc) % Power[PageBits])
      BY <1>5, PageIs
    <3>2. PICK v \in Int : v = offset * Power[PageBits]
      BY <1>6
    <3>3. Congruent(Value(far), v, Power[Dword])
      BY <1>9, <3>2
    <3>4. AddImm(page, far, FALSE) \cap Span(TRUE) = NumberOf(TRUE, Value(page) + v)
      BY <1>9, <3>1, <3>3, AddOffset
    <3>5. QED
      BY <1>4, <1>7, <2>2, <3>1, <3>2, <3>4 DEF out
  <2>3. CASE opc \in {"cbz", "tbz"}
    <3>1. out = AddImm(pc, near, FALSE)
      BY <1>8, <2>3 DEF out, near
    <3>2. PICK v \in Int : v = 4 * offset /\ v = offset * Power[2]
      BY <1>6
    <3>3. Congruent(Value(near), v, Power[Dword])
      BY <1>8, <3>2
    <3>4. AddImm(pc, near, FALSE) \cap Span(TRUE) = NumberOf(TRUE, Value(pc) + v)
      BY <1>8, <3>3, AddOffset
    <3>5. QED
      BY <1>4, <1>7, <2>3, <3>1, <3>2, <3>4
  <2>4. QED
    BY <2>1, <2>2, <2>3
<1>11. Agrees'
  <2>1. last'.op = "PcRel" /\ last'.out = out
    BY <1>3
  <2>2. (0..(Size - 1))' = Span(TRUE)
    BY <1>2, <1>3 DEF Size, Span
  <2>3. QED
    BY <1>10, <2>1, <2>2 DEF Agrees
<1>12. UpperHalfStaysClear'
  BY <1>3 DEF UpperHalfStaysClear
<1>13. QED
  BY <1>11, <1>12

-----------------------------------------------------------------------------
(* Every instruction, with the operands its encoding can have.             *)
LEMMA EveryInstruction ==
    ASSUME last = None, Logical \/ Moves \/ Arithmetic \/ PcRelative
    PROVE  Agrees' /\ UpperHalfStaysClear'
<1>1. /\ \A a \in Registers : a \in SUBSET Bits
      /\ {} \in SUBSET Bits /\ Bits \in SUBSET Bits
  BY RegistersAssumption
<1>2. \A sf \in BOOLEAN : Amounts(sf) = 0..(SizeOf(sf) - 1) /\ Amounts(sf) \subseteq 0..(Dword - 1)
  <2>1. ASSUME NEW sf \in BOOLEAN
        PROVE  Amounts(sf) = 0..(SizeOf(sf) - 1) /\ Amounts(sf) \subseteq 0..(Dword - 1)
    <3>1. Amounts(sf) = 0..(SizeOf(sf) - 1)
      BY DEF Amounts, SizeOf
    <3>2. SizeOf(sf) \in 0..Dword /\ Dword \in Nat
      BY WidthIs, Widths
    <3>3. QED
      BY <3>1, <3>2
  <2>2. QED
    BY <2>1
<1>3. CASE Logical
  <2>1. PICK sf \in BOOLEAN, n \in Registers :
          \/ \E opc \in {"and", "orr", "eor", "ands"}, r \in 0..(Dword - 1) :
               \E e \in Encodings(sf) : LogicalImm(opc, sf, e[1], e[2], r, n)
          \/ \E opc \in {"and", "orr", "ands"}, inv, right, zr \in BOOLEAN,
                amount \in Amounts(sf), m \in Registers, d \in {{}, Bits} :
               LogicalShifted(opc, inv, sf, right, amount, zr, n, m, d)
    BY <1>3 DEF Logical
  <2>2. ASSUME NEW opc \in {"and", "orr", "eor", "ands"}, NEW r \in 0..(Dword - 1),
               NEW e \in Encodings(sf), LogicalImm(opc, sf, e[1], e[2], r, n)
        PROVE  Agrees' /\ UpperHalfStaysClear'
    <3>1. PICK k \in 0..1, imms \in 0..(Dword - 1) :
            /\ k = e[1] /\ imms = e[2] /\ k * Dword + (Dword - 1 - imms) >= 2
            /\ imms % ElementSize(k, imms) # ElementSize(k, imms) - 1
      BY DEF Encodings
    <3>2. LogicalImm(opc, sf, k, imms, r, n)
      BY <2>2, <3>1
    <3>3. QED
      BY <1>1, <3>1, <3>2, LogicalImmAgrees
  <2>3. ASSUME NEW opc \in {"and", "orr", "ands"}, NEW inv \in BOOLEAN,
               NEW right \in BOOLEAN, NEW zr \in BOOLEAN, NEW amount \in Amounts(sf),
               NEW m \in Registers, NEW d \in {{}, Bits},
               LogicalShifted(opc, inv, sf, right, amount, zr, n, m, d)
        PROVE  Agrees' /\ UpperHalfStaysClear'
    <3>1. /\ amount \in 0..(SizeOf(sf) - 1) /\ n \in SUBSET Bits /\ m \in SUBSET Bits
          /\ d \in SUBSET Bits
      BY <1>1, <1>2
    <3>2. QED
      BY <2>3, <3>1, LogicalShiftedAgrees
  <2>4. QED
    BY <2>1, <2>2, <2>3
<1>4. CASE Moves
  <2>1. PICK sf \in BOOLEAN, d \in Registers :
          \/ \E opc \in {"movn", "movz", "movk"},
                hw \in (IF sf THEN 0..3 ELSE 0..1), imm \in SUBSET (0..(Piece - 1)) :
               MoveWide(opc, sf, hw, imm, d)
          \/ \E opc \in {"sbfm", "bfm", "ubfm"}, n \in Registers,
                immr, imms \in Amounts(sf) : Bitfield(opc, sf, immr, imms, n, d)
          \/ \E opc \in {"csel", "csinc", "csinv", "csneg"}, taken \in BOOLEAN,
                n \in Registers : ConditionalSelect(opc, taken, sf, n, d)
    BY <1>4 DEF Moves
  <2>2. ASSUME NEW opc \in {"movn", "movz", "movk"},
               NEW hw \in (IF sf THEN 0..3 ELSE 0..1), NEW imm \in SUBSET (0..(Piece - 1)),
               MoveWide(opc, sf, hw, imm, d)
        PROVE  Agrees' /\ UpperHalfStaysClear'
    BY <1>1, <2>2, MoveWideAgrees
  <2>3. ASSUME NEW opc \in {"sbfm", "bfm", "ubfm"}, NEW n \in Registers,
               NEW immr \in Amounts(sf), NEW imms \in Amounts(sf),
               Bitfield(opc, sf, immr, imms, n, d)
        PROVE  Agrees' /\ UpperHalfStaysClear'
    <3>1. /\ immr \in 0..(SizeOf(sf) - 1) /\ imms \in 0..(SizeOf(sf) - 1)
          /\ n \in SUBSET Bits /\ d \in SUBSET Bits
      BY <1>1, <1>2
    <3>2. QED
      BY <2>3, <3>1, BitfieldAgrees
  <2>4. ASSUME NEW opc \in {"csel", "csinc", "csinv", "csneg"}, NEW taken \in BOOLEAN,
               NEW n \in Registers, ConditionalSelect(opc, taken, sf, n, d)
        PROVE  Agrees' /\ UpperHalfStaysClear'
    BY <1>1, <2>4, ConditionalSelectAgrees
  <2>5. QED
    BY <2>1, <2>2, <2>3, <2>4
<1>5. CASE Arithmetic
  <2>1. PICK sf \in BOOLEAN, sub \in BOOLEAN, n \in Registers, m \in Registers :
          \/ \E opc \in {"udiv", "sdiv", "lsrv"}, rm \in 0..1 :
               TwoSource(opc, sf, rm, n, m)
          \/ \E opc \in {"madd", "msub"}, a \in Registers :
               ThreeSource(opc, sf, n, m, a)
          \/ AddSubImm(sub, sf, m, n)
          \/ \E type \in 0..2, amount \in Amounts(TRUE) :
               AddSubShifted(sub, sf, type, amount, n, m)
          \/ \E type \in 0..7, amount \in 0..2, d \in {{}, Bits} :
               AddSubExtended(sub, sf, type, amount, n, m, d)
    BY <1>5 DEF Arithmetic
  <2>2. n \in SUBSET Bits /\ m \in SUBSET Bits
    BY <1>1
  <2>3. ASSUME NEW opc \in {"udiv", "sdiv", "lsrv"}, NEW rm \in 0..1,
               TwoSource(opc, sf, rm, n, m)
        PROVE  Agrees' /\ UpperHalfStaysClear'
    BY <2>2, <2>3, TwoSourceAgrees
  <2>4. ASSUME NEW opc \in {"madd", "msub"}, NEW a \in Registers,
               ThreeSource(opc, sf, n, m, a)
        PROVE  Agrees' /\ UpperHalfStaysClear'
    BY <1>1, <2>2, <2>4, ThreeSourceAgrees
  <2>5. ASSUME AddSubImm(sub, sf, m, n) PROVE Agrees' /\ UpperHalfStaysClear'
    BY <2>2, <2>5, AddSubImmAgrees
  <2>6. ASSUME NEW type \in 0..2, NEW amount \in Amounts(TRUE),
               AddSubShifted(sub, sf, type, amount, n, m)
        PROVE  Agrees' /\ UpperHalfStaysClear'
    <3>1. amount \in 0..(Dword - 1)
      BY DEF Amounts
    <3>2. QED
      BY <2>2, <2>6, <3>1, AddSubShiftedAgrees
  <2>7. ASSUME NEW type \in 0..7, NEW amount \in 0..2, NEW d \in {{}, Bits},
               AddSubExtended(sub, sf, type, amount, n, m, d)
        PROVE  Agrees' /\ UpperHalfStaysClear'
    <3>1. d \in SUBSET Bits
      OBVIOUS
    <3>2. QED
      BY <2>2, <2>7, <3>1, AddSubExtendedAgrees
  <2>8. QED
    BY <2>1, <2>3, <2>4, <2>5, <2>6, <2>7
<1>6. CASE PcRelative
  <2>1. PICK opc \in {"adr", "adrp", "cbz", "tbz"}, pc \in Registers,
             imm \in SUBSET (0..(ImmBits - 1)) : PcRel(opc, pc, imm)
    BY <1>6 DEF PcRelative
  <2>2. QED
    BY <1>1, <2>1, PcRelAgrees
<1>7. QED
  BY <1>3, <1>4, <1>5, <1>6

(* The results are functions of last alone.                                *)
Executed ==
    last = None \/
    last.op \in {"LogicalImm", "LogicalShifted", "MoveWide", "Bitfield",
                "ConditionalSelect", "TwoSource", "ThreeSource", "AddSub", "PcRel"}

LEMMA ExecutedNext ==
    ASSUME Logical \/ Moves \/ Arithmetic \/ PcRelative
    PROVE  Executed'
<1>1. ASSUME NEW op \in {"LogicalImm", "LogicalShifted", "MoveWide", "Bitfield",
                        "ConditionalSelect", "TwoSource", "ThreeSource", "AddSub", "PcRel"},
             NEW sf, NEW arg, NEW n, NEW m, NEW d, NEW out,
             Execute(op, sf, arg, n, m, d, out)
      PROVE  Executed'
  BY <1>1 DEF Execute, Executed
<1>2. ASSUME NEW a, NEW b, NEW c, NEW d, NEW e, NEW f, NEW g, NEW h, NEW i,
             \/ LogicalImm(a, b, c, d, e, f)
             \/ LogicalShifted(a, b, c, d, e, f, g, h, i)
      PROVE  Executed'
  BY <1>1, <1>2 DEF LogicalImm, LogicalShifted
<1>3. ASSUME NEW a, NEW b, NEW c, NEW d, NEW e, NEW f,
             \/ MoveWide(a, b, c, d, e)
             \/ Bitfield(a, b, c, d, e, f)
             \/ ConditionalSelect(a, b, c, d, e)
      PROVE  Executed'
  BY <1>1, <1>3 DEF MoveWide, Bitfield, ConditionalSelect
<1>4. CASE Logical
  BY <1>2, <1>4 DEF Logical
<1>5. CASE Moves
  BY <1>3, <1>5 DEF Moves
<1>6. CASE PcRelative
  <2>1. ASSUME NEW a, NEW b, NEW c, PcRel(a, b, c) PROVE Executed'
    BY <1>1, <2>1 DEF PcRel
  <2>2. QED
    BY <1>6, <2>1 DEF PcRelative
<1>7. CASE Arithmetic
  <2>1. ASSUME NEW a, NEW b, NEW c, NEW d, NEW e,
               TwoSource(a, b, c, d, e) \/ ThreeSource(a, b, c, d, e)
        PROVE  Executed'
    BY <1>1, <2>1 DEF TwoSource, ThreeSource
  <2>2. ASSUME NEW a, NEW b, NEW c, NEW d, AddSubImm(a, b, c, d) PROVE Executed'
    BY <1>1, <2>2 DEF AddSubImm
  <2>3. ASSUME NEW a, NEW b, NEW c, NEW d, NEW e, NEW f, AddSubShifted(a, b, c, d, e, f)
        PROVE  Executed'
    <3>1. \E arg, out : Execute("AddSub", b, arg, e, f, {}, out)
      BY <2>3 DEF AddSubShifted
    <3>2. QED
      BY <1>1, <3>1
  <2>4. ASSUME NEW a, NEW b, NEW c, NEW d, NEW e, NEW f, NEW g,
               AddSubExtended(a, b, c, d, e, f, g)
        PROVE  Executed'
    <3>1. \E arg, out : Execute("AddSub", b, arg, e, f, g, out)
      BY <2>4 DEF AddSubExtended
    <3>2. QED
      BY <1>1, <3>1
  <2>5. PICK sf \in BOOLEAN, sub \in BOOLEAN, n \in Registers, m \in Registers :
           \/ \E opc \in {"udiv", "sdiv", "lsrv"}, rm \in 0..1 :
                TwoSource(opc, sf, rm, n, m)
           \/ \E opc \in {"madd", "msub"}, a \in Registers :
                ThreeSource(opc, sf, n, m, a)
           \/ AddSubImm(sub, sf, m, n)
           \/ \E type \in 0..2, amount \in Amounts(TRUE) :
                AddSubShifted(sub, sf, type, amount, n, m)
           \/ \E type \in 0..7, amount \in 0..2, d \in {{}, Bits} :
                AddSubExtended(sub, sf, type, amount, n, m, d)
    BY <1>7 DEF Arithmetic
  <2>6. QED
    BY <2>1, <2>2, <2>3, <2>4, <2>5
<1>8. QED
  BY <1>4, <1>5, <1>6, <1>7

LEMMA Unchanged ==
    ASSUME last' = last, Executed
    PROVE  (Agrees' <=> Agrees) /\ (UpperHalfStaysClear' <=> UpperHalfStaysClear)
<1>1. Size' = Size /\ Numbers' = Numbers
  BY DEF Size, Numbers
<1>2. /\ \A a : Num(a)' = Num(a)
      /\ Num(last.n)' = Num(last.n) /\ Num(last.m)' = Num(last.m)
      /\ Num(last.d)' = Num(last.d)
  BY <1>1 DEF Num
<1>3. SignedNum(last.n)' = SignedNum(last.n) /\ SignedNum(last.m)' = SignedNum(last.m)
  BY <1>1, <1>2 DEF SignedNum
<1>4. /\ \A i : MovedBit(i)' <=> MovedBit(i)
      /\ \A i : ShiftedBit(i)' = ShiftedBit(i)
      /\ \A i : ExtendedBit(i)' <=> ExtendedBit(i)
      /\ \A i : BitfieldBit(i)' <=> BitfieldBit(i)
  BY <1>1 DEF MovedBit, ShiftedBit, ExtendedBit, BitfieldBit
<1>5. Departs' <=> Departs
  BY <1>1, <1>3, <1>4 DEF Departs, WordShiftedRight, FieldCut, Division, Extension, BackwardAdr
<1>6. Selected' = Selected /\ Quotient' = Quotient /\ Target' = Target
  BY <1>1, <1>2, <1>3 DEF Selected, Quotient, Target
<1>7. /\ OfBits(MovedBit)' = OfBits(MovedBit) /\ OfBits(BitfieldBit)' = OfBits(BitfieldBit)
      /\ OfBits(ShiftedBit)' = OfBits(ShiftedBit)
      /\ OfBits(ExtendedBit)' = OfBits(ExtendedBit)
  BY <1>1, <1>4 DEF OfBits
<1>8. ASSUME last # None PROVE Expected' = Expected
  <2>1. \A v : OfNumber(v)' = OfNumber(v)
    BY <1>1 DEF OfNumber
  <2>2. CASE last.op = "LogicalImm"
    BY <1>1, <2>2 DEF Expected, OfBits
  <2>3. CASE last.op = "LogicalShifted"
    <3>1. {j \in 0..(Size - 1) : ShiftedBit(j) # last.arg.inv}'
            = {j \in 0..(Size - 1) : ShiftedBit(j) # last.arg.inv}
      BY <1>1, <1>4
    <3>2. QED
      BY <1>1, <2>3, <3>1 DEF Expected, OfBits
  <2>4. CASE last.op \in {"MoveWide", "Bitfield"}
    BY <1>7, <2>4 DEF Expected
  <2>5. CASE last.op \in {"ConditionalSelect", "TwoSource", "PcRel"}
    BY <1>1, <1>6, <2>5 DEF Expected, OfNumber
  <2>6. CASE last.op = "ThreeSource"
    BY <1>1, <1>2, <2>6 DEF Expected, OfNumber
  <2>7. CASE last.op = "AddSub"
    <3> DEFINE b == CASE last.arg.form = "imm" -> last.m
                      [] last.arg.form = "shifted" -> OfBits(ShiftedBit)
                      [] last.arg.form = "extended" -> OfBits(ExtendedBit)
    <3>1. b' = b
      BY <1>7
    <3>2. Expected = OfNumber(Sum(b)) /\ Expected' = OfNumber(Sum(b))'
      BY <2>7 DEF Expected
    <3> HIDE DEF b
    <3>3. Num(b)' = Num(b)
      BY <1>1, <3>1 DEF Num
    <3>4. Sum(b)' = Sum(b)
      BY <1>2, <3>3 DEF Sum
    <3>5. QED
      BY <1>1, <3>2, <3>4 DEF OfNumber
  <2>8. QED
    BY <1>8, <2>2, <2>3, <2>4, <2>5, <2>6, <2>7 DEF Executed
<1>9. QED
  BY <1>1, <1>5, <1>8 DEF Agrees, UpperHalfStaysClear

LEMMA StepsAgree ==
    ASSUME Executed, Agrees, UpperHalfStaysClear, [DPNext]_last
    PROVE  Executed' /\ Agrees' /\ UpperHalfStaysClear'
<1>1. CASE last = None /\ (Logical \/ Moves \/ Arithmetic \/ PcRelative)
  BY <1>1, EveryInstruction, ExecutedNext
<1>2. CASE Retire
  BY <1>2 DEF Retire, Executed, Agrees, UpperHalfStaysClear
<1>3. CASE UNCHANGED last
  BY <1>3, Unchanged DEF Executed
<1>4. QED
  BY <1>1, <1>2, <1>3 DEF DPNext

(* Outside the departures Departs names, every data processing instruction *)
(* of decode_data_processing_imm and _reg, and every pc-relative target,   *)
(* is the architecture's bit for bit: any word size, any register values.  *)
THEOREM ResultsAgree == DPInit /\ [][DPNext]_last => []Agrees
<1>1. DPInit => Executed /\ Agrees /\ UpperHalfStaysClear
  BY DEF DPInit, Executed, Agrees, UpperHalfStaysClear
<1>2. Executed /\ Agrees /\ UpperHalfStaysClear /\ [DPNext]_last
        => Executed' /\ Agrees' /\ UpperHalfStaysClear'
  BY StepsAgree
<1>3. QED
  BY <1>1, <1>2, PTL

(* A W form of a data processing instruction never sets a bit of the upper *)
(* half that none of its operands has, except the forms that the property  *)
(* names: the 64-bit reads of W registers elsewhere in cpu.cc rely on it.  *)
THEOREM UpperHalvesStayClear == DPInit /\ [][DPNext]_last => []UpperHalfStaysClear
<1>1. DPInit => Executed /\ Agrees /\ UpperHalfStaysClear
  BY DEF DPInit, Executed, Agrees, UpperHalfStaysClear
<1>2. Executed /\ Agrees /\ UpperHalfStaysClear /\ [DPNext]_last
        => Executed' /\ Agrees' /\ UpperHalfStaysClear'
  BY StepsAgree
<1>3. QED
  BY <1>1, <1>2, PTL

-----------------------------------------------------------------------------
(***************************************************************************)
(* Loads and stores.  The inductive invariant Did says what the last access *)
(* did, from which both properties follow by its form.                     *)
(***************************************************************************)

LEMMA LengthIs ==
    /\ Length(0) = 1 /\ Length(1) = 2 /\ Length(2) = 4 /\ Length(3) = 8
    /\ \A size \in 0..3 : Length(size) \in 1..8 /\ (size # 2 => Length(size) # 4)
<1>1. Power[0] = 1 /\ Power[0 + 1] = 2 * Power[0]
  BY PowerIs
<1>2. Power[1 + 1] = 2 * Power[1]
  BY PowerIs
<1>3. Power[2 + 1] = 2 * Power[2]
  BY PowerIs
<1>4. Power[1] = 2 /\ Power[2] = 4 /\ Power[3] = 8
  BY <1>1, <1>2, <1>3
<1>5. Length(0) = 1 /\ Length(1) = 2 /\ Length(2) = 4 /\ Length(3) = 8
  BY <1>1, <1>4 DEF Length
<1>6. \A size \in 0..3 : size = 0 \/ size = 1 \/ size = 2 \/ size = 3
  OBVIOUS
<1>7. QED
  BY <1>5, <1>6

-----------------------------------------------------------------------------
(* The instruction that was executed last, as the decoder describes it.    *)
Kinds ==
    ({"ldr", "reg", "ldxr"} \X (0..3)) \cup ({"ldur"} \X (1..3))
    \cup ({"ldrsx", "regs"} \X (0..2)) \cup ({"ldrsw"} \X (0..1))
    \cup ({"literal"} \X (2..3)) \cup {<<"literals", 2>>}

Wheres(size) ==
    {Plain(base) : base \in Bases}
    \cup {Signed9(base, imm) : base \in Bases, imm \in Immediates}
    \cup {Scaled(base, imm, size) : base \in Bases, imm \in Immediates}
    \cup {[addr |-> RegisterOffset(base, m, shift, size, type), base |-> base,
           mode |-> "register", m |-> m, shift |-> shift, type |-> type] :
             base \in Bases, m \in OffsetRegisters, shift \in BOOLEAN,
             type \in {2, 3, 6, 7}}

DidLoad ==
    \E fs \in Kinds, where \in Wheres(access.size) :
        \E d : \E v \in BusLoad(where.addr, LoadSize(fs[1], fs[2])) :
              access = [kind |-> "load", form |-> fs[1], size |-> fs[2],
                        where |-> where, d |-> d, old |-> ram,
                        outcome |-> Outcome(where.addr, LoadTouches(LoadSize(fs[1], fs[2]))),
                        out |-> LoadResult(fs[1], fs[2], v, d)]

Stored(form, size, where, x, old) ==
    /\ access = [kind |-> "store", form |-> form, size |-> size, where |-> where,
                 d |-> x, old |-> old,
                 outcome |-> Outcome(where.addr, Length(size)), out |-> x]
    /\ ram = [b \in Mapping |->
                IF Window(where.addr) = "ram" /\ b - where.addr \in 0..(Length(size) - 1)
                THEN Byte(x, b - where.addr) ELSE old[b]]

DidStore ==
    \E form \in {"str", "stur", "stxr"}, size \in 0..3, where \in Wheres(access.size) :
        \E x, old : Stored(form, size, where, x, old)

Did == access.kind = "none" \/ DidLoad \/ DidStore

-----------------------------------------------------------------------------
(* Addresses.                                                              *)
LEMMA AssumedBases ==
    /\ \A base \in Bases : base \in Int /\ base \in 0..(Power[Dword] - 1)
    /\ Offset \in 1..Dword /\ Offset - 1 \in 0..(Dword - 1) /\ Offset - 1 \in 0..Dword
    /\ Dword \in Nat /\ Power[Dword] \in Nat \ {0}
<1>1. Dword \in Nat /\ Power[Dword] \in Nat \ {0}
  BY DwordNat, PowerPositive
<1>2. QED
  BY <1>1, MapAssumption

LEMMA WrapCongruent ==
    ASSUME NEW base \in Bases, NEW a \in Int, NEW b \in Int, Congruent(a, b, Power[Dword])
    PROVE  Wrap(base + a) = Wrap(base + b)
<1>1. base \in Int /\ Power[Dword] \in Nat \ {0} /\ Power[Dword] \in Int
  BY AssumedBases
<1>2. Congruent(base, base, Power[Dword])
  BY <1>1, CongruentSelf
<1>3. Congruent(base + a, base + b, Power[Dword])
  BY <1>1, <1>2, CongruentSum
<1>4. base + a \in Int /\ base + b \in Int
  BY <1>1
<1>5. QED
  BY <1>1, <1>3, <1>4, CongruentMod DEF Wrap

LEMMA SignedAddress ==
    ASSUME NEW base \in Bases, NEW imm \in Immediates
    PROVE  SignedOffset(base, imm) = Wrap(base + SignedNumber(Value(imm), Offset))
<1> DEFINE t == Offset - 1
<1>1. /\ t \in 0..(Dword - 1) /\ imm \in SUBSET (0..t) /\ t + 1 = Offset /\ t \in Nat
      /\ t + 1 \in Nat
  BY AssumedBases DEF Immediates
<1>2. {i \in imm : i < Offset} = imm
  <2>1. \A i \in imm : i < Offset
    <3>1. SUFFICES ASSUME NEW i \in imm PROVE i < Offset
      OBVIOUS
    <3>2. i \in 0..(Offset - 1) /\ Offset \in Nat
      BY AssumedBases DEF Immediates
    <3>3. QED
      BY <3>2
  <2>2. QED
    BY <2>1
<1>3. SignExtend(imm, Offset) = SignedExtend(imm, t)
  BY <1>2 DEF SignExtend
<1>4. (t \in imm) <=> Value(imm) >= Power[t]
  BY <1>1, TopBit
<1>5. SignedNumber(Value(imm), Offset)
         = IF t \in imm THEN Value(imm) - Power[t + 1] ELSE Value(imm)
  BY <1>1, <1>4 DEF SignedNumber
<1>6. Congruent(Value(SignedExtend(imm, t)),
                IF t \in imm THEN Value(imm) - Power[t + 1] ELSE Value(imm), Power[Dword])
  BY <1>1, SignedExtendValue
<1>7. /\ Value(SignedExtend(imm, t)) \in Int
      /\ SignedNumber(Value(imm), Offset) \in Int
  BY <1>1, <1>5, ValueNat, PowerIs
<1>8. QED
  BY <1>3, <1>5, <1>6, <1>7, WrapCongruent DEF SignedOffset

LEMMA LowerBits ==
    /\ Lower = 0..(Half32 - 1) /\ Lower \subseteq Bits /\ Half32 - 1 \in 0..(Dword - 1)
    /\ Half32 - 1 + 1 = Half32 /\ Half32 - 1 \in Nat
    /\ Bits = 0..(Dword - 1) /\ Half32 >= 4 /\ Half32 \in Nat /\ Dword \in Nat
  BY Sizes DEF Lower, Bits

(* What the code adds for an offset register shifted by s.                 *)
Extended(m, s, type) ==
    CASE type \in 0..3 -> Shl(m, s)
      [] type = 4 -> SignedExtend(Shl(m, s), ByteBits - 1)
      [] type = 5 -> SignedExtend(Shl(m, s), Piece - 1)
      [] type = 6 -> SignedExtend(Shl(m, s), Half32 - 1)
      [] type = 7 -> SignedExtend(Shl(m, s), Dword - 1)

ShlNone == \A m \in SUBSET Bits : Shl(m, 0) = m

LEMMA ShlZero == ShlNone
<1>1. SUFFICES ASSUME NEW m \in SUBSET Bits PROVE Shl(m, 0) = m
  BY DEF ShlNone
<1>2. \A i \in Bits : i - 0 = i
  BY LowerBits
<1>3. QED
  BY <1>2 DEF Shl

LEMMA ShiftAndExtendIs ==
    ASSUME NEW m \in SUBSET Bits, NEW shift \in BOOLEAN, NEW size \in 0..3, NEW type
    PROVE  ShiftAndExtend(m, shift, size, type)
              = Extended(m, IF shift THEN size ELSE 0, type)
<1>1. Shl(m, IF shift THEN size ELSE 0) = IF shift THEN Shl(m, size) ELSE m
  BY ShlZero DEF ShlNone
<1>2. QED
  BY <1>1 DEF ShiftAndExtend, Extended

(* SXTW, the sign within the bits that are shifted away or all clear.      *)
LEMMA WordOffset ==
    ASSUME NEW m \in SUBSET Bits, NEW s \in 0..3,
           LET top == {i \in Lower : i >= Half32 - 1 - s}
           IN  top \subseteq m \/ (top \cap m = {} /\ m \subseteq Lower)
    PROVE  Congruent(Value(SignedExtend(Shl(m, s), Half32 - 1)),
                     SignedNumber(Value(m \cap Lower), Half32) * Power[s], Power[Dword])
<1> DEFINE t == Half32 - 1
           low == m \cap Lower
           top == {i \in Lower : i >= t - s}
<1>1. /\ t \in 0..(Dword - 1) /\ low \in SUBSET (0..t) /\ t + 1 = Half32 /\ t \in Nat
      /\ s \in 0..Dword /\ s \in Nat /\ t + 1 \in Nat /\ t \in Lower /\ t - s \in Lower
      /\ low \in SUBSET Bits /\ t \in top /\ t - s \in top
  BY LowerBits
<1>2. (t \in low) <=> Value(low) >= Power[t]
  BY <1>1, TopBit
<1>3. SignedNumber(Value(low), Half32)
         = IF t \in low THEN Value(low) - Power[t + 1] ELSE Value(low)
  BY <1>1, <1>2 DEF SignedNumber
<1>4. Congruent(Value(SignedExtend(low, t)), SignedNumber(Value(low), Half32), Power[Dword])
  BY <1>1, <1>3, SignedExtendValue
<1>5. /\ SignedExtend(low, t) \in SUBSET Bits
      /\ Value(SignedExtend(low, t)) \in Int /\ Power[s] \in Int /\ Power[Dword] \in Int
      /\ SignedNumber(Value(low), Half32) \in Int
  <2>1. Value(low) \in Nat /\ Power[t + 1] \in Nat /\ Power[s] \in Nat /\ Power[Dword] \in Nat
    BY <1>1, ValueNat, PowerIs, DwordNat
  <2>2. SignedExtend(low, t) \in SUBSET Bits
    BY <1>1 DEF SignedExtend
  <2>3. Value(SignedExtend(low, t)) \in Nat
    BY ValueNat
  <2>4. QED
    BY <1>3, <2>1, <2>2, <2>3
<1>6. SignedExtend(Shl(m, s), t) = Shl(SignedExtend(low, t), s)
  <2>1. CASE top \subseteq m
    <3>1. t \in low /\ t \in Shl(m, s)
      BY <1>1, <2>1, LowerBits DEF Shl
    <3>2. \A i \in Bits : i - s \in Lower /\ i >= t => i - s \in top
      BY <1>1, LowerBits
    <3>3. \A i \in Bits : i \in SignedExtend(Shl(m, s), t) <=> i - s \in m \/ i >= t
      BY <3>1 DEF SignedExtend, Shl
    <3>4. \A i \in Bits : i \in Shl(SignedExtend(low, t), s)
                            <=> i - s \in low \/ (i - s \in Bits /\ i - s >= t)
      BY <3>1 DEF SignedExtend, Shl
    <3>5. ASSUME NEW i \in Bits
          PROVE  (i - s \in m \/ i >= t) <=> (i - s \in low \/ (i - s \in Bits /\ i - s >= t))
      <4>1. CASE i - s \in Lower
        BY <2>1, <3>2, <3>5, <4>1, <1>1, LowerBits
      <4>2. CASE i - s \notin Lower
        BY <3>5, <4>2, <1>1, LowerBits
      <4>3. QED
        BY <4>1, <4>2
    <3>6. /\ SignedExtend(Shl(m, s), t) \subseteq Bits
          /\ Shl(SignedExtend(low, t), s) \subseteq Bits
      BY DEF SignedExtend, Shl
    <3>7. QED
      BY <3>3, <3>4, <3>5, <3>6
  <2>2. CASE top \cap m = {} /\ m \subseteq Lower
    <3>1. t \notin m /\ t - s \notin m /\ low = m
      BY <1>1, <2>2
    <3>2. t \notin Shl(m, s)
      BY <3>1 DEF Shl
    <3>3. QED
      BY <3>1, <3>2 DEF SignedExtend
  <2>3. QED
    BY <2>1, <2>2
<1>7. Congruent(Value(Shl(SignedExtend(low, t), s)),
                Value(SignedExtend(low, t)) * Power[s], Power[Dword])
  BY <1>1, <1>5, ShlValue
<1>8. Congruent(Value(SignedExtend(low, t)) * Power[s],
                SignedNumber(Value(low), Half32) * Power[s], Power[Dword])
  <2>1. Congruent(Power[s], Power[s], Power[Dword])
    BY <1>5, CongruentSelf
  <2>2. QED
    BY <1>4, <1>5, <2>1, CongruentProduct
<1>9. /\ Value(Shl(SignedExtend(low, t), s)) \in Int
      /\ Value(SignedExtend(low, t)) * Power[s] \in Int
      /\ SignedNumber(Value(low), Half32) * Power[s] \in Int
  BY <1>5, ValueNat
<1>10. Congruent(Value(Shl(SignedExtend(low, t), s)),
                 SignedNumber(Value(low), Half32) * Power[s], Power[Dword])
  BY <1>5, <1>7, <1>8, <1>9, CongruentAll
<1>11. QED
  BY <1>6, <1>10

LEMMA RegisterAddress ==
    ASSUME NEW base \in Bases, NEW m \in OffsetRegisters, NEW shift \in BOOLEAN,
           NEW type \in {2, 3, 6, 7}, access.size \in 0..3,
           NEW w, w.mode = "register", w.m = m, w.shift = shift, w.type = type,
           ~OffsetDeparts(w)
    PROVE  RegisterOffset(base, m, shift, access.size, type)
              = Wrap(base + ExtendedOffset(w))
<1> DEFINE s == IF shift THEN access.size ELSE 0
           off == CASE type = 2 -> Value(m \cap Lower)
                    [] type = 6 -> SignedNumber(Value(m \cap Lower), Half32)
                    [] type \in {3, 7} -> Value(m)
<1>1. m \in SUBSET Bits /\ s \in 0..3 /\ s \in 0..Dword
  <2>1. m \in SUBSET Bits
    BY MapAssumption
  <2>2. s \in 0..3
    OBVIOUS
  <2> HIDE DEF s
  <2>3. QED
    BY <2>1, <2>2, Sizes
<1>2. Power[s] \in Nat /\ Power[0] = 1 /\ Power[Dword] \in Int
  BY <1>1, PowerIs, AssumedBases
<1>3. off \in Int
  <2>1. Value(m \cap Lower) \in Nat /\ Value(m) \in Nat /\ Power[Half32] \in Nat
    BY ValueNat, PowerIs, DwordNat
  <2>2. SignedNumber(Value(m \cap Lower), Half32) \in Int
    BY <2>1 DEF SignedNumber
  <2>3. QED
    BY <2>1, <2>2
<1>4. ExtendedOffset(w) = off * Power[s]
  <2>1. ExtendedOffset(w) = IF shift THEN off * Power[access.size] ELSE off
    BY DEF ExtendedOffset, Length
  <2> HIDE DEF off
  <2>2. off * 1 = off
    BY <1>3
  <2>3. QED
    BY <1>2, <2>1, <2>2
<1>5. Congruent(Value(Extended(m, s, type)), off * Power[s], Power[Dword])
  <2>1. Congruent(Value(Shl(m, s)), Value(m) * Power[s], Power[Dword])
    BY <1>1, ShlValue
  <2>2. CASE type = 2
    <3>1. m \subseteq Lower
      BY <2>2 DEF OffsetDeparts
    <3>2. m \cap Lower = m
      BY <3>1
    <3>3. off = Value(m) /\ Extended(m, s, type) = Shl(m, s)
      BY <2>2, <3>2 DEF Extended
    <3>4. QED
      BY <2>1, <3>3
  <2>3. CASE type = 3
    <3>1. off = Value(m) /\ Extended(m, s, type) = Shl(m, s)
      BY <2>3 DEF Extended
    <3>2. QED
      BY <2>1, <3>1
  <2>4. CASE type = 7
    <3>1. SignedExtend(Shl(m, s), Dword - 1) = Shl(m, s)
      BY LowerBits DEF SignedExtend, Shl
    <3>2. off = Value(m) /\ Extended(m, s, type) = Shl(m, s)
      BY <2>4, <3>1 DEF Extended
    <3>3. QED
      BY <2>1, <3>2
  <2>5. CASE type = 6
    <3>1. LET top == {i \in Lower : i >= Half32 - 1 - s}
          IN  top \subseteq m \/ (top \cap m = {} /\ m \subseteq Lower)
      BY <2>5 DEF OffsetDeparts
    <3>2. off = SignedNumber(Value(m \cap Lower), Half32)
          /\ Extended(m, s, type) = SignedExtend(Shl(m, s), Half32 - 1)
      BY <2>5 DEF Extended
    <3>3. Congruent(Value(SignedExtend(Shl(m, s), Half32 - 1)),
                    SignedNumber(Value(m \cap Lower), Half32) * Power[s], Power[Dword])
      <4> HIDE DEF s
      <4>1. QED  BY <1>1, <3>1, WordOffset
    <3>4. QED
      BY <3>2, <3>3
  <2>6. QED
    BY <2>2, <2>3, <2>4, <2>5
<1>6. ShiftAndExtend(m, shift, access.size, type) = Extended(m, s, type)
  BY <1>1, ShiftAndExtendIs
<1>7. Value(Extended(m, s, type)) \in Int /\ off * Power[s] \in Int
  <2> HIDE DEF off, s
  <2>1. QED  BY <1>2, <1>3, ValueNat
<1>8. QED
  <2> HIDE DEF off, s
  <2>1. Wrap(base + Value(Extended(m, s, type))) = Wrap(base + off * Power[s])
    BY <1>5, <1>7, WrapCongruent
  <2>2. QED
    BY <1>4, <1>6, <2>1 DEF RegisterOffset

(* The address the code computes is the architecture's.                    *)
LEMMA AddressIsEffective ==
    ASSUME access.size \in 0..3, NEW w \in Wheres(access.size), ~OffsetDeparts(w)
    PROVE  w.addr = Effective(w)
<1>1. CASE \E base \in Bases : w = Plain(base)
  <2>1. PICK base \in Bases : w = Plain(base)
    BY <1>1
  <2>2. w.addr = base /\ w.base = base /\ w.mode = "base"
    BY <2>1 DEF Plain
  <2>3. base % Power[Dword] = base
    <3>1. PICK p \in Nat \ {0} : p = Power[Dword] /\ base \in 0..(p - 1)
      BY AssumedBases
    <3>2. base = 0 * p + base
      BY <3>1
    <3>3. base % p = base
      BY <3>1, <3>2, DivisionIs
    <3>4. QED
      BY <3>1, <3>3
  <2>4. base + 0 = base
    BY AssumedBases
  <2>5. QED
    BY <2>2, <2>3, <2>4 DEF Effective, Wrap
<1>2. CASE \E base \in Bases, imm \in Immediates : w = Signed9(base, imm)
  <2>1. PICK base \in Bases, imm \in Immediates : w = Signed9(base, imm)
    BY <1>2
  <2>2. /\ w.addr = SignedOffset(base, imm) /\ w.base = base /\ w.mode = "signed"
        /\ w.imm = imm
    BY <2>1 DEF Signed9
  <2>3. QED
    BY <2>2, SignedAddress DEF Effective
<1>3. CASE \E base \in Bases, imm \in Immediates : w = Scaled(base, imm, access.size)
  <2>1. PICK base \in Bases, imm \in Immediates : w = Scaled(base, imm, access.size)
    BY <1>3
  <2>2. /\ w.addr = ScaledOffset(base, imm, access.size) /\ w.base = base
        /\ w.mode = "scaled" /\ w.imm = imm
    BY <2>1 DEF Scaled
  <2>3. QED
    BY <2>2 DEF Effective, ScaledOffset
<1>4. CASE \E base \in Bases, m \in OffsetRegisters, shift \in BOOLEAN,
              type \in {2, 3, 6, 7} :
              w = [addr |-> RegisterOffset(base, m, shift, access.size, type),
                   base |-> base, mode |-> "register", m |-> m, shift |-> shift,
                   type |-> type]
  <2>1. PICK base \in Bases, m \in OffsetRegisters, shift \in BOOLEAN,
              type \in {2, 3, 6, 7} :
              w = [addr |-> RegisterOffset(base, m, shift, access.size, type),
                   base |-> base, mode |-> "register", m |-> m, shift |-> shift,
                   type |-> type]
    BY <1>4
  <2>2. /\ w.addr = RegisterOffset(base, m, shift, access.size, type) /\ w.base = base
        /\ w.mode = "register" /\ w.m = m /\ w.shift = shift /\ w.type = type
    BY <2>1
  <2>3. w.addr = Wrap(base + ExtendedOffset(w))
    BY <2>2, RegisterAddress
  <2>4. QED
    BY <2>2, <2>3 DEF Effective
<1>5. QED
  BY <1>1, <1>2, <1>3, <1>4 DEF Wheres

-----------------------------------------------------------------------------
(* Memory.                                                                 *)
LEMMA ByteOfBit ==
    ASSUME NEW i \in Bits, NEW length \in 1..8
    PROVE  /\ i \div ByteBits < length <=> i < length * ByteBits
           /\ i \div ByteBits \in 0..7 /\ i % ByteBits \in 0..(ByteBits - 1)
<1>1. PICK n \in Nat \ {0} : n = ByteBits /\ Dword = 8 * n
  BY Sizes
<1>2. i \in Nat /\ i < 8 * n
  BY <1>1 DEF Bits
<1>3. PICK q \in Int, r \in 0..(n - 1) : i = q * n + r /\ q = i \div n /\ r = i % n
  <2>1. i \in Int
    BY <1>2
  <2>2. QED
    BY <1>1, <2>1, DivMod
<1>4. ASSUME NEW k \in 0..8 PROVE q < k <=> i < k * n
  <2>1. ASSUME q < k PROVE i < k * n
    <3>1. PICK j \in Nat : k = q + 1 + j
      <4>1. k - q - 1 \in Nat /\ k = q + 1 + (k - q - 1)
        BY <2>1
      <4>2. QED
        BY <4>1
    <3>2. k * n = q * n + n + j * n /\ j * n \in Nat /\ q * n \in Int
      BY <3>1
    <3>3. QED
      BY <1>3, <3>2
  <2>2. ASSUME q >= k PROVE i >= k * n
    <3>1. PICK j \in Nat : q = k + j
      <4>1. q - k \in Nat /\ q = k + (q - k)
        BY <2>2
      <4>2. QED
        BY <4>1
    <3>2. q * n = k * n + j * n /\ j * n \in Nat /\ k * n \in Int
      BY <3>1
    <3>3. QED
      BY <1>3, <3>2
  <2>3. k * n \in Int
    OBVIOUS
  <2>4. QED
    BY <1>2, <2>1, <2>2, <2>3
<1>5. q < 8 /\ q >= 0
  <2>1. q < 8
    BY <1>2, <1>4
  <2>2. 0 * n = 0
    OBVIOUS
  <2>3. ~(q < 0)
    BY <1>2, <1>4, <2>2
  <2>4. QED
    BY <2>1, <2>3
<1>6. QED
  BY <1>1, <1>3, <1>4, <1>5

(* Cutting a load of eight bytes to length gives the load of length.       *)
LEMMA LittleEndianCut ==
    ASSUME NEW a, NEW length \in 1..8
    PROVE  /\ LittleEndian(a, length) \in SUBSET Bits
           /\ {i \in LittleEndian(a, 8) : i < length * ByteBits} = LittleEndian(a, length)
           /\ {i \in LittleEndian(a, length) : i < length * ByteBits} = LittleEndian(a, length)
<1>1. \A i \in Bits : i \div ByteBits < length <=> i < length * ByteBits
  BY ByteOfBit
<1>2. \A i \in Bits : i \div ByteBits < 8
  BY ByteOfBit
<1>3. QED
  BY <1>1, <1>2 DEF LittleEndian

LEMMA InMemoryWindow ==
    ASSUME NEW a, NEW n \in 1..8, a \in Int, a..(a + n - 1) \subseteq Mapping
    PROVE  /\ Window(a) = "ram" /\ a \in Nat
           /\ a + n <= RamBase + Mapped
<1>1. a \in a..(a + n - 1) /\ a + n - 1 \in a..(a + n - 1)
  OBVIOUS
<1>2. a \in Mapping /\ a + n - 1 \in Mapping
  BY <1>1
<1>3. /\ GicBase \in Nat /\ GicSize \in Nat /\ UartBase \in Nat /\ UartSize \in Nat
      /\ VirtioBase \in Nat /\ VirtioSize \in Nat /\ RamBase \in Nat /\ RamSize \in Nat
      /\ Mapped \in Nat
      /\ GicBase + GicSize <= UartBase /\ UartBase + UartSize < VirtioBase
      /\ VirtioBase + VirtioSize < RamBase /\ Mapped <= RamSize
  BY MapAssumption
<1>4. a \in Nat /\ RamBase <= a /\ a <= RamBase + Mapped - 1 /\ a + n <= RamBase + Mapped
  BY <1>2, <1>3 DEF Mapping
<1>5. /\ ~(a >= GicBase /\ a < GicBase + GicSize)
      /\ ~(a >= UartBase /\ a <= UartBase + UartSize)
      /\ ~(a >= VirtioBase /\ a <= VirtioBase + VirtioSize)
      /\ a >= RamBase /\ a <= RamBase + RamSize
  BY <1>3, <1>4
<1>6. Window(a) = "ram"
  BY <1>5 DEF Window
<1>7. QED
  BY <1>4, <1>6

LEMMA AddressInt ==
    ASSUME NEW size, NEW w \in Wheres(size), size \in 0..3
    PROVE  w.addr \in Int
<1>1. \A x \in Int : Wrap(x) \in Int
  BY AssumedBases DEF Wrap
<1>2. CASE \E base \in Bases : w = Plain(base)
  BY <1>2, AssumedBases DEF Plain
<1>3. CASE \E base \in Bases, imm \in Immediates : w = Signed9(base, imm)
  <2>1. PICK base \in Bases, imm \in Immediates : w = Signed9(base, imm)
    BY <1>3
  <2>2. w.addr = Wrap(base + Value(SignExtend(imm, Offset)))
    BY <2>1 DEF Signed9, SignedOffset
  <2>3. base + Value(SignExtend(imm, Offset)) \in Int
    BY AssumedBases, ValueNat
  <2>4. QED
    BY <1>1, <2>2, <2>3
<1>4. CASE \E base \in Bases, imm \in Immediates : w = Scaled(base, imm, size)
  <2>1. PICK base \in Bases, imm \in Immediates : w = Scaled(base, imm, size)
    BY <1>4
  <2>2. w.addr = Wrap(base + Value(imm) * Length(size))
    BY <2>1 DEF Scaled, ScaledOffset
  <2>3. base \in Int /\ Value(imm) \in Int /\ Length(size) \in Int
    BY AssumedBases, ValueNat, LengthIs
  <2>4. base + Value(imm) * Length(size) \in Int
    BY <2>3
  <2>5. QED
    BY <1>1, <2>2, <2>4
<1>5. CASE \E base \in Bases, m \in OffsetRegisters, shift \in BOOLEAN,
              type \in {2, 3, 6, 7} :
              w = [addr |-> RegisterOffset(base, m, shift, size, type),
                   base |-> base, mode |-> "register", m |-> m, shift |-> shift,
                   type |-> type]
  <2>1. PICK base \in Bases, m \in OffsetRegisters, shift \in BOOLEAN,
              type \in {2, 3, 6, 7} :
              w = [addr |-> RegisterOffset(base, m, shift, size, type),
                   base |-> base, mode |-> "register", m |-> m, shift |-> shift,
                   type |-> type]
    BY <1>5
  <2>2. w.addr = Wrap(base + Value(ShiftAndExtend(m, shift, size, type)))
    BY <2>1 DEF RegisterOffset
  <2>3. base + Value(ShiftAndExtend(m, shift, size, type)) \in Int
    BY AssumedBases, ValueNat
  <2>4. QED
    BY <1>1, <2>2, <2>3
<1>6. QED
  BY <1>2, <1>3, <1>4, <1>5 DEF Wheres

LEMMA SizesOfKinds ==
    ASSUME NEW fs \in Kinds
    PROVE  /\ fs[2] \in 0..3 /\ LoadSize(fs[1], fs[2]) \in 0..3
           /\ fs[1] \in {"ldr", "ldur", "ldrsx", "ldrsw", "ldxr"} =>
                 LoadSize(fs[1], fs[2]) = fs[2]
           /\ fs[1] \in {"reg", "regs", "literal", "literals"} =>
                 LoadSize(fs[1], fs[2]) = 3
           /\ fs[1] \in {"ldr", "ldur", "ldrsx", "ldrsw", "ldxr", "reg", "regs",
                         "literal", "literals"}
           /\ fs[1] = "literal" => fs[2] \in {2, 3}
  BY DEF Kinds, LoadSize

(* What a load puts into its register when the address is right.           *)
LEMMA LoadResultIs ==
    ASSUME NEW fs \in Kinds, NEW e, NEW d, access.size = fs[2], access.form = fs[1],
           access.d = d, Effective(access.where) = e, NEW out,
           out = LoadResult(fs[1], fs[2], LittleEndian(e, Length(LoadSize(fs[1], fs[2]))), d)
    PROVE  /\ out \cap RightBits = Loaded \cap RightBits
           /\ ~ResultDeparts => out = Loaded
<1> DEFINE n == Length(fs[2])
           raw == LittleEndian(e, n)
           full == SignedExtend(raw, n * ByteBits - 1)
           all == LittleEndian(e, 8)
<1>1. /\ fs[2] \in 0..3 /\ n \in 1..8 /\ Length(3) = 8
      /\ n * ByteBits \in Nat
  <2>1. fs[2] \in 0..3 /\ n \in 1..8 /\ Length(3) = 8
    BY SizesOfKinds, LengthIs
  <2>2. ByteBits \in Nat
    BY Sizes
  <2> HIDE DEF n
  <2>3. QED
    BY <2>1, <2>2
<1>2. /\ raw \in SUBSET Bits /\ {i \in all : i < n * ByteBits} = raw
      /\ {i \in raw : i < n * ByteBits} = raw /\ all \in SUBSET Bits
  BY <1>1, LittleEndianCut, 8 \in 1..8
<1>3. SignExtend(raw, n * ByteBits) = full /\ SignExtend(all, n * ByteBits) = full
  BY <1>2 DEF SignExtend
<1>4. all \cap FieldBits(fs[2]) = raw /\ raw \cap FieldBits(fs[2]) = raw
  <2>1. FieldBits(fs[2]) = {i \in Bits : i < n * ByteBits}
    BY DEF FieldBits
  <2> HIDE DEF raw, all, n
  <2>2. QED
    BY <1>2, <2>1
<1>5. CASE fs[1] \in {"ldur", "ldr", "reg"}
  <2>1. Loaded = raw
    BY <1>5 DEF Loaded
  <2>2. QED
    BY <1>1, <1>4, <1>5, <2>1, SizesOfKinds DEF LoadResult
<1>6. CASE fs[1] = "regs"
  <2>1. Loaded = full
    BY <1>6 DEF Loaded
  <2>2. out = raw
    BY <1>1, <1>4, <1>6, SizesOfKinds DEF LoadResult
  <2>3. ASSUME ~ResultDeparts PROVE full = raw
    BY <1>6, <2>1, <2>3 DEF ResultDeparts, SignedExtend
  <2>4. full \cap FieldBits(fs[2]) = raw \cap FieldBits(fs[2])
    <3>1. \A i \in FieldBits(fs[2]) : i \in full <=> i \in raw
      <4>1. PICK m \in Nat : m = n * ByteBits
        BY <1>1
      <4>2. \A i \in FieldBits(fs[2]) : i \in Nat /\ i < m
        BY <4>1 DEF FieldBits, Bits
      <4> HIDE DEF raw, n
      <4>3. QED
        BY <4>1, <4>2 DEF SignedExtend
    <3> HIDE DEF raw, full, n
    <3>2. QED
      BY <3>1
  <2>5. RightBits = FieldBits(fs[2])
    BY <1>6 DEF RightBits
  <2>6. QED
    BY <2>1, <2>2, <2>3, <2>4, <2>5
<1>7. CASE fs[1] \in {"ldrsx", "literals"}
  <2>1. Loaded = full
    BY <1>7 DEF Loaded
  <2>2. QED
    BY <1>1, <1>3, <1>7, <2>1, SizesOfKinds DEF LoadResult
<1>8. CASE fs[1] = "ldrsw"
  <2>1. Loaded = full \cap Lower
    BY <1>8 DEF Loaded
  <2>2. out = (d \cap Upper) \cup (full \cap Lower)
    BY <1>1, <1>3, <1>8, SizesOfKinds DEF LoadResult
  <2>3. RightBits = Lower
    BY <1>8 DEF RightBits
  <2>4. \A i \in Lower : i \notin Upper
    BY DEF Upper
  <2>5. ASSUME ~ResultDeparts PROVE d \cap Upper = {}
    BY <1>8, <2>5 DEF ResultDeparts, Upper
  <2> HIDE DEF full
  <2>6. QED
    BY <2>1, <2>2, <2>3, <2>4, <2>5
<1>9. CASE fs[1] = "literal"
  <2>1. Loaded = raw
    BY <1>9 DEF Loaded
  <2>2. CASE fs[2] = 2
    <3>1. n * ByteBits = Half32
      BY <2>2, LengthIs, Sizes
    <3>2. all \cap Lower = raw
      <4>1. \A i \in Bits : i \in Lower <=> i < n * ByteBits
        BY <3>1, LowerBits
      <4> HIDE DEF raw, all, n
      <4>2. QED
        BY <1>2, <4>1
    <3>3. QED
      BY <1>1, <1>9, <2>1, <2>2, <3>2, SizesOfKinds DEF LoadResult
  <2>3. CASE fs[2] = 3
    <3>1. all = raw
      BY <1>1, <2>3
    <3>2. QED
      BY <1>1, <1>9, <2>1, <2>3, <3>1, SizesOfKinds DEF LoadResult
  <2>4. QED
    BY <1>9, <2>2, <2>3, SizesOfKinds
<1>10. CASE fs[1] = "ldxr"
  <2>1. Loaded = raw
    BY <1>10 DEF Loaded
  <2>2. out = raw \cap Lower
    BY <1>1, <1>10, SizesOfKinds DEF LoadResult
  <2>3. RightBits = Lower
    BY <1>10 DEF RightBits
  <2>4. ASSUME ~ResultDeparts PROVE raw \subseteq Lower
    BY <1>10, <2>1, <2>4 DEF ResultDeparts
  <2> HIDE DEF raw
  <2>5. QED
    BY <2>1, <2>2, <2>3, <2>4
<1>11. QED
  BY <1>5, <1>6, <1>7, <1>8, <1>9, <1>10, SizesOfKinds

LEMMA OutcomeIs ==
    ASSUME NEW e \in Int, NEW n \in 1..8, e..(e + n - 1) \subseteq Mapping,
           NEW touches \in 1..8
    PROVE  /\ Outcome(e, touches) \in {"done", "outside"}
           /\ touches = n => Outcome(e, touches) = "done"
           /\ Outcome(e, touches) = "outside" => e - RamBase + touches > Mapped
<1>1. Window(e) = "ram" /\ e \in Nat /\ e + n <= RamBase + Mapped
  BY InMemoryWindow
<1>2. Outcome(e, touches) = IF e..(e + touches - 1) \subseteq Mapping THEN "done" ELSE "outside"
  BY <1>1 DEF Outcome
<1>3. ASSUME e - RamBase + touches <= Mapped PROVE e..(e + touches - 1) \subseteq Mapping
  <2>1. e \in e..(e + n - 1)
    OBVIOUS
  <2>2. e \in Mapping /\ RamBase \in Nat /\ Mapped \in Nat
    BY <2>1, MapAssumption
  <2>3. QED
    BY <1>1, <1>3, <2>2 DEF Mapping
<1>4. RamBase \in Nat /\ Mapped \in Nat
  BY MapAssumption
<1>5. QED
  BY <1>1, <1>2, <1>3, <1>4

LEMMA LoadsAgree ==
    ASSUME DidLoad
    PROVE  AccessAgrees /\ OutsideOnlyAtEnd
<1>0. PICK fs \in Kinds, where \in Wheres(access.size) :
        \E d : \E v \in BusLoad(where.addr, LoadSize(fs[1], fs[2])) :
              access = [kind |-> "load", form |-> fs[1], size |-> fs[2],
                        where |-> where, d |-> d, old |-> ram,
                        outcome |-> Outcome(where.addr, LoadTouches(LoadSize(fs[1], fs[2]))),
                        out |-> LoadResult(fs[1], fs[2], v, d)]
  BY DEF DidLoad
<1>1. PICK d :
        \E v \in BusLoad(where.addr, LoadSize(fs[1], fs[2])) :
              access = [kind |-> "load", form |-> fs[1], size |-> fs[2],
                        where |-> where, d |-> d, old |-> ram,
                        outcome |-> Outcome(where.addr, LoadTouches(LoadSize(fs[1], fs[2]))),
                        out |-> LoadResult(fs[1], fs[2], v, d)]
  BY <1>0
<1>2. PICK v \in BusLoad(where.addr, LoadSize(fs[1], fs[2])) :
              access = [kind |-> "load", form |-> fs[1], size |-> fs[2],
                        where |-> where, d |-> d, old |-> ram,
                        outcome |-> Outcome(where.addr, LoadTouches(LoadSize(fs[1], fs[2]))),
                        out |-> LoadResult(fs[1], fs[2], v, d)]
  BY <1>1
<1>3. /\ access.kind = "load" /\ access.form = fs[1] /\ access.size = fs[2]
      /\ access.where = where /\ access.d = d
      /\ access.outcome = Outcome(where.addr, LoadTouches(LoadSize(fs[1], fs[2])))
      /\ access.out = LoadResult(fs[1], fs[2], v, d) /\ access.size \in 0..3
  BY <1>2, SizesOfKinds
<1>4. SUFFICES ASSUME Supported PROVE AccessAgrees /\ OutsideOnlyAtEnd
  BY DEF AccessAgrees, OutsideOnlyAtEnd
<1>5. PICK e \in Int : e = where.addr
  BY <1>3, AddressInt
<1>6. e = Effective(where) /\ e..(e + Length(fs[2]) - 1) \subseteq Mapping
  BY <1>3, <1>4, <1>5, AddressIsEffective DEF Supported, InMemory
<1>7. /\ Length(fs[2]) \in 1..8 /\ LoadSize(fs[1], fs[2]) \in 0..3
      /\ LoadTouches(LoadSize(fs[1], fs[2])) \in 1..8
  <2>1. LoadSize(fs[1], fs[2]) \in 0..3 /\ fs[2] \in 0..3
    BY SizesOfKinds
  <2>2. QED
    BY <2>1, LengthIs DEF LoadTouches
<1>8. Window(e) = "ram"
  BY <1>6, <1>7, InMemoryWindow
<1>9. v = LittleEndian(e, Length(LoadSize(fs[1], fs[2])))
  BY <1>2, <1>5, <1>8 DEF BusLoad
<1>10. AccessAgrees
  <2>1. /\ access.out \cap RightBits = Loaded \cap RightBits
        /\ ~ResultDeparts => access.out = Loaded
    BY <1>3, <1>6, <1>9, LoadResultIs
  <2>2. QED
    BY <1>3, <2>1 DEF AccessAgrees
<1>11. OutsideOnlyAtEnd
  <2> DEFINE touches == LoadTouches(LoadSize(fs[1], fs[2]))
  <2>1. /\ Outcome(e, touches) \in {"done", "outside"}
        /\ touches = Length(fs[2]) => Outcome(e, touches) = "done"
        /\ Outcome(e, touches) = "outside" => e - RamBase + touches > Mapped
    <3>1. touches \in 1..8
      BY <1>7
    <3>2. PICK n \in 1..8 : n = Length(fs[2])
      BY <1>7
    <3>3. e..(e + n - 1) \subseteq Mapping
      BY <1>6, <3>2
    <3> HIDE DEF touches
    <3>4. QED
      BY <3>1, <3>2, <3>3, OutcomeIs
  <2>2. \/ fs[1] \in {"reg", "regs", "literal", "literals"} /\ touches = 8
        \/ fs[2] = 2 /\ touches = 5
        \/ touches = Length(fs[2])
    BY SizesOfKinds, LengthIs DEF LoadTouches
  <2>3. access.outcome = Outcome(e, touches)
    BY <1>3, <1>5
  <2> HIDE DEF touches
  <2>4. QED
    BY <1>3, <1>6, <2>1, <2>2, <2>3 DEF OutsideOnlyAtEnd
<1>12. QED
  BY <1>10, <1>11

LEMMA StoresAgree ==
    ASSUME DidStore
    PROVE  AccessAgrees /\ OutsideOnlyAtEnd
<1>0. PICK form \in {"str", "stur", "stxr"}, size \in 0..3, where \in Wheres(access.size) :
        \E x, old : Stored(form, size, where, x, old)
  BY DEF DidStore
<1>1. PICK x, old :
        /\ access = [kind |-> "store", form |-> form, size |-> size, where |-> where,
                     d |-> x, old |-> old,
                     outcome |-> Outcome(where.addr, Length(size)), out |-> x]
        /\ ram = [b \in Mapping |->
                    IF Window(where.addr) = "ram" /\ b - where.addr \in 0..(Length(size) - 1)
                    THEN Byte(x, b - where.addr) ELSE old[b]]
  BY <1>0 DEF Stored
<1>2. /\ access.kind = "store" /\ access.size = size /\ access.size \in 0..3
      /\ access.where = where /\ access.d = x /\ access.old = old
      /\ access.outcome = Outcome(where.addr, Length(size))
  BY <1>1
<1>3. SUFFICES ASSUME Supported PROVE AccessAgrees /\ OutsideOnlyAtEnd
  BY DEF AccessAgrees, OutsideOnlyAtEnd
<1>4. PICK e \in Int : e = where.addr
  BY <1>2, AddressInt
<1>5. PICK n \in 1..8 : n = Length(size)
  BY LengthIs
<1>6. e = Effective(where) /\ e..(e + n - 1) \subseteq Mapping
  BY <1>2, <1>3, <1>4, <1>5, AddressIsEffective DEF Supported, InMemory
<1>7. Window(e) = "ram" /\ Outcome(e, n) = "done"
  BY <1>6, InMemoryWindow, OutcomeIs
<1>8. AccessAgrees
  <2>1. ASSUME NEW b \in Mapping
        PROVE  ram[b] = IF b \in e..(e + n - 1) THEN Byte(x, b - e) ELSE old[b]
    <3>1. b \in Int
      BY MapAssumption DEF Mapping
    <3>2. b - e \in 0..(n - 1) <=> b \in e..(e + n - 1)
      BY <3>1
    <3>3. ram[b] = IF b - e \in 0..(n - 1) THEN Byte(x, b - e) ELSE old[b]
      BY <1>1, <1>4, <1>5, <1>7
    <3>4. QED
      BY <3>2, <3>3
  <2>2. QED
    BY <1>2, <1>5, <1>6, <2>1 DEF AccessAgrees
<1>9. OutsideOnlyAtEnd
  BY <1>2, <1>4, <1>5, <1>7 DEF OutsideOnlyAtEnd
<1>10. QED
  BY <1>8, <1>9

-----------------------------------------------------------------------------
(* Every instruction is one of the two.                                    *)
LEMMA LoadStep ==
    ASSUME NEW form, NEW size, <<form, size>> \in Kinds, NEW where \in Wheres(size),
           NEW d, Load(form, size, where, d)
    PROVE  Did'
<1>1. PICK v \in BusLoad(where.addr, LoadSize(form, size)) :
         access' = [kind |-> "load", form |-> form, size |-> size, where |-> where,
                    d |-> d, old |-> ram,
                    outcome |-> Outcome(where.addr, LoadTouches(LoadSize(form, size))),
                    out |-> LoadResult(form, size, v, d)]
  BY DEF Load, Access
<1>2. ram' = ram /\ access'.size = size
  BY <1>1 DEF Load
<1>3. BusLoad(where.addr, LoadSize(form, size))' = BusLoad(where.addr, LoadSize(form, size))
  BY <1>2 DEF BusLoad, LittleEndian
<1>4. PICK fs \in Kinds : fs = <<form, size>> /\ fs[1] = form /\ fs[2] = size
  OBVIOUS
<1>5. DidLoad'
  <2>1. /\ fs \in Kinds /\ where \in Wheres(access'.size)
        /\ v \in BusLoad(where.addr, LoadSize(fs[1], fs[2]))'
        /\ access' = [kind |-> "load", form |-> fs[1], size |-> fs[2], where |-> where,
                      d |-> d, old |-> ram',
                      outcome |-> Outcome(where.addr, LoadTouches(LoadSize(fs[1], fs[2]))),
                      out |-> LoadResult(fs[1], fs[2], v, d)]
    BY <1>1, <1>2, <1>3, <1>4
  <2>2. QED
    BY <2>1 DEF DidLoad
<1>6. QED
  BY <1>5 DEF Did

LEMMA StoreStep ==
    ASSUME NEW form \in {"str", "stur", "stxr"}, NEW size \in 0..3,
           NEW where \in Wheres(size), NEW x, Store(form, size, where, x)
    PROVE  Did'
<1>1. /\ access' = [kind |-> "store", form |-> form, size |-> size, where |-> where,
                    d |-> x, old |-> ram,
                    outcome |-> Outcome(where.addr, Length(size)), out |-> x]
      /\ ram' = [b \in Mapping |->
                   IF Window(where.addr) = "ram" /\ b - where.addr \in 0..(Length(size) - 1)
                   THEN Byte(x, b - where.addr) ELSE ram[b]]
  BY DEF Store, Access, BusStore
<1>2. access'.size = size
  BY <1>1
<1>3. DidStore'
  <2>1. PICK old : old = ram
    OBVIOUS
  <2>2. Stored(form, size, where, x, old)'
    BY <1>1, <2>1 DEF Stored
  <2>3. QED
    BY <1>2, <2>2 DEF DidStore
<1>4. QED
  BY <1>3 DEF Did

LEMMA WheresAre ==
    ASSUME NEW size, NEW base \in Bases
    PROVE  /\ Plain(base) \in Wheres(size)
           /\ \A imm \in Immediates :
                 Signed9(base, imm) \in Wheres(size) /\ Scaled(base, imm, size) \in Wheres(size)
  BY DEF Wheres

LEMMA InstructionStep ==
    ASSUME access = NoAccess, LSNext
    PROVE  Did'
<1>1. PICK base \in Bases, x \in Data :
            \/ \E size \in 0..3, imm \in Immediates :
                 UnscaledImmediate(size, base, imm, x)
            \/ \E size \in 0..3, imm \in Immediates : Immediate(size, base, imm, x)
            \/ \E size \in 0..3, m \in OffsetRegisters, shift \in BOOLEAN,
                  type \in {2, 3, 6, 7} : RegOffset(size, base, m, shift, type, x)
            \/ \E imm \in Immediates : Literal(base, imm)
            \/ \E size \in 0..3 : ExclusiveOrdered(size, base, x)
  BY DEF LSNext
<1>2. ASSUME NEW size \in 0..3, NEW imm \in Immediates, UnscaledImmediate(size, base, imm, x)
      PROVE  Did'
  <2>1. Signed9(base, imm) \in Wheres(size)
    BY WheresAre
  <2>2. size > 0 => <<"ldur", size>> \in Kinds
    BY DEF Kinds
  <2>3. QED
    BY <1>2, <2>1, <2>2, LoadStep, StoreStep DEF UnscaledImmediate
<1>3. ASSUME NEW size \in 0..3, NEW imm \in Immediates, Immediate(size, base, imm, x)
      PROVE  Did'
  <2>1. PICK where \in {Scaled(base, imm, size), Signed9(base, imm), Plain(base)} :
           \/ Store("str", size, where, x)
           \/ Load("ldr", size, where, x)
           \/ size < 3 /\ Load("ldrsx", size, where, x)
           \/ size < 2 /\ Load("ldrsw", size, where, x)
    BY <1>3 DEF Immediate
  <2>2. where \in Wheres(size)
    BY WheresAre
  <2>3. /\ <<"ldr", size>> \in Kinds /\ (size < 3 => <<"ldrsx", size>> \in Kinds)
        /\ (size < 2 => <<"ldrsw", size>> \in Kinds)
    BY DEF Kinds
  <2>4. QED
    BY <2>1, <2>2, <2>3, LoadStep, StoreStep
<1>4. ASSUME NEW size \in 0..3, NEW m \in OffsetRegisters, NEW shift \in BOOLEAN,
             NEW type \in {2, 3, 6, 7}, RegOffset(size, base, m, shift, type, x)
      PROVE  Did'
  <2>1. PICK where : where =
           [addr |-> RegisterOffset(base, m, shift, size, type), base |-> base,
            mode |-> "register", m |-> m, shift |-> shift, type |-> type]
    OBVIOUS
  <2>2. where \in Wheres(size)
    BY <2>1 DEF Wheres
  <2>3. \/ Store("str", size, where, x)
        \/ Load("reg", size, where, x)
        \/ size < 3 /\ Load("regs", size, where, x)
        \/ size < 2 /\ Access("none", "regw", size, where, x, "done", x) /\ UNCHANGED ram
    BY <1>4, <2>1 DEF RegOffset
  <2>4. <<"reg", size>> \in Kinds /\ (size < 3 => <<"regs", size>> \in Kinds)
    BY DEF Kinds
  <2>5. Access("none", "regw", size, where, x, "done", x) => Did'
    BY DEF Access, Did
  <2>6. QED
    BY <2>2, <2>3, <2>4, <2>5, LoadStep, StoreStep
<1>5. ASSUME NEW imm \in Immediates, Literal(base, imm) PROVE Did'
  <2>1. \A size : Signed9(base, imm) \in Wheres(size)
    BY WheresAre
  <2>2. <<"literals", 2>> \in Kinds /\ \A size \in 2..3 : <<"literal", size>> \in Kinds
    BY DEF Kinds
  <2>3. QED
    BY <1>5, <2>1, <2>2, LoadStep DEF Literal
<1>6. ASSUME NEW size \in 0..3, ExclusiveOrdered(size, base, x) PROVE Did'
  <2>1. Plain(base) \in Wheres(size) /\ <<"ldxr", size>> \in Kinds
    BY WheresAre DEF Kinds
  <2>2. QED
    BY <1>6, <2>1, LoadStep, StoreStep DEF ExclusiveOrdered
<1>7. QED
  BY <1>1, <1>2, <1>3, <1>4, <1>5, <1>6

LEMMA AccessInvariant == LSInit /\ [][LSNext]_<<ram, access>> => []Did
<1>1. LSInit => Did
  BY DEF LSInit, Did, NoAccess
<1>2. Did /\ [LSNext]_<<ram, access>> => Did'
  <2>1. SUFFICES ASSUME Did, [LSNext]_<<ram, access>> PROVE Did'
    OBVIOUS
  <2>2. CASE access = NoAccess /\ LSNext
    BY <2>2, InstructionStep
  <2>3. CASE ram' = ram /\ access' = access
    BY <2>1, <2>3 DEF Did, DidLoad, DidStore, Stored, BusLoad, LittleEndian
  <2>4. QED
    BY <2>1, <2>2, <2>3 DEF LSNext
<1>3. QED
  BY <1>1, <1>2, PTL

LEMMA DidAgrees == Did => AccessAgrees /\ OutsideOnlyAtEnd
<1>1. access.kind = "none" => AccessAgrees /\ OutsideOnlyAtEnd
  BY DEF AccessAgrees, OutsideOnlyAtEnd, Supported
<1>2. QED
  BY <1>1, LoadsAgree, StoresAgree DEF Did

(* Whatever the map and the contents of registers and memory: accesses go  *)
(* to the bytes the architecture names unless a 32-bit offset register     *)
(* departs (OffsetDeparts); loads extend them as it says unless the result *)
(* departs (ResultDeparts), and then their field or lower half is right;   *)
(* stores change these bytes and no other (decode_ldst_..., Bus, Mem).     *)
THEOREM AccessesAgree == LSInit /\ [][LSNext]_<<ram, access>> => []AccessAgrees
<1>1. Did => AccessAgrees
  BY DidAgrees
<1>2. QED
  BY <1>1, AccessInvariant, PTL

(* An access whose bytes are mapped memory, its offset register departures *)
(* aside, reaches no device, does not end the emulator, and touches bytes  *)
(* behind the mapping only where a load reads more than it returns: eight  *)
(* bytes with a register offset or a literal address, five for a word.     *)
THEOREM AccessesStayInside == LSInit /\ [][LSNext]_<<ram, access>> => []OutsideOnlyAtEnd
<1>1. Did => OutsideOnlyAtEnd
  BY DidAgrees
<1>2. QED
  BY <1>1, AccessInvariant, PTL

-----------------------------------------------------------------------------
(***************************************************************************)
(* The kernel's locks.  Between masking and unmasking no interrupt is      *)
(* taken, so the context that is there is the one that runs.               *)
(***************************************************************************)

LockCode == Places \ {"user", "mask"}

(* Only the context that runs, masked, is in the code around the lock.     *)
AloneInLockCode == \A c \in Contexts : at[c] \in LockCode => masked /\ c = running

(* Nobody stored between its LDXR and its STXR.                            *)
Undisturbed == \A c \in Contexts : at[c] \in {"test", "stxr"} => ~written[c]

LockInv == TypeOK /\ AloneInLockCode /\ Undisturbed

LEMMA RunningIsContext == ASSUME TypeOK PROVE running \in Contexts
  BY ContextAssumption DEF TypeOK, running, Contexts, Handlers

LEMMA LockInit == ASSUME Init PROVE LockInv
<1>1. TypeOK
  <2>1. thread \in Threads /\ depth \in 0 .. MaxNested
    BY ContextAssumption DEF Init
  <2>2. at \in [Contexts -> Places] /\ written \in [Contexts -> BOOLEAN]
    BY DEF Init, Places
  <2> QED
    BY <2>1, <2>2 DEF Init, TypeOK
<1>2. AloneInLockCode /\ Undisturbed
  BY DEF Init, AloneInLockCode, Undisturbed, LockCode
<1> QED
  BY <1>1, <1>2 DEF LockInv

(* An interrupt is taken unmasked, when nobody is in the lock code.        *)
LEMMA InterruptKeepsLock ==
    ASSUME LockInv, Timer \/ Device
    PROVE  LockInv'
<1>1. ~masked /\ \A c \in Contexts : at[c] \notin LockCode
  BY DEF Timer, Device, Unmasked, LockInv, AloneInLockCode
<1>2. thread' \in Threads /\ depth' \in 0 .. MaxNested
  BY ContextAssumption DEF Timer, Device, LockInv, TypeOK
<1>3. at' = at \/ at' = [at EXCEPT ![depth + 1] = "mask"]
  BY DEF Timer, Device
<1>4. UNCHANGED <<word, val, status, masked, written>>
  BY DEF Timer, Device
<1>5. TypeOK'
  BY <1>2, <1>3, <1>4 DEF LockInv, TypeOK, Places
<1>6. \A c \in Contexts : at'[c] \notin LockCode
  BY <1>1, <1>3 DEF LockInv, TypeOK, LockCode
<1>7. AloneInLockCode' /\ Undisturbed'
  BY <1>6 DEF AloneInLockCode, Undisturbed, LockCode, Places
<1> QED
  BY <1>5, <1>7 DEF LockInv

(* An instruction moves only the context that runs.                        *)
LEMMA InstructionKeepsLock ==
    ASSUME LockInv, Instruction
    PROVE  LockInv'
<1> USE DEF LockInv
<1>1. TypeOK'
  <2>1. CASE Enter \/ Test \/ Check \/ Leave
    BY <2>1 DEF TypeOK, Places, Step, Enter, Test, Check, Leave
  <2>2. CASE Mask \/ Unmask
    BY <2>2 DEF TypeOK, Places, Step, Mask, Unmask
  <2>3. CASE LDXR
    BY <2>3 DEF TypeOK, Places, Step, LDXR
  <2>4. CASE STXR \/ STLR
    BY <2>4 DEF TypeOK, Places, Step, STXR, STLR, Written
  <2>5. CASE HandlerReturns
    BY <2>5, ContextAssumption DEF TypeOK, HandlerReturns
  <2> QED
    BY <2>1, <2>2, <2>3, <2>4, <2>5 DEF Instruction
<1>2. AloneInLockCode'
  <2>1. CASE Enter \/ Mask \/ LDXR \/ Test \/ STXR \/ Check \/ Leave \/ STLR
    BY <2>1
       DEF TypeOK, AloneInLockCode, LockCode, Places, Step, Enter, Mask, LDXR,
           Test, STXR, Check, Leave, STLR, running
  <2>2. CASE Unmask
    BY <2>2 DEF TypeOK, AloneInLockCode, LockCode, Places, Step, Unmask, running
  <2>3. CASE HandlerReturns
    <3>1. at[running] \notin LockCode
      BY <2>3 DEF HandlerReturns, LockCode, running
    <3>2. \A c \in Contexts : at'[c] \notin LockCode
      BY <2>3, <3>1 DEF AloneInLockCode, HandlerReturns
    <3> QED
      BY <3>2 DEF AloneInLockCode
  <2> QED
    BY <2>1, <2>2, <2>3 DEF Instruction
<1>3. Undisturbed'
  <2>1. \A c \in Contexts : at[c] \in {"test", "stxr"} => c = running
    BY DEF AloneInLockCode, LockCode, Places
  <2>2. CASE STXR \/ STLR
    BY <2>1, <2>2 DEF TypeOK, Undisturbed, Step, STXR, STLR
  <2>3. CASE Enter \/ Mask \/ LDXR \/ Test \/ Check \/ Leave \/ Unmask
    BY <2>1, <2>3
       DEF TypeOK, Undisturbed, Step, Enter, Mask, LDXR, Test, Check, Leave,
           Unmask
  <2>4. CASE HandlerReturns
    BY <2>4 DEF Undisturbed, HandlerReturns
  <2> QED
    BY <2>2, <2>3, <2>4 DEF Instruction
<1> QED
  BY <1>1, <1>2, <1>3

LEMMA LockStep == ASSUME LockInv, [Next]_vars PROVE LockInv'
<1>1. CASE Timer \/ Device
  BY <1>1, InterruptKeepsLock
<1>2. CASE Instruction
  BY <1>2, InstructionKeepsLock
<1>3. CASE UNCHANGED vars
  BY <1>3 DEF vars, LockInv, TypeOK, AloneInLockCode, Undisturbed, running
<1> QED
  BY <1>1, <1>2, <1>3 DEF Next

LEMMA LockInvariant == Spec => []LockInv
<1>1. Init => LockInv
  BY LockInit
<1>2. LockInv /\ [Next]_vars => LockInv'
  BY LockStep
<1> QED
  BY <1>1, <1>2, PTL DEF Spec

(* At most one context is inside a lock the kernel takes masked, though    *)
(* STXR never fails (decode_ldst_exclusive, check_interrupt).              *)
THEOREM KernelMutualExclusion == Spec => []MutualExclusion
<1>1. LockInv => MutualExclusion
  BY DEF LockInv, AloneInLockCode, MutualExclusion, Inside, LockCode, Places
<1> QED
  BY <1>1, LockInvariant, PTL

(* In such code the store of every STXR is exclusive, as an architectural  *)
(* monitor would have it (decode_ldst_exclusive).                          *)
THEOREM KernelStoresExclusively == Spec => ExclusiveStore
<1>1. LockInv /\ [Next]_vars =>
          [STXR /\ status'[running] = 0 => ~written[running]]_vars
  BY RunningIsContext DEF LockInv, TypeOK, Undisturbed, STXR, Step
<1> QED
  BY <1>1, LockInvariant, PTL DEF Spec, ExclusiveStore
=============================================================================
