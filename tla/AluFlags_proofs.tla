-------------------------- MODULE AluFlags_proofs ---------------------------
(***************************************************************************)
(* The flags for words of any size; and, of the machine run alu checks     *)
(* next to them, the registers of the interrupt controller for any set of  *)
(* registers and values.                                                   *)
(***************************************************************************)
EXTENDS AluFlags, Gic, TLAPS

(* Words are integers in a known interval.                                 *)
LEMMA WordRange ==
    ASSUME NEW a \in Word
    PROVE  a \in Int /\ 0 <= a /\ a < 2 * Half /\ Half \in Int /\ Half > 0
  BY HalfAssumption DEF Word, Words

(* x + ~y + 1 is x - y modulo the word, and lies in the word.              *)
LEMMA Difference ==
    ASSUME NEW a \in Word, NEW b \in Word
    PROVE  /\ Result(a, b, TRUE) \in Int
           /\ 0 <= Result(a, b, TRUE)
           /\ Result(a, b, TRUE) < 2 * Half
           /\ a >= b => Result(a, b, TRUE) = a - b
           /\ a < b => Result(a, b, TRUE) = a - b + 2 * Half
  BY HalfAssumption DEF Result, Second, Carry, Low, Not, Word, Words

(* Zero after a subtraction means equal operands, at either width.         *)
LEMMA ZeroIsEqual ==
    ASSUME NEW a \in Word, NEW b \in Word
    PROVE  (Result(a, b, TRUE) = 0) <=> (a = b)
<1> DEFINE r == Result(a, b, TRUE)
<1>1. /\ r \in Int
      /\ a >= b => r = a - b
      /\ a < b => r = a - b + 2 * Half
  BY Difference
<1>2. a \in Int /\ b \in Int /\ 0 <= a /\ b < 2 * Half /\ Half \in Int
  BY WordRange
<1> HIDE DEF r
<1>3. (r = 0) <=> (a = b)
  BY <1>1, <1>2
<1> QED
  BY <1>3 DEF r

(* Carry after a 32-bit subtraction is the unsigned comparison.            *)
LEMMA CarryIsUnsigned ==
    ASSUME NEW a \in Word, NEW b \in Word
    PROVE  Flags32(a, b, TRUE).C <=> a >= b
<1> DEFINE r == Result(a, b, TRUE)
           sum == a + Second(b, TRUE) + Carry(TRUE)
<1>1. /\ r \in Int
      /\ a >= b => r = a - b
      /\ a < b => r = a - b + 2 * Half
  BY Difference
<1>2. a \in Int /\ b \in Int /\ Half \in Int /\ Half > 0
  BY WordRange
<1>3. sum = a - b + 2 * Half
  BY <1>2 DEF Second, Carry, Not, Words
<1> HIDE DEF r, sum
<1>4. (sum # r) <=> a >= b
  BY <1>1, <1>2, <1>3
<1> QED
  BY <1>4 DEF Flags32, r, sum

(* Negative differs from overflow exactly when the first is smaller as a   *)
(* signed number.                                                          *)
LEMMA SignIsSigned ==
    ASSUME NEW a \in Word, NEW b \in Word
    PROVE  ~(Flags32(a, b, TRUE).N <=> Flags32(a, b, TRUE).V) <=> SignedLess(a, b)
<1> DEFINE r == Result(a, b, TRUE)
           d == Signed(a) + Signed(Not(b)) + 1
<1>1. d = Signed(a) - Signed(b)
  BY WordRange DEF Signed, Not, Words
<1>2. /\ r \in Int /\ 0 <= r /\ r < 2 * Half
      /\ a >= b => r = a - b
      /\ a < b => r = a - b + 2 * Half
  BY Difference
<1>3. /\ a \in Int /\ 0 <= a /\ a < 2 * Half
      /\ b \in Int /\ 0 <= b /\ b < 2 * Half
      /\ Half \in Int /\ Half > 0
  BY WordRange
<1> HIDE DEF r, d
<1>4. d \in Int /\ Signed(a) \in Int /\ Signed(b) \in Int
  BY <1>1, <1>3 DEF Signed, Words
<1>5. (d # Signed(r)) <=> (d >= Half \/ d < -Half)
  BY <1>1, <1>2, <1>3 DEF Signed, Words
<1>6. CASE d >= Half
  <2>1. r >= Half
    BY <1>1, <1>2, <1>3, <1>6 DEF Signed, Words
  <2>2. Top(r) /\ d # Signed(r) /\ ~(Signed(a) < Signed(b))
    BY <1>1, <1>3, <1>4, <1>5, <1>6, <2>1 DEF Top
  <2> QED
    BY <2>2 DEF Flags32, SignedLess, Second, Carry, r, d
<1>7. CASE d < -Half
  <2>1. ~(r >= Half)
    BY <1>1, <1>2, <1>3, <1>7 DEF Signed, Words
  <2>2. ~Top(r) /\ d # Signed(r) /\ Signed(a) < Signed(b)
    BY <1>1, <1>3, <1>4, <1>5, <1>7, <2>1 DEF Top
  <2> QED
    BY <2>2 DEF Flags32, SignedLess, Second, Carry, r, d
<1>8. CASE d < Half /\ d >= -Half
  <2>1. d = Signed(r)
    BY <1>3, <1>4, <1>5, <1>8
  <2>2. (r >= Half) <=> d < 0
    BY <1>2, <1>3, <2>1 DEF Signed, Words
  <2>3. Top(r) <=> Signed(a) < Signed(b)
    BY <1>1, <1>4, <2>2 DEF Top
  <2> QED
    BY <2>1, <2>3 DEF Flags32, SignedLess, Second, Carry, r, d
<1>9. d >= Half \/ d < -Half \/ (d < Half /\ d >= -Half)
  BY <1>3, <1>4
<1> QED
  BY <1>6, <1>7, <1>8, <1>9

-----------------------------------------------------------------------------
(* Both widths compute the same zero flag, and flags are flags.            *)
LEMMA FlagsTyped ==
    ASSUME NEW a \in Word, NEW b \in Word, NEW sub \in BOOLEAN
    PROVE  Flags32(a, b, sub) \in Flags /\ Flags64(a, b, sub) \in Flags
<1>1. Top(a) \in BOOLEAN /\ Top(Second(b, sub)) \in BOOLEAN
      /\ Top(Result(a, b, sub)) \in BOOLEAN
  BY DEF Top
<1> QED
  BY <1>1, Zenon DEF Flags32, Flags64, Flags

LEMMA SameZero ==
    ASSUME NEW a \in Word, NEW b \in Word
    PROVE  /\ Flags32(a, b, TRUE).Z <=> a = b
           /\ Flags64(a, b, TRUE).Z <=> a = b
  BY ZeroIsEqual DEF Flags32, Flags64

(* What a comparison leaves in nzcv until the next flag-setting            *)
(* instruction: the flags of its operands.                                 *)
LeftByComparison ==
    /\ op = "subs32" => nzcv = Flags32(x, y, TRUE)
    /\ op = "subs64" => nzcv = Flags64(x, y, TRUE)

FlagsInv == TypeOK /\ LeftByComparison /\ ChainedEqual

LEMMA InitFlags == Init => FlagsInv
<1> SUFFICES ASSUME Init PROVE FlagsInv
  OBVIOUS
<1>1. 0 \in Word
  BY HalfAssumption DEF Word, Words
<1> QED
  BY <1>1 DEF Init, FlagsInv, TypeOK, LeftByComparison, ChainedEqual, Ops

LEMMA AdditionFlags ==
    ASSUME FlagsInv, NEW a \in Word, NEW b \in Word, AddS32(a, b) \/ AddS64(a, b)
    PROVE  FlagsInv'
<1>1. nzcv' \in Flags
  BY FlagsTyped DEF AddS32, AddS64, SetFlags
<1>2. x' = a /\ y' = b /\ op' \in {"adds32", "adds64"} /\ chain' = "none"
  BY DEF AddS32, AddS64, SetFlags
<1> QED
  BY <1>1, <1>2 DEF FlagsInv, TypeOK, LeftByComparison, ChainedEqual, Ops

LEMMA ComparisonFlags ==
    ASSUME FlagsInv, NEW a \in Word, NEW b \in Word, SubS32(a, b) \/ SubS64(a, b)
    PROVE  FlagsInv'
<1>1. nzcv' \in Flags
  BY FlagsTyped DEF SubS32, SubS64, SetFlags
<1>2. /\ x' = a /\ y' = b
      /\ op' \in {"subs32", "subs64"}
      /\ chain' = Verdict(a = b)
      /\ op' = "subs32" => nzcv' = Flags32(a, b, TRUE)
      /\ op' = "subs64" => nzcv' = Flags64(a, b, TRUE)
  BY DEF SubS32, SubS64, SetFlags
<1>3. nzcv'.Z <=> a = b
  <2>1. /\ Flags32(a, b, TRUE).Z <=> a = b
        /\ Flags64(a, b, TRUE).Z <=> a = b
    BY SameZero
  <2>2. nzcv' = Flags32(a, b, TRUE) \/ nzcv' = Flags64(a, b, TRUE)
    BY <1>2
  <2> QED
    BY <2>1, <2>2, Zenon
<1>4. chain' \in {"equal", "differ"} /\ (chain' = "equal" <=> a = b)
  BY <1>2 DEF Verdict
<1> QED
  BY <1>1, <1>2, <1>3, <1>4
     DEF FlagsInv, TypeOK, LeftByComparison, ChainedEqual, Ops

LEMMA ChainFlags ==
    ASSUME FlagsInv, NEW a \in Word, NEW imm \in Word, NEW c \in Conditions,
           NEW f \in CcmpFlags, CCMP(a, imm, c, f)
    PROVE  FlagsInv'
<1>1. nzcv' \in Flags
  BY FlagsTyped, CcmpAssumption DEF CCMP, SetFlags, CCMPFlags
<1>2. x' = a /\ y' = imm /\ op' = "ccmp" /\ chain' \in {"none", "equal", "differ"}
  BY DEF CCMP, SetFlags, Verdict
<1>3. ASSUME chain' # "none"
      PROVE  nzcv'.Z <=> chain' = "equal"
  <2>1. chain # "none" /\ c = 0 /\ ~f.Z
        /\ chain' = Verdict(chain = "equal" /\ a = imm)
    BY <1>3 DEF CCMP
  <2>2. nzcv.Z <=> chain = "equal"
    BY <2>1 DEF FlagsInv, ChainedEqual
  <2>3. CheckBFlag(c, nzcv) = nzcv.Z
    BY <2>1 DEF CheckBFlag
  <2>4. nzcv' = IF nzcv.Z THEN Flags64(a, imm, TRUE) ELSE f
    BY <2>3 DEF CCMP, SetFlags, CCMPFlags
  <2>5. nzcv'.Z <=> (nzcv.Z /\ a = imm)
    BY <2>1, <2>4, SameZero
  <2> QED
    BY <2>1, <2>2, <2>5 DEF Verdict
<1> QED
  BY <1>1, <1>2, <1>3
     DEF FlagsInv, TypeOK, LeftByComparison, ChainedEqual, Ops

LEMMA StepFlags == FlagsInv /\ [Next]_vars => FlagsInv'
<1> SUFFICES ASSUME FlagsInv, [Next]_vars PROVE FlagsInv'
  OBVIOUS
<1>1. CASE \E a, b \in Word : AddS32(a, b) \/ AddS64(a, b)
  BY <1>1, AdditionFlags
<1>2. CASE \E a, b \in Word : SubS32(a, b) \/ SubS64(a, b)
  BY <1>2, ComparisonFlags
<1>3. CASE \E a, b \in Word, c \in Conditions, f \in CcmpFlags : CCMP(a, b, c, f)
  BY <1>3, ChainFlags
<1>4. CASE UNCHANGED vars
  BY <1>4 DEF vars, FlagsInv, TypeOK, LeftByComparison, ChainedEqual
<1> QED
  BY <1>1, <1>2, <1>3, <1>4 DEF Next

LEMMA FlagsInvariant == Spec => []FlagsInv
<1> QED
  BY InitFlags, StepFlags, PTL DEF Spec

(* The conditions one by one, and the comparisons they stand for.          *)
LEMMA Conditional ==
    ASSUME NEW f \in Flags
    PROVE  /\ CheckBFlag(0, f) <=> f.Z
           /\ CheckBFlag(1, f) <=> ~f.Z
           /\ CheckBFlag(2, f) <=> f.C
           /\ CheckBFlag(3, f) <=> ~f.C
           /\ CheckBFlag(6, f) <=> f.V
           /\ CheckBFlag(8, f) <=> f.C /\ ~f.Z
           /\ CheckBFlag(9, f) <=> ~f.C \/ f.Z
           /\ CheckBFlag(10, f) <=> (f.N <=> f.V)
           /\ CheckBFlag(11, f) <=> ~(f.N <=> f.V)
           /\ CheckBFlag(12, f) <=> ~f.Z /\ (f.N <=> f.V)
           /\ CheckBFlag(13, f) <=> f.Z \/ ~(f.N <=> f.V)
<1>1. f.N \in BOOLEAN /\ f.Z \in BOOLEAN /\ f.C \in BOOLEAN /\ f.V \in BOOLEAN
  BY Zenon DEF Flags
<1> QED
  BY <1>1 DEF CheckBFlag

LEMMA UnsignedMeaning ==
    ASSUME NEW a \in Int, NEW b \in Int
    PROVE  /\ Unsigned(0, a, b) <=> a = b
           /\ Unsigned(1, a, b) <=> a # b
           /\ Unsigned(2, a, b) <=> a >= b
           /\ Unsigned(3, a, b) <=> ~(a >= b)
           /\ Unsigned(8, a, b) <=> (a >= b /\ a # b)
           /\ Unsigned(9, a, b) <=> (~(a >= b) \/ a = b)
  BY DEF Unsigned

(* Chains of comparisons of any length, at any word size, leave Z set      *)
(* exactly when all of them found equal operands (CCMP, cpu.cc).           *)
THEOREM ChainsCorrect == Spec => []ChainedEqual
<1>1. FlagsInv => ChainedEqual
  BY DEF FlagsInv
<1> QED
  BY <1>1, FlagsInvariant, PTL

(* All ten comparison conditions of a B.cond behind a 32-bit CMP mean what *)
(* they say, for every pair of operands (add_imm_s32 and check_b_flag).    *)
THEOREM Branch32Correct == Spec => []Branch32
<1>1. FlagsInv => Branch32
  <2> SUFFICES ASSUME FlagsInv, op = "subs32",
                      NEW c \in {0, 1, 2, 3, 8, 9, 10, 11, 12, 13}
               PROVE  CheckBFlag(c, nzcv) <=> Compares(c, x, y)
    BY DEF Branch32
  <2>1. x \in Word /\ y \in Word /\ nzcv \in Flags /\ nzcv = Flags32(x, y, TRUE)
    BY DEF FlagsInv, TypeOK, LeftByComparison
  <2>2. x \in Int /\ y \in Int
    BY <2>1, WordRange
  <2>3. Signed(x) \in Int /\ Signed(y) \in Int
    BY <2>2, HalfAssumption DEF Signed, Words
  <2>4. nzcv.Z <=> x = y
    BY <2>1, SameZero
  <2>5. nzcv.C <=> x >= y
    BY <2>1, CarryIsUnsigned
  <2>6. ~(nzcv.N <=> nzcv.V) <=> Signed(x) < Signed(y)
    BY <2>1, SignIsSigned DEF SignedLess
  <2>7. (Signed(x) = Signed(y)) <=> x = y
    BY <2>1, WordRange DEF Signed, Words
  <2>8. Signed(y) < Signed(x) <=> (x # y /\ ~(Signed(x) < Signed(y)))
    BY <2>3, <2>7
  <2>9. CASE c \in {0, 1, 2, 3, 8, 9}
    <3>1. \A k \in {0, 1, 2, 3, 8, 9} : Compares(k, x, y) = Unsigned(k, x, y)
      BY DEF Compares
    <3>2. /\ CheckBFlag(0, nzcv) <=> Unsigned(0, x, y)
          /\ CheckBFlag(1, nzcv) <=> Unsigned(1, x, y)
          /\ CheckBFlag(2, nzcv) <=> Unsigned(2, x, y)
          /\ CheckBFlag(3, nzcv) <=> Unsigned(3, x, y)
          /\ CheckBFlag(8, nzcv) <=> Unsigned(8, x, y)
          /\ CheckBFlag(9, nzcv) <=> Unsigned(9, x, y)
      BY <2>1, <2>2, <2>4, <2>5, Conditional, UnsignedMeaning, Zenon
    <3> QED
      BY <2>9, <3>1, <3>2, Zenon
  <2>10. CASE c \in {10, 11, 12, 13}
    <3>1. /\ Compares(10, x, y) <=> ~SignedLess(x, y)
          /\ Compares(11, x, y) <=> SignedLess(x, y)
          /\ Compares(12, x, y) <=> SignedLess(y, x)
          /\ Compares(13, x, y) <=> ~SignedLess(y, x)
      BY DEF Compares
    <3>2. (nzcv.N <=> nzcv.V) <=> ~SignedLess(x, y)
      BY <2>6 DEF SignedLess
    <3>3. SignedLess(y, x) <=> (x # y /\ ~SignedLess(x, y))
      BY <2>8 DEF SignedLess
    <3> QED
      BY <2>1, <2>4, <2>10, <3>1, <3>2, <3>3, Conditional, Zenon
  <2> QED
    BY <2>9, <2>10
<1> QED
  BY <1>1, FlagsInvariant, PTL

(* Behind a 64-bit CMP (add_imm_s) of any two words the equalities mean    *)
(* what they say, V is the overflow of the signed difference, and the      *)
(* unsigned conditions order the operands unless the difference reaches    *)
(* 2^63, where the code loses the carry.                                   *)
THEOREM Branch64Correct == Spec => []Branch64
<1>1. FlagsInv => Branch64
  <2> SUFFICES ASSUME FlagsInv, op = "subs64"
               PROVE  /\ CheckBFlag(6, nzcv) <=> Overflows(x, y)
                      /\ \A c \in {0, 1, 2, 3, 8, 9} :
                            c \in {0, 1} \/ x - y < Half =>
                                (CheckBFlag(c, nzcv) <=> Unsigned(c, x, y))
    BY DEF Branch64
  <2>1. x \in Word /\ y \in Word /\ nzcv \in Flags /\ nzcv = Flags64(x, y, TRUE)
    BY DEF FlagsInv, TypeOK, LeftByComparison
  <2> DEFINE r == Result(x, y, TRUE)
  <2>2. /\ x \in Int /\ 0 <= x /\ x < 2 * Half
        /\ y \in Int /\ 0 <= y /\ y < 2 * Half
        /\ Half \in Int /\ Half > 0
    BY <2>1, WordRange
  <2>3. /\ r \in Int /\ 0 <= r /\ r < 2 * Half
        /\ x >= y => r = x - y
        /\ x < y => r = x - y + 2 * Half
    BY <2>1, Difference
  <2>4. /\ nzcv.C = ((Top(x) \/ Top(Not(y))) /\ ~Top(r))
        /\ nzcv.V = (Top(x) = Top(Not(y)) /\ Top(r) # Top(x))
    BY <2>1 DEF Flags64, Second
  <2> HIDE DEF r
  <2>5. (Not(y) >= Half) <=> ~(y >= Half)
    BY <2>2 DEF Not, Words
  <2>6. ASSUME x - y < Half PROVE nzcv.C <=> x >= y
    <3>1. ((x >= Half \/ ~(y >= Half)) /\ ~(r >= Half)) <=> x >= y
      BY <2>2, <2>3, <2>6
    <3> QED
      BY <2>4, <2>5, <3>1, Zenon DEF Top
  <2>7. nzcv.V <=> Overflows(x, y)
    <3>1. Overflows(x, y) <=> Signed(x) - Signed(y) < -Half \/ Signed(x) - Signed(y) >= Half
      BY <2>2 DEF Overflows, Signed, Words
    <3>2. Overflows(x, y) <=> ((x >= Half <=> ~(y >= Half)) /\ ~(r >= Half <=> x >= Half))
      BY <2>2, <2>3, <3>1 DEF Signed, Words
    <3>3. nzcv.V <=> ((x >= Half <=> Not(y) >= Half) /\ ~(r >= Half <=> x >= Half))
      <4>1. Top(x) \in BOOLEAN /\ Top(Not(y)) \in BOOLEAN /\ Top(r) \in BOOLEAN
        BY DEF Top
      <4>2. /\ Top(x) <=> x >= Half
            /\ Top(Not(y)) <=> Not(y) >= Half
            /\ Top(r) <=> r >= Half
        BY DEF Top
      <4>3. /\ Top(x) = Top(Not(y)) <=> (Top(x) <=> Top(Not(y)))
            /\ Top(r) # Top(x) <=> ~(Top(r) <=> Top(x))
        BY <4>1, Zenon
      <4> QED
        BY <2>4, <4>2, <4>3, Zenon
    <3> QED
      BY <2>5, <3>2, <3>3, Zenon
  <2>8. nzcv.Z <=> x = y
    BY <2>1, SameZero
  <2>9. CheckBFlag(6, nzcv) <=> Overflows(x, y)
    BY <2>1, <2>7, Conditional, Zenon
  <2>10. /\ CheckBFlag(0, nzcv) <=> Unsigned(0, x, y)
         /\ CheckBFlag(1, nzcv) <=> Unsigned(1, x, y)
    BY <2>1, <2>2, <2>8, Conditional, UnsignedMeaning, Zenon
  <2>11. ASSUME x - y < Half
         PROVE  /\ CheckBFlag(2, nzcv) <=> Unsigned(2, x, y)
                /\ CheckBFlag(3, nzcv) <=> Unsigned(3, x, y)
                /\ CheckBFlag(8, nzcv) <=> Unsigned(8, x, y)
                /\ CheckBFlag(9, nzcv) <=> Unsigned(9, x, y)
    <3>1. nzcv.C <=> x >= y
      BY <2>6, <2>11
    <3> QED
      BY <2>1, <2>2, <2>8, <3>1, Conditional, UnsignedMeaning, Zenon
  <2>12. ASSUME NEW c \in {0, 1, 2, 3, 8, 9}, c \in {0, 1} \/ x - y < Half
         PROVE  CheckBFlag(c, nzcv) <=> Unsigned(c, x, y)
    <3>1. CASE c \in {0, 1}
      BY <2>10, <3>1, Zenon
    <3>2. CASE x - y < Half
      BY <2>10, <2>11, <2>12, <3>2, Zenon
    <3> QED
      BY <2>12, <3>1, <3>2
  <2> QED
    BY <2>9, <2>12, Zenon
<1> QED
  BY <1>1, FlagsInvariant, PTL

-----------------------------------------------------------------------------
(* The interrupt controller: two registers share a field, or none of their *)
(* bytes; the four bytes of one register are four.                         *)
LEMMA Offsets == ASSUME NEW r \in GicRegisters PROVE r.offset \in Nat
<1>1. r.offset \in 0..(CASE r.name \in Banks -> 127
                         [] r.name = "GICD_IPRIORITYR" -> 1023
                         [] r.name = "GICR_IPRIORITYR" -> 31
                         [] OTHER -> 0)
  BY GicAssumption
<1>2. QED
  BY <1>1

(* The field and the byte of a cell by the kind of the register.           *)
LEMMA CellIs ==
    ASSUME NEW r \in GicRegisters, NEW k \in 0..3
    PROVE  /\ Cell(r, k).name = r.name
           /\ r.name # "GICD_IPRIORITYR" => Cell(r, k).byte = k
           /\ r.name \in Banks => Cell(r, k).index = r.offset \div 32
           /\ r.name = "GICD_IPRIORITYR" => Cell(r, k).index = (r.offset % 256) + k
           /\ r.name = "GICR_IPRIORITYR" => Cell(r, k).index = r.offset \div 4
<1>1. CASE r.name \in Banks
  BY <1>1 DEF Cell, Banks
<1>2. CASE r.name = "GICD_IPRIORITYR"
  BY <1>2 DEF Cell, Banks
<1>3. CASE r.name = "GICR_IPRIORITYR"
  BY <1>3 DEF Cell, Banks
<1>4. CASE r.name \notin Banks \cup {"GICD_IPRIORITYR", "GICR_IPRIORITYR"}
  BY <1>4 DEF Cell
<1>5. QED
  BY <1>1, <1>2, <1>3, <1>4

LEMMA FourBytes ==
    ASSUME NEW r \in GicRegisters, NEW k \in 0..3, NEW j \in 0..3, Cell(r, k) = Cell(r, j)
    PROVE  k = j
<1>1. CASE r.name # "GICD_IPRIORITYR"
  BY <1>1, CellIs
<1>2. CASE r.name = "GICD_IPRIORITYR"
  <2>1. (r.offset % 256) + k = (r.offset % 256) + j
    BY <1>2, CellIs
  <2>2. r.offset % 256 \in Int
    BY Offsets
  <2>3. QED
    BY <2>1, <2>2
<1>3. QED
  BY <1>1, <1>2

LEMMA SharedCell ==
    ASSUME NEW q \in GicRegisters, NEW r \in GicRegisters, NEW k \in 0..3, NEW j \in 0..3,
           Cell(q, k) = Cell(r, j)
    PROVE  Shares(q, r)
<1>1. q.name = r.name
  BY CellIs
<1>2. CASE q.name \in Banks
  <2>1. q.offset \div 32 = r.offset \div 32
    BY <1>1, <1>2, CellIs
  <2>2. QED
    BY <1>1, <1>2, <2>1 DEF Shares, Banks
<1>3. CASE q.name = "GICD_IPRIORITYR"
  <2>1. (q.offset % 256) + k = (r.offset % 256) + j
    BY <1>1, <1>3, CellIs
  <2>2. q.offset % 256 \in Int /\ r.offset % 256 \in Int
    BY Offsets
  <2>3. (q.offset % 256) - (r.offset % 256) \in -3..3
    BY <2>1, <2>2
  <2>4. QED
    BY <1>1, <1>3, <2>3 DEF Shares, Banks
<1>4. CASE q.name = "GICR_IPRIORITYR"
  <2>1. q.offset \div 4 = r.offset \div 4
    BY <1>1, <1>4, CellIs
  <2>2. QED
    BY <1>1, <1>4, <2>1 DEF Shares, Banks
<1>5. CASE q.name \notin Banks \cup {"GICD_IPRIORITYR", "GICR_IPRIORITYR"}
  BY <1>1, <1>5 DEF Shares
<1>6. QED
  BY <1>2, <1>3, <1>4, <1>5

(* A register that was stored to holds the bytes of its last value.        *)
GicInv ==
    \A r \in GicRegisters : written[r] # Nothing =>
        /\ r.name \notin Ignored /\ written[r] \in GicValues
        /\ \A k \in 0..3 : gicd[Cell(r, k)] = written[r][k]

LEMMA GicStoreKeeps ==
    ASSUME GicInv, NEW r \in GicRegisters, NEW value \in GicValues, GicStore(r, value)
    PROVE  GicInv'
<1>1. SUFFICES ASSUME NEW q \in GicRegisters, written'[q] # Nothing
               PROVE  /\ q.name \notin Ignored /\ written'[q] \in GicValues
                      /\ \A k \in 0..3 : gicd'[Cell(q, k)] = written'[q][k]
  BY DEF GicInv
<1>2. written'[q] = IF r.name \in Ignored THEN written[q]
                    ELSE IF q = r THEN value
                    ELSE IF Shares(q, r) THEN Nothing ELSE written[q]
  BY DEF GicStore
<1>3. q.name \notin Ignored => \A k \in 0..3 : Cell(q, k) \in Cells
  BY DEF Cells
<1>4. ASSUME NEW k \in 0..3, q.name \notin Ignored
      PROVE  gicd'[Cell(q, k)] =
                 IF r.name \notin Ignored /\ \E j \in 0..3 : Cell(r, j) = Cell(q, k)
                 THEN value[CHOOSE j \in 0..3 : Cell(r, j) = Cell(q, k)]
                 ELSE gicd[Cell(q, k)]
  BY <1>3, <1>4 DEF GicStore
<1>5. CASE r.name \notin Ignored /\ q = r
  <2>1. ASSUME NEW k \in 0..3 PROVE gicd'[Cell(q, k)] = value[k]
    <3>1. \A j \in 0..3 : Cell(r, j) = Cell(q, k) <=> j = k
      BY <1>5, FourBytes
    <3>2. (CHOOSE j \in 0..3 : Cell(r, j) = Cell(q, k)) = k
      BY <3>1
    <3>3. QED
      BY <1>4, <1>5, <3>1, <3>2
  <2>2. QED
    BY <1>2, <1>5, <2>1
<1>6. CASE r.name \notin Ignored /\ q # r
  <2>1. ~Shares(q, r) /\ written'[q] = written[q]
    BY <1>1, <1>2, <1>6
  <2>2. q.name \notin Ignored /\ written[q] \in GicValues
    BY <1>1, <2>1 DEF GicInv
  <2>3. ASSUME NEW k \in 0..3 PROVE gicd'[Cell(q, k)] = gicd[Cell(q, k)]
    <3>1. ~\E j \in 0..3 : Cell(r, j) = Cell(q, k)
      BY <2>1, SharedCell
    <3>2. QED
      BY <1>4, <2>2, <3>1
  <2>4. QED
    BY <1>1, <2>1, <2>2, <2>3 DEF GicInv
<1>7. CASE r.name \in Ignored
  BY <1>1, <1>2, <1>4, <1>7 DEF GicInv
<1>8. QED
  BY <1>5, <1>6, <1>7

(* Whatever registers a driver uses and whatever it stores to them, each   *)
(* reads as what was last stored to it, unless one it shares a field with  *)
(* was stored to since; and what the controller does not have reads as 0.  *)
THEOREM RegistersReadBack == GicInit /\ [][GicNext]_<<gicd, written>> => []ReadsBack
<1>1. ASSUME GicInit PROVE GicInv
  <2>1. \A r \in GicRegisters : written[r] = Nothing
    BY <1>1 DEF GicInit
  <2>2. QED
    BY <2>1 DEF GicInv
<1>2. ASSUME GicInv, [GicNext]_<<gicd, written>> PROVE GicInv'
  <2>1. CASE GicNext
    BY <1>2, <2>1, GicStoreKeeps DEF GicNext
  <2>2. CASE UNCHANGED <<gicd, written>>
    BY <1>2, <2>2 DEF GicInv
  <2>3. QED
    BY <1>2, <2>1, <2>2
<1>3. ASSUME GicInv PROVE ReadsBack
  <2>1. ASSUME NEW r \in GicRegisters, written[r] # Nothing PROVE GicLoad(r) = written[r]
    <3>1. /\ r.name \notin Ignored
          /\ \A k \in 0..3 : gicd[Cell(r, k)] = written[r][k]
      BY <1>3, <2>1 DEF GicInv
    <3>2. written[r] = [k \in 0..3 |-> written[r][k]]
      BY <1>3, <2>1, GicAssumption DEF GicInv
    <3>3. QED
      BY <3>1, <3>2 DEF GicLoad
  <2>2. ASSUME NEW r \in GicRegisters, r.name \in Ignored
        PROVE  GicLoad(r) = [k \in 0..3 |-> 0]
    BY <2>2 DEF GicLoad
  <2>3. QED
    BY <2>1, <2>2 DEF ReadsBack
<1>4. QED
  BY <1>1, <1>2, <1>3, PTL
=============================================================================
