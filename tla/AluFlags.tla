------------------------------ MODULE AluFlags ------------------------------
(***************************************************************************)
(* The condition flags (cpu.cc): add_imm_s32 and add_imm_s, which every    *)
(* flag-setting addition and subtraction goes through, check_b_flag, and   *)
(* the compare-and-branch sequences made of them.                          *)
(*                                                                         *)
(* A word has any even number of values: Half is 2^31 or 2^63 in the code. *)
(* A subtraction is x + ~y + 1, as there.                                  *)
(***************************************************************************)
EXTENDS Integers

CONSTANTS
    Half,       \* 2^31 or 2^63
    CcmpFlags   \* the nzcv fields of the guest's CCMP instructions

ASSUME HalfAssumption == Half \in Nat \ {0}

Flags == [N : BOOLEAN, Z : BOOLEAN, C : BOOLEAN, V : BOOLEAN]

ASSUME CcmpAssumption == CcmpFlags \subseteq Flags

Words == 2 * Half
Word == 0..(Words - 1)
Signed(x) == IF x >= Half THEN x - Words ELSE x
Top(x) == x >= Half
Not(x) == Words - 1 - x

(* The low word of the sum of two words and a carry.                       *)
Low(sum) == IF sum < Words THEN sum ELSE sum - Words

Second(y, sub) == IF sub THEN Not(y) ELSE y
Carry(sub) == IF sub THEN 1 ELSE 0

Result(x, y, sub) == Low(x + Second(y, sub) + Carry(sub))

Flags32SumWithoutCarry(x, y, sub) ==
    LET r == Result(x, y, sub)
    IN  [N |-> Top(r),
         Z |-> r = 0,
         C |-> x + Second(y, sub) # r,
         V |-> Signed(x) + Signed(Second(y, sub)) + Carry(sub) # Signed(r)]

(* add_imm_s32 compares the wide sums with the result.                     *)
Flags32(x, y, sub) ==
    LET r == Result(x, y, sub)
    IN  [N |-> Top(r),
         Z |-> r = 0,
         C |-> x + Second(y, sub) + Carry(sub) # r,
         V |-> Signed(x) + Signed(Second(y, sub)) + Carry(sub) # Signed(r)]

Flags64BothTops(x, y, sub) ==
    LET topX == Top(x)
        topY == Top(Second(y, sub))
        topR == Top(Result(x, y, sub))
    IN  [N |-> topY,
         Z |-> Result(x, y, sub) = 0,
         C |-> topX /\ topY /\ ~topR,
         V |-> topX = topY /\ topR # topX]

(* add_imm_s works on the top bits.                                        *)
Flags64(x, y, sub) ==
    LET topX == Top(x)
        topY == Top(Second(y, sub))
        topR == Top(Result(x, y, sub))
    IN  [N |-> topY,
         Z |-> Result(x, y, sub) = 0,
         C |-> (topX \/ topY) /\ ~topR,
         V |-> topX = topY /\ topR # topX]

Conditions == 0..15

(* check_b_flag; 14 and 15 are always true.                                *)
CheckBFlag(cond, f) ==
    CASE cond = 0 -> f.Z
      [] cond = 1 -> ~f.Z
      [] cond = 2 -> f.C
      [] cond = 3 -> ~f.C
      [] cond = 4 -> f.N
      [] cond = 5 -> ~f.N
      [] cond = 6 -> f.V
      [] cond = 7 -> ~f.V
      [] cond = 8 -> f.C /\ ~f.Z
      [] cond = 9 -> ~f.C \/ f.Z
      [] cond = 10 -> f.N = f.V
      [] cond = 11 -> f.N # f.V
      [] cond = 12 -> ~f.Z /\ f.N = f.V
      [] cond = 13 -> f.Z \/ f.N # f.V
      [] cond \in {14, 15} -> TRUE

-----------------------------------------------------------------------------
VARIABLES
    nzcv,
    x, y,   \* operands of the last flag-setting instruction
    op,     \* what it was
    chain   \* history: did all comparisons of a chain a == b && c == d,
            \* which ends with the last instruction, find equal operands?

vars == <<nzcv, x, y, op, chain>>

Ops == {"none", "adds32", "subs32", "adds64", "subs64", "ccmp"}

(* Flags and operands are of their types.                                  *)
TypeOK ==
    /\ nzcv \in Flags
    /\ x \in Word /\ y \in Word
    /\ op \in Ops
    /\ chain \in {"none", "equal", "differ"}

(* nzcv has no initialiser.                                                *)
Init ==
    /\ nzcv \in Flags
    /\ x = 0 /\ y = 0
    /\ op = "none"
    /\ chain = "none"

SetFlags(name, flags, a, b) ==
    /\ nzcv' = flags
    /\ x' = a /\ y' = b
    /\ op' = name

Verdict(equal) == IF equal THEN "equal" ELSE "differ"

AddS32(a, b) ==
    SetFlags("adds32", Flags32(a, b, FALSE), a, b) /\ chain' = "none"
SubS32(a, b) ==
    SetFlags("subs32", Flags32(a, b, TRUE), a, b) /\ chain' = Verdict(a = b)
AddS64(a, b) ==
    SetFlags("adds64", Flags64(a, b, FALSE), a, b) /\ chain' = "none"
SubS64(a, b) ==
    SetFlags("subs64", Flags64(a, b, TRUE), a, b) /\ chain' = Verdict(a = b)

CCMPFlagsUnconditional(a, imm, c, flags) == Flags64(a, imm, TRUE)

(* CCMP compares if the condition holds and takes the flags of the         *)
(* instruction otherwise; it computes 64-bit flags whatever its sf bit.    *)
CCMPFlags(a, imm, c, flags) ==
    IF CheckBFlag(c, nzcv) THEN Flags64(a, imm, TRUE) ELSE flags

(* A chain goes on with condition EQ and a field without Z.                *)
CCMP(a, imm, c, flags) ==
    /\ SetFlags("ccmp", CCMPFlags(a, imm, c, flags), a, imm)
    /\ chain' = IF chain = "none" \/ c # 0 \/ flags.Z THEN "none"
                ELSE Verdict(chain = "equal" /\ a = imm)

Next ==
    \/ \E a, b \in Word : AddS32(a, b)
    \/ \E a, b \in Word : SubS32(a, b)
    \/ \E a, b \in Word : AddS64(a, b)
    \/ \E a, b \in Word : SubS64(a, b)
    \/ \E a, b \in Word, c \in Conditions, f \in CcmpFlags : CCMP(a, b, c, f)

Spec == Init /\ [][Next]_vars

-----------------------------------------------------------------------------
(* What a condition means after a comparison of a with b.                  *)
Unsigned(c, a, b) ==
    CASE c = 0 -> a = b
      [] c = 1 -> a # b
      [] c = 2 -> a >= b
      [] c = 3 -> a < b
      [] c = 8 -> a > b
      [] c = 9 -> a <= b

SignedLess(a, b) == Signed(a) < Signed(b)

Compares(c, a, b) ==
    CASE c \in {0, 1, 2, 3, 8, 9} -> Unsigned(c, a, b)
      [] c = 10 -> ~SignedLess(a, b)
      [] c = 11 -> SignedLess(a, b)
      [] c = 12 -> SignedLess(b, a)
      [] c = 13 -> ~SignedLess(b, a)

(* A B.cond behind a 32-bit CMP branches exactly when the comparison its   *)
(* condition names holds of the operands, signed or unsigned.              *)
Branch32 ==
    op = "subs32" =>
        \A c \in {0, 1, 2, 3, 8, 9, 10, 11, 12, 13} :
            CheckBFlag(c, nzcv) <=> Compares(c, x, y)

Overflows(a, b) == Signed(a) - Signed(b) \notin (-Half)..(Half - 1)

(* Behind a 64-bit CMP of any two words, of either half, the equalities    *)
(* mean what they say and V is set when the signed difference overflows.   *)
(* The unsigned conditions order the operands as long as their difference  *)
(* stays below 2^63, two kernel or two user addresses always.              *)
Branch64 ==
    op = "subs64" =>
        /\ CheckBFlag(6, nzcv) <=> Overflows(x, y)
        /\ \A c \in {0, 1, 2, 3, 8, 9} :
              c \in {0, 1} \/ x - y < Half =>
                  (CheckBFlag(c, nzcv) <=> Unsigned(c, x, y))

(* a == b && c == d as compilers write it: CMP, then CCMP with condition   *)
(* EQ and a field without Z.  At the end of a chain of any length Z means  *)
(* that all comparisons found their operands equal.                        *)
ChainedEqual == chain # "none" => (nzcv.Z <=> chain = "equal")

(* The comment on nzcv in cpu.h: N is "negative".  After a 64-bit          *)
(* comparison of non-negative numbers it says the sign of the difference.  *)
NegativeFlag ==
    op = "subs64" /\ ~Top(x) /\ ~Top(y) => (nzcv.N = (x < y))
=============================================================================
