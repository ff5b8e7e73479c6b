-------------------------------- MODULE Words -------------------------------
(***************************************************************************)
(* Registers as sets of bits and the helpers of utils.h on them.  A        *)
(* register is the set of its bits that are 1; it has Dword bits, 64 in    *)
(* the code, and the 32-bit forms use the lower half, Lower.               *)
(***************************************************************************)
EXTENDS Integers

CONSTANT LogDword   \* 6

ASSUME LogDwordAssumption == LogDword \in Nat /\ LogDword >= 3

(* 2^n, as a function: the prover has no facts about the operator ^.       *)
Power[n \in Nat] == IF n = 0 THEN 1 ELSE 2 * Power[n - 1]

Dword == Power[LogDword]
Half32 == Dword \div 2
Piece == Dword \div 4      \* 16 bits
ByteBits == Dword \div 8

Bits == 0..(Dword - 1)
Lower == 0..(Half32 - 1)
Upper == Bits \ Lower

(* util::mask, util::shift and the C++ operators << and >> on uint64_t.    *)
Shl(a, k) == {i \in Bits : i - k \in a}
Shr(a, k) == {i \in Bits : i + k \in a}
CutAbove(sf, a) == IF sf THEN a ELSE a \cap 0..Half32
Cut(sf, a) == IF sf THEN a ELSE a \cap Lower
Sums(a) ==
    LET sum[k \in 0..Dword] ==
            IF k = 0 THEN 0
            ELSE sum[k - 1] + (IF k - 1 \in a THEN Power[k - 1] ELSE 0)
    IN  sum
Value(a) == Sums(a)[Dword]   \* the uint64_t with these bits
Bitset(v) == {i \in Bits : (v \div Power[i]) % 2 = 1}
Negate(a) == Bits \ a

(* util::signed_extend, topbit included.                                   *)
SignedExtend(a, topbit) ==
    IF topbit \in a THEN a \cup {i \in Bits : i >= topbit} ELSE a

(* util::SIGN_EXTEND, to len bits.                                         *)
SignExtend(a, len) == SignedExtend({i \in a : i < len}, len - 1)
=============================================================================
