---------------------------------- MODULE Word ----------------------------------
(***************************************************************************)
(* Register-width arithmetic (rvr-ir/src/xlen.rs) and the C functions and  *)
(* builtins the emitted code calls on registers (rvr-emit/src/c/header).   *)
(*                                                                         *)
(* A register is a natural below 2^W.  The widths are those of the source  *)
(* in units of a byte: a register has RegBytes bytes (X::REG_BYTES), a     *)
(* word 4, a halfword 2.  A byte has Byte bits, 8 in the program; the      *)
(* instances TLC checks take a smaller byte, which scales every width and  *)
(* every mask derived from one by the same factor.                         *)
(***************************************************************************)
EXTENDS Integers, Sequences, FiniteSets

CONSTANTS
    Byte,        \* bits of a byte, a power of two; 8 in the program
    RegBytes     \* X::REG_BYTES: 4 for Rv32, 8 for Rv64


W == RegBytes * Byte       \* X::VALUE, 32 or 64 bits
W32 == 4 * Byte            \* the width of u32
Rv64 == RegBytes = 8
Reg == 0 .. 2^W - 1

(* from_u64: truncation to the register, of any integer. *)
from_u64(x) == x % 2^W

Low(x, n) == x % 2^n
Signed(x, n) == LET l == Low(x, n) IN IF l >= 2^(n - 1) THEN l - 2^n ELSE l
Sext(x, n) == from_u64(Signed(x, n))

(* sign_extend_32 of a 32-bit value: the identity when registers are 32 bits. *)
sign_extend_32(x) == IF Rv64 THEN Sext(x, W32) ELSE from_u64(x)

---------------------------------------------------------------------------------
(* Bitwise operators, nibble by nibble: x + y = (x ^ y) + 2 (x & y). *)

BitOf(x, i) == (x \div 2^i) % 2
OfBits(P(_), n) == LET sum[i \in 0 .. n] == IF i = 0 THEN 0
                                            ELSE (IF P(i - 1) THEN 2^(i - 1) ELSE 0) + sum[i - 1]
                   IN sum[n]
BothBits(x, y, i) == 2^i * (BitOf(x, i) * BitOf(y, i))
AndNibble(x, y) == BothBits(x, y, 0) + BothBits(x, y, 1) + BothBits(x, y, 2) + BothBits(x, y, 3)
AndOf(x, y, n) ==
    LET part[i \in 0 .. n \div 4] ==
            IF i = 0 THEN 0
            ELSE part[i - 1] + 16^(i - 1) * AndNibble(x \div 16^(i - 1), y \div 16^(i - 1))
    IN part[n \div 4]

And(x, y) == AndOf(x, y, W)
Or(x, y) == x + y - And(x, y)
Xor(x, y) == x + y - 2 * And(x, y)
Not(x) == 2^W - 1 - x

Shl(x, k) == from_u64(x * 2^k)
Shr(x, k) == x \div 2^k
Sar(x, n, k) == from_u64(Signed(x, n) \div 2^k)

(* The low half of a product, computed by halves of the second operand so  *)
(* that no intermediate value needs more than 1.5 registers.               *)
Mul(x, y) ==
    LET h == 2^(W \div 2)
    IN from_u64(x * (y % h) + h * ((x * (y \div h)) % h))

---------------------------------------------------------------------------------
(* csr.rs: multiply-high and division helpers of the generated header.  C   *)
(* division truncates towards zero, so its quotient is built on magnitudes. *)

rv_mulh(a, b) == from_u64((Signed(a, W) * Signed(b, W)) \div 2^W)
rv_mulhsu(a, b) == from_u64((Signed(a, W) * b) \div 2^W)
rv_mulhu(a, b) ==
    LET h == 2^(W \div 2)
    IN (a * (b \div h) + (a * (b % h)) \div h) \div h

Abs(x) == IF x < 0 THEN -x ELSE x
CDiv(a, b) == LET q == Abs(a) \div Abs(b) IN IF (a < 0) = (b < 0) THEN q ELSE -q
CRem(a, b) == a - b * CDiv(a, b)

(* rv_div, rv_div64 (n = W) and rv_divw (n = W32): b = 0 gives all ones,   *)
(* INT_MIN / -1 gives INT_MIN.                                             *)
rv_div(a, b, n) ==
    LET sa == Signed(a, n)
        sb == Signed(b, n)
    IN CASE sb = 0 -> 2^W - 1
         [] sa = -(2^(n - 1)) /\ sb = -1 -> from_u64(-(2^(n - 1)))
         [] OTHER -> from_u64(CDiv(sa, sb))
rv_rem(a, b, n) ==
    LET sa == Signed(a, n)
        sb == Signed(b, n)
    IN CASE sb = 0 -> from_u64(sa)
         [] sa = -(2^(n - 1)) /\ sb = -1 -> 0
         [] OTHER -> from_u64(CRem(sa, sb))
rv_divu(a, b, n) == IF Low(b, n) = 0 THEN 2^W - 1 ELSE Sext(Low(a, n) \div Low(b, n), n)
rv_remu(a, b, n) == IF Low(b, n) = 0 THEN Sext(a, n) ELSE Sext(Low(a, n) % Low(b, n), n)

---------------------------------------------------------------------------------
(* helpers.rs: the loop-free bit tricks.  A mask of the source such as      *)
(* 0x0F0F0F0F is Stripes(4): alternating runs of ones and zeros.            *)

OrShr(a, k) == Or(a, Shr(a, k))
OrShl(a, k) == Or(a, Shl(a, k))
Stripes(k) == OfBits(LAMBDA i : (i \div k) % 2 = 0, W)
ByteLowBits == OfBits(LAMBDA i : i % Byte = 0, W)

(* rv_orc_b32, rv_orc_b64: gather each byte's bits in its lowest one, mask, *)
(* spread that bit over the byte again.                                     *)
rv_orc_b(x) ==
    LET gather[k \in 1 .. Byte] == IF k = Byte THEN x
                                   ELSE OrShr(gather[2 * k], k)
        spread[k \in 1 .. Byte] == IF k = 1 THEN And(gather[1], ByteLowBits)
                                   ELSE OrShl(spread[k \div 2], k \div 2)
    IN spread[Byte]

(* rv_brev8_32, rv_brev8_64: swap neighbouring bits, pairs, nibbles. *)
Swapped(a, k, mask) == Or(And(Shr(a, k), mask), Shl(And(a, mask), k))
rv_brev8(x) ==
    LET swap[k \in 1 .. Byte] ==
            IF k = Byte THEN x
            ELSE Swapped(swap[2 * k], k, Stripes(k))
    IN swap[1]

(* rv_zip32, rv_unzip32: spread each half over the even (odd) bits, or the  *)
(* other way round, halving or doubling the distance step by step.          *)
rv_zip32(x) ==
    LET H == W \div 2
        lo[k \in 1 .. H] == IF k = H THEN Low(x, H)
                            ELSE And(OrShl(lo[2 * k], k), Stripes(k))
        hi[k \in 1 .. H] == IF k = H THEN Shr(x, H)
                            ELSE And(OrShl(hi[2 * k], k), Stripes(k))
    IN Or(lo[1], Shl(hi[1], 1))
rv_unzip32(x) ==
    LET H == W \div 2
        lo[k \in 1 .. H] == IF k = 1 THEN And(x, Stripes(1))
                            ELSE And(OrShr(lo[k \div 2], k \div 2), Stripes(k))
        hi[k \in 1 .. H] == IF k = 1 THEN And(Shr(x, 1), Stripes(1))
                            ELSE And(OrShr(hi[k \div 2], k \div 2), Stripes(k))
    IN Or(lo[H], Shl(hi[H], H))

(* The compiler builtins the rendered expressions call. *)
builtin_clz(x, n) == n - 1 - CHOOSE i \in 0 .. n - 1 : x \div 2^i = 1
builtin_ctz(x, n) == CHOOSE i \in 0 .. n - 1 : x % 2^(i + 1) = 2^i
builtin_popcount(x, n) == Cardinality({i \in 0 .. n - 1 : BitOf(x, i) = 1})
builtin_bswap(x) == OfBits(LAMBDA i : BitOf(x, W - Byte - (i - (i % Byte)) + (i % Byte)) = 1, W)
=================================================================================
