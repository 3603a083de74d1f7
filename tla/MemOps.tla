------------------------------ MODULE MemOps -------------------------------
(***************************************************************************)
(* The data path of the integer loads and stores: what load_op::complete() *)
(* and store_op::retire() of mips_op.cc compute, next to what the          *)
(* interpreter (_lb ... _swr of interpret.cc) computes for the same        *)
(* instruction.  A word is four bytes, most significant first (the program *)
(* is big-endian: every access goes through bswap()); a byte has ByteBits  *)
(* bits, 8 in the program, so that a small word keeps every case.          *)
(***************************************************************************)
EXTENDS Integers, Sequences

CONSTANTS
    ByteBits,                      \* bits of a byte
    Band(_, _), Bor(_, _), Bxor(_, _)   \* `&', `|' and `^'

ASSUME ByteBitsAssumption == ByteBits \in Nat \ {0}

Radix == 2 ^ ByteBits
WordSize == Radix ^ 4
Word == 0 .. WordSize - 1

(* The laws of powers that the proofs use: the provers have no theory of   *)
(* `^'.                                                                    *)
ASSUME PowersAssumption ==
    /\ \A n \in 0 .. 4 : Radix ^ n \in Nat \ {0} /\ Radix ^ n * Radix ^ (4 - n) = WordSize
    /\ \A n \in 0 .. 3 : Radix ^ (n + 1) = Radix * Radix ^ n
    /\ \A n \in 0 .. 4 * ByteBits : 2 ^ n \in Nat \ {0} /\ 2 ^ n * 2 ^ (4 * ByteBits - n) = WordSize
    /\ \A n \in 0 .. 4 * ByteBits - 1 : 2 ^ (n + 1) = 2 * 2 ^ n
    /\ Radix >= 2 /\ 4 * ByteBits < WordSize

(* A word as int32_t, and int32_t back to uint32_t.                        *)
Signed(w) == IF w >= WordSize \div 2 THEN w - WordSize ELSE w
Unsigned(n) == n % WordSize

(* x as a w-byte two's complement number, sign extended to a word.         *)
SignExtend(x, w) ==
    LET m == Radix ^ w IN IF x >= m \div 2 THEN Unsigned(x - m) ELSE x

Byte(w, k) == (w \div Radix ^ (3 - k)) % Radix
Half(w, k) == (w \div Radix ^ (2 - k)) % (Radix ^ 2)
LowBytes(w, n) == w % Radix ^ n
HighMask(n) == WordSize - Radix ^ (4 - n)      \* 0xff000000 for n = 1, ...

(* The cases of lwl and lwr in load_op::complete().                        *)
\* mutant of MergeLeft: the little-endian offset
MergeLeftLe(ma, r, x) == Bor(Unsigned(LowBytes(r, ma + 1) * Radix ^ (3 - ma)), LowBytes(x, 3 - ma))
MergeLeft(ma, r, x) == Bor(Unsigned(LowBytes(r, 4 - ma) * Radix ^ ma), LowBytes(x, ma))
MergeRight(ma, r, x) == Bor(Band(x, HighMask(3 - ma)), r \div Radix ^ (3 - ma))

(* load_op::complete(): ma = ea & 3, r the aligned word in memory, x the   *)
(* previous value of the destination (lwl and lwr merge into it).          *)
LoadValue(k, ma, r, x) ==
    CASE k = "lb"  -> SignExtend(Byte(r, ma), 1)
      [] k = "lbu" -> Byte(r, ma)
      [] k = "lh"  -> SignExtend(Half(r, ma), 2)
      [] k = "lhu" -> Half(r, ma)
      [] k = "lw"  -> r
      [] k = "lwl" -> MergeLeft(ma, r, x)
      [] k = "lwr" -> MergeRight(ma, r, x)

(* store_op::retire(): the aligned word after the store.  store_data is an *)
(* int32_t, so swl shifts it right arithmetically.                         *)
StoreValue(k, ma, r, d) ==
    CASE k = "sb"  -> r - Byte(r, ma) * Radix ^ (3 - ma) + (d % Radix) * Radix ^ (3 - ma)
      [] k = "sh"  -> r - Half(r, ma) * Radix ^ (2 - ma) + (d % Radix ^ 2) * Radix ^ (2 - ma)
      [] k = "sw"  -> d
      [] k = "swl" -> Bor(Unsigned(Signed(d) \div Radix ^ ma), Band(r, HighMask(ma)))
      [] k = "swr" -> Bor(Unsigned(d * Radix ^ (3 - ma)), LowBytes(r, 3 - ma))

(* _lb ... _lwr of the interpreter.                                        *)
InterpLoad(k, ma, r, x) ==
    CASE k = "lb"  -> Unsigned(IF Byte(r, ma) >= Radix \div 2
                               THEN Byte(r, ma) - Radix ELSE Byte(r, ma))
      [] k = "lbu" -> Byte(r, ma)
      [] k = "lh"  -> SignExtend(Half(r, ma), 2)
      [] k = "lhu" -> Half(r, ma)
      [] k = "lw"  -> r
      [] k = "lwl" -> IF ma = 3 THEN Bor(Unsigned(LowBytes(r, 3) * Radix ^ 3), LowBytes(x, 3))
                      ELSE Bor(LowBytes(r, 4 - ma) * Radix ^ ma, LowBytes(x, ma))
      [] k = "lwr" -> Bor(Band(x, HighMask(3 - ma)), r \div Radix ^ (3 - ma))

(* _sb ... _swr of the interpreter, the set of words it may leave: its swl *)
(* mask ~((1U << (8*(4-ma))) - 1) shifts by the full width when ma = 0,    *)
(* which the language leaves undefined; compilers produce 0 or 1 for it.   *)
InterpStore(k, ma, r, d) ==
    CASE k = "sb"  -> {r - Byte(r, ma) * Radix ^ (3 - ma) + (d % Radix) * Radix ^ (3 - ma)}
      [] k = "sh"  -> {r - Half(r, ma) * Radix ^ (2 - ma) + (d % Radix ^ 2) * Radix ^ (2 - ma)}
      [] k = "sw"  -> {d}
      [] k = "swl" ->
            LET masks == IF ma = 0 THEN {Unsigned(0), WordSize - 1} ELSE {HighMask(ma)}
            IN  {Bor(Band(r, m), d \div Radix ^ ma) : m \in masks}
      [] k = "swr" -> {Bor(Unsigned(d * Radix ^ (3 - ma)), LowBytes(r, 3 - ma))}
=============================================================================
