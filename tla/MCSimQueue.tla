----------------------------- MODULE MCSimQueue -----------------------------
(* Rings of the lengths that resize() may get: powers of two, and what     *)
(* --scale 3 makes of them.                                                *)
EXTENDS SimQueue, Bitwise

CONSTANTS a, b, c, d, e

MCSizes == {1, 2, 3, 4, 6, 12}
MCValues == {a, b, c, d, e}
MCBand(x, y) == x & y
MCGranule(n) == IF n % 4 = 0 THEN 4 ELSE IF n % 2 = 0 THEN 2 ELSE 1
=============================================================================
