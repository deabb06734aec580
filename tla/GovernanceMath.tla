--------------------------- MODULE GovernanceMath ---------------------------
(***************************************************************************)
(* The arithmetic of contracts/governance: the integer square root behind  *)
(* every vote's weight, the decaying quorum, the power of a vote-escrow    *)
(* lock and the quadratic match.  The widths of u64 and u128 are           *)
(* parameters, so that an instance can reach them.                         *)
(***************************************************************************)
EXTENDS Integers

CONSTANTS U64Max, U128Max,      \* the largest u64 and u128
          MAX_LOCK_LEDGERS,     \* the longest vote-escrow lock
          QF_SCALE              \* fixed point of the quadratic match's roots

Overflow == -1                  \* Err(MathOverflow)

BPS == 10000                    \* MAX_THRESHOLD_BPS
QUORUM_FLOOR_BPS == 3500
QF_SCALE_SQ == QF_SCALE * QF_SCALE

Least(a, b) == IF a <= b THEN a ELSE b
Most(a, b) == IF a >= b THEN a ELSE b

\* 1 << k
Pow2[k \in Nat] == IF k = 0 THEN 1 ELSE 2 * Pow2[k - 1]

\* The width less the leading zeros.
BitLen[n \in Nat] == IF n = 0 THEN 0 ELSE 1 + BitLen[n \div 2]

\* The Newton-Raphson descent from an estimate above the root.  The sum never
\* saturates: the estimate is at most 2^32 (2^64 for the u128 root).
Newton(n) ==
  LET descend[x \in Nat \ {0}] ==
        LET next == (x + n \div x) \div 2
        IN  IF next >= x THEN x ELSE descend[next]
  IN  descend[Pow2[(BitLen[n] + 1) \div 2]]

\* Mutant of isqrt: a descent that stops one step early.
isqrt_one_step(n) ==
  IF n = 0 THEN 0 ELSE IF n < 4 THEN 1
  ELSE LET x == Pow2[(BitLen[n] + 1) \div 2] IN (x + n \div x) \div 2

isqrt(n) == IF n = 0 THEN 0 ELSE IF n < 4 THEN 1 ELSE Newton(n)

\* Starts from the floor, not the ceiling, of half the bit length.
isqrt_u128_low(n) ==
  IF n <= U64Max THEN isqrt(n)
  ELSE LET x == Pow2[BitLen[n] \div 2]
           next == (x + n \div x) \div 2
       IN  IF next >= x THEN x ELSE next

isqrt_u128(n) == IF n <= U64Max THEN isqrt(n) ELSE Newton(n)

\* Mutant of current_quorum_bps: the quorum climbs from the floor.
current_quorum_bps_rising(start_bps, elapsed, window) ==
  LET start == Most(start_bps, QUORUM_FLOOR_BPS)
  IN  IF window = 0 \/ elapsed >= window
      THEN start
      ELSE QUORUM_FLOOR_BPS + ((start - QUORUM_FLOOR_BPS) * elapsed) \div window

\* What a voter needs of the total weight, in bps, falls linearly from the
\* threshold to the floor over the voting window.
current_quorum_bps(start_bps, elapsed, window) ==
  IF window = 0 \/ elapsed >= window
  THEN QUORUM_FLOOR_BPS
  ELSE LET start == Most(start_bps, QUORUM_FLOOR_BPS)
       IN  start - ((start - QUORUM_FLOOR_BPS) * elapsed) \div window

\* amount * remaining / MAX_LOCK_LEDGERS without the overflowing product.
power_for(amount, remaining) ==
  IF amount <= 0 \/ remaining = 0
  THEN 0
  ELSE LET left == Least(remaining, MAX_LOCK_LEDGERS)
           power == (amount \div MAX_LOCK_LEDGERS) * left
                      + ((amount % MAX_LOCK_LEDGERS) * left) \div MAX_LOCK_LEDGERS
       IN  Least(power, U64Max)

scaled_sqrt(amount) ==
  IF amount <= 0 THEN 0
  ELSE IF amount * QF_SCALE_SQ > U128Max THEN Overflow
  ELSE isqrt_u128(amount * QF_SCALE_SQ)

match_from_scaled(sqrt_sum_scaled, total_donated) ==
  IF sqrt_sum_scaled * sqrt_sum_scaled > U128Max THEN Overflow
  ELSE Most((sqrt_sum_scaled * sqrt_sum_scaled) \div QF_SCALE_SQ - total_donated, 0)

---------------------------------------------------------------------------
(* Reference definitions.                                                  *)

IsRoot(r, n) == r * r <= n /\ n < (r + 1) * (r + 1)
=============================================================================
