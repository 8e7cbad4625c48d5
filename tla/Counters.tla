------------------------------ MODULE Counters ------------------------------
(***************************************************************************)
(* Free-running unsigned counters, as every ring of this repository uses   *)
(* them: the counter is never masked when it is stored, only when it       *)
(* selects a slot, and the distance of two counters is an unsigned         *)
(* subtraction.                                                            *)
(***************************************************************************)
EXTENDS Integers

\* Number of values of a counter, 2^w: 2^64 for the SPSC ring (uint64_t) and
\* the MPSC queue (size_t), 2^32 for the DMA rings (u32).
CONSTANT Modulus

\* The depth of a ring is a power of two that fits the counter's type with a
\* bit to spare: it divides the modulus and is smaller.
RingDepth(d) == d \in Nat \ {0} /\ d < Modulus /\ Modulus % d = 0

ASSUME CountersAssumption == Modulus \in Nat \ {0}

\* Values of a counter variable.
Counter == 0 .. (Modulus - 1)

\* The value a counter holds after n increments from zero.
Val(n) == n % Modulus

\* Unsigned subtraction of two counters.
Minus(a, b) == (a - b) % Modulus

\* The slot a counter selects in a ring of depth d: idx & (d - 1).
SlotOf(c, d) == c % d

MinOf(a, b) == IF a <= b THEN a ELSE b
MaxOf(a, b) == IF a >= b THEN a ELSE b
=============================================================================
