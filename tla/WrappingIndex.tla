--------------------------- MODULE WrappingIndex ---------------------------
(***************************************************************************)
(* The arithmetic of the ring indices.  Heads and tails are `u32` counters *)
(* that run freely and wrap; a slot is found by masking an index with      *)
(* `capacity - 1`.  Modulus stands for 2^32 and is a parameter, so that    *)
(* the model checker can make an index wrap within a few steps.            *)
(***************************************************************************)
EXTENDS Integers

CONSTANT Modulus

Index == 0 .. Modulus - 1

WrappingAdd(a, b) == (a + b) % Modulus

WrappingSub(a, b) == (a - b) % Modulus

\* index & mask, for a ring of `capacity` slots: the capacity is a power of
\* two, so masking is the remainder.
Slot(index, capacity) == index % capacity

\* A ring's capacity divides 2^32.
CapacityDivides(capacity) ==
  \E laps \in 1 .. Modulus : Modulus = capacity * laps

=============================================================================
