----------------------------- MODULE GoIntegers -----------------------------
(* Go's int: a fixed number of bits that wrap around.                      *)
EXTENDS Integers

CONSTANT MaxInt      \* math.MaxInt: 2^63 - 1 where the service runs

ASSUME IntAssumption == MaxInt \in Nat \ {0}

Wrap(n) == ((n + MaxInt + 1) % (2 * MaxInt + 2)) - MaxInt - 1

=============================================================================
