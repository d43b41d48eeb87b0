------------------------------ MODULE Balances ------------------------------
(***************************************************************************)
(* The arithmetic of a balance update, as storage/postgres.go and the      *)
(* column it writes decide it.  Money is counted in cents.                 *)
(***************************************************************************)
EXTENDS Integers

CONSTANT MaxBalance    \* the largest value the DECIMAL(15,2) column can hold

ASSUME LimitAssumption == MaxBalance \in Nat

Types == {"deposit", "withdraw"}

(* What an update adds to the balance.                                     *)
Signed(type, amount) == IF type = "withdraw" THEN -amount ELSE amount

After(money, type, amount) == money + Signed(type, amount)

(* Mutant of ShortOf: the check of the funds is missing.                   *)
NeverShort(money, type, amount) == FALSE

ShortOf(money, type, amount) == type = "withdraw" /\ money < amount

TooLarge(money, type, amount) == After(money, type, amount) > MaxBalance

(* Mutant of Opposite: the update is repeated instead of reversed.         *)
SameType(type) == type

(* The handlers try to reverse an update by applying the opposite type.    *)
Opposite(type) == IF type = "withdraw" THEN "deposit" ELSE "withdraw"

=============================================================================
