------------------------------ MODULE Amounts -------------------------------
(***************************************************************************)
(* Amounts as requests carry them, with fractions of a cent.  They are     *)
(* float64 in the code, in tenths of a cent here: the finest difference    *)
(* the check of two decimals makes.                                        *)
(***************************************************************************)
EXTENDS Balances

CONSTANT MaxAmount    \* 999999999.99 in the code, in tenths of a cent

ASSUME AmountsAssumption == MaxAmount \in Nat

Tenths(cents) == 10 * cents

(* To the nearest cent, half a cent up: float64(int64(amount*100+0.5))/100 *)
(* in Go, and what the DECIMAL(15,2) column does with what it is given.    *)
Cents(tenths) == (tenths + 5) \div 10

(* Mutant of validateTransactionAmount: any number of decimals passes.     *)
validateMagnitude(x) == x \in 10 .. MaxAmount

(* The code compares with 0.001; at exactly a tenth of a cent the error of *)
(* float64 decides, and the model lets the amount pass.                    *)
validateTransactionAmount(x) == x \in 10 .. MaxAmount /\ x - Tenths(Cents(x)) \in -1 .. 1

=============================================================================
