-------------------------- MODULE MCBankingService --------------------------
(* Instances of the service small enough for TLC.                          *)
EXTENDS LedgerProperties, TLC

CONSTANTS a1, r1, r2, i1, i2, w1, w2

Ask(type, amount) == [account |-> a1, type |-> type, amount |-> amount]

(* A deposit that overflows on top of the other, a withdrawal that is      *)
(* covered or not depending on what came before it.                        *)
ValidBodies    == {Ask("deposit", 2), Ask("withdraw", 2)}
MixedBodies    == ValidBodies \cup {Ask("withdraw", 0)}
WithdrawBodies == {Ask("withdraw", 1), Ask("withdraw", 2)}

OneHost  == [w \in {w1, w2} |-> i1]
TwoHosts == (w1 :> i1) @@ (w2 :> i2)

=============================================================================
