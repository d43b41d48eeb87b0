------------------------- MODULE MCPostgresAccounts -------------------------
(* Three callers on one row, and calls for an account that does not exist. *)
EXTENDS PostgresAccounts

CONSTANTS a1, unknown

(* A little more or less than whole cents, half cents (which do not pass), *)
(* and too little.                                                         *)
MCCalls == {[account |-> a1, type |-> "deposit", amount |-> 21],
            [account |-> a1, type |-> "withdraw", amount |-> 11],
            [account |-> a1, type |-> "withdraw", amount |-> 19],
            [account |-> a1, type |-> "withdraw", amount |-> 15],
            [account |-> a1, type |-> "deposit", amount |-> 9],
            [account |-> unknown, type |-> "withdraw", amount |-> 10]}

=============================================================================
