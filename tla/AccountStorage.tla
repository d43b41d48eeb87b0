--------------------------- MODULE AccountStorage ---------------------------
(***************************************************************************)
(* storage/postgres.go: the accounts table.  AtomicBalanceUpdate runs in   *)
(* one database transaction that locks the row, so it is one step here;    *)
(* how the row lock makes it one is the subject of PostgresAccounts.       *)
(***************************************************************************)
EXTENDS LedgerData

CONSTANT OpeningBalances    \* initial balances clients ask for

ASSUME OpeningAssumption == OpeningBalances \subseteq 0 .. MaxBalance

VARIABLES
  opened,    \* opened[a]: the row of account a exists
  balance    \* balance[a]: its balance column

accountVars == <<opened, balance>>

AccountsInit == /\ opened  = [a \in Accounts |-> FALSE]
                /\ balance = [a \in Accounts |-> 0]

CreateAccount(a, initial) ==
  /\ ~opened[a]
  /\ opened'  = [opened EXCEPT ![a] = TRUE]
  /\ balance' = [balance EXCEPT ![a] = initial]

(* A read answers with the row, which the caller then sees as balance[a],  *)
(* or with an error.  done: the context of the call is already cancelled.  *)
GetAccountByID(done, a, out) ==
  /\ \/ out = "ok" /\ ~done /\ opened[a] /\ Calm
     \/ out = "error" /\ (done \/ ~opened[a]) /\ Calm
     \/ out = "error" /\ Strike("pg")
  /\ UNCHANGED accountVars

(* The outcomes of AtomicBalanceUpdate that its callers can meet: "ok";    *)
(* an error isBusinessError recognises; any other error; and an error from *)
(* Commit although the transaction was committed.                          *)
UpdateOutcomes == {"ok", "business", "system", "unsure"}

Applied(out) == out \in {"ok", "unsure"}

(* The account is missing or cannot cover the withdrawal.                  *)
Refuses(a, type, amount) == ~opened[a] \/ ShortOf(balance[a], type, amount)

AtomicBalanceUpdate(done, a, type, amount, out) ==
  \/ /\ Applied(out)
     /\ ~done /\ ~Refuses(a, type, amount) /\ ~TooLarge(balance[a], type, amount)
     /\ IF out = "ok" THEN Calm ELSE Strike("pgCommit")
     /\ balance' = [balance EXCEPT ![a] = After(@, type, amount)]
     /\ UNCHANGED opened
  \/ /\ out = "business"
     /\ ~done /\ Refuses(a, type, amount)
     /\ Calm
     /\ UNCHANGED accountVars
  \/ /\ out = "system"
     /\ \/ /\ done \/ (~Refuses(a, type, amount) /\ TooLarge(balance[a], type, amount))
           /\ Calm
        \/ Strike("pg")
     /\ UNCHANGED accountVars

AccountsTypeOK == /\ opened  \in [Accounts -> BOOLEAN]
                  /\ balance \in [Accounts -> Int]

=============================================================================
