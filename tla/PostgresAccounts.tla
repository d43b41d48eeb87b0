-------------------------- MODULE PostgresAccounts --------------------------
(***************************************************************************)
(* PostgresAccountStorage.AtomicBalanceUpdate, statement by statement,     *)
(* with any number of callers at once: BeginTx; SELECT ... FOR UPDATE,     *)
(* which waits for the row's lock and reads the last committed balance;    *)
(* the decision and the UPDATE; Commit.  Every return rolls back what was  *)
(* not committed (the deferred Rollback), which frees the row.             *)
(* Amounts and local variables are in tenths of a cent, the column holds   *)
(* cents.                                                                  *)
(***************************************************************************)
EXTENDS Amounts

CONSTANTS Accounts, Callers, Calls,
          NoCaller     \* nobody holds the row

ASSUME CallersAssumption ==
  /\ NoCaller \notin Callers
  /\ \A k \in Calls : k.type \in Types /\ k.amount \in Nat

VARIABLES
  balance,    \* the committed balance column
  holder,     \* holder[a]: the caller whose transaction locks row a
  call,       \* call[c]: arguments of the call in progress
  answer,     \* answer[c]: its return values, once known
  pc,         \* pc[c]: the statement that comes next
  seen,       \* seen[c]: previousBalance
  written     \* written[c]: newBalance, in the uncommitted row version

vars == <<balance, holder, call, answer, pc, seen, written>>

Abstract == INSTANCE AtomicBalances

NoCall   == Abstract!NoCall
NoAnswer == Abstract!NoAnswer

Steps == {"idle", "begin", "lock", "update", "commit", "return"}

Init == /\ balance \in [Accounts -> 0 .. MaxBalance]
        /\ holder  = [a \in Accounts |-> NoCaller]
        /\ call    = [c \in Callers |-> NoCall]
        /\ answer  = [c \in Callers |-> NoAnswer]
        /\ pc      = [c \in Callers |-> "idle"]
        /\ seen    = [c \in Callers |-> 0]
        /\ written = [c \in Callers |-> 0]

Row(c) == call[c].account

Goto(c, step) == pc' = [pc EXCEPT ![c] = step]

(* Leave the function: its transaction is over, so the row is free, and its *)
(* local variables are gone.                                               *)
Release(c) == holder' = [a \in Accounts |-> IF holder[a] = c THEN NoCaller ELSE holder[a]]

Answer(c, out, prev, new) ==
  answer' = [answer EXCEPT ![c] = [out |-> out, prev |-> prev, new |-> new]]

Leave(c, out, prev, new) == /\ Answer(c, out, prev, new)
                            /\ Release(c)
                            /\ seen'    = [seen EXCEPT ![c] = 0]
                            /\ written' = [written EXCEPT ![c] = 0]
                            /\ Goto(c, "return")

Invoke(c, k) ==
  /\ pc[c] = "idle" /\ validateTransactionAmount(k.amount)
  /\ call' = [call EXCEPT ![c] = k]
  /\ Goto(c, "begin")
  /\ UNCHANGED <<balance, holder, answer, seen, written>>

BeginTx(c) ==
  /\ pc[c] = "begin"
  /\ Goto(c, "lock")
  /\ UNCHANGED <<balance, holder, call, answer, seen, written>>

(* Mutant of SelectForUpdate: the row is read without FOR UPDATE.          *)
SelectOnly(c) ==
  /\ pc[c] = "lock" /\ Row(c) \in Accounts
  /\ seen' = [seen EXCEPT ![c] = Tenths(balance[Row(c)])]
  /\ Goto(c, "update")
  /\ UNCHANGED <<balance, holder, call, answer, written>>

SelectForUpdate(c) ==
  /\ pc[c] = "lock" /\ Row(c) \in Accounts
  /\ holder[Row(c)] = NoCaller
  /\ holder' = [holder EXCEPT ![Row(c)] = c]
  /\ seen'   = [seen EXCEPT ![c] = Tenths(balance[Row(c)])]
  /\ Goto(c, "update")
  /\ UNCHANGED <<balance, call, answer, written>>

SelectNoRows(c) ==
  /\ pc[c] = "lock" /\ Row(c) \notin Accounts
  /\ Leave(c, "business", 0, 0)
  /\ UNCHANGED <<balance, call>>

NewBalance(c) == After(seen[c], call[c].type, call[c].amount)

(* Mutant of InsufficientFunds: it returns without a rollback.             *)
InsufficientFundsKeepingRow(c) ==
  /\ pc[c] = "update" /\ ShortOf(seen[c], call[c].type, call[c].amount)
  /\ Answer(c, "business", 0, 0) /\ Goto(c, "return")
  /\ UNCHANGED <<balance, holder, call, seen, written>>

InsufficientFunds(c) ==
  /\ pc[c] = "update" /\ ShortOf(seen[c], call[c].type, call[c].amount)
  /\ Leave(c, "business", 0, 0)
  /\ UNCHANGED <<balance, call>>

UpdateRow(c) ==
  /\ pc[c] = "update" /\ ~ShortOf(seen[c], call[c].type, call[c].amount)
  /\ IF Cents(NewBalance(c)) > MaxBalance
       THEN Leave(c, "system", 0, 0)
       ELSE /\ written' = [written EXCEPT ![c] = NewBalance(c)]
            /\ Goto(c, "commit")
            /\ UNCHANGED <<holder, answer, seen>>
  /\ UNCHANGED <<balance, call>>

(* The commit makes the row version visible; its answer may be lost.  The  *)
(* balance it answers with was never read back from the row.               *)
Commit(c) ==
  /\ pc[c] = "commit"
  /\ balance' = [balance EXCEPT ![Row(c)] = Cents(written[c])]
  /\ Leave(c, "ok", seen[c], written[c]) \/ Leave(c, "unsure", 0, 0)
  /\ UNCHANGED call

(* Any statement may fail (the connection, a cancelled context), and the   *)
(* commit may fail without effect: the transaction is rolled back.         *)
Fail(c) ==
  /\ pc[c] \in {"begin", "lock", "update", "commit"}
  /\ Leave(c, "system", 0, 0)
  /\ UNCHANGED <<balance, call>>

Return(c) ==
  /\ pc[c] = "return"
  /\ call'   = [call EXCEPT ![c] = NoCall]
  /\ answer' = [answer EXCEPT ![c] = NoAnswer]
  /\ Goto(c, "idle")
  /\ UNCHANGED <<balance, holder, seen, written>>

Step(c) == \/ BeginTx(c) \/ SelectNoRows(c)
           \/ InsufficientFunds(c) \/ UpdateRow(c) \/ Commit(c) \/ Return(c)

Next == \E c \in Callers : \/ \E k \in Calls : Invoke(c, k)
                           \/ Step(c) \/ SelectForUpdate(c) \/ Fail(c)

Spec == Init /\ [][Next]_vars

(* The database answers every statement, and grants a row's lock to each   *)
(* transaction that waits for it (lock waiters queue).                     *)
FairSpec == /\ Spec
            /\ \A c \in Callers : WF_vars(Step(c)) /\ SF_vars(SelectForUpdate(c))

-----------------------------------------------------------------------------

TypeOK == /\ balance \in [Accounts -> 0 .. MaxBalance]
          /\ holder  \in [Accounts -> Callers \cup {NoCaller}]
          /\ call    \in [Callers -> Calls \cup {NoCall}]
          /\ answer  \in [Callers -> Abstract!Answers]
          /\ pc      \in [Callers -> Steps]
          /\ seen    \in [Callers -> Int]
          /\ written \in [Callers -> Int]

InTransaction(c) == pc[c] \in {"update", "commit"}

(* From SELECT ... FOR UPDATE to the commit the caller holds the row, so   *)
(* the balance it computed with is still the committed one, and what it    *)
(* wrote is a balance the account may have.                                *)
SnapshotIsCurrent ==
  \A c \in Callers :
    /\ InTransaction(c) => /\ Row(c) \in Accounts
                           /\ holder[Row(c)] = c
                           /\ seen[c] = Tenths(balance[Row(c)])
    /\ pc[c] = "commit" =>
         /\ ~ShortOf(seen[c], call[c].type, call[c].amount)
         /\ Cents(written[c]) <= MaxBalance
         /\ written[c] = NewBalance(c)

(* A row is locked only on behalf of a transaction in progress on it.      *)
LocksAreOwned ==
  \A a \in Accounts : holder[a] # NoCaller =>
    InTransaction(holder[a]) /\ Row(holder[a]) = a

(* A call is in progress exactly between Invoke and Return, and answered   *)
(* exactly when it is about to return.                                     *)
CallsMatchSteps ==
  \A c \in Callers : /\ (call[c] = NoCall) <=> (pc[c] = "idle")
                     /\ (answer[c] = NoAnswer) <=> (pc[c] # "return")

(* Whoever calls has validated the amount.                                 *)
CallsAreValid ==
  \A c \in Callers : call[c] # NoCall => validateTransactionAmount(call[c].amount)

(* The inductive invariant: no balance is ever out of range and no update  *)
(* is computed from a balance that someone else has replaced.              *)
LockInvariant ==
  TypeOK /\ SnapshotIsCurrent /\ LocksAreOwned /\ CallsMatchSteps /\ CallsAreValid

(* The locked transaction implements the update at one instant.            *)
AtomicUpdates == Abstract!Spec

(* The row moves by whole cents, by as many for a deposit as for a         *)
(* withdrawal of the same amount, although amounts with fractions of a     *)
(* cent pass and the column rounds: the opposite update restores a balance *)
(* exactly.  The new balance that is reported and recorded in the ledger   *)
(* is within a tenth of a cent of the row.                                 *)
WholeCents ==
  [][\A c \in Callers : Commit(c) =>
       /\ balance'[Row(c)] = balance[Row(c)] + Signed(call[c].type, Cents(call[c].amount))
       /\ written[c] - Tenths(balance'[Row(c)]) \in -1 .. 1]_vars

(* Every call returns: no early return leaves the row locked against the   *)
(* callers that wait for it.                                               *)
CallsReturn == \A c \in Callers : call[c] # NoCall ~> call[c] = NoCall

=============================================================================
