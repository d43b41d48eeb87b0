--------------------------- MODULE LedgerContract ---------------------------
(***************************************************************************)
(* What the service promises, request by request: a balance changes only   *)
(* by exactly what some request asked for, one application or reversal at  *)
(* a time, on behalf of a request whose outcome is still open; certain     *)
(* outcomes say how often the request stands in the balance from then on.  *)
(* How much is promised depends on what may go wrong, so it is a parameter.*)
(***************************************************************************)
EXTENDS Balances

CONSTANTS
  Accounts, Requests,
  Once,      \* outcomes that say the request stands in the balance once
  Never,     \* outcomes that say it does not stand in the balance
  Final      \* outcomes after which nothing more happens to the request

VARIABLES
  opened, balance,   \* the accounts
  body,              \* what each request asks for
  outcome,           \* outcome[r]: what has become of request r
  count              \* count[r]: how often it stands in its account's balance

vars == <<opened, balance, body, outcome, count>>

(* A request is answered once; one that is answered before it was carried  *)
(* out is decided later.                                                   *)
Follows(o, p) ==
  \/ o = "none"    /\ p \in {"accepted", "pending", "ok", "rejected", "error"}
  \/ o = "pending" /\ p \in {"completed", "failed"}

Init == /\ opened  = [a \in Accounts |-> FALSE]
        /\ balance = [a \in Accounts |-> 0]
        /\ outcome = [r \in Requests |-> "none"]
        /\ count   = [r \in Requests |-> 0]

OpenAccount(a, n) ==
  /\ ~opened[a]
  /\ opened'  = [opened EXCEPT ![a] = TRUE]
  /\ balance' = [balance EXCEPT ![a] = n]
  /\ UNCHANGED <<body, outcome, count>>

(* The outcome of r becomes o, or stays; it must be true of the new count. *)
Conclude(r, o) ==
  /\ outcome[r] \notin Final
  /\ o = outcome[r] \/ Follows(outcome[r], o)
  /\ outcome' = [outcome EXCEPT ![r] = o]
  /\ o \in Once  => count'[r] = 1
  /\ o \in Never => count'[r] = 0
  /\ UNCHANGED body

Move(r, type) ==
  LET b == body[r]
  IN  /\ opened[b.account]
      /\ ~ShortOf(balance[b.account], type, b.amount)
      /\ ~TooLarge(balance[b.account], type, b.amount)
      /\ balance' = [balance EXCEPT ![b.account] = After(@, type, b.amount)]
      /\ UNCHANGED opened

(* The update of r is applied, reversed, or left alone.                    *)
Apply(r, o) == /\ Move(r, body[r].type)
               /\ count' = [count EXCEPT ![r] = @ + 1]
               /\ Conclude(r, o)

Reverse(r, o) == /\ Move(r, Opposite(body[r].type))
                 /\ count' = [count EXCEPT ![r] = @ - 1]
                 /\ Conclude(r, o)

Settle(r, o) == /\ UNCHANGED <<opened, balance, count>>
                /\ Conclude(r, o)

Outcomes == {"none", "accepted", "pending", "ok", "rejected", "error", "completed", "failed"}

Next == \/ \E a \in Accounts, n \in 0 .. MaxBalance : OpenAccount(a, n)
        \/ \E r \in Requests, o \in Outcomes : Apply(r, o) \/ Reverse(r, o) \/ Settle(r, o)

Spec == Init /\ [][Next]_vars

=============================================================================
