--------------------------- MODULE AtomicBalances ---------------------------
(***************************************************************************)
(* What AtomicBalanceUpdate promises its callers: each call takes effect   *)
(* at one instant between its invocation and its return, on the balance of *)
(* that instant, or not at all.  Callers pass and learn tenths of a cent,  *)
(* the column holds cents.                                                 *)
(***************************************************************************)
EXTENDS Amounts

CONSTANTS
  Accounts,    \* accounts with a row
  Callers,     \* handlers and workers that may call at the same time
  Calls        \* the arguments they pass

VARIABLES
  balance,     \* balance[a]: the balance column of account a
  call,        \* call[c]: the arguments of caller c's call, or NoCall
  answer       \* answer[c]: what the call will return, once decided

vars == <<balance, call, answer>>

NoCall   == [account |-> "none", type |-> "none", amount |-> 0]
NoAnswer == [out |-> "none", prev |-> 0, new |-> 0]

Outcomes == {"none", "ok", "business", "system", "unsure"}
Answers  == [out : Outcomes, prev : Int, new : Int]

Init == /\ balance \in [Accounts -> 0 .. MaxBalance]
        /\ call    = [c \in Callers |-> NoCall]
        /\ answer  = [c \in Callers |-> NoAnswer]

Open(c) == call[c] # NoCall /\ answer[c] = NoAnswer

Decide(c, out, prev, new) ==
  answer' = [answer EXCEPT ![c] = [out |-> out, prev |-> prev, new |-> new]]

Invoke(c, k) == /\ call[c] = NoCall
                /\ call' = [call EXCEPT ![c] = k]
                /\ UNCHANGED <<balance, answer>>

(* The update takes effect, and the caller learns both balances, or gets   *)
(* an error from a commit that went through.                               *)
Apply(c) ==
  LET k    == call[c]
      a    == k.account
      prev == Tenths(balance[a])
      new  == After(prev, k.type, k.amount)
  IN  /\ Open(c)
      /\ a \in Accounts
      /\ ~ShortOf(prev, k.type, k.amount) /\ Cents(new) <= MaxBalance
      /\ balance' = [balance EXCEPT ![a] = Cents(new)]
      /\ Decide(c, "ok", prev, new) \/ Decide(c, "unsure", 0, 0)
      /\ UNCHANGED call

(* A business error tells the truth about the balance of that instant.     *)
Refuse(c) ==
  LET k == call[c]
  IN  /\ Open(c)
      /\ k.account \in Accounts => ShortOf(Tenths(balance[k.account]), k.type, k.amount)
      /\ Decide(c, "business", 0, 0)
      /\ UNCHANGED <<balance, call>>

Fail(c) == /\ Open(c)
           /\ Decide(c, "system", 0, 0)
           /\ UNCHANGED <<balance, call>>

Return(c) == /\ answer[c] # NoAnswer
             /\ call'   = [call EXCEPT ![c] = NoCall]
             /\ answer' = [answer EXCEPT ![c] = NoAnswer]
             /\ UNCHANGED balance

Next == \E c \in Callers :
          \/ \E k \in Calls : Invoke(c, k)
          \/ Apply(c) \/ Refuse(c) \/ Fail(c) \/ Return(c)

Spec == Init /\ [][Next]_vars

=============================================================================
