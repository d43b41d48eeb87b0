------------------------------ MODULE Backends ------------------------------
(***************************************************************************)
(* The backends as the GET requests meet them: up, refusing, or hanging.   *)
(* They may change between any two steps of a request.                     *)
(***************************************************************************)
EXTENDS Naturals

CONSTANT MaxChanges      \* bounds the changes

ASSUME ChangesAssumption == MaxChanges \in Nat

VARIABLES condition, changes

backendVars == <<condition, changes>>

Stores     == {"postgres", "mongodb"}
Backends   == Stores \cup {"rabbitmq"}
Conditions == {"up", "down", "hung"}

Change(b) ==
  /\ changes < MaxChanges
  /\ changes' = changes + 1
  /\ \E c \in Conditions \ {condition[b]} : condition' = [condition EXCEPT ![b] = c]

(* How a read of an identifier that is there, or is not, may end.  A store *)
(* that hangs answers nothing, and once the context has expired (late) no  *)
(* store is asked any more.                                                *)
Reads(s, there, late) ==
  IF late \/ condition[s] = "down" THEN {"other error"}
  ELSE IF condition[s] = "up" THEN {IF there THEN "found" ELSE "not found"}
  ELSE {}

(* A connection that hangs is not closed.                                  *)
IsConnected == condition["rabbitmq"] # "down"

=============================================================================
