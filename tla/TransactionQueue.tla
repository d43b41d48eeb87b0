-------------------------- MODULE TransactionQueue --------------------------
(***************************************************************************)
(* queue/rabbitMQ.go and the broker behind it.  A message is named by the  *)
(* request it carries, as each is published at most once.  The broker may  *)
(* offer ready messages in any order: requeued ones come back out of turn  *)
(* and several consumers drain the queue.                                  *)
(***************************************************************************)
EXTENDS LedgerData

CONSTANTS
  Instances,   \* service processes, one AMQP connection and channel each
  Workers,     \* worker goroutines of all instances
  Host,        \* Host[w]: the instance worker w belongs to
  NoMsg        \* "no message"

ASSUME HostAssumption == Host \in [Workers -> Instances] /\ NoMsg \notin Requests

VARIABLES
  link,      \* link[i]: "down" (process not running), "sync" (started without
             \* a broker), "up", "channel" (only the channel closed) or "lost"
  ready,     \* messages waiting in transaction_queue
  unacked    \* unacked[w]: the delivery the broker has outstanding at w

queueVars == <<link, ready, unacked>>

Links == {"down", "sync", "up", "channel", "lost"}

QueueInit == /\ link    = [i \in Instances |-> "down"]
             /\ ready   = {}
             /\ unacked = [w \in Workers |-> NoMsg]

(* IsConnected looks at the connection only; NewTransactionHandler adds    *)
(* that the process started with a broker.                                 *)
IsConnected(i) == link[i] \in {"up", "channel"}

(* Mutants of PublishTransaction: an error does not mean "not queued"; the *)
(* result of Publish is not looked at.                                     *)
PublishAmbiguously(i, r, out) ==
  /\ UNCHANGED <<link, unacked>>
  /\ Calm /\ ready' = ready \cup {r} /\ out \in {"ok", "error"}

PublishUnchecked(i, r, out) ==
  /\ UNCHANGED <<link, unacked>>
  /\ out = "ok" /\ Calm
  /\ ready' = IF link[i] = "up" THEN ready \cup {r} ELSE ready

(* Publish waits for no confirmation: on an open channel it succeeds even  *)
(* if the message never reaches the queue.                                 *)
PublishTransaction(i, r, out) ==
  /\ UNCHANGED <<link, unacked>>
  /\ \/ out = "ok" /\ link[i] = "up" /\ Calm /\ ready' = ready \cup {r}
     \/ out = "ok" /\ link[i] = "up" /\ Strike("lost") /\ UNCHANGED ready
     \/ out = "error" /\ link[i] # "up" /\ Calm /\ UNCHANGED ready

(* Mutant of Deliver: the consumer is registered with auto-ack.            *)
DeliverAutoAck(w, r) ==
  /\ link[Host[w]] = "up"
  /\ r \in ready /\ unacked[w] = NoMsg
  /\ ready' = ready \ {r}
  /\ UNCHANGED <<link, unacked>>

(* Prefetch 1: the broker has at most one delivery outstanding at a worker. *)
Deliver(w, r) ==
  /\ link[Host[w]] = "up"
  /\ r \in ready /\ unacked[w] = NoMsg
  /\ ready'   = ready \ {r}
  /\ unacked' = [unacked EXCEPT ![w] = r]
  /\ UNCHANGED link

(* On a closed channel Ack and Nack have no effect: the broker has taken   *)
(* the delivery back, and unacked[w] is NoMsg.                             *)
Ack(w) == /\ unacked' = [unacked EXCEPT ![w] = NoMsg]
          /\ UNCHANGED <<link, ready>>

Nack(w) == /\ ready'   = ready \cup ({unacked[w]} \ {NoMsg})
           /\ unacked' = [unacked EXCEPT ![w] = NoMsg]
           /\ UNCHANGED link

(* A closing channel returns what its consumers had not acknowledged.      *)
Close(i, why) ==
  LET ours == {w \in Workers : Host[w] = i}
  IN  /\ link'    = [link EXCEPT ![i] = why]
      /\ ready'   = ready \cup ({unacked[w] : w \in ours} \ {NoMsg})
      /\ unacked' = [w \in Workers |-> IF w \in ours THEN NoMsg ELSE unacked[w]]

(* Expired messages go to banking_exchange_dlx, which nothing declares.    *)
Drop(r) == /\ r \in ready
           /\ ready' = ready \ {r}
           /\ UNCHANGED <<link, unacked>>

QueueTypeOK == /\ link    \in [Instances -> Links]
               /\ ready   \subseteq Requests
               /\ unacked \in [Workers -> Requests \cup {NoMsg}]

=============================================================================
