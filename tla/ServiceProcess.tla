--------------------------- MODULE ServiceProcess ---------------------------
(***************************************************************************)
(* One life of the service process: main.go from its connection attempts   *)
(* to os.Exit, and the loop of worker/trans_worker.go.  What a worker does *)
(* with a message, which is the subject of BankingService, is one step     *)
(* here; what the broker hands to a consumer and what the worker takes     *)
(* from it are two.                                                        *)
(***************************************************************************)
EXTENDS Configuration, FiniteSets

CONSTANTS
  Settings,    \* the values WORKER_COUNT may have
  Attempts,    \* how often main calls Connect
  Messages,    \* the messages of transaction_queue
  NoMsg        \* "no message"

ASSUME ProcessAssumption == /\ Attempts \in Nat \ {0}
                            /\ Settings \subseteq Values
                            /\ NoMsg \notin Messages

VARIABLES
  \* the main goroutine
  stage,       \* "connect", "launch", "serve" or, in router.Run, "listen"
  attempts,    \* failed calls of Connect
  count,       \* cfg.WorkerCount
  launched,    \* workers launched so far: 1 .. launched
  asyncMode,
  link,        \* the AMQP connection and channel
  \* the worker goroutines
  added,       \* the workers the wait group counts
  worker,      \* where worker w stands
  buffer,      \* the delivery the AMQP client holds for w
  hand,        \* the message w is working on
  verdict,     \* what w will do with its delivery
  \* the broker
  consumers, ready, unacked, acked,
  \* the end
  keeper,      \* the shutdown goroutine
  cancelled,   \* the workers' context
  exit,        \* "no", or how the process ended
  \* what really happened, for the properties only
  finished,    \* messages worked on to the end
  cut          \* messages whose work the end of the process cut off

mainVars   == <<stage, attempts, count, launched, asyncMode>>
workerVars == <<added, worker, hand, verdict>>
brokerVars == <<buffer, consumers, ready, unacked, acked>>
endVars    == <<keeper, cancelled, exit, cut>>
vars == <<mainVars, link, workerVars, brokerVars, endVars, finished>>

Pool == 1 .. MaxInt

Links == {"none", "half", "up", "channel", "lost"}

Init ==
  /\ stage = "connect" /\ attempts = 0 /\ launched = 0 /\ asyncMode = FALSE
  /\ count \in {getEnvInt(s) : s \in Settings}
  /\ link = "none"
  /\ added = {}
  /\ worker  = [w \in Pool |-> "off"]
  /\ buffer  = [w \in Pool |-> NoMsg]
  /\ hand    = [w \in Pool |-> NoMsg]
  /\ verdict = [w \in Pool |-> "ack"]
  /\ consumers = {}
  /\ ready \in SUBSET Messages
  /\ unacked = [w \in Pool |-> NoMsg]
  /\ acked = {}
  /\ keeper = "absent" /\ cancelled = FALSE /\ exit = "no"
  /\ finished = {} /\ cut = {}

-----------------------------------------------------------------------------
(* The main goroutine                                                      *)

(* The connection is open, whatever became of its channel: a Connect that  *)
(* fails in setupExchangeAndQueue leaves it open ("half").                 *)
IsConnected == link \in {"half", "up", "channel"}

ConnectFails ==
  /\ stage = "connect" /\ attempts < Attempts
  /\ attempts' = attempts + 1
  /\ link' \in {"none", "lost", "half"}
  /\ UNCHANGED <<stage, count, launched, asyncMode, workerVars, brokerVars, endVars, finished>>

Connect ==
  /\ stage = "connect" /\ attempts < Attempts
  /\ link' = "up" /\ asyncMode' = TRUE /\ stage' = "launch"
  /\ UNCHANGED <<attempts, count, launched, workerVars, brokerVars, endVars, finished>>

(* Mutant of Launch: the goroutine itself calls wg.Add (see Consume).      *)
LaunchUncounted ==
  /\ stage = "launch" /\ launched < count
  /\ launched' = launched + 1
  /\ worker' = [worker EXCEPT ![launched'] = "starting"]
  /\ UNCHANGED <<stage, attempts, count, asyncMode, link, added, hand, verdict, brokerVars,
                 endVars, finished>>

Launch ==
  /\ stage = "launch" /\ launched < count
  /\ launched' = launched + 1
  /\ added'  = added \cup {launched'}
  /\ worker' = [worker EXCEPT ![launched'] = "starting"]
  /\ UNCHANGED <<stage, attempts, count, asyncMode, link, hand, verdict, brokerVars, endVars,
                 finished>>

(* Mutant of Serve: the mode is taken from IsConnected.                    *)
ServeIfConnected ==
  /\ \/ stage = "connect" /\ attempts = Attempts
     \/ stage = "launch" /\ launched >= count
  /\ stage' = "serve" /\ keeper' = "starting" /\ asyncMode' = IsConnected
  /\ UNCHANGED <<attempts, count, launched, link, workerVars, brokerVars, cancelled, exit, cut,
                 finished>>

Serve ==
  /\ \/ stage = "connect" /\ attempts = Attempts
     \/ stage = "launch" /\ launched >= count
  /\ stage' = "serve" /\ keeper' = "starting"
  /\ UNCHANGED <<attempts, count, launched, asyncMode, link, workerVars, brokerVars, cancelled,
                 exit, cut, finished>>

Listen ==
  /\ stage = "serve" /\ stage' = "listen"
  /\ UNCHANGED <<attempts, count, launched, asyncMode, link, workerVars, brokerVars, endVars,
                 finished>>

-----------------------------------------------------------------------------
(* A worker goroutine                                                      *)

Goto(w, place) == worker' = [worker EXCEPT ![w] = place]

(* The end of Start, and with it wg.Done.                                  *)
Return(w) == Goto(w, "done") /\ added' = added \ {w}

Consume(w) ==
  /\ worker[w] = "starting"
  /\ \/ /\ link = "up"
        /\ Goto(w, "waiting") /\ consumers' = consumers \cup {w} /\ UNCHANGED added
     \/ /\ link # "up"
        /\ Return(w) /\ UNCHANGED consumers
  /\ UNCHANGED <<mainVars, link, hand, verdict, buffer, ready, unacked, acked, endVars, finished>>

Waiting(w) == worker[w] = "waiting"

(* With both branches of the select ready the choice is random.            *)
Take(w) ==
  /\ Waiting(w) /\ buffer[w] # NoMsg
  /\ hand'   = [hand EXCEPT ![w] = buffer[w]]
  /\ buffer' = [buffer EXCEPT ![w] = NoMsg]
  /\ Goto(w, "working")
  /\ UNCHANGED <<mainVars, link, added, verdict, consumers, ready, unacked, acked, endVars,
                 finished>>

(* A closed channel of deliveries yields empty ones for ever: they are not *)
(* JSON, and Nack has no effect on them.                                   *)
TakeEmpty(w) ==
  /\ Waiting(w) /\ buffer[w] = NoMsg /\ link # "up"
  /\ Goto(w, "empty")
  /\ UNCHANGED <<mainVars, link, added, hand, verdict, brokerVars, endVars, finished>>

DropEmpty(w) ==
  /\ worker[w] = "empty" /\ Goto(w, "waiting")
  /\ UNCHANGED <<mainVars, link, added, hand, verdict, brokerVars, endVars, finished>>

(* ProcessTransactionAsync runs under a context of its own, which nothing  *)
(* cancels: it returns when it returns.                                    *)
Process(w) ==
  /\ worker[w] = "working"
  /\ \E v \in {"ack", "requeue"} : verdict' = [verdict EXCEPT ![w] = v]
  /\ finished' = finished \cup {hand[w]}
  /\ Goto(w, "settling")
  /\ UNCHANGED <<mainVars, link, added, hand, brokerVars, endVars>>

(* Once the channel has closed, the broker has taken the delivery back.    *)
Settle(w) ==
  /\ worker[w] = "settling"
  /\ ready' = IF verdict[w] = "requeue" THEN ready \cup ({unacked[w]} \ {NoMsg}) ELSE ready
  /\ acked' = IF verdict[w] = "ack" THEN acked \cup ({unacked[w]} \ {NoMsg}) ELSE acked
  /\ unacked' = [unacked EXCEPT ![w] = NoMsg]
  /\ hand' = [hand EXCEPT ![w] = NoMsg] /\ verdict' = [verdict EXCEPT ![w] = "ack"]
  /\ Goto(w, "waiting")
  /\ UNCHANGED <<mainVars, link, added, buffer, consumers, endVars, finished>>

Stop(w) ==
  /\ Waiting(w) /\ cancelled
  /\ Return(w)
  /\ UNCHANGED <<mainVars, link, hand, verdict, brokerVars, endVars, finished>>

Work(w) == Consume(w) \/ Take(w) \/ TakeEmpty(w) \/ DropEmpty(w) \/ Settle(w)

-----------------------------------------------------------------------------
(* The broker                                                              *)

(* Mutant of Push: the broker takes a message for settled when it is sent. *)
PushAutoAck(w) ==
  /\ link = "up" /\ w \in consumers /\ buffer[w] = NoMsg
  /\ \E m \in ready : /\ ready'  = ready \ {m}
                      /\ acked'  = acked \cup {m}
                      /\ buffer' = [buffer EXCEPT ![w] = m]
  /\ UNCHANGED <<mainVars, link, workerVars, consumers, unacked, endVars, finished>>

(* Prefetch 1 per consumer.  The consumer of a worker that has returned is *)
(* not cancelled: it is still given a message.                             *)
Push(w) ==
  /\ link = "up" /\ w \in consumers /\ unacked[w] = NoMsg
  /\ \E m \in ready : /\ ready'   = ready \ {m}
                      /\ unacked' = [unacked EXCEPT ![w] = m]
                      /\ buffer'  = [buffer EXCEPT ![w] = m]
  /\ UNCHANGED <<mainVars, link, workerVars, consumers, acked, endVars, finished>>

Returned == {unacked[w] : w \in Pool} \ {NoMsg}

(* The client may still hand out, or drop, what it had buffered.           *)
LinkLoss ==
  /\ stage # "connect"
  /\ \/ link = "up" /\ link' \in {"channel", "lost"}
     \/ link \in {"channel", "half"} /\ link' = "lost"
  /\ ready'   = ready \cup Returned
  /\ unacked' = [w \in Pool |-> NoMsg]
  /\ \E kept \in SUBSET {w \in Pool : buffer[w] # NoMsg} :
       buffer' = [w \in Pool |-> IF w \in kept THEN buffer[w] ELSE NoMsg]
  /\ UNCHANGED <<mainVars, workerVars, consumers, acked, endVars, finished>>

(* Handlers take the path through the queue if the process runs in that    *)
(* mode and its connection is open, although the channel they publish on   *)
(* may be closed.  They do so until the process is gone, also while the    *)
(* workers are being stopped.                                              *)
Queues == stage = "listen" /\ asyncMode /\ IsConnected

(* The publication succeeds, and the request is answered 202.              *)
Accepts == Queues /\ link = "up"

Known == ready \cup Returned \cup acked \cup {hand[w] : w \in Pool}

Publish(m) ==
  /\ Accepts /\ m \notin Known
  /\ ready' = ready \cup {m}
  /\ UNCHANGED <<mainVars, link, workerVars, buffer, consumers, unacked, acked, endVars, finished>>

-----------------------------------------------------------------------------
(* The end                                                                 *)

(* Whatever ends the process, the broker gets back what was outstanding.   *)
Exit(how) ==
  /\ exit' = how
  /\ cut' = {hand[w] : w \in {v \in Pool : worker[v] \in {"working", "settling"}}}
  /\ ready'   = ready \cup Returned
  /\ unacked' = [w \in Pool |-> NoMsg]
  /\ UNCHANGED <<mainVars, link, workerVars, buffer, consumers, acked, keeper, cancelled, finished>>

Arm ==
  /\ keeper = "starting" /\ keeper' = "armed"
  /\ UNCHANGED <<mainVars, link, workerVars, brokerVars, cancelled, exit, cut, finished>>

(* A second signal waits in the channel for ever.                          *)
Signal ==
  /\ keeper = "armed" /\ keeper' = "draining" /\ cancelled' = TRUE
  /\ UNCHANGED <<mainVars, link, workerVars, brokerVars, exit, cut, finished>>

WorkersDone == keeper = "draining" /\ added = {} /\ Exit("graceful")

(* Mutant of TimeIsUp: nothing but the wait group is waited for.           *)
TimeNeverUp == FALSE /\ Exit("timeout")

TimeIsUp == keeper = "draining" /\ Exit("timeout")

(* Before signal.Notify a signal kills, and a crash may come at any time.  *)
Kill == Exit("killed")

(* router.Run cannot listen, while the workers are already at work.        *)
ListenFails == stage = "serve" /\ Exit("fatal")

-----------------------------------------------------------------------------

Running == \/ ConnectFails \/ Connect \/ Launch \/ Serve \/ Listen \/ ListenFails
           \/ \E w \in Pool : Work(w) \/ Process(w) \/ Stop(w) \/ Push(w)
           \/ LinkLoss \/ \E m \in Messages : Publish(m)
           \/ Arm \/ Signal \/ WorkersDone \/ TimeIsUp \/ Kill

Exited == exit # "no" /\ UNCHANGED vars

Next == (exit = "no" /\ Running) \/ Exited

Spec == Init /\ [][Next]_vars

(* Goroutines run.  Work on a message need not end, and no signal need     *)
(* come.  A select that is offered the end of the context again and again  *)
(* takes it some day, as it chooses at random.  Of the 30 s only this much *)
(* is assumed: they pass for a worker that never comes back.               *)
SomeoneIsBusy == \E w \in Pool : worker[w] = "working"

Fairness == /\ WF_vars(exit = "no" /\ WorkersDone)
            /\ WF_vars(exit = "no" /\ SomeoneIsBusy /\ TimeIsUp)
            /\ \A w \in Pool : /\ WF_vars(exit = "no" /\ Work(w))
                               /\ SF_vars(exit = "no" /\ Stop(w))

FairSpec == Spec /\ Fairness

-----------------------------------------------------------------------------
(* What must hold                                                          *)

Places == {"off", "starting", "waiting", "empty", "working", "settling", "done"}

(* Every variable keeps its type.                                          *)
ProcessTypeOK ==
  /\ stage \in {"connect", "launch", "serve", "listen"}
  /\ attempts \in 0 .. Attempts /\ count \in Pool /\ launched \in 0 .. count
  /\ asyncMode \in BOOLEAN /\ link \in Links
  /\ added \subseteq Pool /\ worker \in [Pool -> Places]
  /\ hand \in [Pool -> Messages \cup {NoMsg}] /\ verdict \in [Pool -> {"ack", "requeue"}]
  /\ buffer \in [Pool -> Messages \cup {NoMsg}] /\ consumers \subseteq Pool
  /\ ready \subseteq Messages /\ unacked \in [Pool -> Messages \cup {NoMsg}]
  /\ acked \subseteq Messages
  /\ keeper \in {"absent", "starting", "armed", "draining"} /\ cancelled \in BOOLEAN
  /\ exit \in {"no", "graceful", "timeout", "killed", "fatal"}
  /\ finished \subseteq Messages /\ cut \subseteq Messages

(* The pool has the size the environment asks for, by the reference        *)
(* definition of a decimal numeral, and is never empty.                    *)
EveryCountAsTold ==
  /\ \E s \in Settings : count = getEnvInt(s)
  /\ stage = "connect" => \A s \in Settings : CountsAsTold(s)

(* When the shutdown says that all workers stopped gracefully, no worker   *)
(* was between taking a message and settling it: nothing is left half      *)
(* done, so nothing the next process is redelivered was begun before,      *)
(* whatever came in while the workers were being stopped.                  *)
GracefulCutsNothing == exit = "graceful" => cut = {}

(* A message leaves the queue for good only when a worker has worked on it *)
(* to the end: one that is cut off by the end of the process is there      *)
(* again, and one that is buffered for a worker that already stopped is    *)
(* not lost.                                                               *)
OnlyFinishedWorkIsAcked == acked \subseteq finished /\ cut \cap acked = {}

(* While the channel is open a worker has in hand, or waiting in its       *)
(* buffer, exactly what the broker has outstanding at its consumer, and    *)
(* nobody else has that message: which is why BankingService may take a    *)
(* delivery in one step.                                                   *)
Holds(w, m) == m # NoMsg /\ (hand[w] = m \/ buffer[w] = m)

OneHolder ==
  link = "up" /\ exit = "no" =>
    \A w \in Pool, m \in Messages :
      Holds(w, m) <=> unacked[w] = m
        /\ m \notin ready /\ \A v \in Pool \ {w} : ~Holds(v, m)

(* Requests go to the queue only in a process that launched its whole      *)
(* pool: a connection that a failed attempt left open does not count.  And *)
(* as long as they are answered 202 and nobody asked the process to stop,  *)
(* some worker has not returned.                                           *)
AcceptedIsStaffed ==
  exit = "no" =>
    /\ Queues => launched = count
    /\ Accepts /\ ~cancelled => \E w \in Pool : worker[w] \notin {"off", "done"}

(* After a signal the process ends: workers that spin on a closed channel  *)
(* or are kept busy by redeliveries still stop, and one that never comes   *)
(* back is not waited for.                                                 *)
SignalEnds == keeper = "draining" ~> exit # "no"

=============================================================================
