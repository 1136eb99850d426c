---- MODULE AgentConsumer ----
(***************************************************************************)
(* agents/common/messaging.py: the consumer loop every specialist agent    *)
(* runs on its task queue, with the part of RabbitMQ it relies on (a       *)
(* durable queue, acknowledgements, redelivery of what was not             *)
(* acknowledged, a dead-letter queue).  One module stands for one task     *)
(* queue; Consumer is the set of processes attached to it (one replica per *)
(* service, more while an old process is left running).                    *)
(***************************************************************************)
EXTENDS Naturals, FiniteSets

CONSTANTS
    Task,         \* the tasks the orchestrator may publish to this queue
    Consumer,     \* the agent processes consuming from it
    Poison,       \* the tasks whose handler always raises
    MaxAttempts,  \* MESSAGE_MAX_ATTEMPTS
    MaxFaults,    \* bound on lost connections, crashes and failed republishes
    OldTopologies, \* what the broker may hold before the first agent connects
    None          \* no delivery in hand

ASSUME ConsumerAssumption ==
    /\ Poison \subseteq Task
    /\ MaxAttempts \in Nat \ {0}
    /\ MaxFaults \in Nat
    /\ OldTopologies \subseteq {"absent", "legacy"}

\* A message on the queue: the task and the attempt its body carries.
Copy == [task : Task, attempt : 1 .. MaxAttempts]

ASSUME NoneAssumption == None \notin Copy

VARIABLES
    topology,   \* the task queue: absent, declared with other arguments, current
    queue,      \* how many copies of each message are ready for delivery
    published,  \* tasks a publisher has put on the queue
    answered,   \* tasks with a message on the results queue
    dlq,        \* messages on the dead-letter queue
    dropped,    \* tasks that were on a queue when it was deleted
    pc,         \* where each consumer is in start_consumer / on_message
    held,       \* the delivery each consumer works on
    link,       \* each consumer's channel: up, cancelled with its queue, down
    runs,       \* how often the handler was started for each task (history)
    faults      \* faults so far (bounded by MaxFaults)

broker == <<topology, queue, published, answered, dlq, dropped>>
vars == <<broker, pc, held, link, runs, faults>>

Init ==
    /\ topology \in OldTopologies
    /\ queue = [m \in Copy |-> 0]
    /\ published = {} /\ answered = {} /\ dlq = {} /\ dropped = {}
    /\ pc = [c \in Consumer |-> "offline"]
    /\ held = [c \in Consumer |-> None]
    /\ link = [c \in Consumer |-> "down"]
    /\ runs = [t \in Task |-> 0]
    /\ faults = 0

Goto(c, label) == pc' = [pc EXCEPT ![c] = label]
LetGo(c) == held' = [held EXCEPT ![c] = None]
Fault == faults < MaxFaults /\ faults' = faults + 1

\* The broker still has to hear about this delivery.
Unacked(c) == held[c] # None /\ link[c] = "up"

\* Deliberate defects: each replaces the definition it is named after, in a run
\* that must then fail.  Delivered messages stay ready, or need not be there; the
\* broker forgets deliveries (automatic acks); the attempt is not counted, or one
\* is counted too many; the last nack is an ack.
TakeKeeps(m) == queue[m] > 0 /\ UNCHANGED queue
TakeUnguarded(m) == queue' = [queue EXCEPT ![m] = @ - 1]
ReturnNothing(c) == UNCHANGED queue
NextAttemptSame(m) == m
LastAttemptEarly(c) == held[c].attempt >= MaxAttempts - 1
ParkNothing(c) == UNCHANGED dlq

Put(m) == queue' = [queue EXCEPT ![m] = @ + 1]
Take(m) == queue[m] > 0 /\ queue' = [queue EXCEPT ![m] = @ - 1]

\* What was delivered and not acked goes back to the queue with its channel.
Return(c) == IF Unacked(c) THEN Put(held[c]) ELSE UNCHANGED queue

\* basic_nack(requeue=False) dead-letters what the broker still tracks.
Park(c) == dlq' = IF Unacked(c) THEN dlq \cup {held[c]} ELSE dlq

LastAttempt(c) == held[c].attempt >= MaxAttempts
NextAttempt(m) == [m EXCEPT !.attempt = @ + 1]

----------------------------------------------------------------------------

\* publish_task: a mandatory, confirmed publish.  It raises when the queue does
\* not exist, as the publisher never declares it.
PublishTask(t) ==
    /\ t \notin published
    /\ topology # "absent"
    /\ published' = published \cup {t}
    /\ Put([task |-> t, attempt |-> 1])
    /\ UNCHANGED <<topology, answered, dlq, dropped, pc, held, link, runs, faults>>

\* start_consumer connects, declares the queue and subscribes; again after a
\* delete.  A queue with other arguments answers PRECONDITION_FAILED.
Declare(c) ==
    /\ pc[c] \in {"offline", "deleted"}
    /\ topology # "legacy"
    /\ topology' = "current"
    /\ Goto(c, "idle")
    /\ link' = [link EXCEPT ![c] = "up"]
    /\ UNCHANGED <<queue, published, answered, dlq, dropped, held, runs, faults>>

DeclareRefused(c) ==
    /\ pc[c] = "offline"
    /\ topology = "legacy"
    /\ Goto(c, "incompatible")
    /\ UNCHANGED <<broker, held, link, runs, faults>>

\* queue_delete takes whatever queue has the name by now: its messages go, the
\* deliveries in progress too, and its other consumers are cancelled.
DeleteQueue(c) ==
    /\ pc[c] = "incompatible"
    /\ topology' = "absent"
    /\ dropped' = dropped \cup {t \in Task :
           \/ \E m \in Copy : m.task = t /\ queue[m] > 0
           \/ \E d \in Consumer : Unacked(d) /\ held[d].task = t}
    /\ queue' = [m \in Copy |-> 0]
    /\ link' = [d \in Consumer |-> IF link[d] = "up" THEN "cancelled" ELSE link[d]]
    /\ Goto(c, "deleted")
    /\ UNCHANGED <<published, answered, dlq, held, runs, faults>>

\* prefetch_count=1: one delivery at a time; on_message starts the handler.
Deliver(c) ==
    /\ pc[c] = "idle" /\ link[c] = "up"
    /\ \E m \in Copy :
        /\ Take(m)
        /\ held' = [held EXCEPT ![c] = m]
        /\ runs' = [runs EXCEPT ![m.task] = @ + 1]
    /\ Goto(c, "handling")
    /\ UNCHANGED <<topology, published, answered, dlq, dropped, link, faults>>

HandlerReturns(c) ==
    /\ pc[c] = "handling"
    /\ held[c].task \notin Poison
    /\ Goto(c, "publishing")
    /\ UNCHANGED <<broker, held, link, runs, faults>>

HandlerRaises(c) ==
    /\ pc[c] = "handling"
    /\ Goto(c, "excepted")
    /\ UNCHANGED <<broker, held, link, runs, faults>>

\* publish_result opens a connection of its own, so it does not depend on link.
PublishResult(c) ==
    /\ pc[c] = "publishing"
    /\ answered' = answered \cup {held[c].task}
    /\ Goto(c, "acking")
    /\ UNCHANGED <<topology, queue, published, dlq, dropped, held, link, runs, faults>>

\* It may raise before the broker has the result, or after (a lost confirm, a
\* failing close): the code takes both for a handler failure.
PublishResultRaises(c) ==
    /\ pc[c] = "publishing"
    /\ answered' \in {answered, answered \cup {held[c].task}}
    /\ Goto(c, "excepted")
    /\ UNCHANGED <<topology, queue, published, dlq, dropped, held, link, runs, faults>>

\* basic_ack, at the end of the try or after a republish.
Ack(c) ==
    /\ pc[c] \in {"acking", "requeued"}
    /\ link[c] # "down"
    /\ LetGo(c)
    /\ Goto(c, "idle")
    /\ UNCHANGED <<broker, link, runs, faults>>

DeadLetter(c) ==
    /\ Park(c)
    /\ LetGo(c)
    /\ Goto(c, "idle")
    /\ UNCHANGED <<topology, queue, published, answered, dropped, link, runs>>

GiveUp(c) ==
    /\ pc[c] = "excepted" /\ link[c] # "down"
    /\ LastAttempt(c)
    /\ DeadLetter(c)
    /\ UNCHANGED faults

\* The next attempt goes on the queue first, the old one is acked after.  The
\* publish is neither mandatory nor confirmed: without a queue it goes nowhere.
Republish(c) ==
    /\ pc[c] = "excepted" /\ link[c] # "down"
    /\ ~LastAttempt(c)
    /\ IF topology = "absent" THEN UNCHANGED queue
                              ELSE Put(NextAttempt(held[c]))
    /\ Goto(c, "requeued")
    /\ UNCHANGED <<topology, published, answered, dlq, dropped, held, link, runs, faults>>

RepublishRaises(c) ==
    /\ pc[c] = "excepted" /\ link[c] # "down"
    /\ ~LastAttempt(c)
    /\ Fault
    /\ DeadLetter(c)

\* On a dead connection every ack, nack and publish of on_message raises, out of
\* the except branch too; a cancelled or dead channel ends start_consuming.
Disconnect(c) ==
    /\ \/ pc[c] \in {"acking", "excepted", "requeued"} /\ link[c] = "down"
       \/ pc[c] = "idle" /\ link[c] # "up"
    /\ Goto(c, "offline")
    /\ LetGo(c)
    /\ link' = [link EXCEPT ![c] = "down"]
    /\ UNCHANGED <<broker, runs, faults>>

\* The broker drops the connection (a missed heartbeat, a restart); the callback
\* goes on, not knowing.
LoseLink(c) ==
    /\ link[c] # "down"
    /\ Fault
    /\ Return(c)
    /\ link' = [link EXCEPT ![c] = "down"]
    /\ UNCHANGED <<topology, published, answered, dlq, dropped, pc, held, runs>>

\* The agent process dies and is started again.
Crash(c) ==
    /\ pc[c] # "offline"
    /\ Fault
    /\ Return(c)
    /\ Goto(c, "offline")
    /\ LetGo(c)
    /\ link' = [link EXCEPT ![c] = "down"]
    /\ UNCHANGED <<topology, published, answered, dlq, dropped, runs>>

\* What the consumer thread does by itself, faults aside.
Work(c) ==
    \/ Declare(c) \/ DeclareRefused(c) \/ DeleteQueue(c) \/ Deliver(c)
    \/ HandlerReturns(c) \/ HandlerRaises(c)
    \/ PublishResult(c) \/ PublishResultRaises(c) \/ Ack(c)
    \/ GiveUp(c) \/ Republish(c) \/ Disconnect(c)

Break(c) == RepublishRaises(c) \/ LoseLink(c) \/ Crash(c)

Next ==
    \/ \E t \in Task : PublishTask(t)
    \/ \E c \in Consumer : Work(c) \/ Break(c)

\* The consumer thread keeps running and a handler ends, one way or the other.
Fairness == \A c \in Consumer : WF_vars(Work(c))

Spec == Init /\ [][Next]_vars
FairSpec == Spec /\ Fairness

----------------------------------------------------------------------------

Label == {"offline", "incompatible", "deleted", "idle", "handling",
          "publishing", "acking", "excepted", "requeued"}

\* The values the variables take.
TypeOK ==
    /\ topology \in {"absent", "legacy", "current"}
    /\ queue \in [Copy -> Nat]
    /\ published \subseteq Task
    /\ answered \subseteq Task
    /\ dlq \subseteq Copy
    /\ dropped \subseteq Task
    /\ pc \in [Consumer -> Label]
    /\ held \in [Consumer -> Copy \cup {None}]
    /\ link \in [Consumer -> {"up", "cancelled", "down"}]
    /\ runs \in [Task -> Nat]
    /\ faults \in 0 .. MaxFaults

InQueue(t) == \E m \in Copy : m.task = t /\ queue[m] > 0

\* A delivery the broker would return; after a republish it is the old attempt,
\* about to be acked.
InHand(t) == \E c \in Consumer : Unacked(c) /\ held[c].task = t /\ pc[c] # "requeued"

DeadLettered(t) == \E m \in dlq : m.task = t

Settled(t) == t \in answered \/ DeadLettered(t) \/ t \in dropped

\* No failure of a handler, a result publish, a republish, a connection or a
\* process loses a task: until there is an answer, or the task is parked on the
\* dead-letter queue, some copy is on the queue or due back to it.  (The order
\* "republish, then ack" of on_message.)
NoTaskLost == \A t \in published : Settled(t) \/ InQueue(t) \/ InHand(t)

\* A message's attempt number never runs ahead of the work done: a dead-lettered
\* message had its handler run as often as its attempt says and, while nothing
\* but handlers and result publishes failed, that is MaxAttempts times.  (The
\* number is in the body; redelivery after a lost connection keeps it.)
AttemptsHonest ==
    /\ \A m \in Copy : queue[m] > 0 => runs[m.task] >= m.attempt - 1
    /\ \A m \in dlq : /\ runs[m.task] >= m.attempt
                      /\ faults = 0 => m.attempt = MaxAttempts

\* Retrying is bounded: a fault between a republish and its ack leaves two live
\* attempts of one task, so every fault may cost MaxAttempts more runs, no more.
WorkBounded == \A t \in Task : runs[t] <= MaxAttempts * (1 + faults)

\* Without a fault two processes never serve the same task at the same time.
NoConcurrentRuns ==
    faults = 0 =>
        \A c, d \in Consumer :
            /\ {pc[c], pc[d]} \subseteq {"handling", "publishing", "acking", "excepted"}
            /\ held[c].task = held[d].task
            => c = d

\* A task on the queue is eventually answered, dead-lettered or dropped with its
\* queue, whatever fails in between.
EventuallySettled == \A t \in Task : t \in published ~> Settled(t)

\* "nack without requeue after max attempts so messages land in *.dlq": a task
\* whose handler always raises ends there, and does not circulate forever.
PoisonParked ==
    \A t \in Poison : t \in published ~> DeadLettered(t) \/ t \in dropped

\* declare_queue_with_dlq: "Recreate on PRECONDITION_FAILED".  Only a queue with
\* incompatible arguments is deleted, never one an agent already recreated.
CurrentQueueKept == [][topology = "current" => topology' = "current"]_vars

----------------------------------------------------------------------------
(* What NoTaskLost, AttemptsHonest, WorkBounded and NoConcurrentRuns rest on. *)

Busy == {"handling", "publishing", "acking", "excepted", "requeued"}

\* Only on_message has a delivery in hand, and it acks only what it answered.
HeldWhileBusy ==
    \A c \in Consumer :
        /\ pc[c] \in Busy <=> held[c] # None
        /\ pc[c] = "acking" => held[c].task \in answered

\* A live subscription is one to a queue this code declared.
SubscribedToCurrent == \A c \in Consumer : link[c] = "up" => topology = "current"

\* Everything the broker and the consumers know stems from a publish.
NothingInvented ==
    /\ answered \cup dropped \subseteq published
    /\ \A m \in Copy : queue[m] > 0 \/ m \in dlq => m.task \in published
    /\ \A c \in Consumer : held[c] # None => held[c].task \in published

\* The handler was started for the attempt in hand.
HeldRan == \A c \in Consumer : held[c] # None => runs[held[c].task] >= held[c].attempt

\* Without a fault there is one copy of a task, on the queue or being handled.
Handling(c) == pc[c] \in Busy \ {"requeued"}
OneCopy ==
    faults = 0 =>
        /\ \A m \in Copy : queue[m] <= 1
        /\ \A m, n \in Copy : queue[m] > 0 /\ queue[n] > 0 /\ m.task = n.task => m = n
        /\ \A c \in Consumer, m \in Copy :
               Handling(c) /\ queue[m] > 0 => held[c].task # m.task
        /\ NoConcurrentRuns

\* The handler runs that the copies of a task may still cost: each copy on the queue
\* its attempt and the later ones, each delivery the later ones, unless it has lost
\* its connection.  They are told apart by copy, or consumer, and attempt.
Ahead(t) ==
    LET waiting == {m \in Copy : m.task = t}
        serving == {c \in Consumer : Handling(c) /\ link[c] # "down" /\ held[c].task = t}
    IN  (UNION {({m} \X (1 .. queue[m])) \X (m.attempt .. MaxAttempts) : m \in waiting})
        \cup (UNION {({c} \X {0}) \X (held[c].attempt + 1 .. MaxAttempts) : c \in serving})

WorkLeft ==
    \A t \in Task :
        /\ IsFiniteSet(Ahead(t))
        /\ t \notin published => runs[t] = 0
        /\ t \in published => runs[t] + Cardinality(Ahead(t)) <= MaxAttempts * (1 + faults)

ConsumerInv ==
    /\ TypeOK
    /\ HeldWhileBusy
    /\ SubscribedToCurrent
    /\ NothingInvented
    /\ HeldRan
    /\ NoTaskLost
    /\ AttemptsHonest
    /\ OneCopy
    /\ WorkLeft

----------------------------------------------------------------------------
\* The abstract promise, with what the broker owes as the refinement mapping.
Owed == {t \in published : InQueue(t) \/ InHand(t)}
SettledTasks == {t \in Task : Settled(t)}

Promise == INSTANCE AtLeastOnce
    WITH submitted <- published, owed <- Owed, settled <- SettledTasks

\* Every behaviour of the consumers keeps the queue's promise.
KeepsPromise == Promise!Spec
====
