# Formal models of AgenticFlow

AgenticFlow answers customer queries with specialist agents that are reached
only through RabbitMQ. This directory holds TLA+ modules translated from the
code, TLC configurations that check them on small instances, and TLAPS proofs.

## The system

| Part | State it keeps | Operations | Talks to |
|---|---|---|---|
| Task queue consumer (`agents/common/messaging.py`), one in each agent process | a channel, the delivery in hand; the attempt number travels in the message | declare (delete and recreate a queue with old arguments), handle, publish the result, ack, republish with attempt + 1, nack to the dead-letter queue, reconnect | RabbitMQ; the agent's `handle_task` as a callback |
| Result delivery (`core/rabbitmq_client.py`, `core/redis_client.py`) | `_result_waiters` (conversation -> Event, dict) under `_waiters_lock`; Redis `result:`, `processed:`, `trace:` keys; `result_consumer_alive` | register / reset / unregister a waiter, `wait_for_result`, `consume_results_loop` with `notify_result_waiter` | request threads and one daemon thread share the registry |
| Pipeline (`core/orchestration.py`, called by `QueryView` and `ConversationReprocessView`) | the `ConversationLog` row, each request's copy of it, `agent_results`, counters | reset the row, ask the specialist, perhaps inventory, perhaps escalation, save, count | Postgres, result delivery |
| Rules (`agents/refund_agent/eligibility.py`, `core/escalation.py`, `_maybe_fanout_inventory`) | none; they read tables that change | eligibility and confidence, need for the inventory agent, escalation | two processes apply them in turn |
| Start-up and health (`core/apps.py`, `HealthView`) | `_consumer_started`, the flag and its copy in `views.py` | start the results consumer in the right process, report | Django's autoreloader |
| Agents (order, inventory, refund, escalation) | none of their own | answer one task: pick the item, judge the order, resolve the conflict by chat, single call or fixed text | Postgres, LLM |
| Auth and rate limit (`core/auth.py`) | a Redis counter with an expiry for each minute | check the key, INCR, EXPIRE, compare, refuse with a wait | Redis; the REST framework calls it before every view |
| Metrics (`core/metrics.py`) | counters and a capped list of latencies, under one lock | incr, Timer, snapshot | request threads |
| Request ids, serializers, admin, dashboard | none | see "Not modelled" | |

What is hard in it: threads that share a dict outside its lock; results matched
by conversation and agent name only, while tasks are retried, duplicated, late;
crashes between two steps that belong together (publish and ack, trace and
processed); requests that each save their own copy of one row; a queue being
recreated while others use it; a key that may expire between two calls; three copies
of one rule in two processes. `PROJECT.json` lists each hazard at its line with
the properties aimed at it.

## The modules

| Module | Models |
|---|---|
| `AtLeastOnce` | what a queue of tasks promises: a submitted task is owed until it is settled |
| `AgentConsumer` | `start_consumer`, `on_message`, `declare_queue_with_dlq`, `publish_result` on one task queue, with RabbitMQ as they use it |
| `AgentConsumerProofs` | theorems about it |
| `ResultWaiter` | `wait_for_result`, the registry, `consume_results_loop` and Redis, driven as the pipeline drives them; each access to shared state is a step; implements `Exchange` |
| `Exchange` | what the runs are promised of asking agents: questions, replies, and who hears which |
| `ResultWaiterProofs` | theorems about `ResultWaiter`, the refinement of `Exchange` among them |
| `RefundRules` | intent, eligibility, fan-out and escalation as operators |
| `Handlers` | the inventory agent's choice of an item, the escalation agent's three ways to a text, as operators; extends `RefundRules` |
| `Conversation` | what readers of a conversation are promised |
| `Pipeline` | `run_conversation_pipeline` and its two views: row, log objects, counters, database errors; extends `Handlers`, implements `Conversation` |
| `PipelineProofs` | theorems about it, the refinement of `Conversation` among them |
| `Startup` | `CoreConfig.ready`, the reconnecting loop and the health flag |
| `StartupProofs` | theorems about it |
| `Metrics` | what `observe_latency` keeps and `snapshot` makes of it, as operators |
| `Api` | a request through authentication, rate limit and Timer, with Redis and the clock; extends `Metrics` |
| `ApiProofs` | theorems about it |
| `ResultWaiterMC`, `ApiMC` | settings and symmetry for TLC |

How they meet: `Pipeline` sees an answered, timed out, failed or for ever blocked
`wait_for_result` in one step; `ResultWaiter` opens that step up (including the empty
dict and the other agent's result it can return, which `Pipeline` takes as answers too)
and sees an agent as something that puts one or more results on the queue for a task,
which is what `AgentConsumer` shows of it (`answered`, with retries). `NextLeg` of
`ResultWaiter` leaves open whether a further agent is asked; `RefundRules` decides it,
always in the order refund, inventory, escalation. After the specialist nobody is asked
unless its own result was heard (another name, or none, and neither rule applies); after
the inventory agent the escalation agent may be asked whatever was read.

Definitions introduced as "deliberate defects" are not part of the model. Each
has the form a plausible bug would give the definition it is named after; with
it in that place the property named in `PROJECT.json` is violated, which shows
that the property depends on the code.

### AgentConsumer

One module is one task queue. `pc[c]` is where consumer `c` is in `start_consumer`
or `on_message`, `held[c]` its delivery, `link[c]` its channel as the broker sees
it: when the connection is lost the broker takes the delivery back at once while
the callback goes on, until an ack, nack or publish on the dead channel raises.
`queue` counts the copies of each (task, attempt) ready for delivery, so a
duplicate is visible. Handlers return or raise as they like; those of `Poison`
tasks always raise. `publish_result` uses its own connection and may raise with
the result published. Without a queue (`topology = "absent"`) the mandatory task
publish fails and the plain republish goes nowhere. `OldTopologies` says what an agent
may find at the start: no queue, one declared by an older version, or either.
`dropped` remembers the tasks lost with a deleted queue; that loss is the documented
price of recreating it.

Redelivery order is not modelled (any ready copy may come next), which allows
more than RabbitMQ does. Handlers end (weak fairness of a consumer's own steps):
the LLM calls have timeouts or fail; nothing is assumed of faults.

### ResultWaiter

A ticket `<<run, leg>>` is a task; it stands for its correlation id, for the
(Event, dict) pair registered for it and for its result message. The lock is a
variable; register, unregister and the lookup are one step each because they hold
it throughout, `notify_result_waiter` is three (clear, update, set) because the
waiter reads the dict without it. `event.wait` either sees the event or ends its
slice. `LoseConsumer` and `Restart` give the unacked result back to the queue;
`Restart` also loses the registry and kills the requests. `Connect` declares the results
queue; if an older version left one with other arguments (`old`), `DeclareQueue` deletes
it with the results that wait in it, which `dropped` remembers, and makes it anew. A
`queue_delete` that fails makes the second declaration fail: the thread is where it was.
`ExpireResult` and `ExpireProcessed` are the 600 s of two kinds of Redis keys; trace keys
have no expiry. The module has one orchestrator process, hence one registry.

What may happen in an execution is the variable `setting`, one of `Settings`, chosen
at the start and never changed: which runs share a conversation, how many agents are
asked, how many copies of a result, faults and timeouts there are, whether Redis calls may
fail (they are only logged), which of its keys may expire, whether the results queue is an
old one, whether a reprocess may start while an earlier run of its conversation lives (the
API does not forbid it). One run of TLC so covers several situations.

`Exchange` is what a run sees of all this: it asks an agent (`Begin`, `AskNext`), its
wait ends with some answer (`Hear`), it is over (`End`). Agents reply when they like, to
any question that was asked. What may be heard is the promise: a reply that was given,
to a question of the same conversation, and for a *promised* run (alone in its conversation,
with Redis up and no processed key expiring) the reply to the very question it asked. The
mapping (`StageAt`) forgets the registry, events, dicts, the lock, the consumer, the queue and
Redis; what is asked of Redis before a run has an answer is one stage, `asking`. An empty dict
is heard as `None`. From its first agent a run goes on only with that agent's own reply, from
a later one with whatever it heard (`AskNext`). What `Hear` allows is what `Pipeline` takes a
wait to end with: an answer of the agent asked, the empty one, or another agent's.

### Pipeline

`run[r]` is a request with its own `log` object; `row` is what Postgres has. A full
`log.save()` writes the object, `save(update_fields=...)` only its fields. A
statement may be refused, or lose the connection before or after it took effect;
Django does not reconnect within a request (`conn_max_age=600`), so later
statements of that request raise too. The first save is outside the `try`.
`final` and `error` carry the name of the run that wrote them so that a mixture
shows. A restart ends the requests and resets the counters. `Query` creates the row,
the other runs reprocess it; the query for the row may itself raise (`LoadRaises`).

A wait ends with an answer of the agent asked, with an empty dict, or with the result of
another agent of the conversation (`Strays`) that overwrote the matching one before it was
copied: a refund may so be resolved by a late inventory result. Of the registry `Pipeline` has
whether the conversation has an `entry`, and whether `_waiters_lock` is `jammed`: a wait that
finds no entry, because an overlapping run's `finally` popped it, holds the lock and waits for
it (`Jam`). From then on nobody gets past registering, waiting or leaving (`blocked`,
`stuck`). `reset_result_waiter` takes the lock twice; its two halves are one step here and two
in `ResultWaiter`.

`Conversation` is the view from outside: open, then closed by the one answer or the
one error of a request, until asked again. The mapping forgets which open status the
row has, what the log objects hold and the counters. While runs overlap (`concurrent`)
one may close what another has opened or reopen what it closed, and only the shape
of a closed conversation is promised.

### Handlers

Pure operators, used by `Pipeline`'s properties at the states in which an agent is
asked. A `QueryText` is what the three searches of the code find in it; a `Reply` is what
an LLM call comes to. `Chat` is AutoGen's `initiate_chat` with two turns, with
the messages PolicyResolver keeps, the received prompt among them.

### Api and Metrics

A request reads the clock, then calls INCR for that window's key, then perhaps EXPIRE,
then compares: four steps, between which time may pass (`Tick`) and keys expire. A call
may fail (the request is let through) or be repeated by the client library after a
lost reply (it counts twice). Redis is hosted and survives a restart. Time is
discrete; `Window` is the minute and `Ttl` the 70 s. Nothing bounds how long a call takes:
an INCR that reaches Redis more than `Ttl - Window` (the code's 10 s) after its request's
reading of the clock is `late`, and may find the key of its minute expired and start the
count anew. `late`, `mishap` (a call of the request was repeated, or its
EXPIRE failed) and `observed` are history.

### RefundRules and Startup

`Finding` is what the dates, the policy and the order table come to; stock is read
anew by each agent. `Considered` bounds the findings of a run; the theorems hold for any.

`Startup` has processes with their own consumer thread and module globals: servers with and
without the autoreloader, its parent and its children, other management commands. Any
number of them are launched at any time, since `ready` starts the consumer before a port
is bound, and any of them dies at any time, the autoreloader's parent included, whose child
goes on. So there may be many consumers (leftover runserver processes, as the repository's
README warns); what is claimed is per launch and per process.

## The runs

| Run | Instance | Shows |
|---|---|---|
| `Consumer` | 2 tasks (1 poison), 2 consumers, 2 attempts, 2 faults, no queue yet or one with old arguments, fair consumers | nothing is lost, attempts are honest, work is bounded, no concurrent service without faults; every task settles, poison tasks in the dead-letter queue; `KeepsPromise`: it implements `AtLeastOnce`; `ConsumerInv`, the inductive invariant of the proofs |
| `RecreateRace` (violation) | 1 task, 2 consumers | an agent that was refused deletes the queue another has recreated |
| `WaiterPair` | 2 runs: of 2 conversations with 2 agents each, a restart or lost connection, a timeout and a results queue of other arguments; or of 1 conversation, serial or overlapping, Redis failing now and then, a timeout | answers go to their own task and conversation, a run that has its conversation to itself always finds its waiter, no waiter is left behind, no result acked unhandled; `KeepsExchange`: it implements `Exchange`; `WaiterInv`, the inductive invariant of the proofs |
| `WaiterDuplicates` | 1 run: 3 agents, every result twice, 1 fault, an old results queue; or the same once each with Redis down; or 2 agents, every result twice, 1 fault, keys that expire; fair threads | the right answers arrive, with Redis down by the Event alone; one more trace entry per fault or expiry at most |
| `StaleAnswer` (violation) | a run, a timeout, a reprocess | the reprocess returns the late answer to the first run |
| `TornRead` (violation) | the same with 2 agents | the wait returns an empty dict: cleared between check and copy |
| `SelfDeadlock` (violation) | overlapping runs | the waiter was popped by the other run; the lookup takes the lock twice |
| `Pipeline` | a query and a reprocess, serial or overlapping, 1 fault (database error or restart), all intents, 2 findings, stock changes, empty reads and other agents' results, fair requests | rows are whole, failures have their message and no answer, a row left open at rest has a failure behind it that somebody met, counters balance, every request ends unless overlapping runs have jammed the lock, the three copies of the escalation rule agree, the stock looked up is that of the order, a failed chat ends in a text; `KeepsConversation`: it implements `Conversation`; `PipelineInv`, the inductive invariant of the proofs |
| `Placeholder` (violation) | 2 requests, all findings | an unmarked reply makes the prompt's own "&lt;answer&gt;" the resolution |
| `Startup` | 3 processes of any command, launched at any time, 2 outages | one consumer for each launch, one in every process that serves, and it returns; `StartupInv`, the inductive invariant of the proofs |
| `StaleHealth` (violation) | 1 process | the consumer is consuming and `/api/health/` says it is not |
| `Api` | 3 requests, limit 1, 2 windows of 2 ticks, expiry after 3, calls of any length, 2 faults, 2 samples kept, requests symmetric | at most twice the limit in any stretch of a window, late calls apart; no count goes back before ten seconds after its minute (`CountsOnlyUp`); refusals have a cause and their wait ends it; a key without an expiry has a cause; the snapshot is of the newest samples; `ApiInv`, the inductive invariant of the proofs, which begins with the types |

Two actors of each kind are enough for the races found: every property speaks of one
task, one conversation or one pair of processes. Two attempts separate the last one from
the others, and the proofs cover any number; two faults (`Consumer`, `Startup`, `Api`)
allow a fault during the recovery from another, one (`ResultWaiter`, `Pipeline`, where a
lost connection makes every later statement fail) strikes at any step; three legs are
all the agents a run can ask. The two findings of `Pipeline`, an order that needs an
approval and one outside the window, are those with confidences next to the threshold
(0.7, 0.5), one settled and one escalated; they lead through every step of a refund, and
the theorems on the rules hold for all six. In `Startup` three processes are a parent,
its child and the next child, or a second launch. In `Api` three requests are one more
than twice the limit, and a key lives into the window after its own, where a late call
can miss it. Deadlock checking is off because every instance really stops: all tasks
settled, all requests over, consumers idle, the clock at its end.

Fairness is weak fairness of threads' own steps: Python threads run, `sleep`
ends, `event.wait` has a timeout. Nothing is assumed of agents, users or faults;
in `Pipeline` the deadline alone ends a wait, and not once the lock is jammed. Nor is it
assumed that the broker comes back (the Compose file restarts the orchestrator and the agents,
not RabbitMQ): `ConsumerReturns` says that a consumer is consuming, or its process gone, or
the broker down. In `ResultWaiter` the lock gets no strong fairness; `AnswerArrives` does not
need it. `Api` has no liveness of its own.

### What the violations say

They are behaviours of the code, each against a sentence of its docs or comments
(`findings`): the recreate race, the self-deadlock, the torn read, the stale answer, the
health flag imported by value, the placeholder answer. The recreate race is also bounded
from the other side: `RecreateIsSafe` proves that it takes two agents on one queue *and*
a queue of an older version. The models also show, without a run of their own: without
any fault, a first result found in Redis before `notify_result_waiter` has run is then
put into the second agent's fresh dict, and the unlocked `store.clear()` of a wait that
finds it there may throw away the second answer, filled in between its compare and its
clear (the copy in Redis makes up for it, if Redis can be read); an INCR that comes
after its key expired counts from 1, and more than the limit is let through in its
minute; a result is traced twice when the process dies between `append_trace` and
`mark_processed`; with Redis down, a redelivered result of the previous agent overwrites
an unread answer, which is then lost; a request whose database connection is lost cannot
record its failure, and its row stays in progress; a refund whose result was overwritten
by another agent's before it was copied is resolved with that agent's answer and name;
two launches each have a consumer on the one results queue; a reply with the marker and
nothing after it resolves a conversation with an empty text, and the chat's second loop,
for the newest text, is never reached; a query with something in quotes, or with two
apostrophes, has the inventory agent look that up instead of the item of the order.

## The proofs

Every safety property of a passing run, the action property and the three refinements
among them, is a theorem, for all values of the constants: any number of tasks,
consumers, requests, conversations, attempts, faults, agents asked, samples kept, and any
length of the minute. Each component has one inductive invariant, which TLC checks in the
component's run; the theorem that it always holds comes from one lemma per part and step,
and every other theorem follows from it.

Assumed are only the constants' named assumptions, which TLC evaluates too: `None` and
`"consumer"` are apart from the names they must not be confused with
(`NoneAssumption`, `NamesApart`, `NoneApart`), and bounds are natural
numbers (`ConsumerAssumption`, `WaiterAssumption`, `PipelineAssumption`,
`StartupAssumption`, `ApiAssumption`); `ConsideredAssumption` says that what is considered are
findings. `ApiAssumption` says two things more: the requests are finitely many (as in any
execution so far), and a key expires no sooner than its window, `Window <= Ttl`: the 60 s and
the 70 s.

### Consumer (`AgentConsumerProofs`)

- `Invariance`: `Spec => []ConsumerInv`, from which `Typing` (`TypeOK`), `TasksKept`
  (`NoTaskLost`), `AttemptsCount` (`AttemptsHonest`), `WorkIsBounded` (`WorkBounded`) and
  `OneAtATime` (`NoConcurrentRuns`) follow;
- `Implements`: `Spec => KeepsPromise`, the refinement of `AtLeastOnce` under
  submitted = published, owed = in a queue or due back to it, settled = answered,
  dead-lettered or dropped;
- `RecreateIsSafe`: with one agent on the queue, or with no queue of an older version
  there at the start, `Spec => CurrentQueueKept`, the property `RecreateRace` violates.
  Its inductive invariant (`DeletesLegacy`): whoever is about to delete the queue is alone
  and has no current queue before it; and where there was no old queue, nobody comes to that.

`NoTaskLost` is not inductive by itself: to ack a delivery safely one must know that
it was answered or that its next attempt is already on the queue. `ConsumerInv` adds
that a consumer has a delivery exactly while it is busy and acks after a try only
what is answered (`HeldWhileBusy`), that a live channel means a current queue
(`SubscribedToCurrent`: so a delete leaves no live delivery and a republish by a
live consumer reaches a queue), that messages stem from publishes
(`NothingInvented`) and that the attempt in hand was run (`HeldRan`). A republish
followed by an ack is the delicate pair: `InHand` stops counting the old copy once
the new one is out. `NoConcurrentRuns` needs `OneCopy`: without faults a task has at
most one copy, and none while it is served. `WorkBounded` needs a potential,
`WorkLeft`: the runs so far and those the copies and deliveries of the task may still
cost (`Ahead`) stay within `MaxAttempts` times the faults and one. A fault (a lost
connection after the republish, say) duplicates at most one copy, and so allows one
more round of attempts; every other step moves an attempt from `Ahead` to the runs.

### Result delivery (`ResultWaiterProofs`)

`WaiterInvariance` proves `WaiterInv`; from it `WaiterTyping` (`TypeOK`), `NoCrossTalk`
(`ConversationsApart`), `NoLeak` (`NoLeakedWaiter`), `NothingUnhandled`
(`ProcessedWasHandled`), `SerialNeverStuck` (`SerialNoSelfDeadlock`), `TracedOnce`
(`TraceBounded`, with Redis up), `LoneAnswered` (`LoneAnswersOwnTask`, with Redis up and
no processed key expired) and `WaitsKeepExchange` (`KeepsExchange`). A result is lost only
with a results queue of other arguments that `Connect` deletes: `ProcessedWasHandled` names
that exception (`dropped`). The parts added:

- `LockHonest`: the lock is the consumer's exactly while it writes a dict whose
  conversation has an entry, and a run's exactly when that run waits for itself;
- `EntriesApart`: entries, pairs and the contents of dicts keep to their conversation;
- `EntryKept`: a run that overlaps no other of its conversation finds the entry it
  registered, from `register_result_waiter` to its cleanup;
- `InHand`: the consumer has a message from delivery to ack, and only published tasks
  have results;
- `HandledOnce`: with Redis up, a processed message is not handled again, and is
  traced at most once more per fault and per expiry of its key;
- `ReadsTaken`, `LegsInOrder`: with Redis up and no processed key expired, what a going run can read from a dict or
  from Redis has been processed or is in hand; so a run alone in its conversation has
  its agents' results processed in order, and a dict it has matched is not cleared
  before it is copied;
- `FromAgents`: a message in the queue, in hand, in a dict or in Redis was sent by an agent.

`WaitsKeepExchange` takes a step of a run apart by what it does to the run's stage and answer
(`StageMoves`): `StartRun` is `Begin`; `CopyStore` and a `Poll` that finds something are
`Hear`; `NextLeg` is `AskNext`; a timeout, a failed publish and the end of a run are `End`,
and so is a restart, for all the runs it kills. An agent's message is `Reply`; every step of
the consumer thread stutters. The heart is `HeardWasSent`: a copied dict or polled result
was sent for this conversation, by `FromAgents`, `EntriesApart` and `ConversationsApart`; that
a promised run hears its own question answered is `LegsInOrder` after the step.

The condition "with Redis up" (`setting.redis = {TRUE}`) on the last two theorems is
needed. Nothing is marked processed while Redis is down, so a duplicate of the
earlier agent's result is handled again: it clears the dict and refills it between the
match and the copy of `wait_for_result`, and the run gets an answer to another task
although it is alone. TLC finds that trace when the condition is dropped. An expired
processed key does the same, hence the premise `Remembered` of `LoneAnswersOwnTask`: the key
is set for 600 s, a wait ends after 90 s, but a copy of its result may wait for a lost
consumer for longer. In `WaiterDuplicates`, the run that checks them, the setting with Redis
down has no duplicates and no faults; there the answers come in order by themselves.

### Pipeline (`PipelineProofs`)

`PipelineInvariance` proves `PipelineInv`; from it `PipelineTyping` (`TypeOK`),
`ResolvedIsWhole` (`ResolvedRowWhole`), `FailedIsClean` (`FailedRowClean`),
`LeftOpenHasCause` (`LeftOpenForCause`), `EveryQueryCounted` (`CountersBalance`) and the
theorems on the rules: `DecisionsAgreement` (`DecisionsAgree`), `IneligibleEscalated`
(`OnlyEligibleUnescalated`), `ReviewAgreement` (`ReviewAgrees`), `FallbackAlwaysAnswers`
(`FallbackAnswers`), `StockIsOfOrder` (`StockOfOrder`). `PipelineKeepsConversation`
proves the refinement `Spec => KeepsConversation`, step by step: a save that closes
the row is one `Answer` or `Fail`, a save that opens it one `Ask`, all others stutter,
unless runs overlap (`Overtake`). The parts:

- `RowThere`: no run begins before the query has created the row;
- `ResultsFit`: which results a run holds at which step, with the fields the agents
  derive from one another (so the rules are compared on results that can occur,
  stock that changed in between, empty reads and other agents' results included);
- `RowHonest`: a closed row names the run that closed it, and a resolved one shows
  what that run was answered; without it a `row` could not be related to a `run`
  once its request is over;
- `SerialRow`: runs that do not overlap have the row to themselves, and it stays as
  it was started over until they close it;
- `Registered`: without overlap the lock is never jammed, and whoever asks has its entry;
- `Owed`: an open row has a run that owes it an end, or, after a fault, one that could not
  give it: dead with its process, or answered 500 to its caller. So a row left pending, in
  progress or escalated is never left in silence, though nothing looks for it later;
- `Balance`: the runs that are counted are finitely many, and the counters balance.

### Requests (`ApiProofs`)

`Invariance` proves `ApiInv`; from it `LeaksAreCaused` (`LeaksHaveCause`),
`RefusalsHaveCause` (`RefusedForCause`), `AtMostTwiceTheLimit` (`TwiceTheLimit`),
`CountsKept` (`CountsOnlyUp`) and `SnapshotsHonest` (`SnapshotHonest`).

- `StepsHonest`: what a request's step says of its fields;
- `KeysOutlive`: a key does not expire before its minute is `Closed`, that is until `Ttl` after
  the minute began, and up to then its count is at least that of every request it counted. An
  INCR that is not late comes before that, so no two of these in a minute get the same count;
  of late ones nothing is said. That is where the margin of 70 s over 60 s is used;
- `HitsOwed`: a key counts the requests of its minute and the repeated calls, no more;
- `LeaksHaveCause` is a part of its own;
- `NewestKept`: the samples kept are the newest of `observed`, as many as fit.

Different counts, none above the limit, make at most `Limit` requests, late ones apart, let
through in a minute (an injection into `1 .. Limit`); a stretch of the length of a minute meets at
most two minutes, hence twice the limit. A refused request has a count above the limit,
which `HitsOwed` charges to others of its minute or to faults.

`snapshot` sorts the samples. What sorting does to a list of any length is induction over
data, so `Metrics` says what the value at a place of the sorted list is without sorting:
the one that fewer samples are below, and enough are not above (`Ranked`). That this is the value
`SortSeq` puts there is an assumption of `ApiMC`, evaluated by TLC on all short lists. That there
always is one is lemma `Least`: of the values with enough samples not above them, the least.

### Start-up (`StartupProofs`)

For every set of processes, started and ended in any order, and any number of outages,
`StartupTyping` (`TypeOK`), `SingleConsumerEach` (`OneConsumerEach`) and `ServedWithConsumer`
(`ServesWithConsumer`) follow from `StartupInvariance` (`StartupInv`). The invariant behind
them: a consumer thread lives in every process that is up but an autoreloader's parent
(`ConsumerHome`), which is every process that serves, as `ready`'s test of RUN_MAIN and the
autoreloader's division of work are the same condition; a parent has one running child at a
time and no parent of its own (`OneChild`), so that a launch has one consumer even if the parent
is killed; and only serving processes import `views.py` (`ImportedServing`).

### Only checked

- All liveness (`EventuallySettled`, `PoisonParked`, `AnswerArrives`, `EveryRunAnswers`,
  `ConsumerReturns`): fairness and ENABLED are beyond the prover.
- That `Ranked` is what sorting gives: on short lists, in `ApiMC`.
- What the violations show: behaviours, not theorems.

## Not modelled

Wording of answers, and LLM calls beyond what they come to; bodies that are not JSON;
a second orchestrator process that takes results its own registry has no waiter for
(`Startup` allows it, `ResultWaiter` has one process; `store_result` is the code's answer to
it); a crash of the consumer between the delete and the new declaration of the results queue;
lengths of texts (a client's X-Request-ID that the column does not hold
fails as any refused statement does); the keyword matching itself (a list has a word
in the query or not); request ids, serializers, admin, dashboard, migrations and
deployment (no state of their own, or configuration).

## What is left

1. `Pipeline` takes the end of a wait as one step. `Exchange` states what that step may
   bring, but the two are not composed in one module: an instance of both is beyond TLC
   with more than one run.
2. Two orchestrator processes on one results queue, the second one's registry without the
   waiter, with only Redis between them.
3. Action properties that follow from the refinements but are not stated by
   themselves: a settled task stays settled, a closed row changes only by a reset
   while runs do not overlap.
4. The hazards without a property, each with its reason in `PROJECT.json`.
