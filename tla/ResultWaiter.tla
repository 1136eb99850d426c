---- MODULE ResultWaiter ----
(***************************************************************************)
(* How a result message reaches the API request that waits for it:         *)
(* rabbitmq_client.py's waiter registry, wait_for_result and               *)
(* consume_results_loop with redis_client.py, driven the way               *)
(* orchestration.py drives them (register, publish, wait; for each further *)
(* agent reset, publish, wait; unregister at the end).  Request threads,   *)
(* the consumer thread, Redis and the agents interleave at every access to *)
(* shared state.                                                           *)
(***************************************************************************)
EXTENDS Naturals, Sequences

CONSTANTS
    Run,            \* pipeline runs: the query, and each reprocess
    Conv,           \* conversations
    MaxLegs,        \* agents one run may ask, one after the other
    MaxCopies,      \* result messages the agents may publish for one task
    Settings,       \* the circumstances a behaviour may run under
    None            \* no entry, no message, an empty dict

\* The conversation of each run; bounds on the agents asked, on the copies of a
\* result, on restarts and lost consumer connections, and on the waits that reach
\* their deadline; Redis working ({TRUE}), down ({FALSE}) or flaky; may a reprocess
\* start before the runs of its conversation have ended; which Redis keys may run out
\* of their 600 s; has an earlier deployment left a results queue with other arguments.
ASSUME WaiterAssumption ==
    /\ MaxLegs \in Nat \ {0} /\ MaxCopies \in Nat
    /\ Settings \subseteq [convOf : [Run -> Conv], legs : 1 .. MaxLegs,
                           copies : 0 .. MaxCopies, faults : Nat, timeouts : Nat,
                           redis : (SUBSET BOOLEAN) \ {{}}, overlap : BOOLEAN,
                           expire : SUBSET {"result", "processed"}, old : BOOLEAN]

\* A ticket names a task by its run and leg.  It stands for the correlation_id,
\* for the (Event, dict) pair registered for it, and for its result message.  The
\* agents of a run are asked in a fixed order, so the leg gives the agent_name.
Ticket == Run \X (1 .. MaxLegs)
AgentOf(t) == t[2]

ASSUME NamesApart ==
    /\ None \notin Ticket \cup Run \cup {"consumer"}
    /\ "consumer" \notin Run

VARIABLES
    setting,         \* one of Settings, chosen once
    run,             \* each run: step, leg, looked-up pair, last result, outcome
    lock, registry,  \* _waiters_lock and _result_waiters
    event, dict,     \* the pairs: those whose Event is set, and their dicts
    con,             \* the consumer thread: step and message in hand
    tasks, sent,     \* tasks published, and how many results were sent for each
    results, old,    \* the results queue, and whether it has other arguments
    dropped,         \* tickets in a results queue when it was deleted (history)
    stored,          \* Redis result:{conversation_id}
    processed,       \* Redis processed:{correlation_id}:{agent}
    trace,           \* Redis trace:{conversation_id}, as entries per ticket
    expired,         \* how often each processed key has expired (history)
    handled,         \* tickets whose notify_result_waiter ended (history)
    faults, timeouts \* so far, bounded by the setting

waiters == <<lock, registry, event, dict>>
queues == <<tasks, sent, results, old, dropped>>
redis == <<stored, processed, trace, expired>>
bounds == <<setting, faults, timeouts>>
outside == <<con, handled, queues, redis, bounds>>
vars == <<run, waiters, outside>>

ConvOf == setting.convOf
ConvOfTicket(t) == ConvOf[t[1]]

Init ==
    /\ setting \in Settings
    /\ run = [r \in Run |-> [pc |-> "new", leg |-> 1, pair |-> None, got |-> None,
                             outcome |-> "none"]]
    /\ lock = None /\ registry = [c \in Conv |-> None]
    /\ event = {} /\ dict = [t \in Ticket |-> None]
    /\ con = [pc |-> "offline", msg |-> None] /\ handled = {}
    /\ tasks = {} /\ sent = [t \in Ticket |-> 0] /\ results = <<>>
    /\ old = setting.old /\ dropped = {}
    /\ stored = [c \in Conv |-> None] /\ processed = {} /\ trace = [t \in Ticket |-> 0]
    /\ expired = [t \in Ticket |-> 0]
    /\ faults = 0 /\ timeouts = 0

At(r, label) == run[r].pc = label
Goto(r, label) == run' = [run EXCEPT ![r].pc = label]
Mine(r) == <<r, run[r].leg>>
Dict(r) == dict[run[r].pair]
RedisWorks == TRUE \in setting.redis
RedisFails == FALSE \in setting.redis

\* Deliberate defects: each replaces the definition it is named after, in a run
\* that must then fail.  The agent's name is not compared; a task is published
\* without a waiter; waiters are not popped; results share
\* one Redis key; duplicates are not looked for, or by conversation; the results
\* consumer uses automatic acks.
MatchesAnyone(r, t) == t # None
AddNothing(r) == UNCHANGED registry
PopNothing(r) == UNCHANGED registry
PutResultOneKey(t) == stored' = [c \in Conv |-> t]
SeenNever(t) == FALSE
SeenByConv(t) == \E p \in processed : ConvOfTicket(p) = ConvOfTicket(t)
RequeueNothing == UNCHANGED results

\* The expected agent's result, by name.
Matches(r, t) == t # None /\ AgentOf(t) = run[r].leg
\* The rules may ask one more agent: after the first one only if the result is that
\* agent's own, after the inventory agent whatever was read.
MoreAgents(r) ==
    run[r].leg < setting.legs /\ (run[r].leg = 1 => Matches(r, run[r].got))
Add(r) == registry' = [registry EXCEPT ![ConvOf[r]] = Mine(r)]
Pop(r) == registry' = [registry EXCEPT ![ConvOf[r]] = None]
PutResult(t) == stored' = [stored EXCEPT ![ConvOfTicket(t)] = t]
Seen(t) == t \in processed
\* The broker takes back the delivery it has no ack for.
Requeue == results' = IF con.msg = None THEN results ELSE <<con.msg>> \o results

----------------------------------------------------------------------------
(* A run: views.py and orchestration.py up to the wait. *)

Ended == {"done", "dead"}
Siblings(r) == {q \in Run \ {r} : ConvOf[q] = ConvOf[r]}

\* POST /api/query/ creates the conversation; a later run of it is a reprocess,
\* which clears the Redis trace and result first.
StartRun(r) ==
    /\ At(r, "new")
    /\ setting.overlap \/ \A q \in Siblings(r) : run[q].pc \in Ended \cup {"new"}
    /\ Goto(r, IF \E q \in Siblings(r) : ~At(q, "new") THEN "clearing" ELSE "register")
    /\ UNCHANGED <<waiters, outside>>

\* clear_trace: two deletes; if the first raises the second is skipped.
ClearTrace(r) ==
    /\ At(r, "clearing")
    /\ \/ /\ RedisWorks
          /\ trace' = [t \in Ticket |-> IF ConvOfTicket(t) = ConvOf[r] THEN 0 ELSE trace[t]]
          /\ Goto(r, "clearing_result")
       \/ RedisFails /\ Goto(r, "register") /\ UNCHANGED trace
    /\ UNCHANGED <<waiters, con, handled, queues, stored, processed, expired, bounds>>

ClearResult(r) ==
    /\ At(r, "clearing_result")
    /\ \/ RedisWorks /\ stored' = [stored EXCEPT ![ConvOf[r]] = None]
       \/ RedisFails /\ UNCHANGED stored
    /\ Goto(r, "register")
    /\ UNCHANGED <<waiters, con, handled, queues, processed, trace, expired, bounds>>

\* register_result_waiter: a fresh Event and dict, replacing what was there.
Register(r) ==
    /\ At(r, "register") /\ lock = None
    /\ Add(r)
    /\ Goto(r, "publish")
    /\ UNCHANGED <<lock, event, dict, outside>>

\* publish_task returns, or raises with or without the task on its queue.
Publish(r) ==
    /\ At(r, "publish")
    /\ \/ tasks' = tasks \cup {Mine(r)} /\ Goto(r, "lookup")
       \/ /\ tasks' \in {tasks, tasks \cup {Mine(r)}}
          /\ run' = [run EXCEPT ![r].pc = "cleanup", ![r].outcome = "error"]
    /\ UNCHANGED <<waiters, con, handled, sent, results, old, dropped, redis, bounds>>

----------------------------------------------------------------------------
(* wait_for_result. *)

\* Under the lock; if the entry is gone it is registered again, by a function
\* that takes the same (non-reentrant) lock: the thread then waits for itself.
Lookup(r) ==
    /\ At(r, "lookup") /\ lock = None
    /\ IF registry[ConvOf[r]] # None
       THEN /\ run' = [run EXCEPT ![r].pc = "loop", ![r].pair = registry[ConvOf[r]]]
            /\ UNCHANGED lock
       ELSE lock' = r /\ Goto(r, "reregister")
    /\ UNCHANGED <<registry, event, dict, outside>>

\* The deadline has passed: TimeoutError.
Timeout(r) ==
    /\ At(r, "loop") /\ timeouts < setting.timeouts
    /\ timeouts' = timeouts + 1
    /\ run' = [run EXCEPT ![r].pc = "cleanup", ![r].outcome = "timeout"]
    /\ UNCHANGED <<waiters, con, handled, queues, redis, setting, faults>>

\* event.wait returns True, or False after its slice of at most a second.
EventWait(r) ==
    /\ At(r, "loop")
    /\ Goto(r, IF run[r].pair \in event THEN "woken" ELSE "slice_over")
    /\ UNCHANGED <<waiters, outside>>

EventClear(r) ==
    /\ At(r, "woken")
    /\ event' = event \ {run[r].pair}
    /\ Goto(r, "woken_if_store")
    /\ UNCHANGED <<lock, registry, dict, outside>>

\* "if store", "elif store": without the lock.
IfStore(r) ==
    /\ \/ At(r, "woken_if_store") /\ Goto(r, IF Dict(r) # None THEN "woken_match" ELSE "poll")
       \/ At(r, "slice_over") /\ Goto(r, IF Dict(r) # None THEN "slice_match" ELSE "poll")
    /\ UNCHANGED <<waiters, outside>>

\* store.get("agent_name") == agent_name, still without the lock.
MatchAgent(r) ==
    /\ \/ At(r, "woken_match") /\ Goto(r, IF Matches(r, Dict(r)) THEN "copy" ELSE "discard")
       \/ At(r, "slice_match") /\ Goto(r, IF Matches(r, Dict(r)) THEN "copy" ELSE "poll")
    /\ UNCHANGED <<waiters, outside>>

\* return dict(store): whatever the dict holds by now.
CopyStore(r) ==
    /\ At(r, "copy")
    /\ run' = [run EXCEPT ![r].pc = "returned", ![r].got = Dict(r)]
    /\ UNCHANGED <<waiters, outside>>

\* store.clear() after a result of another agent.
Discard(r) ==
    /\ At(r, "discard")
    /\ dict' = [dict EXCEPT ![run[r].pair] = None]
    /\ Goto(r, "poll")
    /\ UNCHANGED <<lock, registry, event, outside>>

\* get_stored_result: the Redis copy, if it is from the expected agent.
Poll(r) ==
    LET cached == stored[ConvOf[r]] IN
    /\ At(r, "poll")
    /\ \/ /\ RedisWorks /\ Matches(r, cached)
          /\ run' = [run EXCEPT ![r].pc = "returned", ![r].got = cached]
       \/ (RedisFails \/ ~Matches(r, cached)) /\ Goto(r, "loop")
    /\ UNCHANGED <<waiters, outside>>

----------------------------------------------------------------------------
(* After the wait: the next agent, or the end of the run. *)

\* reset_result_waiter pops the entry; Register then adds a new one.
NextLeg(r) ==
    /\ At(r, "returned") /\ MoreAgents(r) /\ lock = None
    /\ Pop(r)
    /\ run' = [run EXCEPT ![r].pc = "register", ![r].leg = @ + 1]
    /\ UNCHANGED <<lock, event, dict, outside>>

Resolve(r) ==
    /\ At(r, "returned")
    /\ run' = [run EXCEPT ![r].pc = "cleanup", ![r].outcome = "resolved"]
    /\ UNCHANGED <<waiters, outside>>

\* finally: unregister_result_waiter pops whatever entry the conversation has.
Unregister(r) ==
    /\ At(r, "cleanup") /\ lock = None
    /\ Pop(r)
    /\ Goto(r, "done")
    /\ UNCHANGED <<lock, event, dict, outside>>

----------------------------------------------------------------------------
(* The agents (see AgentConsumer): at least one result per answered task. *)

AgentAnswers(t) ==
    /\ t \in tasks /\ sent[t] < setting.copies
    /\ sent' = [sent EXCEPT ![t] = @ + 1]
    /\ results' = Append(results, t)
    /\ UNCHANGED <<run, waiters, con, handled, tasks, old, dropped, redis, bounds>>

----------------------------------------------------------------------------
(* consume_results_loop, one message at a time (prefetch_count=1).  A Redis *)
(* call that fails is logged and changes, or finds, nothing.                *)

ConGoto(from, to) == con.pc = from /\ con' = [con EXCEPT !.pc = to]

\* declare_queue_with_dlq: a results queue with other arguments is deleted, with the
\* results that wait in it, and made anew.  (If the delete fails the declaration fails
\* again, and the thread is where it was.)
DeclareQueue ==
    /\ dropped' = IF old THEN dropped \cup {results[i] : i \in DOMAIN results} ELSE dropped
    /\ results' = IF old THEN <<>> ELSE results
    /\ old' = FALSE

Connect ==
    /\ ConGoto("offline", "idle")
    /\ DeclareQueue
    /\ UNCHANGED <<run, waiters, handled, tasks, sent, redis, bounds>>

Receive ==
    /\ con.pc = "idle" /\ results # <<>>
    /\ con' = [pc |-> "check", msg |-> Head(results)]
    /\ results' = Tail(results)
    /\ UNCHANGED <<run, waiters, handled, tasks, sent, old, dropped, redis, bounds>>

\* was_processed(correlation:agent)
CheckProcessed ==
    /\ \/ ConGoto("check", "ack") /\ RedisWorks /\ Seen(con.msg)
       \/ ConGoto("check", "store") /\ (RedisFails \/ ~Seen(con.msg))
    /\ UNCHANGED <<run, waiters, handled, queues, redis, bounds>>

StoreResult ==
    /\ ConGoto("store", "trace")
    /\ \/ RedisWorks /\ PutResult(con.msg)
       \/ RedisFails /\ UNCHANGED stored
    /\ UNCHANGED <<run, waiters, handled, queues, processed, trace, expired, bounds>>

AppendTrace ==
    /\ ConGoto("trace", "notify")
    /\ \/ RedisWorks /\ trace' = [trace EXCEPT ![con.msg] = @ + 1]
       \/ RedisFails /\ UNCHANGED trace
    /\ UNCHANGED <<run, waiters, handled, queues, stored, processed, expired, bounds>>

\* notify_result_waiter takes the lock; if there is an entry it clears its dict, ...
NotifyClear ==
    /\ lock = None
    /\ \/ /\ ConGoto("notify", "mark")
          /\ registry[ConvOfTicket(con.msg)] = None
          /\ handled' = handled \cup {con.msg}
          /\ UNCHANGED <<lock, dict>>
       \/ /\ ConGoto("notify", "update")
          /\ registry[ConvOfTicket(con.msg)] # None
          /\ lock' = "consumer"
          /\ dict' = [dict EXCEPT ![registry[ConvOfTicket(con.msg)]] = None]
          /\ UNCHANGED handled
    /\ UNCHANGED <<run, registry, event, queues, redis, bounds>>

\* ... fills it, ...
NotifyUpdate ==
    /\ ConGoto("update", "set")
    /\ dict' = [dict EXCEPT ![registry[ConvOfTicket(con.msg)]] = con.msg]
    /\ UNCHANGED <<run, lock, registry, event, handled, queues, redis, bounds>>

\* ... sets the Event and releases the lock.
NotifySet ==
    /\ ConGoto("set", "mark")
    /\ event' = event \cup {registry[ConvOfTicket(con.msg)]}
    /\ lock' = None
    /\ handled' = handled \cup {con.msg}
    /\ UNCHANGED <<run, registry, dict, queues, redis, bounds>>

MarkProcessed ==
    /\ ConGoto("mark", "ack")
    /\ \/ RedisWorks /\ processed' = processed \cup {con.msg}
       \/ RedisFails /\ UNCHANGED processed
    /\ UNCHANGED <<run, waiters, handled, queues, stored, trace, expired, bounds>>

AckResult ==
    /\ con.pc = "ack"
    /\ con' = [pc |-> "idle", msg |-> None]
    /\ UNCHANGED <<run, waiters, handled, queues, redis, bounds>>

\* The connection is lost: noticed at the ack (basic_ack raises, and so does the
\* basic_nack of the except branch) or while idle; reconnect after 5 s.
LoseConsumer ==
    /\ con.pc \in {"ack", "idle"} /\ faults < setting.faults
    /\ faults' = faults + 1
    /\ Requeue
    /\ con' = [pc |-> "offline", msg |-> None]
    /\ UNCHANGED <<run, waiters, handled, tasks, sent, old, dropped, redis, setting, timeouts>>

\* The orchestrator process dies: its requests, its registry and its consumer
\* thread with it; Redis and RabbitMQ stay.
Restart ==
    /\ faults < setting.faults
    /\ faults' = faults + 1
    /\ run' = [r \in Run |-> IF run[r].pc \in {"new", "done"} THEN run[r]
                             ELSE [run[r] EXCEPT !.pc = "dead"]]
    /\ lock' = None /\ registry' = [c \in Conv |-> None]
    /\ event' = {} /\ dict' = [t \in Ticket |-> None]
    /\ Requeue
    /\ con' = [pc |-> "offline", msg |-> None]
    /\ UNCHANGED <<handled, tasks, sent, old, dropped, redis, setting, timeouts>>

----------------------------------------------------------------------------
(* result:{conversation_id} and processed:{...} are set to expire (ex=600). *)

ExpireResult(c) ==
    /\ "result" \in setting.expire /\ stored[c] # None
    /\ stored' = [stored EXCEPT ![c] = None]
    /\ UNCHANGED <<run, waiters, con, handled, queues, processed, trace, expired, bounds>>

ExpireProcessed(t) ==
    /\ "processed" \in setting.expire /\ t \in processed
    /\ processed' = processed \ {t}
    /\ expired' = [expired EXCEPT ![t] = @ + 1]
    /\ UNCHANGED <<run, waiters, con, handled, queues, stored, trace, bounds>>

----------------------------------------------------------------------------

RunStep(r) ==
    \/ ClearTrace(r) \/ ClearResult(r) \/ Register(r) \/ Publish(r) \/ Lookup(r)
    \/ EventWait(r) \/ EventClear(r) \/ IfStore(r) \/ MatchAgent(r) \/ CopyStore(r)
    \/ Discard(r) \/ Poll(r) \/ NextLeg(r) \/ Resolve(r) \/ Unregister(r)

ConsumerThread ==
    \/ Connect \/ Receive \/ CheckProcessed \/ StoreResult \/ AppendTrace
    \/ NotifyClear \/ NotifyUpdate \/ NotifySet \/ MarkProcessed \/ AckResult

Next ==
    \/ \E r \in Run : StartRun(r) \/ RunStep(r) \/ Timeout(r)
    \/ \E t \in Ticket : AgentAnswers(t) \/ ExpireProcessed(t)
    \/ \E c \in Conv : ExpireResult(c)
    \/ ConsumerThread \/ LoseConsumer \/ Restart

\* Threads keep running.  Nothing is assumed of the lock beyond that (weak
\* fairness only), nor of the agents, the users, the faults or the keys' expiry.
Fairness == WF_vars(ConsumerThread) /\ \A r \in Run : WF_vars(RunStep(r))

Spec == Init /\ [][Next]_vars
FairSpec == Spec /\ Fairness

----------------------------------------------------------------------------

Waiting == {"lookup", "loop", "woken", "woken_if_store", "woken_match", "copy",
            "discard", "slice_over", "slice_match", "poll"}
RunLabel == Waiting \cup Ended \cup
            {"new", "clearing", "clearing_result", "register", "publish",
             "reregister", "returned", "cleanup"}
ConLabel == {"offline", "idle", "check", "store", "trace", "notify", "update",
             "set", "mark", "ack"}

\* The values the variables take.
TypeOK ==
    /\ run \in [Run -> [pc : RunLabel, leg : 1 .. MaxLegs, pair : Ticket \cup {None},
                        got : Ticket \cup {None},
                        outcome : {"none", "resolved", "timeout", "error"}]]
    /\ lock \in Run \cup {None, "consumer"}
    /\ registry \in [Conv -> Ticket \cup {None}]
    /\ event \subseteq Ticket
    /\ dict \in [Ticket -> Ticket \cup {None}]
    /\ con \in [pc : ConLabel, msg : Ticket \cup {None}]
    /\ tasks \cup handled \cup processed \cup dropped \subseteq Ticket
    /\ sent \in [Ticket -> 0 .. MaxCopies]
    /\ results \in Seq(Ticket) /\ old \in {FALSE, setting.old}
    /\ stored \in [Conv -> Ticket \cup {None}]
    /\ trace \in [Ticket -> Nat] /\ expired \in [Ticket -> Nat]
    /\ setting \in Settings
    /\ faults \in 0 .. setting.faults
    /\ timeouts \in 0 .. setting.timeouts

\* A wait that ends with a result ends with the answer to its own task, not with
\* an earlier one of the same conversation.  (wait_for_result compares only the
\* agent's name.)
AnswersOwnTask == \A r \in Run : At(r, "returned") => run[r].got = Mine(r)

\* The processed keys outlive the copies of the results they stand for.
Remembered == "processed" \notin setting.expire

\* A run that shares its conversation with no other gets the answers to its own
\* tasks, whatever is duplicated, redelivered or late, and whoever else waits, as long
\* as no processed key expires before the last copy of its result has come.
LoneAnswersOwnTask ==
    Remembered =>
        \A r \in Run : Siblings(r) = {} /\ At(r, "returned") => run[r].got = Mine(r)

\* A wait for an agent never returns another agent's result, nor an empty dict.
\* (The agent is compared and the dict copied in separate, unlocked steps.)
ReturnsExpectedAgent == \A r \in Run : At(r, "returned") => Matches(r, run[r].got)

\* An answer never reaches another customer's conversation, through the registry
\* or through Redis.
ConversationsApart ==
    /\ \A r \in Run : run[r].got # None => ConvOfTicket(run[r].got) = ConvOf[r]
    /\ \A c \in Conv : stored[c] # None => ConvOfTicket(stored[c]) = c

\* No thread waits for the lock it holds.  (wait_for_result registers a missing
\* entry through register_result_waiter while it holds _waiters_lock.)
NoSelfDeadlock == \A r \in Run : At(r, "reregister") => lock # r

\* While the runs of a conversation follow one another the entry is always there,
\* whatever late answers, timeouts, restarts and Redis failures come in between, and
\* whatever the runs of other conversations do.
SerialNoSelfDeadlock ==
    \A r \in Run : At(r, "reregister") /\ (setting.overlap => Siblings(r) = {}) => lock # r

\* Every way out of a run, by result, timeout or error, leaves no waiter behind,
\* whichever run of the conversation the popped entry belonged to.
NoLeakedWaiter == \A c \in Conv : registry[c] # None => run[registry[c][1]].pc \notin Ended

\* "Redis processed:{correlation_id} skips duplicate result updates": a result is
\* traced once, and at most once more for every process or connection that dies
\* between its trace and processed, and every time its processed key expires.
TraceBounded == \A t \in Ticket : trace[t] <= 1 + faults + expired[t]

\* A result message is acked, and its key marked processed, only after its waiter
\* was notified: a crash in between redelivers it and never loses it.  Only the
\* deletion of a results queue with other arguments does.
ProcessedWasHandled ==
    /\ processed \subseteq handled
    /\ con.pc = "ack" => con.msg \in handled
    /\ \A t \in Ticket : sent[t] > 0 =>
        \/ t \in handled \/ con.msg = t \/ (\E i \in DOMAIN results : results[i] = t)
        \/ setting.old /\ t \in dropped

\* "Block until a result for conversation_id arrives or timeout expires": once the
\* agent's result is on its way, the waiting run gets it (or the run is over), by the
\* copy in Redis, or with Redis down by its Event alone.  A result misses its run only
\* if it goes with a deleted queue, or if a Redis key expires (600 s) within the wait
\* (90 s).
AnswerArrives ==
    \A r \in Run, l \in 1 .. MaxLegs :
        (setting.expire = {} /\ sent[<<r, l>>] > 0 /\ run[r].leg = l /\ run[r].pc \in Waiting)
            ~> (\/ run[r].leg > l \/ run[r].pc \in {"returned", "cleanup"} \cup Ended
                \/ <<r, l>> \in dropped)

----------------------------------------------------------------------------
(* The inductive invariant behind the safety properties, part by part.      *)

\* wait_for_result has looked its pair up, or is past register_result_waiter.
Paired == Waiting \ {"lookup"}
Registered == Waiting \cup {"publish", "returned", "cleanup"}

\* The lock is the consumer's while it writes a dict, for whose conversation there
\* is an entry, and a run's only when that run waits for itself.
LockHonest ==
    /\ lock = "consumer" <=> con.pc \in {"update", "set"}
    /\ \A r \in Run : lock = r <=> At(r, "reregister")
    /\ con.pc \in {"update", "set"} => registry[ConvOfTicket(con.msg)] # None

\* Entries, pairs and what a dict holds never leave their conversation.
EntriesApart ==
    /\ \A c \in Conv : registry[c] # None => ConvOfTicket(registry[c]) = c
    /\ \A t \in Ticket : dict[t] # None => ConvOfTicket(dict[t]) = ConvOfTicket(t)
    /\ \A r \in Run : run[r].pc \in Paired => run[r].pair # None
    /\ \A r \in Run : run[r].pair # None => ConvOfTicket(run[r].pair) = ConvOf[r]

\* A run that overlaps no other of its conversation has the entry to itself.
Live(r) == run[r].pc \notin Ended \cup {"new"}
Serial(r) == setting.overlap => Siblings(r) = {}
EntryKept ==
    \A r \in Run : Serial(r) =>
        /\ Live(r) => \A q \in Siblings(r) : ~Live(q)
        /\ run[r].pc \in Registered => registry[ConvOf[r]] = Mine(r)
        /\ run[r].pc \in Paired => run[r].pair = Mine(r)
        /\ ~At(r, "reregister")

\* The consumer has a message in hand from its delivery to its ack; a message is of
\* a published task, and only legs reached are published.
InHand ==
    /\ con.msg = None <=> con.pc \in {"offline", "idle"}
    /\ con.pc = "mark" => con.msg \in handled
    /\ \A t \in Ticket : sent[t] > 0 => t \in tasks
    /\ \A i \in DOMAIN results : results[i] \in tasks
    /\ con.msg # None => con.msg \in tasks
    /\ \A t \in tasks : t[2] <= run[t[1]].leg /\ ~At(t[1], "new")

\* With Redis up a message is handled to the end before it is handled again, and
\* counted once more only after a fault or the expiry of its key.
RedisUp == setting.redis = {TRUE}
Handling == {"store", "trace", "notify", "update", "set", "mark"}
HandledOnce ==
    RedisUp =>
        /\ con.pc \in Handling => con.msg \notin processed
        /\ \A t \in Ticket :
               \/ trace[t] <= faults + expired[t]
               \/ /\ trace[t] <= 1 + faults + expired[t]
                  /\ \/ t \in processed
                     \/ con.msg = t /\ con.pc \in {"notify", "update", "set", "mark"}

\* With Redis up and no key forgotten, all that a dict or Redis can give a going run
\* has been processed, or is the message in hand.
Steady == RedisUp /\ Remembered
Going(r) == run[r].pc \notin Ended
Shown(t) == t \in processed \/ (con.msg = t /\ con.pc \in {"set", "mark"})
Taken(t) == t \in processed \/ (con.msg = t /\ con.pc \in Handling \ {"store"})
ReadsTaken ==
    Steady =>
        \A t \in Ticket : Going(t[1]) =>
            /\ (\E u \in Ticket : dict[u] = t) => Shown(t)
            /\ (\E c \in Conv : stored[c] = t) => Taken(t)

\* So a run alone in its conversation has its legs processed in their order, and
\* finds in the dict it is about to copy what it matched there.
LegsInOrder ==
    Steady =>
        \A r \in Run : Going(r) /\ Siblings(r) = {} =>
            /\ \A l \in 1 .. MaxLegs : l < run[r].leg => Taken(<<r, l>>)
            /\ \A k, l \in 1 .. MaxLegs :
                   k < l /\ <<r, l>> \in processed => <<r, k>> \in processed
            /\ At(r, "copy") => Dict(r) = Mine(r)
            /\ At(r, "returned") => run[r].got = Mine(r) /\ Taken(Mine(r))

\* Whatever is on its way to a run, in the queue, in hand, in Redis or in a dict, was
\* sent by an agent.
FromAgents ==
    /\ con.msg # None => sent[con.msg] > 0
    /\ \A i \in DOMAIN results : sent[results[i]] > 0
    /\ \A c \in Conv : stored[c] # None => sent[stored[c]] > 0
    /\ \A t \in Ticket : dict[t] # None => sent[dict[t]] > 0

WaiterInv ==
    /\ TypeOK /\ ConversationsApart /\ NoLeakedWaiter /\ ProcessedWasHandled
    /\ LockHonest /\ EntriesApart /\ EntryKept /\ InHand
    /\ HandledOnce /\ ReadsTaken /\ LegsInOrder /\ FromAgents

----------------------------------------------------------------------------
(* The abstract exchange, with the registry, the consumer and Redis forgotten. *)

StageAt(label) ==
    CASE label = "new"                   -> "idle"
      [] label = "returned"              -> "answered"
      [] label \in {"cleanup"} \cup Ended -> "over"
      [] OTHER                           -> "asking"
Answer(r) == IF At(r, "returned") THEN run[r].got ELSE None

StageOf == [r \in Run |-> StageAt(run[r].pc)]
LegOf == [r \in Run |-> run[r].leg]
AnswerOf == [r \in Run |-> Answer(r)]
Replied == {t \in Ticket : sent[t] > 0}
Promised == {r \in Run : Steady /\ Siblings(r) = {}}

Exchanged == INSTANCE Exchange
    WITH convOf <- ConvOf, concurrent <- setting.overlap, promised <- Promised,
         stage <- StageOf, leg <- LegOf, answer <- AnswerOf, replied <- Replied

\* Whatever registry, consumer thread, Redis and crashes make of it, a wait answers a
\* run as Exchange says.
KeepsExchange == Exchanged!Spec
====
