---- MODULE Startup ----
(***************************************************************************)
(* How an orchestrator process comes to have its results consumer, and     *)
(* what /api/health/ says of it: apps.py's CoreConfig.ready under          *)
(* runserver with and without the autoreloader and under other commands,   *)
(* the reconnecting loop of consume_results_loop with the                  *)
(* result_consumer_alive flag it sets, and views.py, which imports that    *)
(* flag by name.  Nothing keeps two launches apart: ready() runs before    *)
(* the port is bound, and a child outlives a parent that is killed.        *)
(***************************************************************************)
EXTENDS Naturals, FiniteSets

CONSTANTS
    Process,    \* operating system processes, each used once
    MaxFaults,  \* bound on the times the broker goes down
    None        \* not imported yet; launched by no other process

ASSUME StartupAssumption == MaxFaults \in Nat /\ None \notin BOOLEAN \cup Process

VARIABLES
    proc,      \* each process: its step, command, parent, RUN_MAIN, consumer, flags
    broker,    \* is RabbitMQ up
    faults     \* so far, bounded by MaxFaults

vars == <<proc, broker, faults>>

\* sys.argv: runserver, runserver --noreload (or a WSGI or ASGI server), or another
\* management command that ready does not skip.
Command == {"runserver", "noreload", "other"}

Init ==
    /\ proc = [p \in Process |-> [pc |-> "off", cmd |-> "noreload", parent |-> None,
                                  run_main |-> FALSE, con |-> "none",
                                  link |-> FALSE, alive |-> FALSE, imported |-> None]]
    /\ broker \in BOOLEAN
    /\ faults = 0

Running(p) == proc[p].pc \in {"loading", "up"}
Con(p, from, to) == proc[p].con = from /\ proc' = [proc EXCEPT ![p].con = to]

\* Deliberate defects: each replaces the definition it is named after, in a run
\* that must then fail.  ready ignores the autoreloader, or RUN_MAIN; an exception
\* ends the loop.
StartsAlways(p) == TRUE
StartsUnreloaded(p) == proc[p].cmd # "runserver"
GiveUpLoop == "ended"

\* ready's tests: not in the autoreloader's parent.
Starts(p) == ~(proc[p].cmd = "runserver" /\ ~proc[p].run_main)
\* The autoreloader's parent only watches its child, and other commands do not serve.
Serves(p) == proc[p].cmd = "noreload" \/ (proc[p].cmd = "runserver" /\ proc[p].run_main)
\* After an exception: sleep, then connect again.
AfterException == "sleeping"
\* "from core.rabbitmq_client import result_consumer_alive" copies the value.
Flag(p) == proc[p].alive

----------------------------------------------------------------------------

\* A user, a leftover terminal or the container runs manage.py, whatever runs already.
Launch(p, c) ==
    /\ proc[p].pc = "off"
    /\ proc' = [proc EXCEPT ![p].pc = "loading", ![p].cmd = c]
    /\ UNCHANGED <<broker, faults>>

\* The autoreloader's parent q runs the server in a child, again after each change.
Spawn(q, p) ==
    /\ proc[p].pc = "off"
    /\ proc[q].pc = "up" /\ proc[q].cmd = "runserver" /\ ~proc[q].run_main
    /\ \A c \in Process : proc[c].parent = q => ~Running(c)
    /\ proc' = [proc EXCEPT ![p] = [@ EXCEPT !.pc = "loading", !.cmd = "runserver",
                                             !.parent = q, !.run_main = TRUE]]
    /\ UNCHANGED <<broker, faults>>

\* The process dies or ends: a command that is done, a port already bound, a child
\* whose file changed, a parent that is killed (its child goes on).
Exit(p) ==
    /\ Running(p)
    /\ proc' = [proc EXCEPT ![p] = [@ EXCEPT !.pc = "gone", !.con = "none", !.link = FALSE,
                                             !.alive = FALSE]]
    /\ UNCHANGED <<broker, faults>>

\* CoreConfig.ready starts the consumer thread, before any port is bound.
Ready(p) ==
    /\ proc[p].pc = "loading"
    /\ proc' = [proc EXCEPT ![p].pc = "up",
                            ![p].con = IF Starts(p) THEN "connect" ELSE "none"]
    /\ UNCHANGED <<broker, faults>>

\* The URL configuration is loaded, by runserver's checks or by the first request:
\* the flag is copied while the consumer thread is at whatever step.
ImportViews(p) ==
    /\ proc[p].pc = "up" /\ proc[p].imported = None
    /\ Serves(p)
    /\ proc' = [proc EXCEPT ![p].imported = Flag(p)]
    /\ UNCHANGED <<broker, faults>>

----------------------------------------------------------------------------
(* consume_results_loop *)

Connect(p) ==
    /\ broker /\ proc[p].con = "connect"
    /\ proc' = [proc EXCEPT ![p].con = "subscribed", ![p].link = TRUE]
    /\ UNCHANGED <<broker, faults>>

\* result_consumer_alive = True, then start_consuming.
Consume(p) ==
    /\ proc[p].con = "subscribed"
    /\ proc' = [proc EXCEPT ![p].con = "consuming", ![p].alive = TRUE]
    /\ UNCHANGED <<broker, faults>>

\* No broker to connect to, or the connection found lost.
Except(p) ==
    /\ \/ proc[p].con = "connect" /\ ~broker
       \/ proc[p].con \in {"subscribed", "consuming"} /\ ~proc[p].link
    /\ proc' = [proc EXCEPT ![p].con = AfterException, ![p].alive = FALSE]
    /\ UNCHANGED <<broker, faults>>

Retry(p) ==
    /\ Con(p, "sleeping", "connect")
    /\ UNCHANGED <<broker, faults>>

BrokerDown ==
    /\ broker /\ faults < MaxFaults
    /\ broker' = FALSE /\ faults' = faults + 1
    /\ proc' = [p \in Process |-> [proc[p] EXCEPT !.link = FALSE]]

BrokerUp ==
    /\ ~broker /\ broker' = TRUE
    /\ UNCHANGED <<proc, faults>>

Loop(p) == Connect(p) \/ Consume(p) \/ Except(p) \/ Retry(p)

Next ==
    \/ \E p \in Process :
           \/ \E c \in Command : Launch(p, c)
           \/ \E q \in Process : Spawn(q, p)
           \/ Exit(p) \/ Ready(p) \/ ImportViews(p) \/ Loop(p)
    \/ BrokerDown \/ BrokerUp

\* The consumer threads run.  Nothing brings the broker back: the Compose file gives
\* it no restart policy.
Fairness == \A p \in Process : WF_vars(Loop(p))

Spec == Init /\ [][Next]_vars
FairSpec == Spec /\ Fairness

----------------------------------------------------------------------------

\* The values the variables take.
TypeOK ==
    /\ broker \in BOOLEAN
    /\ proc \in [Process -> [pc : {"off", "loading", "up", "gone"}, cmd : Command,
                             parent : Process \cup {None}, run_main : BOOLEAN,
                             con : {"none", "connect", "subscribed", "consuming", "sleeping"},
                             link : BOOLEAN, alive : BOOLEAN, imported : BOOLEAN \cup {None}]]
    /\ faults \in 0 .. MaxFaults

\* What was started together: the autoreloader's parent and its children.
Root(p) == IF proc[p].parent = None THEN p ELSE proc[p].parent

\* A launch attaches one results consumer at most, its autoreloader's parent, the child
\* and the children before it taken together, whichever of them died.  (A second
\* launch attaches its own: the waiters of the two are in two memories.)
OneConsumerEach ==
    \A p, q \in Process :
        proc[p].con # "none" /\ proc[q].con # "none" /\ Root(p) = Root(q) => p = q

\* Every consumer that was started, however often the broker failed it, is consuming
\* again once the broker is up for long enough.
ConsumerReturns ==
    \A p \in Process :
        proc[p].con # "none" ~> proc[p].con = "consuming" \/ proc[p].pc = "gone" \/ ~broker

\* The serving process is the one with the consumer: a request never waits for
\* results nobody in its process will hand over.
ServesWithConsumer == \A p \in Process : proc[p].imported # None /\ Running(p) => proc[p].con # "none"

\* /api/health/ reports the result consumer as it is.
HealthHonest ==
    \A p \in Process :
        proc[p].pc = "up" /\ proc[p].imported # None => proc[p].imported = proc[p].alive

----------------------------------------------------------------------------
(* Why they hold: an inductive invariant, part by part. *)

\* A process that was not launched yet has nothing set, and no child.
OffIsFresh ==
    \A p \in Process : proc[p].pc = "off" =>
        /\ ~proc[p].run_main /\ proc[p].con = "none"
        /\ proc[p].imported = None /\ proc[p].parent = None
        /\ \A q \in Process : proc[q].parent # p

\* A consumer thread lives in every process that is up, but not in an autoreloader's
\* parent.
ConsumerHome ==
    \A p \in Process :
        proc[p].con # "none" <=> proc[p].pc = "up" /\ (proc[p].cmd = "runserver" => proc[p].run_main)

\* Only processes that serve import views.py.
ImportedServing ==
    \A p \in Process : proc[p].imported # None /\ Running(p) =>
        proc[p].pc = "up" /\ Serves(p)

\* A parent has one running child, no consumer of its own, and no parent.
OneChild ==
    \A p \in Process : proc[p].parent # None =>
        /\ proc[p].run_main
        /\ proc[proc[p].parent].parent = None
        /\ proc[proc[p].parent].cmd = "runserver" /\ ~proc[proc[p].parent].run_main
        /\ \A q \in Process :
               Running(p) /\ Running(q) /\ proc[q].parent = proc[p].parent => p = q

StartupInv == TypeOK /\ OffIsFresh /\ ConsumerHome /\ ImportedServing /\ OneChild
====
