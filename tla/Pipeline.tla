---- MODULE Pipeline ----
(***************************************************************************)
(* orchestration.py's run_conversation_pipeline with the views that call   *)
(* it, models.py's ConversationLog row and metrics.py's counters: the runs *)
(* of one conversation (the query and its reprocesses), each with its own  *)
(* copy of the row, saved as a whole or in part.  Of rabbitmq_client.py    *)
(* the runs share the conversation's registry entry and the lock around    *)
(* it; an exchange with an agent is one step, which ResultWaiter opens up. *)
(***************************************************************************)
EXTENDS Handlers

CONSTANTS
    Run,         \* the requests of the conversation ...
    Query,       \* ... of which this one asks first and the others reprocess
    MaxFaults    \* bound on database errors and restarts

ASSUME PipelineAssumption == Query \in Run /\ MaxFaults \in Nat

VARIABLES
    intent,    \* classify_intent(query_text): the same in every run
    overlap,   \* do its reprocesses start while another run is under way
    row,       \* the ConversationLog row, None before it is created
    run,       \* each request: step, its log object, agent_results, connection
    counters,  \* metrics.py, of the running process
    entry,     \* has _result_waiters an entry for the conversation
    jammed,    \* is _waiters_lock held by a thread that waits for it itself
    faults     \* so far, bounded by MaxFaults

given == <<intent, overlap>>
registry == <<entry, jammed>>
vars == <<given, row, run, counters, registry, faults>>

\* ConversationLog; final_response and error_message are named after their run.
Row == [status : {"pending", "in_progress", "escalated", "resolved", "failed"},
        final : Run \cup {None}, error : Run \cup {None}, escalated : BOOLEAN,
        last : Agent \cup {None}, agents : Seq(Agent)]

ASSUME NoneApart ==
    /\ None \notin Run /\ None \notin Row /\ None \notin BOOLEAN
    /\ None \notin Agent \cup Item \cup {"refund_or_credit", "goodwill", "as_found"}

Fresh == [status |-> "pending", final |-> None, error |-> None,
          escalated |-> FALSE, last |-> None, agents |-> <<>>]

Counter == {"total", "escalated", "resolved", "timeout", "error"}

Init ==
    /\ intent \in {Classify(lists) : lists \in SUBSET Intent} /\ overlap \in BOOLEAN
    /\ row = None
    /\ run = [r \in Run |-> [pc |-> "new", log |-> Fresh, results |-> <<>>,
                             db |-> "up", response |-> None]]
    /\ counters = [n \in Counter |-> 0]
    /\ entry = FALSE /\ jammed = FALSE
    /\ faults = 0

At(r, label) == run[r].pc = label
Goto(r, label) == run' = [run EXCEPT ![r].pc = label]
Respond(r, code) == run' = [run EXCEPT ![r].pc = "done", ![r].response = code]
Incr(name) == counters' = [counters EXCEPT ![name] = @ + 1]
Fault == faults < MaxFaults /\ faults' = faults + 1
Log(r) == run[r].log
Over == {"done", "dead"}

\* A statement that raises: Postgres refuses it, or the connection is lost, before
\* or after it took effect.  Django opens no other until the request is over, so
\* every later statement of it raises as well.
Raises(r, new, db) ==
    \/ run[r].db = "lost" /\ db = "lost" /\ UNCHANGED <<row, faults>>
    \/ run[r].db = "up" /\ db = "up" /\ Fault /\ UNCHANGED row
    \/ run[r].db = "up" /\ db = "lost" /\ Fault /\ row' \in {row, new}

Writes(r, new) == run[r].db = "up" /\ row' = new /\ UNCHANGED faults

\* register_result_waiter and reset_result_waiter make the entry and the run goes on
\* with what it enters; they take the lock, and wait for one that is never released.
Enters(label) == IF jammed THEN "blocked" ELSE label
EntryMade == ~jammed \/ entry

\* The finally of the try pops the entry, another run's too, under the same lock.
Leaves(r, code) ==
    /\ IF jammed THEN Goto(r, "stuck") ELSE Respond(r, code)
    /\ entry' = (jammed /\ entry)
    /\ UNCHANGED jammed

\* The agent whose result the run waits for.
Expected(r) == CASE At(r, "ask_specialist") -> intent
                 [] At(r, "ask_inventory")  -> "inventory"
                 [] At(r, "ask_escalation") -> "escalation"

\* The agents a conversation asks, and those it has asked so far, in any run.
Involved(asked) == IF asked = "refund" THEN {"refund", "inventory", "escalation"} ELSE {asked}
Asked ==
    {agent \in Involved(intent) :
        \/ agent = intent
        \/ \E q \in Run : IF agent = "escalation" THEN Log(q).escalated
                          ELSE run[q].results # <<>> /\ NeedsInventory(run[q].results[1])}

\* A result of another agent, written over the one that matched before it was copied
\* (see ResultWaiter).  Nothing looks at more of it than its name, and its in_stock,
\* which only the inventory agent's has.
Stray(agent) == Plain(agent, 100, None)
Strays(asked, expected) == {Stray(agent) : agent \in Involved(asked) \ {expected}}

\* What log.save() and log.save(update_fields) write.
ResetLog(r) == [Fresh EXCEPT !.status = "in_progress"]
EscalatedRow(r) == [row EXCEPT !.status = "escalated", !.escalated = TRUE]
AgentsOf(results) ==
    LET named == {i \in DOMAIN results : results[i].agent # None}
        place(i) == Cardinality({j \in named : j <= i})
    IN  [k \in 1 .. Cardinality(named) |->
            results[CHOOSE i \in named : place(i) = k].agent]
\* The result shown is the escalation's, or else the specialist's.
Shown(r) == IF Log(r).escalated THEN run[r].results[Len(run[r].results)]
                                ELSE run[r].results[1]

\* Deliberate defects: each replaces the definition it is named after, in a run
\* that must then fail.  The final save keeps the status of an escalated run, or
\* leaves error_message out; a failure is saved without its error_message, or with
\* the whole log; it is not counted; the wait has no deadline; a reprocess does
\* not look for the row.
ResolutionKeepsEscalated(r) ==
    [Log(r) EXCEPT !.status = IF @ = "escalated" THEN @ ELSE "resolved",
                   !.final = r, !.last = Shown(r).agent, !.agents = AgentsOf(run[r].results)]
ResolutionKeepsError(r) ==
    [row EXCEPT !.status = "resolved", !.final = r, !.escalated = Log(r).escalated,
                !.last = Shown(r).agent, !.agents = AgentsOf(run[r].results)]
FailedRowSilent(r) == [row EXCEPT !.status = "failed"]
FailedRowWhole(r) == [Log(r) EXCEPT !.status = "failed", !.error = r]
NoDeadline(r) == FALSE
RowUnchecked == TRUE
ErrorUncounted == UNCHANGED counters

Resolution(r) ==
    [Log(r) EXCEPT !.status = "resolved", !.final = r, !.error = None,
                   !.last = Shown(r).agent, !.agents = AgentsOf(run[r].results)]
FailedRow(r) == [row EXCEPT !.status = "failed", !.error = r]
RowFound == row # None
CountError == Incr("error")
Asking == {"ask_specialist", "ask_inventory", "ask_escalation"}
Deadline(r) == run[r].pc \in Asking

----------------------------------------------------------------------------
(* The views. *)

\* POST /api/query/: the row is created, as pending.
CreateRow(r) ==
    /\ r = Query /\ At(r, "new")
    /\ Writes(r, Fresh)
    /\ Goto(r, "reset")
    /\ UNCHANGED <<given, counters, registry>>

CreateRaises(r) ==
    /\ r = Query /\ At(r, "new")
    /\ \E db \in {"up", "lost"} : Raises(r, Fresh, db)
    /\ Respond(r, 500)
    /\ UNCHANGED <<given, counters, registry>>

\* POST .../reprocess/: get_object_or_404, a copy of the row.
Reprocess(r) ==
    /\ r # Query /\ At(r, "new")
    /\ overlap \/ \A q \in Run : run[q].pc \in Over \cup {"new"}
LoadRow(r) ==
    /\ Reprocess(r) /\ RowFound
    /\ run' = [run EXCEPT ![r].pc = "reset", ![r].log = row]
    /\ UNCHANGED <<given, row, counters, registry, faults>>

\* That query itself raises.
LoadRaises(r) ==
    /\ Reprocess(r) /\ Fault
    /\ Respond(r, 500)
    /\ UNCHANGED <<given, row, counters, registry>>

----------------------------------------------------------------------------
(* run_conversation_pipeline. *)

\* The row starts over; this save is outside the try, so nothing records its failure.
Reset(r) ==
    /\ At(r, "reset")
    /\ Writes(r, ResetLog(r))
    /\ run' = [run EXCEPT ![r].pc = "count", ![r].log = ResetLog(r)]
    /\ UNCHANGED <<given, counters, registry>>

ResetRaises(r) ==
    /\ At(r, "reset")
    /\ \E db \in {"up", "lost"} : Raises(r, ResetLog(r), db)
    /\ Respond(r, 500)
    /\ UNCHANGED <<given, counters, registry>>

CountQuery(r) ==
    /\ At(r, "count")
    /\ Incr("total")
    /\ Goto(r, Enters("ask_specialist"))
    /\ entry' = EntryMade
    /\ UNCHANGED <<given, row, jammed, faults>>

\* publish_task and wait_for_result, for the specialist: ...
SpecialistAnswers(r, m) ==
    /\ At(r, "ask_specialist")
    /\ run' = [run EXCEPT ![r].results = <<m>>,
                   ![r].pc = IF NeedsInventory(m) THEN Enters("ask_inventory") ELSE "decide"]
    /\ entry' = IF NeedsInventory(m) THEN EntryMade ELSE entry
    /\ UNCHANGED <<given, row, counters, jammed, faults>>

\* ... for the inventory agent after a refund: ...
InventoryAnswers(r, m) ==
    /\ At(r, "ask_inventory")
    /\ run' = [run EXCEPT ![r].results = WithInventory(Append(@, m)), ![r].pc = "decide"]
    /\ UNCHANGED <<given, row, counters, registry, faults>>

\* ... and for the escalation agent.
EscalationAnswers(r, m) ==
    /\ At(r, "ask_escalation")
    /\ run' = [run EXCEPT ![r].results = Append(@, m), ![r].pc = "finish"]
    /\ UNCHANGED <<given, row, counters, registry, faults>>

\* The answer of the agent asked (in this run or another), a torn one, or a stray.
Answer(r) ==
    /\ run[r].pc \in Asking
    /\ LET strays == {m \in Strays(intent, Expected(r)) : m.agent \in Asked} IN
       \E m \in Answers(Expected(r)) \cup {Empty} \cup strays :
           SpecialistAnswers(r, m) \/ InventoryAnswers(r, m) \/ EscalationAnswers(r, m)

\* wait_for_result finds no entry, as another run has popped it: it takes the lock and
\* then waits for it in register_result_waiter.
Jam(r) ==
    /\ run[r].pc \in Asking /\ ~entry /\ ~jammed
    /\ Goto(r, "blocked")
    /\ jammed' = TRUE
    /\ UNCHANGED <<given, row, counters, entry, faults>>

\* wait_for_result: TimeoutError; failed is saved next.
WaitTimesOut(r) ==
    /\ Deadline(r)
    /\ Incr("timeout")
    /\ Goto(r, "save_timeout")
    /\ UNCHANGED <<given, row, registry, faults>>

\* publish_task raises (no broker, no queue).
PublishRaises(r) ==
    /\ run[r].pc \in Asking
    /\ CountError
    /\ Goto(r, "save_error")
    /\ UNCHANGED <<given, row, registry, faults>>

Decide(r) ==
    /\ At(r, "decide")
    /\ IF ShouldEscalate(run[r].results)
       THEN /\ Incr("escalated")
            /\ run' = [run EXCEPT ![r].pc = "save_escalated",
                                  ![r].log = [@ EXCEPT !.status = "escalated", !.escalated = TRUE]]
       ELSE Goto(r, "finish") /\ UNCHANGED counters
    /\ UNCHANGED <<given, row, registry, faults>>

SaveEscalated(r) ==
    /\ At(r, "save_escalated")
    /\ Writes(r, EscalatedRow(r))
    /\ Goto(r, Enters("ask_escalation"))
    /\ entry' = EntryMade
    /\ UNCHANGED <<given, counters, jammed>>

\* The last save of a run that got its answers.
Finish(r) ==
    /\ At(r, "finish")
    /\ Writes(r, Resolution(r))
    /\ run' = [run EXCEPT ![r].pc = "count_resolved", ![r].log = Resolution(r)]
    /\ UNCHANGED <<given, counters, registry>>

\* A save inside the try raises: the except branch records it like any error.
SaveRaises(r) ==
    \E db \in {"up", "lost"} :
        /\ \/ At(r, "save_escalated") /\ Raises(r, EscalatedRow(r), db)
              /\ run' = [run EXCEPT ![r].pc = "save_error", ![r].db = db]
           \/ At(r, "finish") /\ Raises(r, Resolution(r), db)
              /\ run' = [run EXCEPT ![r].pc = "save_error", ![r].db = db,
                                    ![r].log = Resolution(r)]
        /\ CountError
        /\ UNCHANGED <<given, registry>>

CountResolved(r) ==
    /\ At(r, "count_resolved")
    /\ Incr("resolved")
    /\ Leaves(r, 200)
    /\ UNCHANGED <<given, row, faults>>

SaveFailed(r) ==
    /\ run[r].pc \in {"save_timeout", "save_error"}
    /\ Writes(r, FailedRow(r))
    /\ Leaves(r, IF At(r, "save_timeout") THEN 504 ELSE 500)
    /\ UNCHANGED <<given, counters>>

\* The failure itself cannot be saved: that error replaces the first one.
SaveFailedRaises(r) ==
    /\ run[r].pc \in {"save_timeout", "save_error"}
    /\ \E db \in {"up", "lost"} : Raises(r, FailedRow(r), db)
    /\ Leaves(r, 500)
    /\ UNCHANGED <<given, counters>>

----------------------------------------------------------------------------

\* The process dies, with its requests and its counters; nothing resumes them.
Restart ==
    /\ Fault
    /\ run' = [r \in Run |-> IF run[r].pc \in {"new", "done"} THEN run[r]
                             ELSE [run[r] EXCEPT !.pc = "dead"]]
    /\ counters' = [n \in Counter |-> 0]
    /\ entry' = FALSE /\ jammed' = FALSE
    /\ UNCHANGED <<given, row>>

\* What a request thread does whether or not agents answer.  (Once the lock is jammed a
\* wait may not have come past it.)
Proceed(r) ==
    \/ Reset(r) \/ CountQuery(r) \/ (~jammed /\ WaitTimesOut(r)) \/ Decide(r)
    \/ SaveEscalated(r) \/ Finish(r) \/ CountResolved(r) \/ SaveFailed(r)
    \/ (run[r].db = "lost" /\ (SaveRaises(r) \/ SaveFailedRaises(r)))

Next ==
    \/ \E r \in Run :
          \/ CreateRow(r) \/ CreateRaises(r) \/ LoadRow(r) \/ LoadRaises(r) \/ Proceed(r)
          \/ Answer(r) \/ WaitTimesOut(r) \/ Jam(r) \/ PublishRaises(r) \/ ResetRaises(r)
          \/ SaveRaises(r) \/ SaveFailedRaises(r)
    \/ Restart

Fairness == \A r \in Run : WF_vars(Proceed(r))

Spec == Init /\ [][Next]_vars
FairSpec == Spec /\ Fairness

----------------------------------------------------------------------------

InFlight == Asking \cup {"decide", "save_escalated", "finish", "count_resolved", "blocked"}
Label == InFlight \cup Over \cup {"new", "reset", "count", "save_timeout", "save_error", "stuck"}
\* The values the variables take.
TypeOK ==
    /\ intent \in Intent /\ overlap \in BOOLEAN
    /\ row \in Row \cup {None}
    /\ run \in [Run -> [pc : Label, log : Row, results : Seq(Result),
                        db : {"up", "lost"}, response : {None, 200, 500, 504}]]
    /\ counters \in [Counter -> Nat]
    /\ entry \in BOOLEAN /\ jammed \in BOOLEAN
    /\ faults \in 0 .. MaxFaults

\* A resolved row is one run's and complete, whatever other runs save around it: an
\* answer, no error, escalated if and only if that run took three results, and with
\* agents_involved and last_agent_name those of its results, whoever sent them.  (Partial
\* saves always come with another status; the final one is whole.)
ResolvedRowWhole ==
    row # None /\ row.status = "resolved" =>
        /\ row.final # None /\ row.error = None
        /\ LET results == run[row.final].results
               heard == [i \in DOMAIN results |-> results[i].agent]
           IN  /\ Len(results) = IF row.escalated THEN 3 ELSE 1
               /\ row.last = heard[Len(results)]
               /\ (\A i \in DOMAIN heard : heard[i] # None) => row.agents = heard

\* "Timeouts/errors set status=failed + error_message": no interleaving leaves a
\* failed row without its message, and while runs do not overlap it shows no answer:
\* what a run put in its log object before the failing save never reaches the row.
FailedRowClean ==
    row # None /\ row.status = "failed" =>
        /\ row.error # None
        /\ ~overlap => row.final = None /\ row.agents = <<>>

\* When no run is under way the row says how the conversation ended.  It is left
\* pending, in_progress or escalated only if the database or the process failed, and
\* then never in silence: a request of it died, or its caller was answered 500.
OpenStatus == {"pending", "in_progress", "escalated"}
Broken(r) == At(r, "dead") \/ (At(r, "done") /\ run[r].response = 500)
LeftOpenForCause ==
    /\ \A r \in Run : run[r].pc \in Over \cup {"new"}
    /\ row # None /\ row.status \in OpenStatus
    => faults > 0 /\ \E r \in Run : Broken(r)

\* /api/metrics/: every counted query is under way or counted once more, as
\* resolved, timed out or failed, whichever save raised.
CountersBalance ==
    counters["total"] = counters["resolved"] + counters["timeout"] + counters["error"]
                        + Cardinality({r \in Run : run[r].pc \in InFlight})

\* The refund agent's requires_escalation and the orchestrator's should_escalate are
\* two copies of a rule; stock that changes in between never makes them disagree.
DecisionsAgree ==
    \A r \in Run : At(r, "decide") /\ run[r].results[1].agent = "refund" =>
        ShouldEscalate(run[r].results) = run[r].results[1].requires

\* A refund that is not eligible never reaches the customer unescalated.
OnlyEligibleUnescalated ==
    \A r \in Run :
        At(r, "finish") /\ run[r].results[1].agent = "refund" /\ ~Log(r).escalated
            => run[r].results[1].eligible

\* Three copies of the escalation rule: whatever made the orchestrator escalate, the
\* escalation agent's fixed text names the same conflict and decides something.
ReviewAgrees ==
    \A r \in Run : At(r, "ask_escalation") =>
        Deterministic(run[r].results) =
            IF OutOfStock(run[r].results) THEN "refund_or_credit" ELSE "goodwill"

\* "Fallback when AutoGen/LLM cannot complete": a chat that fails, on whichever turn,
\* ends in a text all the same, whatever the single call then comes to.
FallbackAnswers ==
    \A r \in Run : At(r, "ask_escalation") =>
        \A first, single \in Reply : \A second \in Reply :
            "raises" \in {first, second} /\ (first \in Marked => second # "raises")
                => Escalate(first, second, single, run[r].results) \notin {"empty", None}

\* "End with FINAL_RESPONSE: followed by the customer-facing answer": what the
\* customer is told is an answer, not the prompt's own example of one.
EscalationAnswered ==
    \A r \in Run : At(r, "ask_escalation") =>
        \A first, second, single \in Reply :
            Escalate(first, second, single, run[r].results) # "placeholder"

\* The stock that replaces the refund agent's is that of the item of the order, if
\* the order was judged, that item is in the stock table, and nothing in the query
\* is quoted, however many other items it mentions.
StockOfOrder ==
    \A r \in Run : At(r, "ask_inventory") =>
        LET refund == run[r].results[1] IN
        refund.eligible \/ refund.proposed =>
            \A query \in QueryText, table \in SUBSET Item :
                query.quoted = None /\ "ordered" \in table =>
                    LookedUp(query, FanoutItem(query, refund), table) = "ordered"

\* The row keeps what Conversation promises its readers.
RowState ==
    IF row = None THEN "none"
    ELSE CASE row.status = "resolved" -> "answered"
           [] row.status = "failed"   -> "failed"
           [] OTHER                   -> "open"
Reader == INSTANCE Conversation
    WITH concurrent <- overlap, state <- RowState,
         answer <- IF row = None THEN None ELSE row.final,
         error <- IF row = None THEN None ELSE row.error
KeepsConversation == Reader!Spec

\* Every request is answered, or dies with the process, even if no agent answers: the
\* one thing that keeps it is a registry that overlapping runs have jammed.
EveryRunAnswers ==
    \A r \in Run : ~At(r, "new") ~> (run[r].pc \in Over \/ (overlap /\ jammed))

----------------------------------------------------------------------------
(* Why they hold: an inductive invariant, part by part. *)

\* A run at work, and one that started the row over and has yet to close it.
Begun(r) == run[r].pc \notin Over \cup {"new"}
Owes(r) == Begun(r) /\ run[r].pc \notin {"count_resolved", "stuck"}
Reopened(r) == Owes(r) /\ ~At(r, "reset")

\* The first request creates the row, and no run begins without it.
RowThere ==
    /\ At(Query, "new") => row = None
    /\ \A r \in Run : Begun(r) => row # None

\* What may be heard when an agent is asked.  The results of a specialist after whom
\* nobody else is asked, of a refund that is going to be escalated, with the stock
\* asked for, and of one that was escalated.
Heard(asked, agent) == Answers(agent) \cup {Empty} \cup Strays(asked, agent)
Alone(asked, results) ==
    \E m \in Heard(asked, asked) : ~NeedsInventory(m) /\ results = <<m>>
Judged(asked, m) == asked = "refund" /\ m \in Answers("refund") /\ NeedsInventory(m)
Stocked(asked, results) ==
    \E m \in Answers("refund"), n \in Heard("refund", "inventory") :
        Judged(asked, m) /\ results = WithInventory(<<m, n>>)
Reviewed(asked, results) ==
    \E m \in Answers("refund"), n \in Heard("refund", "inventory"),
       e \in Heard("refund", "escalation") :
        Judged(asked, m) /\ results = Append(WithInventory(<<m, n>>), e)
Whole(asked, results, escalated) ==
    IF escalated THEN Reviewed(asked, results) ELSE Alone(asked, results)

\* Which results a run holds at which step, and whether its log says escalated.
Fits(label, asked, results, escalated) ==
    /\ label \in {"new", "reset", "count", "ask_specialist"} => results = <<>>
    /\ label = "ask_inventory" => \E m \in Answers("refund") : Judged(asked, m) /\ results = <<m>>
    /\ label = "decide" => Alone(asked, results) \/ Stocked(asked, results)
    /\ label \in {"save_escalated", "ask_escalation"} => escalated /\ Stocked(asked, results)
    /\ label \in {"finish", "count_resolved"} => Whole(asked, results, escalated)
    /\ label \in {"count", "ask_specialist", "ask_inventory", "decide"} => ~escalated
ResultsFit == \A r \in Run : Fits(run[r].pc, intent, run[r].results, Log(r).escalated)

\* A closed row names the run that closed it; a resolved one says what that run, which
\* gets no more results, was answered.
RowHonest ==
    row # None =>
        /\ row.status = "failed" => row.error \in Run
        /\ row.status = "resolved" =>
            /\ row.final \in Run /\ row.error = None
            /\ run[row.final].pc \in {"count_resolved", "save_error", "stuck"} \cup Over
            /\ LET results == run[row.final].results IN
               /\ Whole(intent, results, row.escalated)
               /\ row.agents = AgentsOf(results)
               /\ row.last = results[Len(results)].agent

\* Runs that do not overlap have the row to themselves: it stays as it was started
\* over until the run closes it, or has lost its connection.
Blank == row.final = None /\ row.agents = <<>>
SerialRow ==
    ~overlap =>
        /\ \A q, r \in Run : Begun(q) /\ Begun(r) => q = r
        /\ \A r \in Run : Reopened(r) /\ run[r].db = "up" =>
               row.status \in OpenStatus /\ row.error = None /\ Blank
        /\ row # None /\ row.status = "failed" => Blank

\* Without overlap a run that asks finds its entry, as nobody else pops it.
Registered == ~overlap => ~jammed /\ \A r \in Run : run[r].pc \in Asking => entry

\* An open row has a run that owes it an end, or one that could not give it.
Owed ==
    /\ faults = 0 => \A r \in Run : run[r].db = "up"
    /\ row # None /\ row.status \in OpenStatus =>
           (\E r \in Run : Owes(r)) \/ (faults > 0 /\ \E r \in Run : Broken(r) \/ At(r, "stuck"))

\* The runs that CountersBalance counts are finitely many, whatever Run is.
Underway == {r \in Run : run[r].pc \in InFlight}
Balance == IsFiniteSet(Underway) /\ CountersBalance

PipelineInv ==
    /\ TypeOK /\ RowThere /\ ResultsFit /\ RowHonest
    /\ SerialRow /\ Registered /\ Owed /\ Balance
====
