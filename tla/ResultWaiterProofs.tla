---- MODULE ResultWaiterProofs ----
(***************************************************************************)
(* Proofs about ResultWaiter, for any runs, conversations, agents, copies  *)
(* and circumstances.                                                      *)
(***************************************************************************)
EXTENDS ResultWaiter, SequenceTheorems, TLAPS

LEMMA InitInv == Init => WaiterInv
<1> SUFFICES ASSUME Init PROVE WaiterInv
  OBVIOUS
<1> USE WaiterAssumption, NamesApart DEF Init
<1>1. TypeOK
  BY DEF TypeOK, RunLabel, Waiting, Ended, ConLabel, Ticket
<1>2. ConversationsApart /\ NoLeakedWaiter /\ ProcessedWasHandled
  BY DEF ConversationsApart, NoLeakedWaiter, ProcessedWasHandled
<1>3. LockHonest /\ EntriesApart /\ EntryKept
  BY DEF LockHonest, EntriesApart, EntryKept, At, Live, Paired, Registered, Waiting
<1>4. InHand /\ FromAgents
  BY DEF InHand, FromAgents
<1>5. HandledOnce
  BY DEF HandledOnce, Handling
<1>6. ReadsTaken /\ LegsInOrder
  BY DEF ReadsTaken, LegsInOrder, At, Ticket
<1> QED BY <1>1, <1>2, <1>3, <1>4, <1>5, <1>6 DEF WaiterInv

----------------------------------------------------------------------------

\* What a setting gives.
LEMMA SettingType ==
    ASSUME TypeOK
    PROVE  /\ ConvOf \in [Run -> Conv] /\ setting.legs \in 1 .. MaxLegs
           /\ setting.faults \in Nat /\ setting.timeouts \in Nat
BY WaiterAssumption DEF TypeOK, ConvOf

\* What a run's own step is: it leaves the other runs, the consumer, the results
\* and the bounds alone, and changes its own record to one of the same shape.
RunState == [pc : RunLabel, leg : 1 .. MaxLegs, pair : Ticket \cup {None},
             got : Ticket \cup {None}, outcome : {"none", "resolved", "timeout", "error"}]

LEMMA TwoFields ==
    ASSUME run \in [Run -> RunState], NEW r \in Run, NEW p \in RunLabel,
           NEW t \in Ticket \cup {None}, NEW o \in {"none", "resolved", "timeout", "error"}
    PROVE  /\ [run EXCEPT ![r].pc = p, ![r].pair = t] \in [Run -> RunState]
           /\ [run EXCEPT ![r].pc = p, ![r].got = t] \in [Run -> RunState]
           /\ [run EXCEPT ![r].pc = p, ![r].outcome = o] \in [Run -> RunState]
<1>1. /\ [run[r] EXCEPT !.pc = p, !.pair = t] \in RunState
      /\ [run[r] EXCEPT !.pc = p, !.got = t] \in RunState
      /\ [run[r] EXCEPT !.pc = p, !.outcome = o] \in RunState
  <2>1. run[r] \in RunState
    OBVIOUS
  <2> QED BY <2>1 DEF RunState
<1>2. /\ [run EXCEPT ![r].pc = p, ![r].pair = t]
            = [run EXCEPT ![r] = [run[r] EXCEPT !.pc = p, !.pair = t]]
      /\ [run EXCEPT ![r].pc = p, ![r].got = t]
            = [run EXCEPT ![r] = [run[r] EXCEPT !.pc = p, !.got = t]]
      /\ [run EXCEPT ![r].pc = p, ![r].outcome = o]
            = [run EXCEPT ![r] = [run[r] EXCEPT !.pc = p, !.outcome = o]]
  BY Zenon
<1> QED BY <1>1, <1>2, Zenon

LEMMA RunTypeStep ==
    ASSUME TypeOK, EntriesApart, NEW r \in Run, StartRun(r) \/ RunStep(r) \/ Timeout(r)
    PROVE  run' \in [Run -> RunState]
<1>1. /\ run \in [Run -> RunState]
      /\ registry[ConvOf[r]] \in Ticket \cup {None}
      /\ stored[ConvOf[r]] \in Ticket \cup {None}
      /\ At(r, "copy") => Dict(r) \in Ticket \cup {None}
  BY SettingType DEF TypeOK, RunState, EntriesApart, Paired, Waiting, At, Dict
<1>2. {"register", "publish", "loop", "returned", "cleanup"} \subseteq RunLabel
  BY DEF RunLabel, Waiting
<1>3. CASE \E p \in RunLabel : Goto(r, p)
  BY <1>1, <1>3 DEF Goto, RunState
<1>4. ASSUME NEW p \in RunLabel, NEW t \in Ticket \cup {None},
             run' = [run EXCEPT ![r].pc = p, ![r].pair = t]
      PROVE  run' \in [Run -> RunState]
  BY <1>1, <1>4, TwoFields, Zenon
<1>5. ASSUME NEW p \in RunLabel, NEW t \in Ticket \cup {None},
             run' = [run EXCEPT ![r].pc = p, ![r].got = t]
      PROVE  run' \in [Run -> RunState]
  BY <1>1, <1>5, TwoFields, Zenon
<1>6. ASSUME NEW p \in RunLabel, NEW o \in {"timeout", "error", "resolved"},
             run' = [run EXCEPT ![r].pc = p, ![r].outcome = o]
      PROVE  run' \in [Run -> RunState]
  BY <1>1, <1>6, TwoFields, Zenon
<1>7. CASE NextLeg(r)
  <2>1. run[r].leg \in 1 .. MaxLegs /\ run[r].leg + 1 \in 1 .. MaxLegs
    BY <1>1, <1>7, SettingType, WaiterAssumption DEF NextLeg, MoreAgents, RunState
  <2> QED BY <1>1, <1>2, <1>7, <2>1 DEF NextLeg, RunState
<1>8. CASE \/ StartRun(r) \/ ClearTrace(r) \/ ClearResult(r) \/ Register(r) \/ Unregister(r)
           \/ EventWait(r) \/ EventClear(r) \/ IfStore(r) \/ MatchAgent(r) \/ Discard(r)
  BY <1>3, <1>8
  DEF StartRun, ClearTrace, ClearResult, Register, Unregister, EventWait, EventClear,
      IfStore, MatchAgent, Discard, RunLabel, Waiting, Ended
<1>9. CASE Publish(r) \/ Timeout(r) \/ Resolve(r)
  BY <1>3, <1>6, <1>9 DEF Publish, Timeout, Resolve, RunLabel, Waiting
<1>10. CASE Lookup(r)
  BY <1>1, <1>3, <1>4, <1>10 DEF Lookup, RunLabel, Waiting
<1>11. CASE CopyStore(r) \/ Poll(r)
  BY <1>1, <1>3, <1>5, <1>11 DEF CopyStore, Poll, RunLabel, Waiting
<1> QED BY <1>7, <1>8, <1>9, <1>10, <1>11 DEF RunStep

\* What a run's step does to its record: the other runs keep theirs, and leg, pair
\* and got change only where NextLeg, Lookup, CopyStore and Poll assign them.
SameFields(r) ==
    /\ run'[r].leg = run[r].leg /\ run'[r].pair = run[r].pair /\ run'[r].got = run[r].got

LEMMA RunMoves ==
    ASSUME run \in [Run -> RunState], NEW r \in Run
    PROVE  /\ StartRun(r) =>
                run'[r].pc \in {"clearing", "register"} /\ SameFields(r)
           /\ ClearTrace(r) => run'[r].pc \in {"clearing_result", "register"} /\ SameFields(r)
           /\ ClearResult(r) => run'[r].pc = "register" /\ SameFields(r)
           /\ Register(r) => run'[r].pc = "publish" /\ SameFields(r)
           /\ Publish(r) => run'[r].pc \in {"lookup", "cleanup"} /\ SameFields(r)
           /\ Lookup(r) =>
                /\ run'[r].leg = run[r].leg /\ run'[r].got = run[r].got
                /\ IF registry[ConvOf[r]] # None
                   THEN run'[r].pc = "loop" /\ run'[r].pair = registry[ConvOf[r]]
                   ELSE run'[r].pc = "reregister" /\ run'[r].pair = run[r].pair
           /\ Timeout(r) => run'[r].pc = "cleanup" /\ SameFields(r)
           /\ EventWait(r) => run'[r].pc \in {"woken", "slice_over"} /\ SameFields(r)
           /\ EventClear(r) => run'[r].pc = "woken_if_store" /\ SameFields(r)
           /\ IfStore(r) => run'[r].pc \in {"woken_match", "slice_match", "poll"} /\ SameFields(r)
           /\ MatchAgent(r) =>
                /\ run'[r].pc \in {"copy", "discard", "poll"} /\ SameFields(r)
                /\ run'[r].pc = "copy" => Matches(r, Dict(r))
           /\ CopyStore(r) =>
                /\ run'[r].leg = run[r].leg /\ run'[r].pair = run[r].pair
                /\ run'[r].got = Dict(r) /\ run'[r].pc = "returned"
           /\ Discard(r) => run'[r].pc = "poll" /\ SameFields(r)
           /\ Poll(r) =>
                /\ run'[r].leg = run[r].leg /\ run'[r].pair = run[r].pair
                /\ \/ /\ run'[r].got = stored[ConvOf[r]] /\ run'[r].pc = "returned"
                      /\ Matches(r, stored[ConvOf[r]])
                   \/ run'[r].pc = "loop" /\ run'[r].got = run[r].got
           /\ NextLeg(r) =>
                /\ run'[r].pair = run[r].pair /\ run'[r].got = run[r].got
                /\ run'[r].leg = run[r].leg + 1 /\ run'[r].pc = "register"
           /\ Resolve(r) => run'[r].pc = "cleanup" /\ SameFields(r)
           /\ Unregister(r) => run'[r].pc = "done" /\ SameFields(r)
BY DEF RunState, Goto, SameFields, At, StartRun, ClearTrace, ClearResult, Register, Publish,
       Lookup, Timeout, EventWait, EventClear, IfStore, MatchAgent, CopyStore, Discard, Poll,
       NextLeg, Resolve, Unregister

LEMMA OthersStay ==
    ASSUME run \in [Run -> RunState], NEW r \in Run, StartRun(r) \/ RunStep(r) \/ Timeout(r)
    PROVE  /\ \A q \in Run : q # r => run'[q] = run[q]
           /\ UNCHANGED <<con, handled, sent, results, old, dropped, processed, expired, setting,
                         faults>>
<1> USE DEF RunState, Goto, RunStep, outside, waiters, queues, redis, bounds
<1>1. \A q \in Run : q # r => run'[q] = run[q]
  BY DEF StartRun, ClearTrace, ClearResult, Register, Publish,
       Lookup, Timeout, EventWait, EventClear, IfStore, MatchAgent, CopyStore, Discard, Poll,
       NextLeg, Resolve, Unregister
<1>2. UNCHANGED <<con, handled, sent, results, old, dropped, processed, expired, setting,
                         faults>>
  BY DEF StartRun, ClearTrace, ClearResult, Register, Publish,
       Lookup, Timeout, EventWait, EventClear, IfStore, MatchAgent, CopyStore, Discard, Poll,
       NextLeg, Resolve, Unregister
<1> QED BY <1>1, <1>2

\* A restart ends the runs under way.
LEMMA RestartRecord ==
    ASSUME run \in [Run -> RunState], Restart
    PROVE  /\ run' \in [Run -> RunState]
           /\ \A r \in Run :
                 IF run[r].pc \in {"new", "done"} THEN run'[r] = run[r]
                 ELSE /\ run'[r].pc = "dead" /\ SameFields(r)
<1> SUFFICES ASSUME NEW r \in Run
             PROVE  /\ run'[r] \in RunState
                    /\ IF run[r].pc \in {"new", "done"} THEN run'[r] = run[r]
                       ELSE run'[r].pc = "dead" /\ SameFields(r)
  <2>1. run' = [r \in Run |-> run'[r]]
    BY Zenon DEF Restart
  <2> QED BY <2>1, Zenon
<1>1. run[r] \in RunState
  OBVIOUS
<1>2. CASE run[r].pc \in {"new", "done"}
  <2>1. run'[r] = run[r]
    BY <1>2, Zenon DEF Restart
  <2> QED BY <1>1, <1>2, <2>1
<1>3. CASE run[r].pc \notin {"new", "done"}
  <2>1. run'[r] = [run[r] EXCEPT !.pc = "dead"]
    BY <1>3, Zenon DEF Restart
  <2> QED BY <1>1, <1>3, <2>1 DEF RunState, RunLabel, Ended, SameFields
<1> QED BY <1>2, <1>3

\* What a run's step does to the state it shares with others.
LEMMA RunEffects ==
    ASSUME NEW r \in Run, StartRun(r) \/ RunStep(r) \/ Timeout(r)
    PROVE  /\ \/ UNCHANGED registry
              \/ At(r, "register") /\ lock = None /\ Add(r)
              \/ run[r].pc \in {"returned", "cleanup"} /\ lock = None /\ Pop(r)
           /\ \/ UNCHANGED dict
              \/ At(r, "discard") /\ dict' = [dict EXCEPT ![run[r].pair] = None]
           /\ tasks' = tasks \/ (At(r, "publish") /\ tasks' = tasks \cup {Mine(r)})
           /\ stored' = stored \/ stored' = [stored EXCEPT ![ConvOf[r]] = None]
           /\ \/ UNCHANGED trace
              \/ trace' = [t \in Ticket |->
                             IF ConvOfTicket(t) = ConvOf[r] THEN 0 ELSE trace[t]]
           /\ \/ UNCHANGED timeouts
              \/ timeouts < setting.timeouts /\ timeouts' = timeouts + 1
<1> USE DEF RunStep, StartRun, ClearTrace, ClearResult, Register, Publish, Lookup, Timeout,
            EventWait, EventClear, IfStore, MatchAgent, CopyStore, Discard, Poll, NextLeg,
            Resolve, Unregister, outside, waiters, queues, redis, bounds
<1>1. /\ \/ UNCHANGED registry
         \/ At(r, "register") /\ lock = None /\ Add(r)
         \/ run[r].pc \in {"returned", "cleanup"} /\ lock = None /\ Pop(r)
      /\ \/ UNCHANGED dict
         \/ At(r, "discard") /\ dict' = [dict EXCEPT ![run[r].pair] = None]
  BY DEF At
<1>2. /\ tasks' = tasks \/ (At(r, "publish") /\ tasks' = tasks \cup {Mine(r)})
      /\ stored' = stored \/ stored' = [stored EXCEPT ![ConvOf[r]] = None]
  OBVIOUS
<1>3. /\ \/ UNCHANGED trace
         \/ trace' = [t \in Ticket |->
                        IF ConvOfTicket(t) = ConvOf[r] THEN 0 ELSE trace[t]]
      /\ \/ UNCHANGED timeouts
         \/ timeouts < setting.timeouts /\ timeouts' = timeouts + 1
  OBVIOUS
<1> QED BY <1>1, <1>2, <1>3

\* The consumer thread: its record, and what it leaves alone.
ConState == [pc : ConLabel, msg : Ticket \cup {None}]

LEMMA ConMoves ==
    ASSUME con \in ConState, NEW from, NEW to \in ConLabel, ConGoto(from, to)
    PROVE  con.pc = from /\ con'.pc = to /\ con'.msg = con.msg /\ con' \in ConState
BY DEF ConState, ConGoto

LEMMA ConFrame ==
    ConsumerThread => UNCHANGED <<run, registry, tasks, sent, expired, setting, faults, timeouts>>
BY DEF ConsumerThread, Connect, DeclareQueue, Receive, CheckProcessed, StoreResult, AppendTrace,
    NotifyClear,
       NotifyUpdate, NotifySet, MarkProcessed, AckResult, waiters, queues, redis, bounds

\* An expiring Redis key takes a stored result, or the mark of a processed one, away.
Expiry == (\E c \in Conv : ExpireResult(c)) \/ (\E t \in Ticket : ExpireProcessed(t))

LEMMA ExpiryFacts ==
    ASSUME TypeOK, Expiry
    PROVE  /\ UNCHANGED <<run, lock, registry, event, dict, con, handled, tasks, sent, results, old,
                         dropped, trace, setting, faults, timeouts>>
           /\ processed' \subseteq processed
           /\ stored' \in [Conv -> Ticket \cup {None}] /\ expired' \in [Ticket -> Nat]
           /\ \A c \in Conv : stored'[c] \in {stored[c], None}
           /\ \A t \in Ticket : t \in processed \ processed' => expired'[t] = expired[t] + 1
           /\ \A t \in Ticket : expired'[t] >= expired[t]
           /\ Remembered => UNCHANGED processed
<1>0. stored \in [Conv -> Ticket \cup {None}] /\ expired \in [Ticket -> Nat]
  BY DEF TypeOK
<1>1. ASSUME NEW c \in Conv, ExpireResult(c)
      PROVE  /\ UNCHANGED <<processed, expired>> /\ stored' \in [Conv -> Ticket \cup {None}]
             /\ \A d \in Conv : stored'[d] \in {stored[d], None}
             /\ \A t \in Ticket : expired'[t] >= expired[t]
  BY <1>0, <1>1 DEF ExpireResult
<1>2. ASSUME NEW u \in Ticket, ExpireProcessed(u)
      PROVE  /\ processed' \subseteq processed /\ expired' \in [Ticket -> Nat] /\ UNCHANGED stored
             /\ \A t \in Ticket : t \in processed \ processed' => expired'[t] = expired[t] + 1
             /\ \A t \in Ticket : expired'[t] >= expired[t]
             /\ ~Remembered
  BY <1>0, <1>2 DEF ExpireProcessed, Remembered
<1>3. UNCHANGED <<run, lock, registry, event, dict, con, handled, tasks, sent, results, old,
                  dropped, trace, setting, faults, timeouts>>
  BY DEF Expiry, ExpireResult, ExpireProcessed, waiters, queues, bounds
<1> QED BY <1>0, <1>1, <1>2, <1>3 DEF Expiry

\* The broker takes a message back in front of the queue.
LEMMA RequeueFacts ==
    ASSUME results \in Seq(Ticket), con.msg \in Ticket \cup {None}, Requeue
    PROVE  /\ results' \in Seq(Ticket)
           /\ con.msg # None => \E i \in DOMAIN results' : results'[i] = con.msg
           /\ \A i \in DOMAIN results : \E j \in DOMAIN results' : results'[j] = results[i]
           /\ \A i \in DOMAIN results' :
                 \/ con.msg # None /\ results'[i] = con.msg
                 \/ \E j \in DOMAIN results : results'[i] = results[j]
<1>1. CASE con.msg = None
  BY <1>1 DEF Requeue
<1>2. CASE con.msg # None
  <2>1. <<con.msg>> \in Seq(Ticket) /\ Len(<<con.msg>>) = 1 /\ <<con.msg>>[1] = con.msg
    BY <1>2
  <2>2. results' = <<con.msg>> \o results
    BY <1>2 DEF Requeue
  <2>3. /\ results' \in Seq(Ticket) /\ Len(results') = 1 + Len(results)
        /\ \A i \in 1 .. Len(results') :
              results'[i] = IF i <= 1 THEN con.msg ELSE results[i - 1]
    BY <2>1, <2>2
  <2>4. results'[1] = con.msg
    BY <2>3
  <2>5. \A i \in DOMAIN results : i + 1 \in DOMAIN results' /\ results'[i + 1] = results[i]
    BY <2>3
  <2>6. ASSUME NEW i \in DOMAIN results', i # 1
        PROVE  i - 1 \in DOMAIN results /\ results'[i] = results[i - 1]
    <3>1. i \in Nat /\ 2 <= i /\ i <= 1 + Len(results) /\ Len(results) \in Nat
      BY <2>3, <2>6
    <3>2. i - 1 \in DOMAIN results /\ i \in 1 .. Len(results') /\ ~(i <= 1)
      BY <2>3, <3>1
    <3> QED BY <2>3, <3>2
  <2>7. 1 \in DOMAIN results'
    BY <2>3
  <2>8. ASSUME NEW i \in DOMAIN results'
        PROVE  \/ con.msg # None /\ results'[i] = con.msg
               \/ \E j \in DOMAIN results : results'[i] = results[j]
    BY <1>2, <2>4, <2>6, Zenon
  <2>9. ASSUME NEW i \in DOMAIN results
        PROVE  \E j \in DOMAIN results' : results'[j] = results[i]
    BY <2>5, Zenon
  <2> QED BY <2>3, <2>4, <2>7, <2>8, <2>9, Zenon
<1> QED BY <1>1, <1>2

\* Receive takes the first message, AgentAnswers appends one.
LEMMA SendFacts ==
    ASSUME results \in Seq(Ticket), NEW t \in Ticket, results' = Append(results, t)
    PROVE  /\ results' \in Seq(Ticket)
           /\ \E i \in DOMAIN results' : results'[i] = t
           /\ \A i \in DOMAIN results : i \in DOMAIN results' /\ results'[i] = results[i]
           /\ \A i \in DOMAIN results' :
                 results'[i] = t \/ (i \in DOMAIN results /\ results'[i] = results[i])
<1>1. /\ results' \in Seq(Ticket) /\ Len(results') = Len(results) + 1 /\ Len(results) \in Nat
      /\ results'[Len(results) + 1] = t
      /\ \A i \in 1 .. Len(results) : results'[i] = results[i]
  BY AppendProperties
<1>2. Len(results) + 1 \in DOMAIN results'
  BY <1>1
<1>3. \A i \in DOMAIN results : i \in DOMAIN results' /\ results'[i] = results[i]
  BY <1>1
<1>4. ASSUME NEW i \in DOMAIN results', i # Len(results) + 1
      PROVE  i \in DOMAIN results
  BY <1>1, <1>4
<1> QED BY <1>1, <1>2, <1>3, <1>4

LEMMA ReceiveFacts ==
    ASSUME results \in Seq(Ticket), results # <<>>, results' = Tail(results)
    PROVE  /\ results' \in Seq(Ticket) /\ Head(results) \in Ticket
           /\ \E i \in DOMAIN results : results[i] = Head(results)
           /\ \A i \in DOMAIN results :
                 results[i] = Head(results) \/ \E j \in DOMAIN results' : results'[j] = results[i]
           /\ \A j \in DOMAIN results' : \E i \in DOMAIN results : results'[j] = results[i]
<1>1. /\ results' \in Seq(Ticket) /\ Head(results) \in Ticket /\ Len(results') = Len(results) - 1
      /\ \A j \in 1 .. Len(results') : results'[j] = results[j + 1]
      /\ Len(results) \in Nat /\ Len(results) > 0
      /\ Head(results) = results[1]
  BY HeadTailProperties
<1>2. 1 \in DOMAIN results
  BY <1>1
<1>3. ASSUME NEW i \in DOMAIN results, i # 1
      PROVE  i - 1 \in DOMAIN results' /\ results'[i - 1] = results[i]
  BY <1>1, <1>3
<1>4. ASSUME NEW j \in DOMAIN results'
      PROVE  j + 1 \in DOMAIN results /\ results'[j] = results[j + 1]
  BY <1>1, <1>4
<1> QED BY <1>1, <1>2, <1>3, <1>4

----------------------------------------------------------------------------

\* Type correctness.
LEMMA TypeStep == WaiterInv /\ [Next]_vars => TypeOK'
<1> SUFFICES ASSUME WaiterInv, [Next]_vars PROVE TypeOK'
  OBVIOUS
<1>0. TypeOK /\ EntriesApart /\ InHand /\ LockHonest
  BY DEF WaiterInv
<1>r. run \in [Run -> RunState]
  BY <1>0 DEF TypeOK, RunState
<1>c. con \in ConState /\ results \in Seq(Ticket)
  BY <1>0 DEF TypeOK, ConState
<1>e. registry \in [Conv -> Ticket \cup {None}] /\ dict \in [Ticket -> Ticket \cup {None}]
  BY <1>0 DEF TypeOK
<1>q. tasks \cup handled \cup processed \cup dropped \subseteq Ticket
  BY <1>0 DEF TypeOK
<1>s. stored \in [Conv -> Ticket \cup {None}] /\ trace \in [Ticket -> Nat]
  BY <1>0 DEF TypeOK
<1>b. /\ timeouts \in 0 .. setting.timeouts /\ setting.timeouts \in Nat
      /\ setting \in Settings /\ setting.faults \in Nat /\ ConvOf \in [Run -> Conv]
  BY <1>0, SettingType DEF TypeOK
<1>v. \A t \in Ticket : ConvOfTicket(t) \in Conv
  BY <1>b DEF Ticket, ConvOfTicket
<1>1. CASE UNCHANGED vars
  BY <1>0, <1>1 DEF vars, waiters, outside, queues, redis, bounds, TypeOK
<1>2. ASSUME NEW r \in Run, StartRun(r) \/ RunStep(r) \/ Timeout(r) PROVE TypeOK'
  <2>1. /\ run' \in [Run -> RunState]
        /\ UNCHANGED <<con, handled, sent, results, old, dropped, processed, expired, setting,
                         faults>>
    BY <1>0, <1>r, <1>2, RunTypeStep, OthersStay
  <2>2. Mine(r) \in Ticket /\ ConvOf[r] \in Conv
        /\ (run[r].pc \in Paired => run[r].pair \in Ticket)
    BY <1>0, <1>r, <1>b DEF RunState, Mine, Ticket, EntriesApart
  <2>3. lock' \in Run \cup {None, "consumer"} /\ event' \subseteq Ticket
    BY <1>0, <1>2, <2>2
    DEF TypeOK, RunStep, StartRun, ClearTrace, ClearResult, Register, Publish, Lookup, Timeout,
        EventWait, EventClear, IfStore, MatchAgent, CopyStore, Discard, Poll, NextLeg, Resolve,
        Unregister, outside, waiters, Add, Pop, Paired, Waiting, At
  <2>4. registry' \in [Conv -> Ticket \cup {None}]
    BY <1>e, <1>2, <2>2, RunEffects DEF Add, Pop
  <2>5. dict' \in [Ticket -> Ticket \cup {None}]
    BY <1>e, <1>2, RunEffects
  <2>6. tasks' \subseteq Ticket /\ stored' \in [Conv -> Ticket \cup {None}]
    BY <1>q, <1>s, <1>2, <2>2, RunEffects
  <2>7. trace' \in [Ticket -> Nat]
    BY <1>s, <1>2, RunEffects
  <2>8. timeouts' \in 0 .. setting.timeouts
    BY <1>b, <1>2, RunEffects
  <2> QED BY <1>0, <2>1, <2>3, <2>4, <2>5, <2>6, <2>7, <2>8 DEF TypeOK, RunState
<1>3. ASSUME NEW t \in Ticket, AgentAnswers(t) PROVE TypeOK'
  <2>0. sent \in [Ticket -> 0 .. MaxCopies] /\ sent[t] \in Nat /\ sent[t] + 1 \in 0 .. MaxCopies
    <3>1. sent \in [Ticket -> 0 .. MaxCopies]
      BY <1>0 DEF TypeOK
    <3>2. sent[t] < setting.copies /\ t \in Ticket
      BY <1>3 DEF AgentAnswers
    <3>3. setting.copies \in 0 .. MaxCopies /\ MaxCopies \in Nat
      BY <1>b, WaiterAssumption
    <3> QED BY <3>1, <3>2, <3>3
  <2>a. results' = Append(results, t) /\ sent' = [sent EXCEPT ![t] = @ + 1]
    BY <1>3 DEF AgentAnswers
  <2>b. results' \in Seq(Ticket)
    BY <1>c, <2>a, SendFacts
  <2>1. results' \in Seq(Ticket) /\ sent' \in [Ticket -> 0 .. MaxCopies]
    BY <2>0, <2>a, <2>b
  <2> QED BY <1>0, <1>3, <2>1 DEF AgentAnswers, waiters, redis, bounds, TypeOK
<1>4. ASSUME ConsumerThread PROVE TypeOK'
  <2>0. /\ con.pc \in ConLabel \ {"offline", "idle"} => con.msg \in Ticket
        /\ con.pc \in {"update", "set"} => registry[ConvOfTicket(con.msg)] \in Ticket
    BY <1>0, <1>c, <1>e, <1>v DEF ConState, InHand, LockHonest, TypeOK
  <2>c. CASE Connect
    <3>1. con' \in ConState
      BY <1>c, <2>c, ConMoves DEF Connect, DeclareQueue, ConLabel
    <3>2. results' \in Seq(Ticket)
      BY <1>c, <2>c, EmptySeq, Zenon DEF Connect, DeclareQueue
    <3>3. old' \in {FALSE, setting.old}
      BY <2>c, Zenon DEF Connect, DeclareQueue
    <3>4. \A i \in DOMAIN results : results[i] \in Ticket
      BY <1>c
    <3>5. dropped' \subseteq Ticket
      BY <1>q, <2>c, <3>4 DEF Connect, DeclareQueue
    <3> QED
      BY <1>0, <2>c, <3>1, <3>2, <3>3, <3>5
      DEF Connect, DeclareQueue, waiters, redis, bounds, TypeOK, ConState
  <2>d. ASSUME ~Connect
        PROVE  con' \in ConState /\ results' \in Seq(Ticket) /\ UNCHANGED <<old, dropped>>
    <3>1. con' \in ConState /\ results' \in Seq(Ticket)
      <4>a. CASE Receive
        <5>1. /\ results # <<>> /\ results' = Tail(results)
              /\ con' = [pc |-> "check", msg |-> Head(results)]
          BY <4>a DEF Receive
        <5>2. results' \in Seq(Ticket) /\ Head(results) \in Ticket
          BY <1>c, <5>1, ReceiveFacts
        <5> QED BY <5>1, <5>2 DEF ConState, ConLabel
      <4>b. CASE AckResult
        BY <1>c, <4>b DEF AckResult, queues, ConState, ConLabel
      <4>c. CASE \/ CheckProcessed \/ StoreResult \/ AppendTrace \/ NotifyClear
                 \/ NotifyUpdate \/ NotifySet \/ MarkProcessed
        <5>1. UNCHANGED results
          BY <4>c DEF CheckProcessed, StoreResult, AppendTrace, NotifyClear, NotifyUpdate,
                      NotifySet, MarkProcessed, queues
        <5>2. \E from, to \in ConLabel : ConGoto(from, to)
          BY <4>c DEF CheckProcessed, StoreResult, AppendTrace, NotifyClear, NotifyUpdate,
                      NotifySet, MarkProcessed, ConLabel
        <5>3. PICK from, to \in ConLabel : ConGoto(from, to)
          BY <5>2
        <5> QED BY <1>c, <5>1, <5>3, ConMoves
      <4> QED BY <1>4, <2>d, <4>a, <4>b, <4>c DEF ConsumerThread
    <3>2. UNCHANGED <<old, dropped>>
      BY <1>4, <2>d
      DEF ConsumerThread, Receive, CheckProcessed, StoreResult, AppendTrace, NotifyClear,
          NotifyUpdate, NotifySet, MarkProcessed, AckResult, queues
    <3> QED BY <3>1, <3>2
  <2>2. /\ lock' \in Run \cup {None, "consumer"}
        /\ event' \subseteq Ticket /\ dict' \in [Ticket -> Ticket \cup {None}]
    BY <1>0, <1>e, <1>v, <1>4, <2>0
    DEF ConsumerThread, Connect, DeclareQueue, Receive, CheckProcessed, StoreResult,
        AppendTrace, NotifyClear,
        NotifyUpdate, NotifySet, MarkProcessed, AckResult, waiters, TypeOK, ConGoto, ConLabel
  <2>3. handled' \cup processed' \subseteq Ticket
    BY <1>q, <1>4, <2>0
    DEF ConsumerThread, Connect, DeclareQueue, Receive, CheckProcessed, StoreResult,
        AppendTrace, NotifyClear,
        NotifyUpdate, NotifySet, MarkProcessed, AckResult, redis, ConGoto, ConLabel
  <2>4. stored' \in [Conv -> Ticket \cup {None}]
    BY <1>s, <1>v, <1>4, <2>0
    DEF ConsumerThread, Connect, DeclareQueue, Receive, CheckProcessed, StoreResult,
        AppendTrace, NotifyClear,
        NotifyUpdate, NotifySet, MarkProcessed, AckResult, redis, ConGoto, ConLabel, PutResult
  <2>5. trace' \in [Ticket -> Nat]
    BY <1>s, <1>4, <2>0
    DEF ConsumerThread, Connect, DeclareQueue, Receive, CheckProcessed, StoreResult,
        AppendTrace, NotifyClear,
        NotifyUpdate, NotifySet, MarkProcessed, AckResult, redis, ConGoto, ConLabel
  <2> QED BY <1>0, <1>4, <2>c, <2>d, <2>2, <2>3, <2>4, <2>5, ConFrame DEF TypeOK, ConState
<1>5. ASSUME LoseConsumer PROVE TypeOK'
  <2>1. results' \in Seq(Ticket)
    BY <1>c, <1>5, RequeueFacts DEF LoseConsumer, ConState
  <2>2. con' \in ConState /\ faults' \in 0 .. setting.faults
    BY <1>0, <1>b, <1>5 DEF LoseConsumer, ConLabel, ConState, TypeOK
  <2>3. UNCHANGED <<run, lock, registry, event, dict, handled, tasks, sent, old, dropped, stored,
                    processed, trace, expired, setting, timeouts>>
    BY <1>5 DEF LoseConsumer, waiters, redis
  <2> QED BY <1>0, <2>1, <2>2, <2>3 DEF TypeOK, ConState
<1>6. ASSUME Restart PROVE TypeOK'
  <2>1. results' \in Seq(Ticket)
    BY <1>c, <1>6, RequeueFacts DEF Restart, ConState
  <2>2. run' \in [Run -> RunState]
    BY <1>r, <1>6, RestartRecord
  <2>3. con' \in ConState /\ faults' \in 0 .. setting.faults
    BY <1>0, <1>b, <1>6 DEF Restart, ConLabel, ConState, TypeOK
  <2>4. /\ lock' = None /\ event' = {} /\ registry' \in [Conv -> Ticket \cup {None}]
        /\ dict' \in [Ticket -> Ticket \cup {None}]
        /\ UNCHANGED <<handled, tasks, sent, old, dropped, stored, processed, trace, expired, setting,
                      timeouts>>
    BY <1>6 DEF Restart, redis
  <2> QED BY <1>0, <2>1, <2>2, <2>3, <2>4 DEF TypeOK, ConState, RunState
<1>7. CASE Expiry
  BY <1>0, <1>7, ExpiryFacts DEF TypeOK
<1> QED BY <1>1, <1>2, <1>3, <1>4, <1>5, <1>6, <1>7 DEF Next, Expiry

LEMMA SettingStays == [Next]_vars => UNCHANGED setting
<1> USE DEF outside, queues, redis, bounds, waiters
<1>1. ASSUME NEW r \in Run, StartRun(r) \/ RunStep(r) \/ Timeout(r) PROVE UNCHANGED setting
  BY <1>1
  DEF RunStep, StartRun, ClearTrace, ClearResult, Register, Publish, Lookup, Timeout,
      EventWait, EventClear, IfStore, MatchAgent, CopyStore, Discard, Poll, NextLeg, Resolve,
      Unregister
<1> QED
  BY <1>1, ConFrame
  DEF Next, vars, AgentAnswers, LoseConsumer, Restart, ExpireResult, ExpireProcessed

\* Only Lookup takes the lock and keeps it, and then the run is stuck.
LEMMA LockMoves ==
    ASSUME run \in [Run -> RunState], NEW r \in Run, StartRun(r) \/ RunStep(r) \/ Timeout(r)
    PROVE  /\ ~At(r, "reregister")
           /\ \/ UNCHANGED lock /\ run'[r].pc # "reregister"
              \/ /\ At(r, "lookup") /\ registry[ConvOf[r]] = None
                 /\ lock = None /\ lock' = r /\ run'[r].pc = "reregister"
<1> USE DEF RunStep, waiters, outside, At
<1>1. CASE Lookup(r)
  BY <1>1, RunMoves DEF Lookup
<1>2. CASE ~Lookup(r)
  <2>1. ~At(r, "reregister") /\ UNCHANGED lock
    BY <1>2
    DEF StartRun, ClearTrace, ClearResult, Register, Publish, Timeout,
        EventWait, EventClear, IfStore, MatchAgent, CopyStore, Discard, Poll, NextLeg, Resolve,
        Unregister
  <2> QED BY <1>2, <2>1, RunMoves
<1> QED BY <1>1, <1>2

LEMMA LockStep == WaiterInv /\ [Next]_vars => LockHonest'
<1> SUFFICES ASSUME WaiterInv, [Next]_vars PROVE LockHonest'
  OBVIOUS
<1>0. TypeOK /\ LockHonest /\ run \in [Run -> RunState] /\ con \in ConState
  BY DEF WaiterInv, TypeOK, RunState, ConState
<1> USE NamesApart
<1>1. CASE UNCHANGED vars
  BY <1>0, <1>1 DEF vars, waiters, outside, queues, redis, bounds, LockHonest, At, ConvOfTicket, ConvOf
<1>2. ASSUME NEW r \in Run, StartRun(r) \/ RunStep(r) \/ Timeout(r) PROVE LockHonest'
  <2>1. UNCHANGED <<con, setting>> /\ \A q \in Run : q # r => run'[q] = run[q]
    BY <1>0, <1>2, OthersStay
  <2>2. con.pc \in {"update", "set"} => UNCHANGED registry
    BY <1>0, <1>2, RunEffects DEF LockHonest
  <2>3. lock' = "consumer" <=> con'.pc \in {"update", "set"}
    BY <1>0, <1>2, <2>1, LockMoves DEF LockHonest
  <2>4. \A q \in Run : lock' = q <=> run'[q].pc = "reregister"
    BY <1>0, <1>2, <2>1, LockMoves DEF LockHonest, At
  <2> QED BY <1>0, <2>1, <2>2, <2>3, <2>4 DEF LockHonest, At, ConvOfTicket, ConvOf
<1>3. ASSUME NEW t \in Ticket, AgentAnswers(t) PROVE LockHonest'
  BY <1>0, <1>3 DEF AgentAnswers, waiters, bounds, LockHonest, At, ConvOfTicket, ConvOf
<1>4. ASSUME ConsumerThread PROVE LockHonest'
  <2>1. UNCHANGED <<run, registry, setting>>
    BY <1>4, ConFrame
  <2>2. /\ lock' = "consumer" <=> con'.pc \in {"update", "set"}
        /\ con'.pc \in {"update", "set"} =>
             con'.msg = con.msg /\ registry[ConvOfTicket(con.msg)] # None
        /\ lock = "consumer" \/ lock = None \/ lock' = lock
        /\ lock' \in {"consumer", None, lock}
    BY <1>0, <1>4, ConMoves
    DEF ConsumerThread, Connect, DeclareQueue, Receive, CheckProcessed, StoreResult,
        AppendTrace, NotifyClear,
        NotifyUpdate, NotifySet, MarkProcessed, AckResult, waiters, LockHonest, ConState, ConLabel
  <2> QED BY <1>0, <2>1, <2>2 DEF LockHonest, At, ConvOfTicket, ConvOf
<1>5. ASSUME LoseConsumer PROVE LockHonest'
  BY <1>0, <1>5 DEF LoseConsumer, LockHonest, waiters, At
<1>6. ASSUME Restart PROVE LockHonest'
  BY <1>0, <1>6, RestartRecord DEF Restart, LockHonest, At
<1>7. CASE Expiry
  BY <1>0, <1>7, ExpiryFacts DEF LockHonest, At, ConvOfTicket, ConvOf
<1> QED BY <1>1, <1>2, <1>3, <1>4, <1>5, <1>6, <1>7 DEF Next, Expiry

\* Where a run's leg, pair and result come from, and how it comes to be waiting.
LEMMA FieldMoves ==
    ASSUME run \in [Run -> RunState], NEW r \in Run, StartRun(r) \/ RunStep(r) \/ Timeout(r)
    PROVE  /\ \/ run'[r].leg = run[r].leg
              \/ /\ At(r, "returned") /\ run'[r].pc = "register" /\ MoreAgents(r)
                 /\ run'[r].leg = run[r].leg + 1
           /\ \/ run'[r].pair = run[r].pair /\ (run'[r].pc \in Paired => run[r].pc \in Paired)
              \/ /\ At(r, "lookup") /\ run'[r].pc = "loop" /\ registry[ConvOf[r]] # None
                 /\ run'[r].pair = registry[ConvOf[r]]
           /\ \/ run'[r].got = run[r].got /\ run'[r].pc # "returned"
              \/ At(r, "copy") /\ run'[r].pc = "returned" /\ run'[r].got = Dict(r)
              \/ /\ At(r, "poll") /\ run'[r].pc = "returned" /\ RedisWorks
                 /\ Matches(r, stored[ConvOf[r]]) /\ run'[r].got = stored[ConvOf[r]]
           /\ run'[r].pc = "copy" => run[r].pc \in {"woken_match", "slice_match"} /\ Matches(r, Dict(r))
<1> USE RunMoves DEF RunStep, At, SameFields, Paired, Waiting
<1>1. CASE Lookup(r)
  BY <1>1 DEF Lookup
<1>2. CASE CopyStore(r)
  BY <1>2 DEF CopyStore
<1>3. CASE Poll(r)
  BY <1>3 DEF Poll, Goto, RunState
<1>4. CASE NextLeg(r)
  BY <1>4 DEF NextLeg
<1>5. CASE EventWait(r) \/ EventClear(r) \/ IfStore(r) \/ MatchAgent(r) \/ Discard(r)
  BY <1>5 DEF EventWait, EventClear, IfStore, MatchAgent, Discard
<1>6. CASE \/ StartRun(r) \/ ClearTrace(r) \/ ClearResult(r) \/ Register(r) \/ Publish(r)
           \/ Timeout(r) \/ Resolve(r) \/ Unregister(r)
  BY <1>6
<1> QED BY <1>1, <1>2, <1>3, <1>4, <1>5, <1>6

LEMMA ApartStep == WaiterInv /\ [Next]_vars => EntriesApart' /\ ConversationsApart'
<1> SUFFICES ASSUME WaiterInv, [Next]_vars PROVE EntriesApart' /\ ConversationsApart'
  OBVIOUS
<1>0. EntriesApart /\ ConversationsApart /\ LockHonest /\ InHand
  BY DEF WaiterInv
<1>r. run \in [Run -> RunState] /\ con \in ConState
  BY DEF WaiterInv, TypeOK, RunState, ConState
<1>e. /\ registry \in [Conv -> Ticket \cup {None}] /\ dict \in [Ticket -> Ticket \cup {None}]
      /\ stored \in [Conv -> Ticket \cup {None}] /\ ConvOf \in [Run -> Conv]
  BY SettingType DEF WaiterInv, TypeOK
<1>s. ConvOf' = ConvOf /\ \A t : ConvOfTicket(t)' = ConvOfTicket(t)
  BY SettingStays DEF ConvOf, ConvOfTicket
<1>1. CASE UNCHANGED vars
  BY <1>0, <1>1 DEF vars, waiters, outside, queues, redis, bounds, EntriesApart,
                    ConversationsApart, At, ConvOfTicket, ConvOf
<1>2. ASSUME NEW r \in Run, StartRun(r) \/ RunStep(r) \/ Timeout(r)
      PROVE  EntriesApart' /\ ConversationsApart'
  <2>1. \A q \in Run : q # r => run'[q] = run[q]
    BY <1>r, <1>2, OthersStay
  <2>2. Mine(r) \in Ticket /\ ConvOfTicket(Mine(r)) = ConvOf[r] /\ ConvOf[r] \in Conv
        /\ run[r].pair \in Ticket \cup {None}
    BY <1>r, <1>e DEF Mine, RunState, Ticket, ConvOfTicket
  <2>3. \A c \in Conv : registry'[c] # None => ConvOfTicket(registry'[c]) = c
    BY <1>0, <1>e, <1>2, <2>2, RunEffects DEF EntriesApart, Add, Pop
  <2>4. \A t \in Ticket : dict'[t] # None => ConvOfTicket(dict'[t]) = ConvOfTicket(t)
    BY <1>0, <1>e, <1>2, RunEffects DEF EntriesApart
  <2>5. \A c \in Conv : stored'[c] # None => ConvOfTicket(stored'[c]) = c
    BY <1>0, <1>e, <1>2, RunEffects DEF ConversationsApart
  <2>6. /\ run'[r].pc \in Paired => run'[r].pair # None
        /\ run'[r].pair # None => ConvOfTicket(run'[r].pair) = ConvOf[r]
    BY <1>0, <1>r, <1>2, <2>2, FieldMoves DEF EntriesApart
  <2>7. run'[r].got # None => ConvOfTicket(run'[r].got) = ConvOf[r]
    BY <1>0, <1>r, <1>2, <2>2, FieldMoves
    DEF EntriesApart, ConversationsApart, Dict, At, Paired, Waiting
  <2>8. \A q \in Run : /\ run'[q].pc \in Paired => run'[q].pair # None
                       /\ run'[q].pair # None => ConvOfTicket(run'[q].pair) = ConvOf[q]
                       /\ run'[q].got # None => ConvOfTicket(run'[q].got) = ConvOf[q]
    BY <1>0, <2>1, <2>6, <2>7 DEF EntriesApart, ConversationsApart
  <2> QED BY <1>s, <2>3, <2>4, <2>5, <2>8 DEF EntriesApart, ConversationsApart
<1>3. ASSUME NEW t \in Ticket, AgentAnswers(t) PROVE EntriesApart' /\ ConversationsApart'
  BY <1>0, <1>s, <1>3 DEF AgentAnswers, waiters, redis, EntriesApart, ConversationsApart
<1>4. ASSUME ConsumerThread PROVE EntriesApart' /\ ConversationsApart'
  <2>1. UNCHANGED <<run, registry>>
    BY <1>4, ConFrame
  <2>2. con.msg # None => con.msg \in Ticket /\ ConvOfTicket(con.msg) \in Conv
    BY <1>r, <1>e DEF ConState, Ticket, ConvOfTicket
  <2>3. \A t \in Ticket : dict'[t] # None => ConvOfTicket(dict'[t]) = ConvOfTicket(t)
    BY <1>0, <1>e, <1>4, <2>2
    DEF ConsumerThread, Connect, DeclareQueue, Receive, CheckProcessed, StoreResult,
        AppendTrace, NotifyClear,
        NotifyUpdate, NotifySet, MarkProcessed, AckResult, waiters, EntriesApart, ConGoto,
        LockHonest, InHand
  <2>4. \A c \in Conv : stored'[c] # None => ConvOfTicket(stored'[c]) = c
    BY <1>0, <1>e, <1>4, <2>2
    DEF ConsumerThread, Connect, DeclareQueue, Receive, CheckProcessed, StoreResult,
        AppendTrace, NotifyClear,
        NotifyUpdate, NotifySet, MarkProcessed, AckResult, redis, ConversationsApart, ConGoto,
        PutResult, InHand
  <2> QED BY <1>0, <1>s, <2>1, <2>3, <2>4 DEF EntriesApart, ConversationsApart
<1>5. ASSUME LoseConsumer PROVE EntriesApart' /\ ConversationsApart'
  BY <1>0, <1>s, <1>5 DEF LoseConsumer, EntriesApart, ConversationsApart, waiters, redis
<1>6. ASSUME Restart PROVE EntriesApart' /\ ConversationsApart'
  <2>1. \A r \in Run : /\ run'[r].pair = run[r].pair /\ run'[r].got = run[r].got
                       /\ run'[r].pc \notin Paired
    BY <1>r, <1>6, RestartRecord DEF SameFields, Paired, Waiting
  <2>2. /\ \A c \in Conv : registry'[c] = None
        /\ \A t \in Ticket : dict'[t] = None
        /\ stored' = stored
    BY <1>6 DEF Restart, redis
  <2> QED BY <1>0, <1>s, <2>1, <2>2 DEF EntriesApart, ConversationsApart
<1>7. CASE Expiry
  <2>1. /\ UNCHANGED <<run, registry, dict>>
        /\ \A c \in Conv : stored'[c] \in {stored[c], None}
    BY <1>7, ExpiryFacts DEF WaiterInv
  <2> QED BY <1>0, <1>s, <2>1 DEF EntriesApart, ConversationsApart
<1> QED BY <1>1, <1>2, <1>3, <1>4, <1>5, <1>6, <1>7 DEF Next, Expiry

\* A run ends by popping the entry of its conversation.
LEMMA EndMoves ==
    ASSUME run \in [Run -> RunState], NEW r \in Run, StartRun(r) \/ RunStep(r) \/ Timeout(r)
    PROVE  /\ run[r].pc \notin Ended
           /\ run'[r].pc \in Ended => Pop(r)
<1> USE RunMoves DEF RunStep, At, Ended
<1>1. CASE Unregister(r)
  BY <1>1 DEF Unregister
<1>2. CASE Lookup(r)
  BY <1>2 DEF Lookup
<1>3. CASE \/ StartRun(r) \/ ClearTrace(r) \/ ClearResult(r) \/ Register(r) \/ Publish(r)
           \/ Timeout(r) \/ Resolve(r) \/ EventWait(r) \/ EventClear(r) \/ IfStore(r)
           \/ MatchAgent(r) \/ Discard(r) \/ CopyStore(r) \/ Poll(r) \/ NextLeg(r)
  <2>1. run'[r].pc \notin Ended
    BY <1>3
  <2>2. run[r].pc \notin Ended
    BY <1>3
    DEF StartRun, ClearTrace, ClearResult, Register, Publish, Timeout, Resolve, EventWait,
        EventClear, IfStore, MatchAgent, Discard, CopyStore, Poll, NextLeg
  <2> QED BY <2>1, <2>2
<1> QED BY <1>1, <1>2, <1>3

LEMMA LeakStep == WaiterInv /\ [Next]_vars => NoLeakedWaiter'
<1> SUFFICES ASSUME WaiterInv, [Next]_vars PROVE NoLeakedWaiter'
  OBVIOUS
<1>0. EntriesApart /\ NoLeakedWaiter
  BY DEF WaiterInv
<1>r. run \in [Run -> RunState]
  BY DEF WaiterInv, TypeOK, RunState
<1>e. /\ registry \in [Conv -> Ticket \cup {None}] /\ ConvOf \in [Run -> Conv]
  BY SettingType DEF WaiterInv, TypeOK
<1>1. CASE UNCHANGED vars
  BY <1>0, <1>1 DEF vars, waiters, NoLeakedWaiter
<1>2. ASSUME NEW r \in Run, StartRun(r) \/ RunStep(r) \/ Timeout(r) PROVE NoLeakedWaiter'
  <2> SUFFICES ASSUME NEW c \in Conv, registry'[c] # None
               PROVE  run'[registry'[c][1]].pc \notin Ended
    BY DEF NoLeakedWaiter
  <2>1. \A q \in Run : q # r => run'[q] = run[q]
    BY <1>r, <1>2, OthersStay
  <2>2. /\ ConvOf[r] \in Conv /\ Mine(r)[1] = r /\ Mine(r) # None
        /\ registry[c] # None => registry[c][1] \in Run
    BY <1>r, <1>e, NamesApart DEF Mine, RunState, Ticket
  <2>3. CASE registry'[c] = registry[c]
    <3>1. run[registry[c][1]].pc \notin Ended
      BY <1>0, <2>3 DEF NoLeakedWaiter
    <3>2. CASE registry[c][1] # r
      BY <2>1, <2>2, <2>3, <3>1, <3>2
    <3>3. CASE registry[c][1] = r
      <4>1. ConvOf[r] = c
        BY <1>0, <2>3, <3>3 DEF EntriesApart, ConvOfTicket
      <4>2. ~Pop(r)
        BY <1>e, <2>3, <4>1 DEF Pop
      <4> QED BY <1>r, <1>2, <2>3, <3>3, <4>2, EndMoves
    <3> QED BY <3>2, <3>3
  <2>4. CASE registry'[c] # registry[c]
    <3>1. Add(r) /\ At(r, "register") /\ registry'[c] = Mine(r)
      BY <1>e, <1>2, <2>2, <2>4, RunEffects DEF Add, Pop
    <3>2. ~Pop(r)
      BY <1>e, <2>2, <2>4, <3>1 DEF Add, Pop
    <3> QED BY <1>r, <1>2, <2>2, <3>1, <3>2, EndMoves
  <2> QED BY <2>3, <2>4
<1>3. ASSUME NEW t \in Ticket, AgentAnswers(t) PROVE NoLeakedWaiter'
  BY <1>0, <1>3 DEF AgentAnswers, waiters, NoLeakedWaiter
<1>4. ASSUME ConsumerThread PROVE NoLeakedWaiter'
  BY <1>0, <1>4, ConFrame DEF NoLeakedWaiter
<1>5. ASSUME LoseConsumer PROVE NoLeakedWaiter'
  BY <1>0, <1>5 DEF LoseConsumer, waiters, NoLeakedWaiter
<1>6. ASSUME Restart PROVE NoLeakedWaiter'
  BY <1>6 DEF Restart, NoLeakedWaiter
<1>7. CASE Expiry
  BY <1>0, <1>7, ExpiryFacts DEF WaiterInv, NoLeakedWaiter
<1> QED BY <1>1, <1>2, <1>3, <1>4, <1>5, <1>6, <1>7 DEF Next, Expiry

\* A run comes to life only by StartRun, and keeps the entry it has until its end.
LEMMA EntryMoves ==
    ASSUME run \in [Run -> RunState], NEW r \in Run, StartRun(r) \/ RunStep(r) \/ Timeout(r)
    PROVE  /\ Live(r) \/ (StartRun(r) /\ UNCHANGED registry)
           /\ run'[r].pc \in Registered =>
                 \/ run[r].pc \in Registered /\ UNCHANGED registry /\ run'[r].leg = run[r].leg
                 \/ Add(r) /\ run'[r].leg = run[r].leg
           /\ run'[r].pc \in Paired =>
                 \/ run[r].pc \in Paired /\ run'[r].pair = run[r].pair /\ run'[r].leg = run[r].leg
                 \/ /\ At(r, "lookup") /\ run'[r].pair = registry[ConvOf[r]]
                    /\ run'[r].leg = run[r].leg
<1> USE RunMoves DEF RunStep, At, SameFields, Paired, Registered, Waiting, Live, Ended, waiters,
                     outside
<1>1. CASE Lookup(r)
  BY <1>1 DEF Lookup
<1>2. CASE CopyStore(r)
  BY <1>2 DEF CopyStore
<1>3. CASE Poll(r)
  BY <1>3 DEF Poll
<1>4. CASE NextLeg(r)
  BY <1>4 DEF NextLeg
<1>5. CASE EventWait(r) \/ EventClear(r) \/ IfStore(r) \/ MatchAgent(r) \/ Discard(r)
  BY <1>5 DEF EventWait, EventClear, IfStore, MatchAgent, Discard
<1>6. CASE ClearTrace(r) \/ ClearResult(r) \/ Publish(r) \/ Timeout(r) \/ Resolve(r) \/ Unregister(r)
  BY <1>6 DEF ClearTrace, ClearResult, Publish, Timeout, Resolve, Unregister
<1>7. CASE StartRun(r)
  BY <1>7 DEF StartRun
<1>8. CASE Register(r)
  BY <1>8 DEF Register
<1> QED BY <1>1, <1>2, <1>3, <1>4, <1>5, <1>6, <1>7, <1>8

LEMMA KeptStep == WaiterInv /\ [Next]_vars => EntryKept'
<1> SUFFICES ASSUME WaiterInv, [Next]_vars PROVE EntryKept'
  OBVIOUS
<1>0. EntryKept
  BY DEF WaiterInv
<1>r. run \in [Run -> RunState]
  BY DEF WaiterInv, TypeOK, RunState
<1>e. /\ registry \in [Conv -> Ticket \cup {None}] /\ ConvOf \in [Run -> Conv]
  BY SettingType DEF WaiterInv, TypeOK
<1>s. ConvOf' = ConvOf /\ \A q \in Run : Siblings(q)' = Siblings(q) /\ Serial(q)' = Serial(q)
  BY SettingStays DEF ConvOf, Siblings, Serial
<1>1. CASE UNCHANGED vars
  BY <1>0, <1>1, <1>s DEF vars, waiters, EntryKept, At, Live, Mine
<1>2. ASSUME NEW r \in Run, StartRun(r) \/ RunStep(r) \/ Timeout(r) PROVE EntryKept'
  <2>1. \A q \in Run : q # r => run'[q] = run[q]
    BY <1>r, <1>2, OthersStay
  <2>2. /\ ConvOf[r] \in Conv /\ Mine(r) # None
        /\ \A c \in Conv : c # ConvOf[r] => registry'[c] = registry[c]
        /\ Add(r) => registry'[ConvOf[r]] = Mine(r)
    BY <1>r, <1>e, <1>2, NamesApart, RunEffects DEF Mine, RunState, Ticket, Add, Pop
  <2>3. ASSUME NEW q \in Run, Serial(q), q # r, Live(q)
        PROVE  ConvOf[q] # ConvOf[r]
    <3>1. CASE Live(r)
      BY <1>0, <2>3, <3>1 DEF EntryKept, Siblings
    <3>2. CASE StartRun(r)
      BY <2>3, <3>2 DEF StartRun, Siblings, Serial, Live
    <3> QED BY <1>r, <1>2, <3>1, <3>2, EntryMoves
  <2>4. ASSUME NEW q \in Run, Serial(q), q # r
        PROVE  /\ Live(q)' => \A p \in Siblings(q) : ~Live(p)'
               /\ run'[q].pc \in Registered => registry'[ConvOf[q]] = Mine(q)'
               /\ run'[q].pc \in Paired => run'[q].pair = Mine(q)'
               /\ ~At(q, "reregister")'
    <3>1. run'[q] = run[q] /\ Mine(q)' = Mine(q) /\ ConvOf[q] \in Conv
      BY <1>e, <2>1, <2>4 DEF Mine
    <3>2. CASE Live(q)
      <4>1. registry'[ConvOf[q]] = registry[ConvOf[q]] /\ r \notin Siblings(q)
        BY <2>2, <2>3, <2>4, <3>1, <3>2 DEF Siblings
      <4>2. \A p \in Siblings(q) : run'[p] = run[p]
        BY <2>1, <4>1 DEF Siblings
      <4> QED BY <1>0, <2>4, <3>1, <3>2, <4>1, <4>2 DEF EntryKept, Live, At
    <3>3. CASE ~Live(q)
      BY <1>0, <2>4, <3>1, <3>3 DEF EntryKept, Live, At, Registered, Paired, Waiting, Ended
    <3> QED BY <3>2, <3>3
  <2>5. ASSUME Serial(r)
        PROVE  /\ Live(r)' => \A p \in Siblings(r) : ~Live(p)'
               /\ run'[r].pc \in Registered => registry'[ConvOf[r]] = Mine(r)'
               /\ run'[r].pc \in Paired => run'[r].pair = Mine(r)'
               /\ ~At(r, "reregister")'
    <3>1. \A p \in Siblings(r) : ~Live(p)
      <4>1. CASE Live(r)
        BY <1>0, <2>5, <4>1 DEF EntryKept
      <4>2. CASE StartRun(r)
        BY <2>5, <4>2 DEF StartRun, Serial, Live
      <4> QED BY <1>r, <1>2, <4>1, <4>2, EntryMoves
    <3>2. \A p \in Siblings(r) : run'[p] = run[p]
      BY <2>1 DEF Siblings
    <3>3. /\ run[r].pc \in Registered => registry[ConvOf[r]] = Mine(r)
          /\ run[r].pc \in Paired => run[r].pair = Mine(r)
      BY <1>0, <2>5 DEF EntryKept
    <3>4. run'[r].leg = run[r].leg => Mine(r)' = Mine(r)
      BY DEF Mine
    <3>5. run'[r].pc \in Registered => registry'[ConvOf[r]] = Mine(r)'
      BY <1>r, <1>2, <2>2, <3>3, <3>4, EntryMoves
    <3>6. At(r, "lookup") => registry[ConvOf[r]] = Mine(r)
      BY <3>3 DEF At, Registered, Waiting
    <3>7. run'[r].pc \in Paired => run'[r].pair = Mine(r)'
      BY <1>r, <1>2, <3>3, <3>4, <3>6, EntryMoves
    <3>8. run'[r].pc # "reregister"
      BY <1>r, <1>2, <2>2, <3>6, LockMoves DEF At
    <3> QED BY <3>1, <3>2, <3>5, <3>7, <3>8 DEF Live, At
  <2> QED BY <1>s, <2>4, <2>5 DEF EntryKept
<1>3. ASSUME UNCHANGED <<run, registry>> PROVE EntryKept'
  BY <1>0, <1>s, <1>3 DEF EntryKept, At, Live, Mine
<1>4. ASSUME NEW t \in Ticket, AgentAnswers(t) PROVE EntryKept'
  BY <1>3, <1>4 DEF AgentAnswers, waiters
<1>5. ASSUME ConsumerThread PROVE EntryKept'
  BY <1>3, <1>5, ConFrame
<1>6. ASSUME LoseConsumer PROVE EntryKept'
  BY <1>3, <1>6 DEF LoseConsumer, waiters
<1>7. ASSUME Restart PROVE EntryKept'
  <2>1. \A r \in Run : run'[r].pc \in {"new", "done", "dead"}
    BY <1>r, <1>7, RestartRecord
  <2> QED BY <2>1 DEF EntryKept, At, Live, Registered, Paired, Waiting, Ended
<1>8. CASE Expiry
  BY <1>3, <1>8, ExpiryFacts DEF WaiterInv
<1> QED BY <1>1, <1>2, <1>4, <1>5, <1>6, <1>7, <1>8 DEF Next, Expiry

\* Nothing sent is lost before it was handled.
LEMMA HandStep == WaiterInv /\ [Next]_vars => InHand' /\ ProcessedWasHandled'
<1> SUFFICES ASSUME WaiterInv, [Next]_vars PROVE InHand' /\ ProcessedWasHandled'
  OBVIOUS
<1>0. InHand /\ ProcessedWasHandled
  BY DEF WaiterInv
<1>r. run \in [Run -> RunState] /\ tasks \subseteq Ticket
  BY DEF WaiterInv, TypeOK, RunState
<1>c. con \in ConState /\ results \in Seq(Ticket) /\ sent \in [Ticket -> Nat]
  BY WaiterAssumption DEF WaiterInv, TypeOK, ConState
<1>s. UNCHANGED setting
  BY SettingStays
<1> DEFINE Kept(t) == \/ t \in handled \/ con.msg = t \/ (\E i \in DOMAIN results : results[i] = t)
                      \/ setting.old /\ t \in dropped
<1>p. ASSUME /\ processed' \subseteq handled' /\ (con'.pc = "ack" => con'.msg \in handled')
             /\ \A t \in Ticket : sent'[t] > 0 => Kept(t)'
      PROVE  ProcessedWasHandled'
  BY <1>p DEF ProcessedWasHandled
<1>k. /\ processed \subseteq handled /\ (con.pc = "ack" => con.msg \in handled)
      /\ \A t \in Ticket : sent[t] > 0 => Kept(t)
  BY <1>0 DEF ProcessedWasHandled
<1>1. CASE UNCHANGED vars
  BY <1>0, <1>1 DEF vars, outside, queues, redis, bounds, InHand, ProcessedWasHandled, At
<1>2. ASSUME NEW r \in Run, StartRun(r) \/ RunStep(r) \/ Timeout(r)
      PROVE  InHand' /\ ProcessedWasHandled'
  <2>1. /\ UNCHANGED <<con, handled, sent, results, dropped, processed>>
        /\ \A q \in Run : q # r => run'[q] = run[q]
    BY <1>r, <1>2, OthersStay
  <2>2. tasks' = tasks \/ (At(r, "publish") /\ tasks' = tasks \cup {Mine(r)})
    BY <1>2, RunEffects
  <2>3. /\ run[r].leg \in Nat
        /\ run'[r].leg = run[r].leg \/ (At(r, "returned") /\ run'[r].leg = run[r].leg + 1)
    BY <1>r, <1>2, FieldMoves, WaiterAssumption DEF RunState
  <2>4. ASSUME NEW t \in tasks'
        PROVE  t[2] <= run'[t[1]].leg /\ run'[t[1]].pc # "new"
    <3>0. run'[r].pc # "new"
      BY <1>r, <1>2, RunMoves DEF RunStep
    <3>1. CASE t \in tasks
      <4>1. t[2] <= run[t[1]].leg /\ t[1] \in Run /\ t[2] \in Nat /\ run[t[1]].pc # "new"
        BY <1>0, <1>r, <3>1, WaiterAssumption DEF InHand, Ticket, At
      <4>2. run'[t[1]].leg = run[t[1]].leg \/ (t[1] = r /\ run'[r].leg = run[r].leg + 1)
        BY <2>1, <2>3, <4>1
      <4>3. run'[t[1]].pc # "new"
        BY <2>1, <3>0, <4>1
      <4> QED BY <2>3, <4>1, <4>2, <4>3
    <3>2. CASE t = Mine(r) /\ At(r, "publish")
      <4>1. run'[r].leg = run[r].leg
        BY <2>3, <3>2 DEF At
      <4> QED BY <2>3, <3>0, <3>2, <4>1 DEF Mine
    <3> QED BY <2>2, <3>1, <3>2
  <2>5. ProcessedWasHandled'
    BY <1>k, <1>p, <1>s, <2>1
  <2> QED BY <1>0, <2>1, <2>2, <2>4, <2>5 DEF InHand, At
<1>3. ASSUME NEW t \in Ticket, AgentAnswers(t) PROVE InHand' /\ ProcessedWasHandled'
  <2>1. /\ \E i \in DOMAIN results' : results'[i] = t
        /\ \A i \in DOMAIN results : i \in DOMAIN results' /\ results'[i] = results[i]
        /\ \A i \in DOMAIN results' :
              results'[i] = t \/ (i \in DOMAIN results /\ results'[i] = results[i])
    BY <1>c, <1>3, SendFacts DEF AgentAnswers
  <2>2. t \in tasks /\ \A u \in Ticket : u # t => sent'[u] = sent[u]
    BY <1>c, <1>3 DEF AgentAnswers
  <2>3. UNCHANGED <<run, con, handled, tasks, dropped, processed>>
    BY <1>3 DEF AgentAnswers, redis
  <2>4. InHand'
    BY <1>0, <2>1, <2>2, <2>3 DEF InHand, At
  <2>5. ProcessedWasHandled'
    BY <1>k, <1>p, <1>s, <2>1, <2>2, <2>3
  <2> QED BY <2>4, <2>5
<1>4. ASSUME ConsumerThread PROVE InHand' /\ ProcessedWasHandled'
  <2>1. UNCHANGED <<run, tasks, sent>>
    BY <1>4, ConFrame
  <2>0. CASE Connect
    <3>1. /\ con.msg = None /\ con'.msg = None /\ con'.pc = "idle"
          /\ UNCHANGED <<handled, processed>>
      BY <1>0, <1>c, <2>0, ConMoves DEF Connect, DeclareQueue, redis, InHand, ConLabel, ConState
    <3>2. CASE old
      <4>1. results' = <<>> /\ dropped' = dropped \cup {results[i] : i \in DOMAIN results}
        BY <2>0, <3>2 DEF Connect, DeclareQueue
      <4>2. DOMAIN results' = {}
        BY <4>1
      <4>3. setting.old
        BY <3>2 DEF WaiterInv, TypeOK
      <4>4. InHand'
        BY <1>0, <2>1, <3>1, <4>2, NamesApart DEF InHand, At
      <4>5. ProcessedWasHandled'
        BY <1>k, <1>p, <1>s, <2>1, <3>1, <4>1, <4>3, NamesApart
      <4> QED BY <4>4, <4>5
    <3>3. CASE ~old
      <4>1. UNCHANGED <<results, dropped>>
        BY <2>0, <3>3 DEF Connect, DeclareQueue
      <4>4. InHand'
        BY <1>0, <2>1, <3>1, <4>1, NamesApart DEF InHand, At
      <4>5. ProcessedWasHandled'
        BY <1>k, <1>p, <1>s, <2>1, <3>1, <4>1, NamesApart
      <4> QED BY <4>4, <4>5
    <3> QED BY <3>2, <3>3
  <2>2. CASE AckResult
    <3>1. /\ con'.msg = None /\ con'.pc = "idle"
          /\ con.msg = None \/ con.msg \in handled
          /\ UNCHANGED <<handled, results, dropped, processed>>
      BY <1>0, <1>c, <2>2, ConMoves
      DEF AckResult, queues, redis, InHand, ProcessedWasHandled, ConLabel, ConState
    <3>2. InHand'
      BY <1>0, <2>1, <3>1, NamesApart DEF InHand, At
    <3>3. ProcessedWasHandled'
      BY <1>k, <1>p, <1>s, <2>1, <3>1, NamesApart
    <3> QED BY <3>2, <3>3
  <2>3. CASE Receive
    <3>1. /\ con.msg = None /\ con'.msg = Head(results) /\ con'.pc = "check"
          /\ UNCHANGED <<handled, dropped, processed>>
      BY <1>0, <2>3 DEF Receive, InHand, redis
    <3>2. /\ Head(results) \in Ticket
          /\ \E i \in DOMAIN results : results[i] = Head(results)
          /\ \A i \in DOMAIN results :
                results[i] = Head(results) \/ \E j \in DOMAIN results' : results'[j] = results[i]
          /\ \A j \in DOMAIN results' : \E i \in DOMAIN results : results'[j] = results[i]
      BY <1>c, <2>3, ReceiveFacts DEF Receive
    <3>3. InHand'
      BY <1>0, <2>1, <3>1, <3>2, NamesApart DEF InHand, At
    <3>4. ProcessedWasHandled'
      BY <1>k, <1>p, <1>s, <2>1, <3>1, <3>2, NamesApart
    <3> QED BY <3>3, <3>4
  <2>4. CASE \/ CheckProcessed \/ StoreResult \/ AppendTrace \/ NotifyClear \/ NotifyUpdate
             \/ NotifySet \/ MarkProcessed
    <3>1. /\ con'.msg = con.msg /\ con.pc \notin {"offline", "idle"}
          /\ con'.pc \notin {"offline", "idle"} /\ UNCHANGED <<results, dropped>>
      BY <1>c, <2>4, ConMoves
      DEF CheckProcessed, StoreResult, AppendTrace, NotifyClear, NotifyUpdate, NotifySet,
          MarkProcessed, queues, ConLabel
    <3>2. /\ handled \subseteq handled'
          /\ con'.pc = "mark" => con.msg \in handled'
          /\ con'.pc = "ack" => con.msg \in handled
          /\ processed' \subseteq handled
      BY <1>0, <1>c, <2>4, ConMoves
      DEF CheckProcessed, StoreResult, AppendTrace, NotifyClear, NotifyUpdate, NotifySet,
          MarkProcessed, queues, redis, ConLabel, InHand, ProcessedWasHandled, Seen
    <3>3. InHand'
      BY <1>0, <2>1, <3>1, <3>2 DEF InHand, At
    <3>4. ProcessedWasHandled'
      BY <1>k, <1>p, <1>s, <2>1, <3>1, <3>2
    <3> QED BY <3>3, <3>4
  <2> QED BY <1>4, <2>0, <2>2, <2>3, <2>4 DEF ConsumerThread
<1>5. ASSUME LoseConsumer \/ Restart PROVE InHand' /\ ProcessedWasHandled'
  <2>1. /\ Requeue /\ con' = [pc |-> "offline", msg |-> None]
        /\ UNCHANGED <<handled, tasks, sent, dropped, processed>>
    BY <1>5 DEF LoseConsumer, Restart, redis
  <2>2. \A r \in Run : run'[r].leg = run[r].leg /\ (run'[r].pc = "new" => run[r].pc = "new")
    BY <1>r, <1>5, RestartRecord DEF LoseConsumer, SameFields
  <2>3. /\ con.msg # None => \E i \in DOMAIN results' : results'[i] = con.msg
        /\ \A i \in DOMAIN results : \E j \in DOMAIN results' : results'[j] = results[i]
        /\ \A i \in DOMAIN results' :
              \/ con.msg # None /\ results'[i] = con.msg
              \/ \E j \in DOMAIN results : results'[i] = results[j]
    BY <1>c, <2>1, RequeueFacts DEF ConState
  <2>4. InHand'
    BY <1>0, <1>r, <2>1, <2>2, <2>3 DEF InHand, Ticket, At
  <2>5. ProcessedWasHandled'
    BY <1>k, <1>p, <1>s, <2>1, <2>3, NamesApart
  <2> QED BY <2>4, <2>5
<1>6. CASE Expiry
  <2>1. /\ UNCHANGED <<run, con, handled, tasks, sent, results, dropped>>
        /\ processed' \subseteq processed
    BY <1>6, ExpiryFacts DEF WaiterInv
  <2>2. InHand'
    BY <1>0, <2>1 DEF InHand, At
  <2>3. ProcessedWasHandled'
    BY <1>k, <1>p, <1>s, <2>1
  <2> QED BY <2>2, <2>3
<1> QED BY <1>1, <1>2, <1>3, <1>4, <1>5, <1>6 DEF Next, Expiry

\* With Redis up no message is handled twice without a fault in between.
LEMMA OnceStep == WaiterInv /\ [Next]_vars => HandledOnce'
<1> SUFFICES ASSUME WaiterInv, [Next]_vars, RedisUp PROVE HandledOnce'
  BY SettingStays DEF HandledOnce, RedisUp
<1>0. HandledOnce /\ InHand /\ ~RedisFails
  BY DEF WaiterInv, RedisUp, RedisFails
<1>c. /\ con \in ConState /\ run \in [Run -> RunState]
      /\ trace \in [Ticket -> Nat] /\ expired \in [Ticket -> Nat]
      /\ faults \in Nat /\ setting.faults \in Nat
  <2>1. TypeOK
    BY DEF WaiterInv
  <2>2. setting.faults \in Nat
    BY <2>1, SettingType
  <2>3. faults \in Nat
    BY <2>1, <2>2 DEF TypeOK
  <2>4. con \in ConState /\ run \in [Run -> RunState]
    BY <2>1 DEF TypeOK, ConState, RunState
  <2>5. trace \in [Ticket -> Nat] /\ expired \in [Ticket -> Nat]
    BY <2>1 DEF TypeOK
  <2> QED BY <2>2, <2>3, <2>4, <2>5
<1> DEFINE Noted == {"notify", "update", "set", "mark"}
           Counted(t) == \/ trace[t] <= faults + expired[t]
                         \/ /\ trace[t] <= 1 + faults + expired[t]
                            /\ t \in processed \/ (con.msg = t /\ con.pc \in Noted)
<1>i. /\ con.pc \in Handling => con.msg \notin processed
      /\ \A t \in Ticket : Counted(t)
  BY <1>0 DEF HandledOnce
<1> SUFFICES /\ con'.pc \in Handling => con'.msg \notin processed'
             /\ \A t \in Ticket : Counted(t)'
  BY DEF HandledOnce
<1>1. CASE UNCHANGED <<trace, faults, processed, expired, con>>
  BY <1>i, <1>1
<1>2. ASSUME NEW r \in Run, StartRun(r) \/ RunStep(r) \/ Timeout(r)
      PROVE  /\ con'.pc \in Handling => con'.msg \notin processed'
             /\ \A t \in Ticket : Counted(t)'
  <2>1. UNCHANGED <<con, processed, expired, faults>>
    BY <1>c, <1>2, OthersStay
  <2>2. \A t \in Ticket : trace'[t] = trace[t] \/ trace'[t] = 0
    BY <1>c, <1>2, RunEffects
  <2>3. ASSUME NEW t \in Ticket PROVE Counted(t)'
    <3>1. trace[t] \in Nat /\ trace'[t] \in Nat /\ trace'[t] <= trace[t] /\ expired[t] \in Nat
      BY <1>c, <2>2
    <3> QED BY <1>i, <1>c, <2>1, <3>1
  <2> QED BY <1>i, <2>1, <2>3
<1>3. ASSUME ConsumerThread
      PROVE  /\ con'.pc \in Handling => con'.msg \notin processed'
             /\ \A t \in Ticket : Counted(t)'
  <2>1. UNCHANGED <<faults, expired>>
    BY <1>3, ConFrame
  <2> USE DEF Handling
  <2>2. CASE Connect \/ Receive \/ AckResult
    <3>1. con.pc \notin Noted /\ con'.pc \in {"idle", "check"} /\ UNCHANGED <<trace, processed>>
      BY <1>c, <2>2, ConMoves DEF Connect, DeclareQueue, Receive, AckResult, queues, redis, ConLabel
    <3> QED BY <1>i, <2>1, <3>1
  <2>3. CASE CheckProcessed
    <3>1. /\ con'.msg = con.msg /\ con.pc = "check" /\ UNCHANGED <<trace, processed>>
          /\ con'.pc = "ack" \/ (con'.pc = "store" /\ con.msg \notin processed)
      BY <1>0, <1>c, <2>3, ConMoves DEF CheckProcessed, Seen, redis, ConLabel
    <3> QED BY <1>i, <2>1, <3>1
  <2>4. CASE StoreResult
    <3>1. /\ con'.msg = con.msg /\ con.pc = "store" /\ con'.pc = "trace"
          /\ UNCHANGED <<trace, processed>>
      BY <1>c, <2>4, ConMoves DEF StoreResult, ConLabel
    <3> QED BY <1>i, <2>1, <3>1
  <2>5. CASE AppendTrace
    <3>1. /\ con'.msg = con.msg /\ con.pc = "trace" /\ con'.pc = "notify"
          /\ UNCHANGED processed /\ con.msg \in Ticket
          /\ trace' = [trace EXCEPT ![con.msg] = @ + 1]
      BY <1>0, <1>c, <2>5, ConMoves DEF AppendTrace, ConLabel, ConState, InHand
    <3>2. ASSUME NEW t \in Ticket PROVE Counted(t)'
      <4>1. /\ trace[t] \in Nat /\ trace'[t] = IF t = con.msg THEN trace[t] + 1 ELSE trace[t]
            /\ expired[t] \in Nat
        BY <1>c, <3>1
      <4>2. CASE t = con.msg
        <5>1. trace[t] <= faults + expired[t]
          BY <1>i, <3>1, <4>2
        <5> QED BY <1>c, <2>1, <3>1, <4>1, <4>2, <5>1
      <4>3. CASE t # con.msg
        BY <1>i, <2>1, <3>1, <4>1, <4>3
      <4> QED BY <4>2, <4>3
    <3> QED BY <1>i, <3>1, <3>2
  <2>6. CASE NotifyClear \/ NotifyUpdate \/ NotifySet
    <3>1. /\ con'.msg = con.msg /\ con.pc \in Noted /\ con'.pc \in Noted
          /\ UNCHANGED <<trace, processed>>
      BY <1>c, <2>6, ConMoves DEF NotifyClear, NotifyUpdate, NotifySet, redis, ConLabel
    <3> QED BY <1>i, <2>1, <3>1
  <2>7. CASE MarkProcessed
    <3>1. /\ con'.msg = con.msg /\ con.pc = "mark" /\ con'.pc = "ack"
          /\ UNCHANGED trace /\ processed' = processed \cup {con.msg}
      BY <1>0, <1>c, <2>7, ConMoves DEF MarkProcessed, ConLabel
    <3> QED BY <1>i, <2>1, <3>1
  <2> QED BY <1>3, <2>2, <2>3, <2>4, <2>5, <2>6, <2>7 DEF ConsumerThread
<1>4. ASSUME LoseConsumer \/ Restart
      PROVE  /\ con'.pc \in Handling => con'.msg \notin processed'
             /\ \A t \in Ticket : Counted(t)'
  <2>1. con'.pc = "offline" /\ faults' = faults + 1 /\ UNCHANGED <<trace, processed, expired>>
    BY <1>4 DEF LoseConsumer, Restart, redis
  <2>2. ASSUME NEW t \in Ticket PROVE Counted(t)'
    <3>1. trace[t] \in Nat /\ expired[t] \in Nat /\ trace[t] <= 1 + faults + expired[t]
      BY <1>c, <1>i
    <3> QED BY <1>c, <2>1, <3>1
  <2> QED BY <2>1, <2>2 DEF Handling
<1>5. ASSUME NEW t \in Ticket, AgentAnswers(t)
      PROVE  UNCHANGED <<trace, faults, processed, expired, con>>
  BY <1>5 DEF AgentAnswers, redis, bounds
<1>6. CASE UNCHANGED vars
  BY <1>1, <1>6 DEF vars, outside, queues, redis, bounds
<1>7. ASSUME Expiry
      PROVE  /\ con'.pc \in Handling => con'.msg \notin processed'
             /\ \A t \in Ticket : Counted(t)'
  <2>1. /\ UNCHANGED <<con, trace, faults>> /\ processed' \subseteq processed
        /\ expired' \in [Ticket -> Nat]
        /\ \A t \in Ticket : t \in processed \ processed' => expired'[t] = expired[t] + 1
        /\ \A t \in Ticket : expired'[t] >= expired[t]
    BY <1>7, ExpiryFacts DEF WaiterInv
  <2>2. ASSUME NEW t \in Ticket PROVE Counted(t)'
    <3>1. trace[t] \in Nat /\ expired[t] \in Nat /\ expired'[t] \in Nat
      BY <1>c, <2>1
    <3>2. CASE t \in processed \ processed'
      BY <1>c, <1>i, <2>1, <3>1, <3>2
    <3>3. CASE t \notin processed \ processed'
      BY <1>c, <1>i, <2>1, <3>1, <3>3
    <3> QED BY <3>2, <3>3
  <2> QED BY <1>i, <2>1, <2>2
<1> QED BY <1>1, <1>2, <1>3, <1>4, <1>5, <1>6, <1>7 DEF Next, Expiry

\* A run that has ended stays so.
LEMMA EndedStays ==
    ASSUME TypeOK, [Next]_vars, NEW r \in Run, Going(r)'
    PROVE  Going(r)
<1>0. run \in [Run -> RunState]
  BY DEF TypeOK, RunState
<1>1. ASSUME NEW q \in Run, StartRun(q) \/ RunStep(q) \/ Timeout(q) PROVE Going(r)
  BY <1>0, <1>1, EndMoves, OthersStay DEF Going
<1>2. CASE Restart
  BY <1>0, <1>2, RestartRecord DEF Going, Ended
<1>3. CASE UNCHANGED run
  BY <1>3 DEF Going
<1> QED
  BY <1>1, <1>2, <1>3, ConFrame, ExpiryFacts DEF Next, vars, AgentAnswers, LoseConsumer, Expiry

\* What was shown to a going run, or taken up by the consumer, remains so.
LEMMA TakenKept ==
    ASSUME WaiterInv, [Next]_vars, Steady, NEW t \in Ticket, Going(t[1])'
    PROVE  (Taken(t) => Taken(t)') /\ (Shown(t) => Shown(t)')
<1>0. TypeOK /\ InHand /\ ~RedisFails /\ Remembered
  BY DEF WaiterInv, Steady, RedisUp, RedisFails
<1>c. con \in ConState /\ run \in [Run -> RunState] /\ tasks \subseteq Ticket /\ t[1] \in Run
  BY DEF WaiterInv, TypeOK, ConState, RunState, Ticket
<1> USE DEF Taken, Shown, Handling
<1>1. CASE UNCHANGED <<con, processed>>
  BY <1>1
<1>2. ASSUME NEW r \in Run, StartRun(r) \/ RunStep(r) \/ Timeout(r) PROVE UNCHANGED <<con, processed>>
  BY <1>c, <1>2, OthersStay
<1>3. CASE ConsumerThread
  <2>1. CASE Connect \/ Receive \/ CheckProcessed \/ StoreResult \/ AckResult
    BY <1>c, <2>1, ConMoves
    DEF Connect, DeclareQueue, Receive, CheckProcessed, StoreResult, AckResult, redis, ConLabel
  <2>2. CASE AppendTrace \/ NotifyClear \/ NotifyUpdate \/ NotifySet
    BY <1>c, <2>2, ConMoves
    DEF AppendTrace, NotifyClear, NotifyUpdate, NotifySet, redis, ConLabel
  <2>3. CASE MarkProcessed
    BY <1>0, <1>c, <2>3, ConMoves DEF MarkProcessed, ConLabel
  <2> QED BY <1>3, <2>1, <2>2, <2>3 DEF ConsumerThread
<1>4. CASE LoseConsumer
  BY <1>4 DEF LoseConsumer, redis
<1>5. CASE Restart
  <2>1. run[t[1]].pc \in {"new", "done"}
    BY <1>c, <1>5, RestartRecord DEF Going, Ended
  <2>2. run[t[1]].pc = "new"
    BY <1>0, <1>c, <2>1, EndedStays DEF Going, Ended
  <2>3. con.msg # t
    BY <1>0, <1>c, <2>2, NamesApart DEF InHand, At
  <2> QED BY <1>5, <2>3 DEF Restart, redis
<1>6. ASSUME NEW u \in Ticket, AgentAnswers(u) PROVE UNCHANGED <<con, processed>>
  BY <1>6 DEF AgentAnswers, redis
<1>7. CASE UNCHANGED vars
  BY <1>1, <1>7 DEF vars, outside, redis
<1>8. CASE Expiry
  BY <1>0, <1>1, <1>8, ExpiryFacts
<1> QED BY <1>1, <1>2, <1>3, <1>4, <1>5, <1>6, <1>7, <1>8 DEF Next, Expiry

LEMMA ReadsStep == WaiterInv /\ [Next]_vars => ReadsTaken'
<1> SUFFICES ASSUME WaiterInv, [Next]_vars, Steady, NEW t \in Ticket, Going(t[1])'
             PROVE  /\ (\E u \in Ticket : dict'[u] = t) => Shown(t)'
                    /\ (\E c \in Conv : stored'[c] = t) => Taken(t)'
  BY SettingStays DEF ReadsTaken, Steady, RedisUp, Remembered
<1>0. TypeOK /\ ReadsTaken /\ LockHonest
  BY DEF WaiterInv
<1>c. con \in ConState /\ run \in [Run -> RunState] /\ t[1] \in Run /\ t # None
  BY NamesApart DEF WaiterInv, TypeOK, ConState, RunState, Ticket
<1>e. /\ dict \in [Ticket -> Ticket \cup {None}]
      /\ stored \in [Conv -> Ticket \cup {None}]
  BY DEF WaiterInv, TypeOK
<1>g. /\ (\E u \in Ticket : dict[u] = t) => Shown(t)
      /\ (\E c \in Conv : stored[c] = t) => Taken(t)
  BY <1>0, <1>c, EndedStays DEF ReadsTaken
<1>k. (Taken(t) => Taken(t)') /\ (Shown(t) => Shown(t)')
  BY TakenKept
<1>1. CASE /\ \A u \in Ticket : dict'[u] \in {dict[u], None}
           /\ \A c \in Conv : stored'[c] \in {stored[c], None}
  BY <1>c, <1>g, <1>k, <1>1
<1>2. ASSUME NEW r \in Run, StartRun(r) \/ RunStep(r) \/ Timeout(r)
      PROVE  /\ \A u \in Ticket : dict'[u] \in {dict[u], None}
             /\ \A c \in Conv : stored'[c] \in {stored[c], None}
  BY <1>e, <1>2, RunEffects
<1>3. CASE ConsumerThread
  <2>1. CASE NotifyUpdate
    <3>1. /\ \A u \in Ticket : dict'[u] \in {dict[u], con.msg}
          /\ con'.pc = "set" /\ con'.msg = con.msg /\ UNCHANGED stored
      BY <1>c, <1>e, <2>1, ConMoves DEF NotifyUpdate, redis, ConLabel
    <3> QED BY <1>c, <1>g, <1>k, <3>1 DEF Shown
  <2>2. CASE StoreResult
    <3>1. /\ \A c \in Conv : stored'[c] \in {stored[c], con.msg}
          /\ con'.pc = "trace" /\ con'.msg = con.msg /\ UNCHANGED dict
      BY <1>c, <1>e, <2>2, ConMoves DEF StoreResult, PutResult, waiters, ConLabel
    <3> QED BY <1>c, <1>g, <1>k, <3>1 DEF Taken, Handling
  <2>3. CASE \/ Connect \/ Receive \/ CheckProcessed \/ AppendTrace
             \/ NotifyClear \/ NotifySet \/ MarkProcessed \/ AckResult
    BY <1>e, <1>1, <2>3
    DEF Connect, DeclareQueue, Receive, CheckProcessed, AppendTrace, NotifyClear, NotifySet,
        MarkProcessed,
        AckResult, waiters, redis
  <2> QED BY <1>3, <2>1, <2>2, <2>3 DEF ConsumerThread
<1>4. CASE LoseConsumer \/ Restart
  BY <1>1, <1>4 DEF LoseConsumer, Restart, waiters, redis
<1>5. ASSUME NEW u \in Ticket, AgentAnswers(u) PROVE UNCHANGED <<dict, stored>>
  BY <1>5 DEF AgentAnswers, waiters, redis
<1>6. CASE UNCHANGED vars
  BY <1>1, <1>6 DEF vars, waiters, outside, redis
<1>7. CASE Expiry
  BY <1>0, <1>1, <1>7, ExpiryFacts
<1> QED BY <1>1, <1>2, <1>3, <1>4, <1>5, <1>6, <1>7 DEF Next, Expiry

\* What travels to a run was sent by an agent.
LEMMA AgentsStep == WaiterInv /\ [Next]_vars => FromAgents'
<1> SUFFICES ASSUME WaiterInv, [Next]_vars PROVE FromAgents'
  OBVIOUS
<1>0. FromAgents /\ InHand
  BY DEF WaiterInv
<1>c. /\ con \in ConState /\ results \in Seq(Ticket) /\ sent \in [Ticket -> Nat]
      /\ run \in [Run -> RunState]
  BY WaiterAssumption DEF WaiterInv, TypeOK, ConState, RunState
<1>e. /\ dict \in [Ticket -> Ticket \cup {None}]
      /\ stored \in [Conv -> Ticket \cup {None}]
  BY DEF WaiterInv, TypeOK
<1>i. \A i \in DOMAIN results : results[i] \in Ticket
  BY <1>c
<1>1. CASE UNCHANGED <<con, results, stored, dict, sent>>
  BY <1>0, <1>1 DEF FromAgents
<1>2. ASSUME NEW r \in Run, StartRun(r) \/ RunStep(r) \/ Timeout(r) PROVE FromAgents'
  <2>1. UNCHANGED <<con, sent, results>>
    BY <1>c, <1>2, OthersStay
  <2>2. /\ \A t \in Ticket : dict'[t] \in {dict[t], None}
        /\ \A c \in Conv : stored'[c] \in {stored[c], None}
    BY <1>e, <1>2, RunEffects
  <2> QED BY <1>0, <2>1, <2>2 DEF FromAgents
<1>3. ASSUME NEW t \in Ticket, AgentAnswers(t) PROVE FromAgents'
  <2>1. UNCHANGED <<con, stored, dict>>
    BY <1>3 DEF AgentAnswers, waiters, redis
  <2>2. sent'[t] > 0 /\ \A u \in Ticket : sent[u] > 0 => sent'[u] > 0
    BY <1>c, <1>3 DEF AgentAnswers
  <2>3. \A i \in DOMAIN results' :
           results'[i] = t \/ (i \in DOMAIN results /\ results'[i] = results[i])
    BY <1>c, <1>3, SendFacts DEF AgentAnswers
  <2>4. \A i \in DOMAIN results' : sent'[results'[i]] > 0
    BY <1>0, <1>i, <2>2, <2>3 DEF FromAgents
  <2> QED BY <1>0, <1>c, <1>e, <2>1, <2>2, <2>4 DEF FromAgents, ConState
<1>4. ASSUME ConsumerThread PROVE FromAgents'
  <2>0. UNCHANGED sent
    BY <1>4, ConFrame
  <2>1. CASE Receive
    <3>1. /\ \E i \in DOMAIN results : results[i] = Head(results)
          /\ \A j \in DOMAIN results' : \E i \in DOMAIN results : results'[j] = results[i]
      BY <1>c, <2>1, ReceiveFacts DEF Receive
    <3>2. con'.msg = Head(results) /\ UNCHANGED <<stored, dict>>
      BY <2>1 DEF Receive, waiters, redis
    <3> QED BY <1>0, <2>0, <3>1, <3>2 DEF FromAgents
  <2>4. CASE Connect
    <3>1. /\ con'.msg = con.msg /\ UNCHANGED <<stored, dict>>
          /\ \A j \in DOMAIN results' : \E i \in DOMAIN results : results'[j] = results[i]
      BY <1>c, <2>4 DEF ConState, Connect, DeclareQueue, ConGoto, waiters, redis
    <3> QED BY <1>0, <2>0, <3>1 DEF FromAgents
  <2>2. CASE \/ CheckProcessed \/ AppendTrace \/ NotifySet \/ MarkProcessed \/ AckResult
    <3>1. con'.msg \in {con.msg, None} /\ UNCHANGED <<stored, dict, results>>
      BY <1>c, <2>2
      DEF ConState, CheckProcessed, AppendTrace, NotifySet, MarkProcessed, AckResult,
          ConGoto, waiters, redis, queues
    <3> QED BY <1>0, <2>0, <3>1 DEF FromAgents
  <2>3. CASE StoreResult \/ NotifyClear \/ NotifyUpdate
    <3>1. con'.msg = con.msg /\ con.msg # None /\ UNCHANGED results
      BY <1>0, <1>c, <2>3
      DEF ConState, StoreResult, NotifyClear, NotifyUpdate, ConGoto, queues, InHand
    <3>2. /\ \A u \in Ticket : dict'[u] \in {dict[u], None, con.msg}
          /\ \A c \in Conv : stored'[c] \in {stored[c], con.msg}
      BY <1>e, <2>3 DEF StoreResult, NotifyClear, NotifyUpdate, PutResult, waiters, redis
    <3> QED BY <1>0, <2>0, <3>1, <3>2 DEF FromAgents
  <2> QED BY <1>4, <2>1, <2>2, <2>3, <2>4 DEF ConsumerThread
<1>5. ASSUME LoseConsumer \/ Restart PROVE FromAgents'
  <2>1. /\ Requeue /\ con'.msg = None /\ UNCHANGED <<sent, stored>>
        /\ \A t \in Ticket : dict'[t] \in {dict[t], None}
    BY <1>5 DEF LoseConsumer, Restart, waiters, redis
  <2>2. \A i \in DOMAIN results' :
           \/ con.msg # None /\ results'[i] = con.msg
           \/ \E j \in DOMAIN results : results'[i] = results[j]
    BY <1>c, <2>1, RequeueFacts DEF ConState
  <2> QED BY <1>0, <2>1, <2>2 DEF FromAgents
<1>6. CASE Expiry
  <2>1. /\ UNCHANGED <<con, results, dict, sent>>
        /\ \A c \in Conv : stored'[c] \in {stored[c], None}
    BY <1>6, ExpiryFacts DEF WaiterInv
  <2> QED BY <1>0, <2>1 DEF FromAgents
<1> QED
  BY <1>1, <1>2, <1>3, <1>4, <1>5, <1>6 DEF Next, Expiry, vars, outside, waiters, queues, redis

\* In a conversation of one run every ticket is that run's, and the expected agent's
\* name tells which.
LEMMA LoneTickets ==
    ASSUME TypeOK, NEW r \in Run, Siblings(r) = {}, NEW t \in Ticket, ConvOfTicket(t) = ConvOf[r]
    PROVE  t[1] = r /\ (Matches(r, t) => t = Mine(r))
BY DEF Ticket, ConvOfTicket, Siblings, Matches, AgentOf, Mine

\* The dict a lone run is about to copy is not written any more.
LEMMA DictStays ==
    ASSUME WaiterInv, [Next]_vars, Steady, NEW r \in Run, Siblings(r) = {}, Going(r),
           At(r, "copy"), ConsumerThread
    PROVE  dict'[run[r].pair] = dict[run[r].pair]
<1> USE DEF Steady
<1>0. /\ InHand /\ EntriesApart /\ LockHonest /\ HandledOnce /\ ReadsTaken /\ LegsInOrder /\ TypeOK
  BY DEF WaiterInv
<1>c. /\ con \in ConState /\ run \in [Run -> RunState] /\ dict \in [Ticket -> Ticket \cup {None}]
      /\ tasks \subseteq Ticket /\ registry \in [Conv -> Ticket \cup {None}]
      /\ ConvOf \in [Run -> Conv]
  BY <1>0, SettingType DEF TypeOK, ConState, RunState
<1>p. run[r].pair \in Ticket /\ ConvOfTicket(run[r].pair) = ConvOf[r]
  BY <1>0, <1>c DEF EntriesApart, At, Paired, Waiting, RunState
<1>1. CASE con.pc \in {"notify", "update"} /\ registry[ConvOfTicket(con.msg)] = run[r].pair
  <2>1. con.msg \in tasks /\ con.msg \in Ticket /\ con.msg \notin processed
    BY <1>0, <1>c, <1>1 DEF InHand, HandledOnce, Handling
  <2>2. ConvOfTicket(con.msg) \in Conv
    BY <1>c, <2>1 DEF Ticket, ConvOfTicket
  <2>3. ConvOfTicket(con.msg) = ConvOf[r]
    BY <1>0, <1>1, <1>p, <2>2, NamesApart DEF EntriesApart
  <2>4. con.msg[1] = r
    BY <1>0, <2>1, <2>3, LoneTickets
  <2>5. PICK l \in 1 .. MaxLegs : con.msg = <<r, l>>
    BY <2>1, <2>4 DEF Ticket
  <2>6. l <= run[r].leg /\ run[r].leg \in 1 .. MaxLegs
    BY <1>0, <1>c, <2>1, <2>5 DEF InHand, RunState
  <2>7. dict[run[r].pair] = Mine(r) /\ Mine(r) \in Ticket /\ Mine(r)[1] = r
    BY <1>0, <1>c, <2>6 DEF LegsInOrder, Dict, Mine, Ticket
  <2>8. Mine(r) \in processed
    BY <1>0, <1>1, <1>p, <2>7 DEF ReadsTaken, Shown
  <2>9. l # run[r].leg
    BY <2>1, <2>5, <2>8 DEF Mine
  <2>10. l < run[r].leg
    BY <2>6, <2>9, WaiterAssumption
  <2>11. <<r, l>> \in processed
    BY <1>0, <2>6, <2>8, <2>10 DEF LegsInOrder, Mine
  <2> QED BY <2>1, <2>5, <2>11
<1>2. CASE ~(con.pc \in {"notify", "update"} /\ registry[ConvOfTicket(con.msg)] = run[r].pair)
  BY <1>c, <1>p, <1>2
  DEF ConsumerThread, Connect, DeclareQueue, Receive, CheckProcessed, StoreResult, AppendTrace,
      NotifyClear,
      NotifyUpdate, NotifySet, MarkProcessed, AckResult, waiters, ConGoto
<1> QED BY <1>1, <1>2

LEMMA OrderStep == WaiterInv /\ [Next]_vars => LegsInOrder'
<1> SUFFICES ASSUME WaiterInv, [Next]_vars, Steady,
                    NEW r \in Run, Going(r)', Siblings(r) = {}
             PROVE  /\ \A l \in 1 .. MaxLegs : l < run'[r].leg => Taken(<<r, l>>)'
                    /\ \A k, l \in 1 .. MaxLegs :
                           k < l /\ <<r, l>> \in processed' => <<r, k>> \in processed'
                    /\ At(r, "copy")' => Dict(r)' = Mine(r)'
                    /\ At(r, "returned")' => run'[r].got = Mine(r)' /\ Taken(Mine(r))'
  BY SettingStays DEF LegsInOrder, Steady, RedisUp, Remembered, Siblings, ConvOf
<1>0. /\ InHand /\ EntriesApart /\ ConversationsApart /\ ReadsTaken /\ LegsInOrder /\ TypeOK
  BY DEF WaiterInv
<1>c. /\ con \in ConState /\ run \in [Run -> RunState] /\ tasks \subseteq Ticket
      /\ run[r].leg \in 1 .. MaxLegs /\ run[r].leg \in Nat
  BY <1>0, WaiterAssumption DEF TypeOK, ConState, RunState
<1>e. /\ dict \in [Ticket -> Ticket \cup {None}] /\ stored \in [Conv -> Ticket \cup {None}]
      /\ ConvOf \in [Run -> Conv]
  BY <1>0, SettingType DEF TypeOK
<1>m. /\ Mine(r) \in Ticket /\ Mine(r)[1] = r
      /\ \A l \in 1 .. MaxLegs : <<r, l>> \in Ticket /\ <<r, l>>[1] = r
  BY <1>c DEF Mine, Ticket
<1>g. /\ Going(r)
      /\ \A l \in 1 .. MaxLegs : l < run[r].leg => Taken(<<r, l>>)
      /\ \A k, l \in 1 .. MaxLegs : k < l /\ <<r, l>> \in processed => <<r, k>> \in processed
      /\ At(r, "copy") => Dict(r) = Mine(r)
      /\ At(r, "returned") => run[r].got = Mine(r) /\ Taken(Mine(r))
  BY <1>0, <1>c, EndedStays DEF LegsInOrder
<1>k. \A l \in 1 .. MaxLegs : Taken(<<r, l>>) => Taken(<<r, l>>)'
  BY <1>m, TakenKept
\* The legs, one after the other.
<1>1. \A k, l \in 1 .. MaxLegs : k < l /\ <<r, l>> \in processed' => <<r, k>> \in processed'
  <2>1. CASE processed' = processed
    BY <1>g, <2>1
  <2>2. CASE MarkProcessed
    <3> SUFFICES ASSUME NEW k \in 1 .. MaxLegs, NEW l \in 1 .. MaxLegs, k < l, con.msg = <<r, l>>
                 PROVE  <<r, k>> \in processed
      BY <1>g, <2>2 DEF MarkProcessed
    <3>1. con.msg # None
      BY <1>m, NamesApart
    <3>2. l <= run[r].leg
      BY <1>0, <3>1 DEF InHand
    <3>3. k < run[r].leg
      BY <1>c, <3>2
    <3>4. Taken(<<r, k>>) /\ <<r, k>> # <<r, l>>
      BY <1>g, <3>3
    <3> QED BY <3>4 DEF Taken
  <2>3. CASE ConsumerThread /\ ~MarkProcessed
    BY <2>1, <2>3
    DEF ConsumerThread, Connect, DeclareQueue, Receive, CheckProcessed, StoreResult,
        AppendTrace, NotifyClear,
        NotifyUpdate, NotifySet, AckResult, redis
  <2>4. ASSUME NEW q \in Run, StartRun(q) \/ RunStep(q) \/ Timeout(q) PROVE processed' = processed
    BY <1>c, <2>4, OthersStay
  <2>5. CASE Expiry
    BY <1>0, <2>1, <2>5, ExpiryFacts DEF Steady
  <2> QED
    BY <2>1, <2>2, <2>3, <2>4, <2>5
    DEF Next, Expiry, vars, outside, redis, AgentAnswers, LoseConsumer, Restart
<1>2. ASSUME run'[r] = run[r], dict'[run[r].pair] = dict[run[r].pair] \/ ~At(r, "copy")
      PROVE  /\ \A l \in 1 .. MaxLegs : l < run'[r].leg => Taken(<<r, l>>)'
             /\ At(r, "copy")' => Dict(r)' = Mine(r)'
             /\ At(r, "returned")' => run'[r].got = Mine(r)' /\ Taken(Mine(r))'
  <2>1. Mine(r)' = Mine(r) /\ (Taken(Mine(r)) => Taken(Mine(r))')
    BY <1>c, <1>k, <1>2 DEF Mine
  <2>2. At(r, "copy")' => Dict(r)' = Mine(r)'
    BY <1>g, <1>2, <2>1 DEF At, Dict
  <2>3. At(r, "returned")' => run'[r].got = Mine(r)' /\ Taken(Mine(r))'
    BY <1>g, <1>2, <2>1 DEF At
  <2>4. \A l \in 1 .. MaxLegs : l < run'[r].leg => Taken(<<r, l>>)'
    BY <1>g, <1>k, <1>2
  <2> QED BY <2>2, <2>3, <2>4
<1>3. ASSUME NEW q \in Run, q # r, StartRun(q) \/ RunStep(q) \/ Timeout(q)
      PROVE  run'[r] = run[r] /\ (dict'[run[r].pair] = dict[run[r].pair] \/ ~At(r, "copy"))
  <2>1. run'[r] = run[r]
    BY <1>c, <1>3, OthersStay
  <2>2. ASSUME At(r, "copy"), At(q, "discard")
        PROVE  run[q].pair # run[r].pair
    BY <1>0, <1>3, <2>2 DEF EntriesApart, Siblings, At, Paired, Waiting
  <2>3. At(r, "copy") => run[r].pair \in Ticket
    BY <1>0, <1>c DEF EntriesApart, At, Paired, Waiting, RunState
  <2> QED BY <1>e, <1>3, <2>1, <2>2, <2>3, RunEffects
<1>4. ASSUME StartRun(r) \/ RunStep(r) \/ Timeout(r)
      PROVE  /\ \A l \in 1 .. MaxLegs : l < run'[r].leg => Taken(<<r, l>>)'
             /\ At(r, "copy")' => Dict(r)' = Mine(r)'
             /\ At(r, "returned")' => run'[r].got = Mine(r)' /\ Taken(Mine(r))'
  <2>1. \A l \in 1 .. MaxLegs : l < run'[r].leg => Taken(<<r, l>>)'
    <3>1. CASE run'[r].leg = run[r].leg
      BY <1>g, <1>k, <3>1
    <3>2. CASE At(r, "returned") /\ run'[r].leg = run[r].leg + 1
      <4>1. ASSUME NEW l \in 1 .. MaxLegs, l < run[r].leg + 1 PROVE l < run[r].leg \/ l = run[r].leg
        BY <1>c, <4>1
      <4>2. Taken(<<r, run[r].leg>>)
        BY <1>g, <3>2 DEF Mine
      <4> QED BY <1>g, <1>k, <3>2, <4>1, <4>2
    <3> QED BY <1>c, <1>4, <3>1, <3>2, FieldMoves
  <2>2. ASSUME At(r, "copy")' PROVE Dict(r)' = Mine(r)'
    <3>1. /\ run[r].pc \in {"woken_match", "slice_match"} /\ Matches(r, Dict(r))
          /\ run'[r].leg = run[r].leg /\ run'[r].pair = run[r].pair /\ UNCHANGED dict
      BY <1>c, <1>4, <2>2, FieldMoves, RunEffects DEF At
    <3>2. run[r].pair \in Ticket /\ ConvOfTicket(run[r].pair) = ConvOf[r]
      BY <1>0, <1>c, <3>1 DEF EntriesApart, Paired, Waiting, RunState
    <3>3. Dict(r) \in Ticket /\ ConvOfTicket(Dict(r)) = ConvOf[r]
      BY <1>0, <1>e, <3>1, <3>2 DEF EntriesApart, Dict, Matches
    <3>4. Dict(r) = Mine(r)
      BY <1>0, <3>1, <3>3, LoneTickets
    <3> QED BY <3>1, <3>4 DEF Dict, Mine
  <2>3. ASSUME At(r, "returned")' PROVE run'[r].got = Mine(r)' /\ Taken(Mine(r))'
    <3>1. Mine(r)' = Mine(r) /\ (Taken(Mine(r)) => Taken(Mine(r))')
      BY <1>c, <1>k, <1>4, <2>3, FieldMoves DEF Mine, At
    <3>2. CASE At(r, "copy") /\ run'[r].got = Dict(r)
      <4>1. Dict(r) = Mine(r) /\ run[r].pair \in Ticket
        BY <1>0, <1>c, <1>g, <3>2 DEF EntriesApart, Paired, Waiting, RunState, At
      <4>2. Shown(Mine(r))
        BY <1>0, <1>g, <1>m, <4>1 DEF ReadsTaken, Dict
      <4>3. Taken(Mine(r))
        BY <4>2 DEF Shown, Taken, Handling
      <4> QED BY <3>1, <3>2, <4>1, <4>3
    <3>3. CASE Matches(r, stored[ConvOf[r]]) /\ run'[r].got = stored[ConvOf[r]]
      <4>1. stored[ConvOf[r]] \in Ticket /\ ConvOfTicket(stored[ConvOf[r]]) = ConvOf[r]
        BY <1>0, <1>e, <3>3 DEF ConversationsApart, Matches
      <4>2. stored[ConvOf[r]] = Mine(r)
        BY <1>0, <3>3, <4>1, LoneTickets
      <4>3. Taken(Mine(r))
        BY <1>0, <1>e, <1>g, <1>m, <4>2 DEF ReadsTaken
      <4> QED BY <3>1, <3>3, <4>2, <4>3
    <3> QED BY <1>c, <1>4, <2>3, <3>2, <3>3, FieldMoves DEF At
  <2> QED BY <2>1, <2>2, <2>3
<1>5. ASSUME ConsumerThread
      PROVE  run'[r] = run[r] /\ (dict'[run[r].pair] = dict[run[r].pair] \/ ~At(r, "copy"))
  BY <1>g, <1>5, ConFrame, DictStays
<1>6. ASSUME Restart PROVE run'[r] = run[r] /\ ~At(r, "copy")
  BY <1>c, <1>6, RestartRecord DEF Going, Ended, At
<1>7. ASSUME LoseConsumer \/ UNCHANGED vars \/ (\E t \in Ticket : AgentAnswers(t)) \/ Expiry
      PROVE  run'[r] = run[r] /\ UNCHANGED dict
  BY <1>0, <1>7, ExpiryFacts DEF LoseConsumer, vars, AgentAnswers, waiters
<1> QED BY <1>1, <1>2, <1>3, <1>4, <1>5, <1>6, <1>7 DEF Next, Expiry

----------------------------------------------------------------------------

\* The inductive invariant of the waiter registry and the results consumer.
THEOREM WaiterInvariance == Spec => []WaiterInv
<1>1. WaiterInv /\ [Next]_vars => WaiterInv'
  BY TypeStep, LockStep, ApartStep, LeakStep, KeptStep, HandStep, OnceStep, ReadsStep, OrderStep,
     AgentsStep
  DEF WaiterInv
<1> QED BY InitInv, <1>1, PTL DEF Spec

\* Type correctness of the waiter registry, the results consumer and Redis.
THEOREM WaiterTyping == Spec => []TypeOK
<1>1. WaiterInv => TypeOK
  BY DEF WaiterInv
<1> QED BY WaiterInvariance, <1>1, PTL

\* Neither the registry nor Redis gives a conversation another one's answer.
THEOREM NoCrossTalk == Spec => []ConversationsApart
<1>1. WaiterInv => ConversationsApart
  BY DEF WaiterInv
<1> QED BY WaiterInvariance, <1>1, PTL

\* No way out of a run leaves its waiter registered.
THEOREM NoLeak == Spec => []NoLeakedWaiter
<1>1. WaiterInv => NoLeakedWaiter
  BY DEF WaiterInv
<1> QED BY WaiterInvariance, <1>1, PTL

\* A result is marked processed or acked only after its waiter was notified, and
\* until then is on the queue or in the consumer's hand.
THEOREM NothingUnhandled == Spec => []ProcessedWasHandled
<1>1. WaiterInv => ProcessedWasHandled
  BY DEF WaiterInv
<1> QED BY WaiterInvariance, <1>1, PTL

\* wait_for_result never blocks on its own lock in a run that overlaps no other run
\* of its conversation.
THEOREM SerialNeverStuck == Spec => []SerialNoSelfDeadlock
<1>1. WaiterInv => SerialNoSelfDeadlock
  BY DEF WaiterInv, EntryKept, Serial, SerialNoSelfDeadlock
<1> QED BY WaiterInvariance, <1>1, PTL

\* With Redis up every result is traced once, and once more per fault and per expiry of
\* its processed key at most.
THEOREM TracedOnce == Spec => [](RedisUp => TraceBounded)
<1>1. WaiterInv => (RedisUp => TraceBounded)
  <2> SUFFICES ASSUME WaiterInv, RedisUp, NEW t \in Ticket
               PROVE  trace[t] <= 1 + faults + expired[t]
    BY DEF TraceBounded
  <2>1. trace[t] \in Nat /\ faults \in Nat /\ expired[t] \in Nat
    <3>1. TypeOK
      BY DEF WaiterInv
    <3>2. faults \in Nat
      BY <3>1, SettingType DEF TypeOK
    <3> QED BY <3>1, <3>2 DEF TypeOK
  <2>2. trace[t] <= faults + expired[t] \/ trace[t] <= 1 + faults + expired[t]
    BY DEF WaiterInv, HandledOnce
  <2> QED BY <2>1, <2>2
<1> QED BY WaiterInvariance, <1>1, PTL

\* With Redis up a run alone in its conversation gets the answers to its own tasks,
\* however many copies, redeliveries, restarts and timeouts there are, unless a
\* processed key expires before the last copy.
THEOREM LoneAnswered == Spec => [](RedisUp => LoneAnswersOwnTask)
<1>1. WaiterInv => (RedisUp => LoneAnswersOwnTask)
  BY DEF WaiterInv, LegsInOrder, Steady, LoneAnswersOwnTask, Going, Ended, At
<1> QED BY WaiterInvariance, <1>1, PTL

----------------------------------------------------------------------------
\* The exchange that the runs see (Exchanged).  A step of one run moves only its own
\* part of it, ...
LEMMA OnlyOne ==
    ASSUME NEW r \in Run, \A q \in Run : q # r => run'[q] = run[q]
    PROVE  /\ StageOf' = [StageOf EXCEPT ![r] = StageAt(run'[r].pc)]
           /\ LegOf' = [LegOf EXCEPT ![r] = run'[r].leg]
           /\ AnswerOf' = [AnswerOf EXCEPT ![r] = Answer(r)']
<1>1. StageOf' = [StageOf EXCEPT ![r] = StageAt(run'[r].pc)]
  BY DEF StageOf
<1>2. LegOf' = [LegOf EXCEPT ![r] = run'[r].leg]
  BY DEF LegOf
<1>3. \A q \in Run : q # r => Answer(q)' = Answer(q)
  BY DEF Answer, At
<1>4. AnswerOf' = [AnswerOf EXCEPT ![r] = Answer(r)']
  BY <1>3 DEF AnswerOf
<1> QED BY <1>1, <1>2, <1>4

\* ... by a step of Exchange, if at all.
LEMMA StageFacts ==
    /\ StageAt("new") = "idle" /\ StageAt("returned") = "answered"
    /\ \A label \in {"cleanup"} \cup Ended : StageAt(label) = "over"
    /\ \A label \in RunLabel \ ({"new", "returned", "cleanup"} \cup Ended) :
           StageAt(label) = "asking"
BY DEF StageAt, Ended

LEMMA StageMoves ==
    ASSUME run \in [Run -> RunState], NEW r \in Run, StartRun(r) \/ RunStep(r) \/ Timeout(r)
    PROVE  \/ /\ StageAt(run'[r].pc) = StageAt(run[r].pc)
              /\ Answer(r)' = Answer(r) /\ run'[r].leg = run[r].leg
           \/ /\ StartRun(r) /\ StageAt(run[r].pc) = "idle" /\ StageAt(run'[r].pc) = "asking"
              /\ Answer(r)' = Answer(r) /\ run'[r].leg = run[r].leg
           \/ /\ StageAt(run[r].pc) = "asking" /\ StageAt(run'[r].pc) = "answered"
              /\ run'[r].pc = "returned"
              /\ Answer(r)' = run'[r].got /\ run'[r].leg = run[r].leg
           \/ /\ At(r, "returned") /\ MoreAgents(r) /\ StageAt(run'[r].pc) = "asking"
              /\ Answer(r)' = None /\ run'[r].leg = run[r].leg + 1
           \/ /\ StageAt(run[r].pc) # "idle" /\ StageAt(run'[r].pc) = "over"
              /\ Answer(r)' = None /\ run'[r].leg = run[r].leg
<1> USE RunMoves, StageFacts DEF Answer, At, SameFields, Ended, RunLabel, Waiting
<1>1. CASE StartRun(r)
  BY <1>1 DEF StartRun
<1>2. CASE CopyStore(r)
  BY <1>2, Zenon DEF CopyStore
<1>3. CASE Poll(r)
  BY <1>3 DEF Poll, Goto
<1>4. CASE NextLeg(r)
  BY <1>4, Zenon DEF NextLeg
<1>5. CASE Timeout(r) \/ Resolve(r) \/ Unregister(r) \/ Publish(r)
  BY <1>5 DEF Timeout, Resolve, Unregister, Publish
<1>6. CASE EventWait(r) \/ EventClear(r) \/ IfStore(r) \/ MatchAgent(r) \/ Discard(r)
  BY <1>6 DEF EventWait, EventClear, IfStore, MatchAgent, Discard
<1>7. CASE ClearTrace(r) \/ ClearResult(r) \/ Register(r) \/ Lookup(r)
  BY <1>7 DEF ClearTrace, ClearResult, Register, Lookup
<1> QED BY <1>1, <1>2, <1>3, <1>4, <1>5, <1>6, <1>7 DEF RunStep

\* What a wait returns was sent by an agent for this conversation.
LEMMA HeardWasSent ==
    ASSUME WaiterInv, NEW r \in Run, StartRun(r) \/ RunStep(r) \/ Timeout(r),
           run'[r].pc = "returned", run'[r].got # None
    PROVE  run'[r].got \in Replied /\ ConvOfTicket(run'[r].got) = ConvOf[r]
<1>0. FromAgents /\ EntriesApart /\ ConversationsApart
  BY DEF WaiterInv
<1>c. /\ run \in [Run -> RunState]
      /\ dict \in [Ticket -> Ticket \cup {None}] /\ stored \in [Conv -> Ticket \cup {None}]
      /\ ConvOf[r] \in Conv
  BY SettingType DEF WaiterInv, TypeOK, RunState
<1>1. CASE At(r, "copy") /\ run'[r].got = Dict(r)
  <2>1. run[r].pair \in Ticket /\ ConvOfTicket(run[r].pair) = ConvOf[r]
    BY <1>0, <1>c, <1>1 DEF EntriesApart, Paired, Waiting, RunState, At
  <2> QED BY <1>0, <1>c, <1>1, <2>1 DEF FromAgents, EntriesApart, Dict, Replied
<1>2. CASE run'[r].got = stored[ConvOf[r]]
  BY <1>0, <1>c, <1>2 DEF FromAgents, ConversationsApart, Replied
<1> QED BY <1>c, <1>1, <1>2, FieldMoves

\* Conversations, overlap and the promised runs are given once.
LEMMA GivenStays == [Next]_vars => UNCHANGED <<ConvOf, setting.overlap, Promised>>
BY SettingStays DEF ConvOf, Promised, Steady, RedisUp, Remembered, Siblings

\* A step of a run begins, hears, asks on or ends, or changes nothing the runs see.
LEMMA RunKeepsExchange ==
    ASSUME WaiterInv, WaiterInv', NEW r \in Run, StartRun(r) \/ RunStep(r) \/ Timeout(r),
           UNCHANGED <<ConvOf, setting.overlap, Promised>>
    PROVE  [Exchanged!Next]_(Exchanged!vars)
<1>c. run \in [Run -> RunState]
  BY DEF WaiterInv, TypeOK, RunState
<1>1. \A q \in Run : q # r => run'[q] = run[q]
  BY <1>c, OthersStay
<1>2. /\ StageOf' = [StageOf EXCEPT ![r] = StageAt(run'[r].pc)]
      /\ LegOf' = [LegOf EXCEPT ![r] = run'[r].leg]
      /\ AnswerOf' = [AnswerOf EXCEPT ![r] = Answer(r)']
  BY <1>1, OnlyOne
<1>3. Replied' = Replied
  BY <1>c, OthersStay DEF Replied
<1>4. /\ StageOf = [q \in Run |-> StageOf[q]] /\ LegOf = [q \in Run |-> LegOf[q]]
      /\ \A q \in Run :
            StageOf[q] = StageAt(run[q].pc) /\ LegOf[q] = run[q].leg /\ AnswerOf[q] = Answer(q)
      /\ AnswerOf = [q \in Run |-> AnswerOf[q]]
  BY DEF StageOf, LegOf, AnswerOf, Answer
<1>g. UNCHANGED Exchanged!given
  BY DEF Exchanged!given
<1>5. CASE /\ StageAt(run'[r].pc) = StageAt(run[r].pc)
           /\ Answer(r)' = Answer(r) /\ run'[r].leg = run[r].leg
  <2>1. UNCHANGED <<StageOf, LegOf, AnswerOf>>
    BY <1>2, <1>4, <1>5
  <2> QED BY <1>3, <1>g, <2>1 DEF Exchanged!vars
<1>6. CASE /\ StartRun(r) /\ StageAt(run[r].pc) = "idle" /\ StageAt(run'[r].pc) = "asking"
           /\ Answer(r)' = Answer(r) /\ run'[r].leg = run[r].leg
  <2>1. UNCHANGED <<LegOf, AnswerOf>>
    BY <1>2, <1>4, <1>6
  <2>2. setting.overlap \/ \A q \in Run : ConvOf[q] = ConvOf[r] => StageOf[q] \in {"idle", "over"}
    BY <1>4, <1>6, StageFacts DEF StartRun, Siblings, At
  <2>3. Exchanged!Begin(r)
    BY <1>2, <1>3, <1>4, <1>6, <2>1, <2>2 DEF Exchanged!Begin, Exchanged!SameConv
  <2> QED BY <1>g, <2>3 DEF Exchanged!Next
<1>7. CASE /\ StageAt(run[r].pc) = "asking" /\ StageAt(run'[r].pc) = "answered"
           /\ run'[r].pc = "returned"
           /\ Answer(r)' = run'[r].got /\ run'[r].leg = run[r].leg
  <2>1. UNCHANGED LegOf
    BY <1>2, <1>4, <1>7
  <2>2. run'[r].got \in {None} \cup {t \in Replied : ConvOf[t[1]] = ConvOf[r]}
    BY <1>7, HeardWasSent DEF ConvOfTicket
  <2>3. r \in Promised => run'[r].got = <<r, LegOf[r]>>
    <3>1. LegsInOrder' /\ (r \in Promised => Steady' /\ Siblings(r)' = {})
      BY DEF WaiterInv, Promised
    <3>2. At(r, "returned")' /\ Going(r)'
      BY <1>7 DEF At, Going, Ended
    <3> QED BY <1>4, <1>7, <3>1, <3>2 DEF LegsInOrder, Mine
  <2>4. Exchanged!Hear(r)
    BY <1>2, <1>3, <1>4, <1>7, <2>1, <2>2, <2>3 DEF Exchanged!Hear, Exchanged!SameConv
  <2> QED BY <1>g, <2>4 DEF Exchanged!Next
<1>8. CASE /\ At(r, "returned") /\ MoreAgents(r) /\ StageAt(run'[r].pc) = "asking"
           /\ Answer(r)' = None /\ run'[r].leg = run[r].leg + 1
  <2>1. /\ StageOf[r] = "answered" /\ LegOf[r] + 1 = run[r].leg + 1
        /\ LegOf[r] = 1 => AnswerOf[r] # None /\ AnswerOf[r][2] = 1
    BY <1>4, <1>8, StageFacts DEF Answer, MoreAgents, Matches, AgentOf, At
  <2>2. Exchanged!AskNext(r)
    BY <1>2, <1>3, <1>4, <1>8, <2>1 DEF Exchanged!AskNext
  <2> QED BY <1>g, <2>2 DEF Exchanged!Next
<1>9. CASE /\ StageAt(run[r].pc) # "idle" /\ StageAt(run'[r].pc) = "over"
           /\ Answer(r)' = None /\ run'[r].leg = run[r].leg
  <2>1. /\ StageOf' = [q \in Run |-> IF q \in {r} THEN "over" ELSE StageOf[q]]
        /\ AnswerOf' = [q \in Run |-> IF q \in {r} THEN None ELSE AnswerOf[q]]
        /\ UNCHANGED LegOf
    BY <1>2, <1>4, <1>9
  <2>2. Exchanged!End({r}) /\ {r} \in SUBSET {q \in Run : StageOf[q] # "idle"}
    BY <1>3, <1>4, <1>9, <2>1 DEF Exchanged!End
  <2> QED BY <1>g, <2>2 DEF Exchanged!Next
<1> QED BY <1>c, <1>5, <1>6, <1>7, <1>8, <1>9, StageMoves

\* The waiter registry, the results consumer and Redis implement Exchange: a wait hears
\* only replies given in its conversation, the promised runs only those to their own
\* questions, and restarts and timeouts only end runs.
THEOREM WaitsKeepExchange == Spec => KeepsExchange
<1>1. Init => Exchanged!Init
  <2> SUFFICES ASSUME Init PROVE Exchanged!Init
    OBVIOUS
  <2>1. /\ StageOf = [r \in Run |-> "idle"] /\ LegOf = [r \in Run |-> 1]
        /\ AnswerOf = [r \in Run |-> None]
    BY StageFacts DEF Init, StageOf, LegOf, AnswerOf, Answer, At
  <2>2. Replied = {} /\ Promised \subseteq Run
    BY DEF Init, Replied, Promised
  <2> QED BY <2>1, <2>2 DEF Exchanged!Init
<1>2. WaiterInv /\ WaiterInv' /\ [Next]_vars => [Exchanged!Next]_(Exchanged!vars)
  <2> SUFFICES ASSUME WaiterInv, WaiterInv', [Next]_vars
               PROVE  [Exchanged!Next]_(Exchanged!vars)
    OBVIOUS
  <2>0. UNCHANGED <<ConvOf, setting.overlap, Promised>>
    BY GivenStays
  <2>g. UNCHANGED Exchanged!given
    BY <2>0 DEF Exchanged!given
  <2>c. run \in [Run -> RunState] /\ sent \in [Ticket -> Nat]
    <3>1. TypeOK
      BY DEF WaiterInv
    <3> QED BY <3>1, WaiterAssumption DEF TypeOK, RunState
  <2>1. ASSUME NEW r \in Run, StartRun(r) \/ RunStep(r) \/ Timeout(r)
        PROVE  [Exchanged!Next]_(Exchanged!vars)
    BY <2>0, <2>1, RunKeepsExchange
  <2>2. CASE UNCHANGED <<run, sent>>
    BY <2>2, <2>g
    DEF Exchanged!vars, StageOf, LegOf, AnswerOf, Answer, At, Replied
  <2>3. ASSUME NEW t \in Ticket, AgentAnswers(t) PROVE [Exchanged!Next]_(Exchanged!vars)
    <3>1. UNCHANGED <<StageOf, LegOf, AnswerOf>>
      BY <2>3 DEF AgentAnswers, StageOf, LegOf, AnswerOf, Answer, At
    <3>2. Replied' = Replied \cup {t}
      BY <2>c, <2>3 DEF AgentAnswers, Replied
    <3>3. StageOf[t[1]] # "idle" /\ t[2] <= LegOf[t[1]]
      <4>1. t[1] \in Run /\ t[2] <= run[t[1]].leg /\ run[t[1]].pc # "new"
        BY <2>3 DEF WaiterInv, InHand, AgentAnswers, At, Ticket
      <4>2. run[t[1]].pc \in RunLabel
        BY <2>c, <4>1 DEF RunState
      <4>3. StageAt(run[t[1]].pc) # "idle"
        BY <4>1, <4>2, StageFacts
      <4> QED BY <4>1, <4>3 DEF StageOf, LegOf
    <3>4. Exchanged!Reply(t) /\ t \in Exchanged!Question
      BY <3>1, <3>2, <3>3 DEF Exchanged!Reply, Exchanged!Question, Ticket
    <3> QED BY <2>g, <3>4 DEF Exchanged!Next
  <2>4. CASE Restart
    <3> DEFINE ending == {r \in Run : run[r].pc \notin {"new", "done"}}
    <3>1. \A r \in Run : IF r \in ending THEN run'[r].pc = "dead" /\ run'[r].leg = run[r].leg
                                         ELSE run'[r] = run[r]
      BY <2>c, <2>4, RestartRecord DEF SameFields
    <3>2. ASSUME NEW r \in Run
          PROVE  /\ StageAt(run'[r].pc) = IF r \in ending THEN "over" ELSE StageAt(run[r].pc)
                 /\ Answer(r)' = IF r \in ending THEN None ELSE Answer(r)
                 /\ r \in ending => StageAt(run[r].pc) # "idle"
                 /\ run'[r].leg = run[r].leg
      BY <2>c, <3>1, StageFacts DEF Answer, At, Ended, RunLabel, Waiting, RunState
    <3>3. Replied' = Replied
      BY <2>4 DEF Restart, Replied
    <3>4. ending \in SUBSET {r \in Run : StageOf[r] # "idle"}
      BY <3>2 DEF StageOf
    <3> HIDE DEF ending
    <3>5. Exchanged!End(ending)
      BY <3>2, <3>3 DEF Exchanged!End, StageOf, LegOf, AnswerOf
    <3> QED BY <2>g, <3>4, <3>5 DEF Exchanged!Next
  <2>5. CASE ConsumerThread \/ LoseConsumer \/ Expiry \/ UNCHANGED vars
    BY <2>2, <2>5, ConFrame, ExpiryFacts DEF WaiterInv, LoseConsumer, vars, outside, queues
  <2> QED BY <2>1, <2>3, <2>4, <2>5 DEF Next, Expiry
<1> QED BY <1>1, <1>2, WaiterInvariance, PTL DEF Spec, KeepsExchange, Exchanged!Spec
====
