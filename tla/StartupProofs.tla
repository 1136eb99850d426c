---- MODULE StartupProofs ----
(***************************************************************************)
(* Proofs about Startup, for any number of processes, launches and         *)
(* outages.                                                                *)
(***************************************************************************)
EXTENDS Startup, TLAPS

\* Initially every process is off.
LEMMA InitInv == Init => StartupInv
BY StartupAssumption
   DEF Init, StartupInv, TypeOK, OffIsFresh, ConsumerHome, ImportedServing, OneChild,
       Running, Starts, Serves, Command

\* A step that gives one process new fields keeps the rest.
LEMMA OneProcessChanges ==
    ASSUME NEW R, proc \in [Process -> R], NEW p \in Process, NEW f \in R,
           proc' = [proc EXCEPT ![p] = f]
    PROVE  proc' \in [Process -> R]
OBVIOUS

\* No step leaves the types.
LEMMA StepTypes == TypeOK /\ [Next]_vars => TypeOK'
<1> SUFFICES ASSUME TypeOK, [Next]_vars PROVE TypeOK'
  OBVIOUS
<1> DEFINE Record == [pc : {"off", "loading", "up", "gone"}, cmd : Command,
                      parent : Process \cup {None}, run_main : BOOLEAN,
                      con : {"none", "connect", "subscribed", "consuming", "sleeping"},
                      link : BOOLEAN, alive : BOOLEAN, imported : BOOLEAN \cup {None}]
<1>p. proc \in [Process -> Record]
  BY DEF TypeOK
<1> USE StartupAssumption DEF TypeOK
<1>a. ASSUME NEW p \in Process, NEW c \in Command, Launch(p, c) PROVE TypeOK'
  <2>1. [[proc[p] EXCEPT !.pc = "loading"] EXCEPT !.cmd = c] \in Record
    OBVIOUS
  <2>2. proc' = [proc EXCEPT ![p] = [[proc[p] EXCEPT !.pc = "loading"] EXCEPT !.cmd = c]]
    BY <1>a DEF Launch
  <2>3. proc' \in [Process -> Record]
    BY <1>p, <2>1, <2>2, OneProcessChanges, Zenon
  <2>4. UNCHANGED <<broker, faults>>
    BY <1>a, Zenon DEF Launch
  <2> QED BY <2>3, <2>4, Zenon
<1>b. ASSUME NEW q \in Process, NEW p \in Process, Spawn(q, p) PROVE TypeOK'
  <2> DEFINE f == [proc[p] EXCEPT !.pc = "loading", !.cmd = "runserver",
                                  !.parent = q, !.run_main = TRUE]
  <2>1. f \in Record
    BY DEF Command
  <2>2. proc' = [proc EXCEPT ![p] = f] /\ UNCHANGED <<broker, faults>>
    BY <1>b, Zenon DEF Spawn
  <2> HIDE DEF f
  <2>3. proc' \in [Process -> Record]
    BY <1>p, <2>1, <2>2, OneProcessChanges, Zenon
  <2> QED BY <2>2, <2>3, Zenon
<1>1. ASSUME NEW p \in Process, Exit(p) PROVE TypeOK'
  <2> DEFINE f == [proc[p] EXCEPT !.pc = "gone", !.con = "none", !.link = FALSE,
                                  !.alive = FALSE]
  <2>1. f \in Record
    OBVIOUS
  <2>2. proc' = [proc EXCEPT ![p] = f] /\ UNCHANGED <<broker, faults>>
    BY <1>1, Zenon DEF Exit
  <2> HIDE DEF f
  <2>3. proc' \in [Process -> Record]
    BY <1>p, <2>1, <2>2, OneProcessChanges, Zenon
  <2> QED BY <2>2, <2>3, Zenon
<1>2. ASSUME NEW p \in Process, Ready(p) \/ ImportViews(p) PROVE TypeOK'
  BY <1>2 DEF Ready, ImportViews, Flag
<1>3. ASSUME NEW p \in Process, Loop(p) PROVE TypeOK'
  BY <1>3 DEF Loop, Connect, Consume, Except, Retry, Con, AfterException
<1>4. CASE BrokerDown
  <2>1. ASSUME NEW q \in Process PROVE [proc[q] EXCEPT !.link = FALSE] \in Record
    OBVIOUS
  <2>2. proc' \in [Process -> Record]
    BY <1>4, <2>1, Zenon DEF BrokerDown
  <2>3. broker' = FALSE /\ faults < MaxFaults /\ faults' = faults + 1
    BY <1>4, Zenon DEF BrokerDown
  <2>4. faults' \in 0 .. MaxFaults
    BY <2>3
  <2> QED BY <2>2, <2>3, <2>4, Zenon
<1>5. CASE BrokerUp
  BY <1>5 DEF BrokerUp
<1>6. CASE UNCHANGED vars
  BY <1>6 DEF vars
<1> QED BY <1>a, <1>b, <1>1, <1>2, <1>3, <1>4, <1>5, <1>6 DEF Next

\* Every step keeps consumers, imports and children where they belong.
LEMMA StepInv == StartupInv /\ [Next]_vars => StartupInv'
<1> SUFFICES ASSUME StartupInv, [Next]_vars PROVE StartupInv'
  OBVIOUS
<1> DEFINE Rest == OffIsFresh /\ ConsumerHome /\ ImportedServing /\ OneChild
<1>t. TypeOK'
  BY StepTypes DEF StartupInv
<1> USE StartupAssumption
        DEF StartupInv, TypeOK, OffIsFresh, ConsumerHome, ImportedServing, OneChild,
            Running, Starts, Serves
<1>1. ASSUME NEW p \in Process, NEW c \in Command, Launch(p, c) PROVE Rest'
  BY <1>1 DEF Launch
<1>2. ASSUME NEW m \in Process, NEW p \in Process, Spawn(m, p) PROVE Rest'
  <2>1. m # p
    BY <1>2 DEF Spawn
  <2>2. OffIsFresh' /\ ConsumerHome' /\ ImportedServing'
    BY <1>2, <2>1 DEF Spawn
  <2>3. OneChild'
    BY <1>2, <2>1 DEF Spawn
  <2> QED BY <2>2, <2>3
<1>3. ASSUME NEW p \in Process, Exit(p) PROVE Rest'
  BY <1>3 DEF Exit
<1>4. ASSUME NEW p \in Process, Ready(p) PROVE Rest'
  BY <1>4 DEF Ready
<1>5. ASSUME NEW p \in Process, ImportViews(p) PROVE Rest'
  BY <1>5 DEF ImportViews
<1>6. ASSUME NEW p \in Process, Loop(p) PROVE Rest'
  BY <1>6 DEF Loop, Connect, Consume, Except, Retry, Con, AfterException
<1>7. ASSUME BrokerDown PROVE Rest'
  <2>1. ASSUME NEW q \in Process
        PROVE  proc'[q].pc = proc[q].pc /\ proc'[q].run_main = proc[q].run_main
               /\ proc'[q].con = proc[q].con /\ proc'[q].imported = proc[q].imported
               /\ proc'[q].cmd = proc[q].cmd /\ proc'[q].parent = proc[q].parent
    <3>1. proc'[q] = [proc[q] EXCEPT !.link = FALSE]
      BY <1>7, Zenon DEF BrokerDown
    <3> QED BY <3>1
  <2> QED BY <2>1
<1>8. ASSUME BrokerUp PROVE Rest'
  BY <1>8 DEF BrokerUp
<1>9. ASSUME UNCHANGED vars PROVE Rest'
  BY <1>9 DEF vars
<1> HIDE DEF StartupInv, TypeOK, OffIsFresh, ConsumerHome, ImportedServing, OneChild,
             Running, Starts, Serves, Rest
<1>10. Rest'
  BY <1>1, <1>2, <1>3, <1>4, <1>5, <1>6, <1>7, <1>8, <1>9 DEF Next
<1> QED BY <1>t, <1>10 DEF Rest, StartupInv

\* The invariant holds in every reachable state.
THEOREM StartupInvariance == Spec => []StartupInv
BY InitInv, StepInv, PTL DEF Spec

\* The values the variables take.
THEOREM StartupTyping == Spec => []TypeOK
<1>1. StartupInv => TypeOK
  BY DEF StartupInv
<1> QED BY <1>1, StartupInvariance, PTL

\* Every launch attaches one results consumer at most, however many launches there are
\* and in whatever order parents and children start, exit and are killed.
THEOREM SingleConsumerEach == Spec => []OneConsumerEach
<1>1. ASSUME StartupInv PROVE OneConsumerEach
  <2> SUFFICES ASSUME NEW p \in Process, NEW q \in Process,
                      proc[p].con # "none", proc[q].con # "none", Root(p) = Root(q)
               PROVE  p = q
    BY DEF OneConsumerEach
  <2>1. Starts(p) /\ Starts(q) /\ Running(p) /\ Running(q)
    BY <1>1 DEF StartupInv, ConsumerHome, Running, Starts
  <2>2. CASE proc[p].parent = None /\ proc[q].parent = None
    BY <2>2 DEF Root
  \* A parent has no consumer, so a child's root is nobody else's.
  <2>3. CASE proc[p].parent # None /\ proc[q].parent = None
    BY <1>1, <2>1, <2>3 DEF Root, Starts, StartupInv, OneChild
  <2>4. CASE proc[p].parent = None /\ proc[q].parent # None
    BY <1>1, <2>1, <2>4 DEF Root, Starts, StartupInv, OneChild
  <2>5. CASE proc[p].parent # None /\ proc[q].parent # None
    BY <1>1, <2>1, <2>5 DEF Root, Starts, StartupInv, OneChild
  <2> QED BY <2>2, <2>3, <2>4, <2>5
<1> QED BY <1>1, StartupInvariance, PTL

\* Requests are served only where the results consumer is.
THEOREM ServedWithConsumer == Spec => []ServesWithConsumer
<1>1. ASSUME StartupInv PROVE ServesWithConsumer
  BY <1>1 DEF StartupInv, ConsumerHome, ImportedServing, ServesWithConsumer, Serves
<1> QED BY <1>1, StartupInvariance, PTL
====
