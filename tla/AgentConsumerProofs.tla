---- MODULE AgentConsumerProofs ----
(***************************************************************************)
(* Proofs about AgentConsumer, for any number of tasks and consumers, any  *)
(* MESSAGE_MAX_ATTEMPTS >= 1 and any number of faults.                     *)
(***************************************************************************)
EXTENDS AgentConsumer, FiniteSetTheorems, TLAPS

\* A callback in progress has a well-formed delivery in hand.
LEMMA HeldCopy ==
    ASSUME TypeOK, HeldWhileBusy, NEW c \in Consumer, pc[c] \in Busy
    PROVE  held[c] \in Copy /\ held[c] # None
BY DEF TypeOK, HeldWhileBusy, Busy

\* The fields of a message.
LEMMA CopyFields ==
    ASSUME NEW m \in Copy
    PROVE  m.task \in Task /\ m.attempt \in Nat /\ m.attempt <= MaxAttempts
BY ConsumerAssumption DEF Copy

\* The message on_message republishes.
LEMMA NextCopy ==
    ASSUME NEW m \in Copy, ~(m.attempt >= MaxAttempts)
    PROVE  /\ NextAttempt(m) \in Copy
           /\ NextAttempt(m).task = m.task
           /\ NextAttempt(m).attempt = m.attempt + 1
BY ConsumerAssumption DEF Copy, NextAttempt

\* The first message of a task.
LEMMA FirstCopy ==
    ASSUME NEW t \in Task
    PROVE  [task |-> t, attempt |-> 1] \in Copy
BY ConsumerAssumption DEF Copy

\* Putting a message on the queue adds that message and takes nothing away.
LEMMA PutFacts ==
    ASSUME queue \in [Copy -> Nat], NEW m \in Copy, Put(m)
    PROVE  /\ queue' \in [Copy -> Nat]
           /\ queue'[m] > 0
           /\ \A n \in Copy : queue[n] > 0 => queue'[n] > 0
           /\ \A n \in Copy : queue'[n] > 0 => n = m \/ queue[n] > 0
BY DEF Put

\* What a lost connection or a dead process gives back to the queue.
LEMMA ReturnFacts ==
    ASSUME TypeOK, HeldWhileBusy, NEW c \in Consumer, Return(c)
    PROVE  /\ queue' \in [Copy -> Nat]
           /\ Unacked(c) => held[c] \in Copy /\ queue'[held[c]] > 0
           /\ \A n \in Copy : queue[n] > 0 => queue'[n] > 0
           /\ \A n \in Copy : queue'[n] > 0 => (n = held[c] /\ Unacked(c)) \/ queue[n] > 0
<1>1. queue \in [Copy -> Nat] /\ (Unacked(c) => held[c] \in Copy)
  BY DEF TypeOK, Unacked
<1>2. CASE Unacked(c)
  BY <1>1, <1>2, PutFacts DEF Return
<1>3. CASE ~Unacked(c)
  BY <1>1, <1>3 DEF Return
<1> QED BY <1>2, <1>3

LEMMA InitInv == Init => ConsumerInv
<1> SUFFICES ASSUME Init PROVE ConsumerInv
  OBVIOUS
<1>1. /\ TypeOK /\ HeldWhileBusy /\ SubscribedToCurrent /\ NothingInvented /\ HeldRan
      /\ NoTaskLost /\ AttemptsHonest
  BY ConsumerAssumption
     DEF Init, TypeOK, Label, Copy, HeldWhileBusy, Busy, SubscribedToCurrent,
         NothingInvented, HeldRan, NoTaskLost, AttemptsHonest
<1>2. OneCopy
  BY DEF Init, OneCopy, Handling, Busy, NoConcurrentRuns
<1>3. WorkLeft
  <2>1. \A t \in Task : Ahead(t) = {}
    BY DEF Init, Ahead, Handling, Busy
  <2> QED BY <2>1, FS_EmptySet DEF Init, WorkLeft
<1> QED BY <1>1, <1>2, <1>3 DEF ConsumerInv

----------------------------------------------------------------------------

\* Type correctness, one step per action.
LEMMA TypeStep == ConsumerInv /\ [Next]_vars => TypeOK'
<1> SUFFICES ASSUME ConsumerInv, [Next]_vars PROVE TypeOK'
  OBVIOUS
<1> USE DEF Goto, LetGo, Fault, broker
<1>0. TypeOK /\ HeldWhileBusy
  BY DEF ConsumerInv
<1>1. CASE UNCHANGED vars
  BY <1>0, <1>1 DEF vars, TypeOK
<1>2. ASSUME NEW t \in Task, PublishTask(t) PROVE TypeOK'
  <2>1. queue' \in [Copy -> Nat]
    BY <1>0, <1>2, FirstCopy, PutFacts DEF PublishTask, TypeOK
  <2> QED BY <1>0, <1>2, <2>1 DEF PublishTask, TypeOK
<1>3. ASSUME NEW c \in Consumer, Declare(c) PROVE TypeOK'
  BY <1>0, <1>3 DEF Declare, TypeOK, Label
<1>4. ASSUME NEW c \in Consumer, DeclareRefused(c) PROVE TypeOK'
  BY <1>0, <1>4 DEF DeclareRefused, TypeOK, Label
<1>5. ASSUME NEW c \in Consumer, DeleteQueue(c) PROVE TypeOK'
  BY <1>0, <1>5 DEF DeleteQueue, TypeOK, Label
<1>6. ASSUME NEW c \in Consumer, Deliver(c) PROVE TypeOK'
  <2>1. PICK m \in Copy : /\ queue[m] > 0
                         /\ queue' = [queue EXCEPT ![m] = @ - 1]
                         /\ held' = [held EXCEPT ![c] = m]
                         /\ runs' = [runs EXCEPT ![m.task] = @ + 1]
    BY <1>6 DEF Deliver, Take
  <2>2. queue[m] \in Nat /\ m.task \in Task /\ runs[m.task] \in Nat
    BY <1>0, CopyFields DEF TypeOK
  <2>3. queue' \in [Copy -> Nat] /\ runs' \in [Task -> Nat]
    BY <1>0, <2>1, <2>2 DEF TypeOK
  <2> QED BY <1>0, <1>6, <2>1, <2>3 DEF Deliver, TypeOK, Label
<1>7. ASSUME NEW c \in Consumer, HandlerReturns(c) \/ HandlerRaises(c) PROVE TypeOK'
  BY <1>0, <1>7 DEF HandlerReturns, HandlerRaises, TypeOK, Label
<1>8. ASSUME NEW c \in Consumer, PublishResult(c) \/ PublishResultRaises(c) PROVE TypeOK'
  <2>1. held[c].task \in Task
    BY <1>0, <1>8, HeldCopy, CopyFields DEF PublishResult, PublishResultRaises, Busy
  <2> QED BY <1>0, <1>8, <2>1 DEF PublishResult, PublishResultRaises, TypeOK, Label
<1>9. ASSUME NEW c \in Consumer, Ack(c) \/ Disconnect(c) PROVE TypeOK'
  BY <1>0, <1>9 DEF Ack, Disconnect, TypeOK, Label
<1>10. ASSUME NEW c \in Consumer, GiveUp(c) \/ RepublishRaises(c) PROVE TypeOK'
  <2>1. held[c] \in Copy
    BY <1>0, <1>10, HeldCopy DEF GiveUp, RepublishRaises, Busy
  <2> QED
    BY <1>0, <1>10, <2>1, ConsumerAssumption
    DEF GiveUp, RepublishRaises, DeadLetter, Park, TypeOK, Label
<1>11. ASSUME NEW c \in Consumer, Republish(c) PROVE TypeOK'
  <2>1. held[c] \in Copy /\ NextAttempt(held[c]) \in Copy
    BY <1>0, <1>11, HeldCopy, NextCopy DEF Republish, LastAttempt, Busy
  <2>2. queue' \in [Copy -> Nat]
    BY <1>0, <1>11, <2>1, PutFacts DEF Republish, TypeOK
  <2> QED BY <1>0, <1>11, <2>2 DEF Republish, TypeOK, Label
<1>12. ASSUME NEW c \in Consumer, LoseLink(c) \/ Crash(c) PROVE TypeOK'
  <2>1. queue' \in [Copy -> Nat]
    BY <1>0, <1>12, ReturnFacts DEF LoseLink, Crash
  <2> QED BY <1>0, <1>12, <2>1, ConsumerAssumption DEF LoseLink, Crash, TypeOK, Label
<1> QED
  BY <1>1, <1>2, <1>3, <1>4, <1>5, <1>6, <1>7, <1>8, <1>9, <1>10, <1>11, <1>12
  DEF Next, Work, Break

\* Only on_message holds a delivery, it acks what it answered, and it is
\* subscribed to a queue with the current arguments only.
LEMMA BookStep == ConsumerInv /\ [Next]_vars => HeldWhileBusy' /\ SubscribedToCurrent'
<1> SUFFICES ASSUME ConsumerInv, [Next]_vars PROVE HeldWhileBusy' /\ SubscribedToCurrent'
  OBVIOUS
<1> USE DEF Goto, LetGo, Fault, broker, HeldWhileBusy, SubscribedToCurrent, Busy, Label
<1>0. TypeOK /\ HeldWhileBusy /\ SubscribedToCurrent
  BY DEF ConsumerInv
<1>1. CASE UNCHANGED vars
  BY <1>0, <1>1 DEF vars
<1>2. ASSUME NEW t \in Task, PublishTask(t) PROVE HeldWhileBusy' /\ SubscribedToCurrent'
  BY <1>0, <1>2 DEF PublishTask
<1>3. ASSUME NEW c \in Consumer, Declare(c) \/ DeclareRefused(c) \/ DeleteQueue(c)
      PROVE  HeldWhileBusy' /\ SubscribedToCurrent'
  BY <1>0, <1>3 DEF Declare, DeclareRefused, DeleteQueue, TypeOK
<1>4. ASSUME NEW c \in Consumer, Deliver(c) PROVE HeldWhileBusy' /\ SubscribedToCurrent'
  BY <1>0, <1>4, NoneAssumption DEF Deliver, TypeOK
<1>5. ASSUME NEW c \in Consumer, HandlerReturns(c) \/ HandlerRaises(c)
      PROVE  HeldWhileBusy' /\ SubscribedToCurrent'
  BY <1>0, <1>5 DEF HandlerReturns, HandlerRaises, TypeOK
<1>6. ASSUME NEW c \in Consumer, PublishResult(c) \/ PublishResultRaises(c)
      PROVE  HeldWhileBusy' /\ SubscribedToCurrent'
  BY <1>0, <1>6 DEF PublishResult, PublishResultRaises, TypeOK
<1>7. ASSUME NEW c \in Consumer, Ack(c) \/ Disconnect(c)
      PROVE  HeldWhileBusy' /\ SubscribedToCurrent'
  BY <1>0, <1>7 DEF Ack, Disconnect, TypeOK
<1>8. ASSUME NEW c \in Consumer, GiveUp(c) \/ RepublishRaises(c)
      PROVE  HeldWhileBusy' /\ SubscribedToCurrent'
  BY <1>0, <1>8 DEF GiveUp, RepublishRaises, DeadLetter, Park, TypeOK
<1>9. ASSUME NEW c \in Consumer, Republish(c) PROVE HeldWhileBusy' /\ SubscribedToCurrent'
  BY <1>0, <1>9 DEF Republish, TypeOK
<1>10. ASSUME NEW c \in Consumer, LoseLink(c) \/ Crash(c)
       PROVE  HeldWhileBusy' /\ SubscribedToCurrent'
  BY <1>0, <1>10 DEF LoseLink, Crash, TypeOK
<1> QED
  BY <1>1, <1>2, <1>3, <1>4, <1>5, <1>6, <1>7, <1>8, <1>9, <1>10 DEF Next, Work, Break

----------------------------------------------------------------------------

\* A republished message stands for the task in hand.
LEMMA RepublishFacts ==
    ASSUME TypeOK, HeldWhileBusy, NEW c \in Consumer, Republish(c)
    PROVE  /\ held[c] \in Copy /\ held[c] # None
           /\ queue' \in [Copy -> Nat]
           /\ \A n \in Copy : queue[n] > 0 => queue'[n] > 0
           /\ \A n \in Copy : queue'[n] > 0 =>
                \/ n.task = held[c].task /\ n.attempt = held[c].attempt + 1
                \/ queue[n] > 0
           /\ topology # "absent" =>
                \E n \in Copy : n.task = held[c].task /\ queue'[n] > 0
<1> DEFINE next == NextAttempt(held[c])
<1>1. held[c] \in Copy /\ held[c] # None
  BY HeldCopy DEF Republish, Busy
<1>2. /\ next \in Copy
      /\ next.task = held[c].task /\ next.attempt = held[c].attempt + 1
  BY <1>1, NextCopy DEF Republish, LastAttempt
<1>3. queue \in [Copy -> Nat]
  BY DEF TypeOK
<1>4. CASE topology = "absent"
  BY <1>1, <1>3, <1>4 DEF Republish
<1>5. CASE topology # "absent"
  <2>1. Put(next)
    BY <1>5 DEF Republish
  <2> HIDE DEF next
  <2> QED BY <1>1, <1>2, <1>3, <2>1, PutFacts
<1> QED BY <1>4, <1>5

\* What Deliver takes off the queue.
LEMMA DeliverFacts ==
    ASSUME TypeOK, NEW c \in Consumer, Deliver(c)
    PROVE  \E m \in Copy :
             /\ queue[m] > 0
             /\ held' = [held EXCEPT ![c] = m]
             /\ runs' = [runs EXCEPT ![m.task] = @ + 1]
             /\ \A n \in Copy \ {m} : queue'[n] = queue[n]
             /\ \A n \in Copy : queue'[n] > 0 => queue[n] > 0
BY DEF Deliver, Take, TypeOK

\* Every message, answer and dead letter stems from a publish.
LEMMA InventStep == ConsumerInv /\ [Next]_vars => NothingInvented'
<1> SUFFICES ASSUME ConsumerInv, [Next]_vars PROVE NothingInvented'
  OBVIOUS
<1> USE DEF Goto, LetGo, Fault, broker, NothingInvented
<1>0. TypeOK /\ HeldWhileBusy /\ NothingInvented
  BY DEF ConsumerInv
<1>1. CASE UNCHANGED vars
  BY <1>0, <1>1 DEF vars
<1>2. ASSUME NEW t \in Task, PublishTask(t) PROVE NothingInvented'
  <2>1. \A n \in Copy : queue'[n] > 0 => n.task = t \/ queue[n] > 0
    BY <1>0, <1>2, FirstCopy, PutFacts DEF PublishTask, TypeOK
  <2> QED BY <1>0, <1>2, <2>1 DEF PublishTask
<1>3. ASSUME NEW c \in Consumer, Declare(c) \/ DeclareRefused(c) PROVE NothingInvented'
  BY <1>0, <1>3 DEF Declare, DeclareRefused
<1>4. ASSUME NEW c \in Consumer, DeleteQueue(c) PROVE NothingInvented'
  BY <1>0, <1>4 DEF DeleteQueue, Unacked
<1>5. ASSUME NEW c \in Consumer, Deliver(c) PROVE NothingInvented'
  BY <1>0, <1>5, DeliverFacts DEF Deliver, Take, TypeOK
<1>6. ASSUME NEW c \in Consumer, HandlerReturns(c) \/ HandlerRaises(c) PROVE NothingInvented'
  BY <1>0, <1>6 DEF HandlerReturns, HandlerRaises
<1>7. ASSUME NEW c \in Consumer, PublishResult(c) \/ PublishResultRaises(c)
      PROVE  NothingInvented'
  BY <1>0, <1>7, HeldCopy DEF PublishResult, PublishResultRaises, Busy
<1>8. ASSUME NEW c \in Consumer, Ack(c) \/ Disconnect(c) PROVE NothingInvented'
  BY <1>0, <1>8 DEF Ack, Disconnect, TypeOK
<1>9. ASSUME NEW c \in Consumer, GiveUp(c) \/ RepublishRaises(c) PROVE NothingInvented'
  BY <1>0, <1>9, HeldCopy DEF GiveUp, RepublishRaises, DeadLetter, Park, Busy, TypeOK
<1>10. ASSUME NEW c \in Consumer, Republish(c) PROVE NothingInvented'
  BY <1>0, <1>10, RepublishFacts DEF Republish
<1>11. ASSUME NEW c \in Consumer, LoseLink(c) \/ Crash(c) PROVE NothingInvented'
  BY <1>0, <1>11, ReturnFacts DEF LoseLink, Crash, Unacked, TypeOK
<1> QED
  BY <1>1, <1>2, <1>3, <1>4, <1>5, <1>6, <1>7, <1>8, <1>9, <1>10, <1>11
  DEF Next, Work, Break

----------------------------------------------------------------------------

\* Attempt numbers stay honest.
LEMMA RanStep == ConsumerInv /\ [Next]_vars => HeldRan' /\ AttemptsHonest'
<1> SUFFICES ASSUME ConsumerInv, [Next]_vars PROVE HeldRan' /\ AttemptsHonest'
  OBVIOUS
<1> USE DEF Goto, LetGo, Fault, broker, HeldRan, AttemptsHonest
<1>0. TypeOK /\ HeldWhileBusy /\ HeldRan /\ AttemptsHonest
  BY DEF ConsumerInv
<1>1. CASE UNCHANGED vars
  BY <1>0, <1>1 DEF vars
<1>2. ASSUME NEW t \in Task, PublishTask(t) PROVE HeldRan' /\ AttemptsHonest'
  <2>1. /\ [task |-> t, attempt |-> 1] \in Copy
        /\ \A n \in Copy : queue'[n] > 0 => n = [task |-> t, attempt |-> 1] \/ queue[n] > 0
    BY <1>0, <1>2, FirstCopy, PutFacts DEF PublishTask, TypeOK
  <2>2. \A n \in Copy : queue'[n] > 0 => runs[n.task] >= n.attempt - 1
    BY <1>0, <2>1 DEF TypeOK
  <2> QED BY <1>0, <1>2, <2>2 DEF PublishTask
<1>3. ASSUME NEW c \in Consumer, Declare(c) \/ DeclareRefused(c) \/ DeleteQueue(c)
      PROVE  HeldRan' /\ AttemptsHonest'
  BY <1>0, <1>3 DEF Declare, DeclareRefused, DeleteQueue
<1>4. ASSUME NEW c \in Consumer, Deliver(c) PROVE HeldRan' /\ AttemptsHonest'
  <2>1. PICK m \in Copy : /\ queue[m] > 0
                         /\ held' = [held EXCEPT ![c] = m]
                         /\ runs' = [runs EXCEPT ![m.task] = @ + 1]
                         /\ \A n \in Copy : queue'[n] > 0 => queue[n] > 0
    BY <1>0, <1>4, DeliverFacts
  <2>2. /\ \A t \in Task : runs[t] \in Nat /\ runs'[t] \in Nat /\ runs'[t] >= runs[t]
        /\ runs'[m.task] = runs[m.task] + 1
    BY <1>0, <2>1, CopyFields DEF TypeOK
  <2>3. \A n \in Copy : n.task \in Task /\ n.attempt \in Nat
    BY CopyFields
  <2>4. runs'[m.task] >= m.attempt
    BY <1>0, <2>1, <2>2, <2>3
  <2>5. HeldRan'
    BY <1>0, <2>1, <2>2, <2>3, <2>4 DEF TypeOK
  <2>6. \A n \in Copy : queue'[n] > 0 => runs'[n.task] >= n.attempt - 1
    BY <1>0, <2>1, <2>2, <2>3
  <2>7. \A n \in dlq : runs'[n.task] >= n.attempt
    BY <1>0, <2>2, <2>3 DEF TypeOK
  <2> QED BY <1>0, <1>4, <2>5, <2>6, <2>7 DEF Deliver
<1>5. ASSUME NEW c \in Consumer, HandlerReturns(c) \/ HandlerRaises(c)
      PROVE  HeldRan' /\ AttemptsHonest'
  BY <1>0, <1>5 DEF HandlerReturns, HandlerRaises
<1>6. ASSUME NEW c \in Consumer, PublishResult(c) \/ PublishResultRaises(c)
      PROVE  HeldRan' /\ AttemptsHonest'
  BY <1>0, <1>6 DEF PublishResult, PublishResultRaises
<1>7. ASSUME NEW c \in Consumer, Ack(c) \/ Disconnect(c) PROVE HeldRan' /\ AttemptsHonest'
  BY <1>0, <1>7 DEF Ack, Disconnect, TypeOK
<1>8. ASSUME NEW c \in Consumer, GiveUp(c) PROVE HeldRan' /\ AttemptsHonest'
  <2>1. held[c] \in Copy /\ held[c] # None /\ held[c].attempt = MaxAttempts
    BY <1>0, <1>8, HeldCopy, CopyFields, ConsumerAssumption DEF GiveUp, Busy, LastAttempt
  <2> QED BY <1>0, <1>8, <2>1 DEF GiveUp, DeadLetter, Park, TypeOK
<1>9. ASSUME NEW c \in Consumer, RepublishRaises(c) PROVE HeldRan' /\ AttemptsHonest'
  <2>1. held[c] \in Copy /\ held[c] # None
    BY <1>0, <1>9, HeldCopy DEF RepublishRaises, Busy
  <2>2. faults' # 0
    BY <1>0, <1>9, ConsumerAssumption DEF RepublishRaises, TypeOK
  <2> QED BY <1>0, <1>9, <2>1, <2>2 DEF RepublishRaises, DeadLetter, Park, TypeOK
<1>10. ASSUME NEW c \in Consumer, Republish(c) PROVE HeldRan' /\ AttemptsHonest'
  <2>1. /\ held[c] \in Copy /\ runs[held[c].task] >= held[c].attempt
        /\ \A n \in Copy : queue'[n] > 0 =>
             \/ n.task = held[c].task /\ n.attempt = held[c].attempt + 1
             \/ queue[n] > 0
    BY <1>0, <1>10, RepublishFacts
  <2>2. runs[held[c].task] \in Nat /\ held[c].attempt \in Nat
    BY <1>0, <2>1, CopyFields, ConsumerAssumption DEF TypeOK
  <2>3. \A n \in Copy : queue'[n] > 0 => runs[n.task] >= n.attempt - 1
    BY <1>0, <2>1, <2>2
  <2> QED BY <1>0, <1>10, <2>3 DEF Republish
<1>11. ASSUME NEW c \in Consumer, LoseLink(c) \/ Crash(c) PROVE HeldRan' /\ AttemptsHonest'
  <2>1. \A n \in Copy : queue'[n] > 0 => (n = held[c] /\ Unacked(c)) \/ queue[n] > 0
    BY <1>0, <1>11, ReturnFacts DEF LoseLink, Crash
  <2>2. \A n \in Copy : n.attempt \in Nat /\ runs[n.task] \in Nat
    BY <1>0, CopyFields, ConsumerAssumption DEF TypeOK
  <2>3. \A n \in Copy : queue'[n] > 0 => runs[n.task] >= n.attempt - 1
    BY <1>0, <2>1, <2>2 DEF Unacked
  <2>4. faults' # 0
    BY <1>0, <1>11, ConsumerAssumption DEF LoseLink, Crash, TypeOK
  <2> QED BY <1>0, <1>11, <2>3, <2>4 DEF LoseLink, Crash, TypeOK
<1> QED
  BY <1>1, <1>2, <1>3, <1>4, <1>5, <1>6, <1>7, <1>8, <1>9, <1>10, <1>11
  DEF Next, Work, Break

----------------------------------------------------------------------------

\* No step loses a task.
LEMMA LostStep == ConsumerInv /\ [Next]_vars => NoTaskLost'
<1> SUFFICES ASSUME ConsumerInv, [Next]_vars PROVE NoTaskLost'
  OBVIOUS
<1> USE DEF Goto, LetGo, Fault, broker, NoTaskLost, Settled, DeadLettered
<1>0. TypeOK /\ HeldWhileBusy /\ SubscribedToCurrent /\ NothingInvented /\ NoTaskLost
  BY DEF ConsumerInv
<1>1. CASE UNCHANGED vars
  BY <1>0, <1>1 DEF vars, InQueue, InHand, Unacked
<1>2. ASSUME NEW t \in Task, PublishTask(t) PROVE NoTaskLost'
  <2>1. /\ [task |-> t, attempt |-> 1] \in Copy
        /\ queue'[[task |-> t, attempt |-> 1]] > 0
        /\ \A n \in Copy : queue[n] > 0 => queue'[n] > 0
    BY <1>0, <1>2, FirstCopy, PutFacts DEF PublishTask, TypeOK
  <2>2. InQueue(t)'
    BY <2>1 DEF InQueue
  <2> QED BY <1>0, <1>2, <2>1, <2>2 DEF PublishTask, InQueue, InHand, Unacked
<1>3. ASSUME NEW c \in Consumer, Declare(c) \/ DeclareRefused(c) PROVE NoTaskLost'
  BY <1>0, <1>3 DEF Declare, DeclareRefused, InQueue, InHand, Unacked, TypeOK, Busy
<1>4. ASSUME NEW c \in Consumer, DeleteQueue(c) PROVE NoTaskLost'
  <2>1. \A t \in published : InQueue(t) \/ InHand(t) => t \in dropped'
    BY <1>0, <1>4 DEF DeleteQueue, InQueue, InHand, TypeOK
  <2> QED BY <1>0, <1>4, <2>1 DEF DeleteQueue
<1>5. ASSUME NEW c \in Consumer, Deliver(c) PROVE NoTaskLost'
  <2>1. PICK m \in Copy : /\ held' = [held EXCEPT ![c] = m]
                         /\ \A n \in Copy \ {m} : queue'[n] = queue[n]
    BY <1>0, <1>5, DeliverFacts
  <2>2. InHand(m.task)'
    BY <1>0, <1>5, <2>1, NoneAssumption DEF Deliver, InHand, Unacked, TypeOK
  <2>3. \A t \in published : InHand(t) => InHand(t)'
    BY <1>0, <1>5, <2>1 DEF Deliver, InHand, Unacked, TypeOK, HeldWhileBusy, Busy
  <2>4. \A t \in published : InQueue(t) => InQueue(t)' \/ t = m.task
    BY <2>1 DEF InQueue
  <2> QED BY <1>0, <1>5, <2>2, <2>3, <2>4 DEF Deliver
<1>6. ASSUME NEW c \in Consumer, HandlerReturns(c) \/ HandlerRaises(c) PROVE NoTaskLost'
  BY <1>0, <1>6 DEF HandlerReturns, HandlerRaises, InQueue, InHand, Unacked, TypeOK
<1>7. ASSUME NEW c \in Consumer, PublishResult(c) \/ PublishResultRaises(c) PROVE NoTaskLost'
  BY <1>0, <1>7 DEF PublishResult, PublishResultRaises, InQueue, InHand, Unacked, TypeOK
<1>8. ASSUME NEW c \in Consumer, Ack(c) \/ Disconnect(c) PROVE NoTaskLost'
  \* What is acked is answered, or was put back before (requeued).
  BY <1>0, <1>8
  DEF Ack, Disconnect, InQueue, InHand, Unacked, TypeOK, HeldWhileBusy, Busy
<1>9. ASSUME NEW c \in Consumer, GiveUp(c) \/ RepublishRaises(c) PROVE NoTaskLost'
  BY <1>0, <1>9
  DEF GiveUp, RepublishRaises, DeadLetter, Park, InQueue, InHand, Unacked, TypeOK
<1>10. ASSUME NEW c \in Consumer, Republish(c) PROVE NoTaskLost'
  <2>1. \A t \in published : InQueue(t) => InQueue(t)'
    BY <1>0, <1>10, RepublishFacts DEF InQueue
  <2>2. \A t \in Task : Unacked(c) /\ t = held[c].task => InQueue(t)'
    BY <1>0, <1>10, RepublishFacts DEF InQueue, Unacked, SubscribedToCurrent
  <2>3. \A t \in published : InHand(t) => InHand(t)' \/ (Unacked(c) /\ t = held[c].task)
    BY <1>0, <1>10 DEF Republish, InHand, Unacked, TypeOK
  <2> QED BY <1>0, <1>10, <2>1, <2>2, <2>3 DEF Republish, TypeOK
<1>11. ASSUME NEW c \in Consumer, LoseLink(c) \/ Crash(c) PROVE NoTaskLost'
  <2>1. /\ Unacked(c) => held[c] \in Copy /\ queue'[held[c]] > 0
        /\ \A n \in Copy : queue[n] > 0 => queue'[n] > 0
    BY <1>0, <1>11, ReturnFacts DEF LoseLink, Crash
  <2>2. \A t \in Task : Unacked(c) /\ t = held[c].task => InQueue(t)'
    BY <2>1 DEF InQueue
  <2>3. \A t \in published : InQueue(t) => InQueue(t)'
    BY <2>1 DEF InQueue
  <2>4. \A t \in published : InHand(t) => InHand(t)' \/ (Unacked(c) /\ t = held[c].task)
    BY <1>0, <1>11 DEF LoseLink, Crash, InHand, Unacked, TypeOK
  <2> QED BY <1>0, <1>11, <2>2, <2>3, <2>4 DEF LoseLink, Crash, TypeOK
<1> QED
  BY <1>1, <1>2, <1>3, <1>4, <1>5, <1>6, <1>7, <1>8, <1>9, <1>10, <1>11
  DEF Next, Work, Break

----------------------------------------------------------------------------

\* Without faults no step makes a second copy of a task.
LEMMA OneCopyStep == ConsumerInv /\ [Next]_vars => OneCopy'
<1> SUFFICES ASSUME ConsumerInv, [Next]_vars, faults' = 0 PROVE OneCopy'
  BY DEF OneCopy, NoConcurrentRuns
<1> DEFINE Serving(c) == pc[c] \in {"handling", "publishing", "acking", "excepted"}
           Single == /\ \A m \in Copy : queue[m] <= 1
                     /\ \A m, n \in Copy : queue[m] > 0 /\ queue[n] > 0 /\ m.task = n.task => m = n
                     /\ \A c \in Consumer, m \in Copy :
                            Serving(c) /\ queue[m] > 0 => held[c].task # m.task
                     /\ \A c, d \in Consumer :
                            Serving(c) /\ Serving(d) /\ held[c].task = held[d].task => c = d
<1> USE DEF Goto, LetGo, broker
<1>0. TypeOK /\ HeldWhileBusy /\ NothingInvented
  BY DEF ConsumerInv
<1>f. faults = 0
  <2>1. ASSUME NEW c \in Consumer, Work(c) PROVE faults' = faults
    BY <2>1
    DEF Work, Declare, DeclareRefused, DeleteQueue, Deliver, HandlerReturns, HandlerRaises,
        PublishResult, PublishResultRaises, Ack, GiveUp, Republish, Disconnect
  <2>2. ASSUME NEW c \in Consumer, Break(c) PROVE faults' = faults + 1
    BY <2>2 DEF Break, RepublishRaises, LoseLink, Crash, Fault
  <2>3. faults' = faults \/ faults' = faults + 1
    BY <2>1, <2>2 DEF Next, vars, PublishTask
  <2> QED BY <1>0, <2>3, ConsumerAssumption DEF TypeOK
<1>s. Single
  BY <1>f DEF ConsumerInv, OneCopy, NoConcurrentRuns, Handling, Busy
<1>g. Single' => OneCopy'
  BY DEF OneCopy, NoConcurrentRuns, Handling, Busy
<1>1. CASE UNCHANGED vars
  BY <1>g, <1>s, <1>1 DEF vars
<1>2. ASSUME NEW t \in Task, PublishTask(t) PROVE Single'
  <2> DEFINE first == [task |-> t, attempt |-> 1]
  <2>1. first \in Copy /\ first.task = t
    BY FirstCopy
  <2>2. queue' = [queue EXCEPT ![first] = @ + 1]
    BY <1>2 DEF PublishTask, Put
  <2>3. queue \in [Copy -> Nat] /\ t \notin published
    BY <1>0, <1>2 DEF TypeOK, PublishTask
  <2>4. \A m \in Copy : queue[m] > 0 => m.task # t
    BY <1>0, <2>3 DEF NothingInvented
  <2>5. \A c \in Consumer : Serving(c) => held[c].task # t
    BY <1>0, <2>3 DEF NothingInvented, HeldWhileBusy, Busy
  <2>6. UNCHANGED <<pc, held>>
    BY <1>2 DEF PublishTask
  <2> HIDE DEF first
  <2>7. /\ queue'[first] = 1
        /\ \A m \in Copy : m # first => queue'[m] = queue[m]
    BY <2>1, <2>2, <2>3, <2>4
  <2> QED BY <1>s, <2>1, <2>4, <2>5, <2>6, <2>7
<1>3. ASSUME NEW c \in Consumer, Declare(c) \/ DeclareRefused(c) \/ DeleteQueue(c) PROVE Single'
  BY <1>0, <1>s, <1>3 DEF Declare, DeclareRefused, DeleteQueue, TypeOK
<1>4. ASSUME NEW c \in Consumer, Deliver(c) PROVE Single'
  <2>1. PICK m \in Copy : /\ queue[m] > 0 /\ queue' = [queue EXCEPT ![m] = @ - 1]
                         /\ held' = [held EXCEPT ![c] = m]
    BY <1>4 DEF Deliver, Take
  <2>2. queue \in [Copy -> Nat] /\ held'[c] = m /\ \A d \in Consumer \ {c} : held'[d] = held[d]
    BY <1>0, <2>1 DEF TypeOK
  <2>3. queue'[m] = 0 /\ \A n \in Copy : n # m => queue'[n] = queue[n]
    BY <1>s, <2>1, <2>2
  <2>4. \A d \in Consumer : d # c => (Serving(d)' <=> Serving(d))
    BY <1>0, <1>4 DEF Deliver, TypeOK
  <2>5. \A d \in Consumer \ {c} : Serving(d) => held[d].task # m.task
    BY <1>s, <2>1
  <2> QED BY <1>s, <2>1, <2>2, <2>3, <2>4, <2>5
<1>5. ASSUME NEW c \in Consumer,
             \/ HandlerReturns(c) \/ HandlerRaises(c) \/ PublishResult(c) \/ PublishResultRaises(c)
      PROVE  Single'
  BY <1>0, <1>s, <1>5
  DEF HandlerReturns, HandlerRaises, PublishResult, PublishResultRaises, TypeOK
<1>6. ASSUME NEW c \in Consumer, Ack(c) \/ Disconnect(c) \/ GiveUp(c) PROVE Single'
  <2>1. UNCHANGED queue /\ ~Serving(c)' /\ \A d \in Consumer : d # c =>
           held'[d] = held[d] /\ pc'[d] = pc[d]
    BY <1>0, <1>6 DEF Ack, Disconnect, GiveUp, DeadLetter, TypeOK
  <2> QED BY <1>s, <2>1
<1>7. ASSUME NEW c \in Consumer, Republish(c) PROVE Single'
  <2>1. /\ held[c] \in Copy /\ Serving(c) /\ UNCHANGED held
        /\ ~Serving(c)' /\ \A d \in Consumer : d # c => pc'[d] = pc[d]
    BY <1>0, <1>7, HeldCopy DEF Republish, Busy, TypeOK
  <2> DEFINE next == NextAttempt(held[c])
  <2>2. next \in Copy /\ next.task = held[c].task
    BY <1>7, <2>1, NextCopy DEF Republish, LastAttempt
  <2>3. queue' = queue \/ queue' = [queue EXCEPT ![next] = @ + 1]
    BY <1>7 DEF Republish, Put
  <2>4. queue \in [Copy -> Nat] /\ \A m \in Copy : queue[m] > 0 => m.task # held[c].task
    BY <1>0, <1>s, <2>1 DEF TypeOK
  <2> HIDE DEF next
  <2>5. CASE queue' = queue
    BY <1>s, <2>1, <2>5
  <2>6. CASE queue' = [queue EXCEPT ![next] = @ + 1]
    <3>1. queue'[next] = 1 /\ \A m \in Copy : m # next => queue'[m] = queue[m]
      BY <2>2, <2>4, <2>6
    <3>2. \A d \in Consumer : Serving(d)' => held[d].task # next.task
      BY <1>s, <2>1, <2>2
    <3> QED BY <1>s, <2>1, <2>2, <2>4, <3>1, <3>2
  <2> QED BY <2>3, <2>5, <2>6
<1>8. ASSUME NEW c \in Consumer, Break(c) PROVE FALSE
  BY <1>0, <1>8, <1>f, ConsumerAssumption DEF Break, RepublishRaises, LoseLink, Crash, Fault, TypeOK
<1>9. ASSUME NEW c \in Consumer, Work(c) PROVE Single'
  <2> HIDE DEF Single
  <2> QED BY <1>3, <1>4, <1>5, <1>6, <1>7, <1>9 DEF Work
<1> HIDE DEF Single
<1> QED BY <1>1, <1>2, <1>8, <1>9, <1>g DEF Next

----------------------------------------------------------------------------
(* The bound on handler runs: what is still ahead shrinks with every run. *)

\* The attempts of one copy, or of one consumer's delivery.
Span(tag, from) == {tag} \X (from .. MaxAttempts)

LEMMA SpanFacts ==
    ASSUME NEW tag, NEW from \in 1 .. MaxAttempts + 1
    PROVE  /\ IsFiniteSet(Span(tag, from))
           /\ Cardinality(Span(tag, from)) = MaxAttempts - from + 1
<1>1. MaxAttempts \in Nat /\ from \in Int
  BY ConsumerAssumption
<1> DEFINE S == from .. MaxAttempts
           f == [i \in S |-> <<tag, i>>]
<1>2. IsFiniteSet(S) /\ Cardinality(S) = MaxAttempts - from + 1
  <2>1. MaxAttempts \in Int
    BY <1>1
  <2>2. IsFiniteSet(S) /\ Cardinality(S) = IF from > MaxAttempts THEN 0 ELSE MaxAttempts - from + 1
    BY <1>1, <2>1, FS_Interval
  <2> QED BY <1>1, <2>2
<1>3. f \in Bijection(S, Span(tag, from))
  <2>1. f \in [S -> Span(tag, from)]
    BY DEF Span
  <2>2. \A i, j \in S : f[i] = f[j] => i = j
    OBVIOUS
  <2>3. \A p \in Span(tag, from) : \E i \in S : f[i] = p
    BY DEF Span
  <2>4. DOMAIN f = S
    OBVIOUS
  <2> HIDE DEF f, S
  <2>5. f \in Injection(S, Span(tag, from))
    BY <2>1, <2>2, <2>4 DEF Injection, IsInjective
  <2>6. f \in Surjection(S, Span(tag, from))
    BY <2>1, <2>3 DEF Surjection
  <2> QED BY <2>5, <2>6 DEF Bijection
<1>4. ExistsBijection(S, Span(tag, from))
  BY <1>3 DEF ExistsBijection
<1> QED BY <1>2, <1>4, FS_Bijection

\* What is counted grows by no more than what comes, less what leaves.
LEMMA Exchange ==
    ASSUME NEW S, IsFiniteSet(S), NEW out \in SUBSET S, NEW in, IsFiniteSet(in),
           NEW T \in SUBSET ((S \ out) \cup in)
    PROVE  /\ IsFiniteSet(T) /\ Cardinality(T) \in Nat
           /\ Cardinality(S) \in Nat
           /\ Cardinality(T) <= Cardinality(S) - Cardinality(out) + Cardinality(in)
<1> DEFINE rest == S \ out
<1>1. S \cap out = out
  OBVIOUS
<1>2. /\ IsFiniteSet(rest) /\ IsFiniteSet(out)
      /\ Cardinality(rest) = Cardinality(S) - Cardinality(out)
  <2>1. IsFiniteSet(out)
    BY FS_Subset
  <2>2. /\ IsFiniteSet(S \ out)
        /\ Cardinality(S \ out) = Cardinality(S) - Cardinality(S \cap out)
    BY FS_Difference
  <2> QED BY <1>1, <2>1, <2>2
<1> HIDE DEF rest
<1>3. /\ IsFiniteSet(rest \cup in)
      /\ Cardinality(rest \cup in) = Cardinality(rest) + Cardinality(in) - Cardinality(rest \cap in)
  BY <1>2, FS_Union
<1>4. /\ IsFiniteSet(rest \cap in)
      /\ Cardinality(rest \cap in) \in Nat
  <2>1. rest \cap in \subseteq in
    OBVIOUS
  <2> QED BY <2>1, FS_Subset, FS_CardinalityType
<1>5. IsFiniteSet(T) /\ Cardinality(T) <= Cardinality(rest \cup in)
  <2>1. T \subseteq rest \cup in
    BY DEF rest
  <2> QED BY <1>3, <2>1, FS_Subset
<1>6. /\ Cardinality(S) \in Nat /\ Cardinality(in) \in Nat /\ Cardinality(out) \in Nat
      /\ Cardinality(T) \in Nat /\ Cardinality(rest) \in Nat
      /\ Cardinality(rest \cup in) \in Nat
  BY <1>2, <1>3, <1>5, FS_CardinalityType
<1> QED BY <1>2, <1>3, <1>4, <1>5, <1>6

\* Attempts of different copies, or deliveries, are different.
LEMMA SpansApart ==
    ASSUME NEW tag, NEW other, tag # other, NEW from, NEW upto, NEW p,
           p \in Span(tag, from)
    PROVE  p \notin Span(other, upto)
BY DEF Span

\* The members of Ahead(t): attempts of the k-th copy of a message, and of a delivery.
Serves(c, t) == Handling(c) /\ link[c] # "down" /\ held[c].task = t
OfCopy(t, p) ==
    \E m \in Copy : m.task = t /\ \E k \in 1 .. queue[m] : p \in Span(<<m, k>>, m.attempt)
OfDelivery(t, p) ==
    \E c \in Consumer : Serves(c, t) /\ p \in Span(<<c, 0>>, held[c].attempt + 1)

AheadExact == \A t, p : p \in Ahead(t) <=> OfCopy(t, p) \/ OfDelivery(t, p)

LEMMA AheadMembers == AheadExact
<1> SUFFICES ASSUME NEW t, NEW p
             PROVE  p \in Ahead(t) <=> OfCopy(t, p) \/ OfDelivery(t, p)
  BY DEF AheadExact
<1> DEFINE waiting == {m \in Copy : m.task = t}
           serving == {c \in Consumer : Handling(c) /\ link[c] # "down" /\ held[c].task = t}
           C(m) == ({m} \X (1 .. queue[m])) \X (m.attempt .. MaxAttempts)
           D(c) == ({c} \X {0}) \X (held[c].attempt + 1 .. MaxAttempts)
           CC == UNION {C(m) : m \in waiting}
           DD == UNION {D(c) : c \in serving}
<1>1. ASSUME NEW m, NEW K, NEW A
      PROVE  p \in ({m} \X K) \X A <=> \E k \in K : p \in {<<m, k>>} \X A
  OBVIOUS
<1>2. ASSUME NEW c, NEW A
      PROVE  p \in ({c} \X {0}) \X A <=> p \in {<<c, 0>>} \X A
  OBVIOUS
<1>3. ASSUME NEW m
      PROVE  p \in C(m) <=> \E k \in 1 .. queue[m] : p \in Span(<<m, k>>, m.attempt)
  <2> DEFINE K == 1 .. queue[m]
             A == m.attempt .. MaxAttempts
  <2>1. p \in ({m} \X K) \X A <=> \E k \in K : p \in {<<m, k>>} \X A
    <3> HIDE DEF K, A
    <3> QED BY <1>1
  <2> QED BY <2>1 DEF Span
<1>4. ASSUME NEW c
      PROVE  p \in D(c) <=> p \in Span(<<c, 0>>, held[c].attempt + 1)
  <2> DEFINE A == held[c].attempt + 1 .. MaxAttempts
  <2>1. p \in ({c} \X {0}) \X A <=> p \in {<<c, 0>>} \X A
    <3> HIDE DEF A
    <3> QED BY <1>2
  <2> QED BY <2>1 DEF Span
<1>5. Ahead(t) = CC \cup DD
  BY DEF Ahead
<1> HIDE DEF C, D
<1>6. p \in CC <=> \E m \in waiting : p \in C(m)
  OBVIOUS
<1>7. p \in DD <=> \E c \in serving : p \in D(c)
  OBVIOUS
<1> HIDE DEF CC, DD
<1>8. OfCopy(t, p) <=> \E m \in waiting : p \in C(m)
  <2>1. OfCopy(t, p) <=> \E m \in waiting : \E k \in 1 .. queue[m] : p \in Span(<<m, k>>, m.attempt)
    BY DEF OfCopy
  <2> QED BY <1>3, <2>1, Zenon
<1>9. OfDelivery(t, p) <=> \E c \in serving : p \in D(c)
  <2>1. OfDelivery(t, p) <=> \E c \in serving : p \in Span(<<c, 0>>, held[c].attempt + 1)
    BY DEF OfDelivery, Serves
  <2> QED BY <1>4, <2>1, Zenon
<1> QED BY <1>5, <1>6, <1>7, <1>8, <1>9, Zenon

LEMMA AheadMembersNext == AheadExact'
BY AheadMembers, PTL

\* What a step adds to the attempts ahead: those of new copies and new deliveries.
LEMMA AheadGrows ==
    ASSUME NEW t, NEW in,
           \A m \in Copy : m.task = t =>
               \A k \in 1 .. queue'[m] : k \in 1 .. queue[m] \/ Span(<<m, k>>, m.attempt) \subseteq in,
           \A c \in Consumer : Serves(c, t)' =>
               \/ Serves(c, t) /\ held'[c] = held[c]
               \/ Span(<<c, 0>>, held'[c].attempt + 1) \subseteq in
    PROVE  Ahead(t)' \subseteq Ahead(t) \cup in
<1> SUFFICES ASSUME NEW p, p \in Ahead(t)' PROVE p \in Ahead(t) \/ p \in in
  OBVIOUS
<1>1. CASE OfCopy(t, p)'
  <2>1. PICK m \in Copy : m.task = t /\ \E k \in 1 .. queue'[m] : p \in Span(<<m, k>>, m.attempt)
    BY <1>1 DEF OfCopy, Span
  <2>2. PICK k \in 1 .. queue'[m] : p \in Span(<<m, k>>, m.attempt)
    BY <2>1
  <2>3. CASE k \in 1 .. queue[m]
    <3>1. OfCopy(t, p)
      BY <2>1, <2>2, <2>3, Zenon DEF OfCopy
    <3> QED BY <3>1, AheadMembers, Zenon DEF AheadExact
  <2>4. CASE Span(<<m, k>>, m.attempt) \subseteq in
    BY <2>2, <2>4
  <2> QED BY <2>1, <2>3, <2>4
<1>2. CASE OfDelivery(t, p)'
  <2>1. PICK c \in Consumer : Serves(c, t)' /\ p \in Span(<<c, 0>>, held'[c].attempt + 1)
    BY <1>2 DEF OfDelivery, Span
  <2>2. CASE Serves(c, t) /\ held'[c] = held[c]
    <3>1. OfDelivery(t, p)
      BY <2>1, <2>2, Zenon DEF OfDelivery
    <3> QED BY <3>1, AheadMembers, Zenon DEF AheadExact
  <2>3. CASE Span(<<c, 0>>, held'[c].attempt + 1) \subseteq in
    BY <2>1, <2>3
  <2> QED BY <2>1, <2>2, <2>3
<1> QED BY <1>1, <1>2, AheadMembersNext, Zenon DEF AheadExact

\* Nothing comes for a task whose copies do not multiply and whose deliveries only end.
LEMMA AheadShrinks ==
    ASSUME TypeOK, TypeOK', NEW t,
           \A m \in Copy : m.task = t => queue'[m] <= queue[m],
           \A c \in Consumer : Serves(c, t)' => Serves(c, t) /\ held'[c] = held[c]
    PROVE  Ahead(t)' \subseteq Ahead(t)
<1>1. \A m \in Copy : m.task = t => \A k \in 1 .. queue'[m] : k \in 1 .. queue[m]
  BY DEF TypeOK
<1>2. Ahead(t)' \subseteq Ahead(t) \cup {}
  BY <1>1, AheadGrows, Zenon
<1> QED BY <1>2

\* What a step takes away: the attempts of a copy, or a delivery, that ends.
LEMMA AheadLeaves ==
    ASSUME NEW t, NEW tag, NEW from,
           \A m \in Copy : \A k \in 1 .. queue'[m] : <<m, k>> # tag,
           \A c \in Consumer : Serves(c, t)' => <<c, 0>> # tag
    PROVE  Ahead(t)' \cap Span(tag, from) = {}
<1> SUFFICES ASSUME NEW p, p \in Ahead(t)' PROVE p \notin Span(tag, from)
  OBVIOUS
<1>1. CASE OfCopy(t, p)'
  <2>1. PICK m \in Copy : \E k \in 1 .. queue'[m] : p \in Span(<<m, k>>, m.attempt)
    BY <1>1 DEF OfCopy, Span
  <2> QED BY <2>1, SpansApart, Zenon
<1>2. CASE OfDelivery(t, p)'
  <2>1. PICK c \in Consumer : Serves(c, t)' /\ p \in Span(<<c, 0>>, held'[c].attempt + 1)
    BY <1>2 DEF OfDelivery, Span
  <2> QED BY <2>1, SpansApart, Zenon
<1> QED BY <1>1, <1>2, AheadMembersNext, Zenon DEF AheadExact

\* The bound for one task.
WithinBound(t) ==
    /\ IsFiniteSet(Ahead(t))
    /\ t \notin published => runs[t] = 0
    /\ t \in published => runs[t] + Cardinality(Ahead(t)) <= MaxAttempts * (1 + faults)

\* A fault pays for MaxAttempts more runs.
LEMMA Budget ==
    ASSUME NEW n \in Nat, NEW f \in Nat
    PROVE  /\ n * (1 + f) \in Nat
           /\ n * (1 + (f + 1)) = n * (1 + f) + n
           /\ n <= n * (1 + f)
<1>1. n * f \in Nat /\ n * (1 + f) = n + n * f
  OBVIOUS
<1>2. n * (1 + (f + 1)) = n * (1 + f) + n
  OBVIOUS
<1> QED BY <1>1, <1>2

LEMMA BudgetGrows ==
    ASSUME TypeOK, faults' = faults \/ faults' = faults + 1
    PROVE  /\ MaxAttempts * (1 + faults) \in Nat
           /\ MaxAttempts * (1 + faults') \in Nat
           /\ MaxAttempts * (1 + faults) <= MaxAttempts * (1 + faults')
           /\ faults' = faults + 1 =>
                MaxAttempts * (1 + faults') = MaxAttempts * (1 + faults) + MaxAttempts
<1>1. MaxAttempts \in Nat /\ faults \in Nat
  BY ConsumerAssumption DEF TypeOK
<1>2. CASE faults' = faults
  <2>1. MaxAttempts * (1 + faults) \in Nat
    BY <1>1, Budget
  <2>2. faults' # faults + 1
    BY <1>1, <1>2
  <2> QED BY <1>2, <2>1, <2>2
<1>3. CASE faults' = faults + 1
  <2>1. /\ MaxAttempts * (1 + faults) \in Nat
        /\ MaxAttempts * (1 + (faults + 1)) = MaxAttempts * (1 + faults) + MaxAttempts
    BY <1>1, Budget
  <2> QED BY <1>1, <1>3, <2>1
<1> QED BY <1>2, <1>3

\* A task for which nothing comes and no run starts stays within its bound.
LEMMA StillWithin ==
    ASSUME TypeOK, TypeOK', NEW t \in Task, WithinBound(t), faults' = faults \/ faults' = faults + 1,
           Ahead(t)' \subseteq Ahead(t), runs'[t] = runs[t],
           t \in published' <=> t \in published
    PROVE  WithinBound(t)'
<1>1. IsFiniteSet(Ahead(t)') /\ Cardinality(Ahead(t)') <= Cardinality(Ahead(t))
  BY FS_Subset DEF WithinBound
<1>2. Cardinality(Ahead(t)) \in Nat /\ Cardinality(Ahead(t)') \in Nat
  BY <1>1, FS_CardinalityType DEF WithinBound
<1>3. runs[t] \in Nat
  BY DEF TypeOK
<1>4. ASSUME t \in published' PROVE runs'[t] + Cardinality(Ahead(t)') <= MaxAttempts * (1 + faults')
  <2>1. runs[t] + Cardinality(Ahead(t)) <= MaxAttempts * (1 + faults)
    BY <1>4 DEF WithinBound
  <2> QED BY <1>1, <1>2, <1>3, <2>1, BudgetGrows
<1>5. t \notin published' => runs'[t] = 0
  BY DEF WithinBound
<1> QED BY <1>1, <1>4, <1>5, Zenon DEF WithinBound

\* What a fault costs: the message that returns to the queue may be run up to
\* MaxAttempts times, beside what is ahead already.
LEMMA ReturnCosts ==
    ASSUME ConsumerInv, TypeOK', NEW t \in Task, NEW c \in Consumer, LoseLink(c) \/ Crash(c)
    PROVE  WithinBound(t)'
<1> USE DEF Goto, LetGo, Fault
<1>0. TypeOK /\ HeldWhileBusy /\ WithinBound(t)
  BY DEF ConsumerInv, WorkLeft, WithinBound
<1>1. /\ faults' = faults + 1 /\ UNCHANGED <<runs, published>>
      /\ Return(c)
      /\ ~Serves(c, t)'
      /\ \A d \in Consumer : Serves(d, t)' => Serves(d, t) /\ held'[d] = held[d]
  BY <1>0 DEF LoseLink, Crash, Serves, Handling, Busy, TypeOK
<1>2. CASE Unacked(c) /\ held[c].task = t
  <2> DEFINE back == held[c]
             in == Span(<<back, queue[back] + 1>>, back.attempt)
  <2>1. back \in Copy /\ queue[back] \in Nat /\ back.attempt \in 1 .. MaxAttempts
        /\ queue' = [queue EXCEPT ![back] = @ + 1] /\ queue \in [Copy -> Nat]
    BY <1>0, <1>1, <1>2 DEF Return, Put, Unacked, TypeOK, Copy
  <2>2. IsFiniteSet(in) /\ Cardinality(in) = MaxAttempts - back.attempt + 1
    BY <2>1, SpanFacts, ConsumerAssumption
  <2>3. \A m \in Copy : m.task = t =>
           \A k \in 1 .. queue'[m] : k \in 1 .. queue[m] \/ Span(<<m, k>>, m.attempt) \subseteq in
    <3> HIDE DEF back
    <3>1. \A m \in Copy : \A k \in 1 .. queue'[m] :
             k \in 1 .. queue[m] \/ (m = back /\ k = queue[back] + 1)
      BY <2>1
    <3> QED BY <3>1
  <2> HIDE DEF back, in
  <2>4. Ahead(t)' \subseteq Ahead(t) \cup in
    BY <1>1, <2>3, AheadGrows, Zenon
  <2>5. /\ IsFiniteSet(Ahead(t)') /\ Cardinality(Ahead(t)') \in Nat
        /\ Cardinality(Ahead(t)) \in Nat
        /\ Cardinality(Ahead(t)') <= Cardinality(Ahead(t)) - Cardinality({}) + Cardinality(in)
    <3>1. /\ IsFiniteSet(Ahead(t))
          /\ Ahead(t)' \in SUBSET ((Ahead(t) \ {}) \cup in)
          /\ {} \in SUBSET Ahead(t)
      BY <1>0, <2>4 DEF WithinBound
    <3> QED BY <2>2, <3>1, Exchange
  <2>6. /\ Cardinality({}) = 0 /\ MaxAttempts \in Nat /\ runs[t] \in Nat
        /\ Cardinality(in) <= MaxAttempts
    BY <1>0, <2>1, <2>2, FS_EmptySet, ConsumerAssumption DEF TypeOK
  <2>7. ASSUME t \in published
        PROVE  runs[t] + Cardinality(Ahead(t)') <= MaxAttempts * (1 + faults')
    <3>1. runs[t] + Cardinality(Ahead(t)) <= MaxAttempts * (1 + faults)
      BY <1>0, <2>7 DEF WithinBound
    <3>2. /\ MaxAttempts * (1 + faults) \in Nat
          /\ MaxAttempts * (1 + faults') = MaxAttempts * (1 + faults) + MaxAttempts
      BY <1>0, <1>1, BudgetGrows
    <3>3. Cardinality(in) \in Nat
      BY <2>2, FS_CardinalityType
    <3> QED BY <2>5, <2>6, <3>1, <3>2, <3>3
  <2>8. t \notin published => runs[t] = 0
    BY <1>0 DEF WithinBound
  <2> QED BY <1>1, <2>5, <2>7, <2>8, Zenon DEF WithinBound
<1>3. CASE ~(Unacked(c) /\ held[c].task = t)
  <2>1. \A m \in Copy : m.task = t => queue'[m] <= queue[m]
    BY <1>0, <1>1, <1>3 DEF Return, Put, TypeOK
  <2>2. Ahead(t)' \subseteq Ahead(t)
    BY <1>0, <1>1, <2>1, AheadShrinks
  <2> QED BY <1>0, <1>1, <2>2, StillWithin
<1> QED BY <1>2, <1>3

\* A run of the handler uses up one attempt of the copy it is started for.
LEMMA RunCosts ==
    ASSUME ConsumerInv, TypeOK', NEW t \in Task, NEW c \in Consumer, Deliver(c)
    PROVE  WithinBound(t)'
<1>0. TypeOK /\ HeldWhileBusy /\ NothingInvented /\ WithinBound(t)
  BY DEF ConsumerInv, WorkLeft, WithinBound
<1>1. PICK m \in Copy :
        /\ queue[m] > 0
        /\ queue' = [queue EXCEPT ![m] = @ - 1]
        /\ held' = [held EXCEPT ![c] = m]
        /\ runs' = [runs EXCEPT ![m.task] = @ + 1]
  BY DEF Deliver, Take
<1>2. /\ pc[c] = "idle" /\ UNCHANGED <<link, published, faults>>
      /\ pc' = [pc EXCEPT ![c] = "handling"]
  BY DEF Deliver, Goto
<1>3. /\ queue \in [Copy -> Nat] /\ queue[m] \in Nat /\ queue'[m] = queue[m] - 1
      /\ \A n \in Copy : n # m => queue'[n] = queue[n]
  BY <1>0, <1>1 DEF TypeOK
<1>4. \A d \in Consumer : d # c => (Serves(d, t)' => Serves(d, t) /\ held'[d] = held[d])
  BY <1>0, <1>1, <1>2 DEF Serves, Handling, TypeOK
<1>5. held'[c] = m /\ m.task \in Task
  BY <1>0, <1>1, CopyFields DEF TypeOK
<1>6. CASE m.task = t
  <2> DEFINE out == Span(<<m, queue[m]>>, m.attempt)
             in == Span(<<c, 0>>, m.attempt + 1)
  <2>1. m.attempt \in 1 .. MaxAttempts
    BY DEF Copy
  <2>2. /\ IsFiniteSet(in) /\ Cardinality(in) = MaxAttempts - (m.attempt + 1) + 1
        /\ Cardinality(out) = MaxAttempts - m.attempt + 1
    <3>1. m.attempt \in 1 .. MaxAttempts + 1 /\ m.attempt + 1 \in 1 .. MaxAttempts + 1
      BY <2>1, ConsumerAssumption
    <3> QED BY <3>1, SpanFacts
  <2> HIDE DEF out, in
  <2>3. out \subseteq Ahead(t)
    <3> SUFFICES ASSUME NEW p, p \in out PROVE p \in Ahead(t)
      OBVIOUS
    <3>1. queue[m] \in 1 .. queue[m]
      BY <1>1, <1>3
    <3>2. OfCopy(t, p)
      BY <1>6, <3>1, Zenon DEF OfCopy, out
    <3> QED BY <3>2, AheadMembers, Zenon DEF AheadExact
  <2>4. Ahead(t)' \subseteq Ahead(t) \cup in
    <3>1. \A n \in Copy : n.task = t => \A k \in 1 .. queue'[n] : k \in 1 .. queue[n]
      BY <1>3
    <3>2. \A d \in Consumer : Serves(d, t)' =>
            \/ Serves(d, t) /\ held'[d] = held[d]
            \/ Span(<<d, 0>>, held'[d].attempt + 1) \subseteq in
      BY <1>4, <1>5 DEF in
    <3> QED BY <3>1, <3>2, AheadGrows, Zenon
  <2>5. Ahead(t)' \cap out = {}
    <3>1. \A n \in Copy : \A k \in 1 .. queue'[n] : <<n, k>> # <<m, queue[m]>>
      BY <1>3
    <3>2. \A d \in Consumer : Serves(d, t)' => <<d, 0>> # <<m, queue[m]>>
      BY <1>1
    <3> QED BY <3>1, <3>2, AheadLeaves, Zenon DEF out
  <2>6. /\ IsFiniteSet(Ahead(t)') /\ Cardinality(Ahead(t)') \in Nat
        /\ Cardinality(Ahead(t)) \in Nat
        /\ Cardinality(Ahead(t)') <= Cardinality(Ahead(t)) - Cardinality(out) + Cardinality(in)
    <3>1. /\ IsFiniteSet(Ahead(t)) /\ out \in SUBSET Ahead(t)
          /\ Ahead(t)' \in SUBSET ((Ahead(t) \ out) \cup in)
      BY <1>0, <2>3, <2>4, <2>5 DEF WithinBound
    <3> QED BY <2>2, <3>1, Exchange
  <2>7. runs[t] \in Nat /\ runs'[t] = runs[t] + 1
    BY <1>0, <1>1, <1>6 DEF TypeOK
  <2>8. t \in published
    BY <1>0, <1>1, <1>6 DEF NothingInvented
  <2>9. runs[t] + Cardinality(Ahead(t)) <= MaxAttempts * (1 + faults)
    BY <1>0, <2>8 DEF WithinBound
  <2>10. runs'[t] + Cardinality(Ahead(t)') <= MaxAttempts * (1 + faults)
    <3>1. MaxAttempts * (1 + faults) \in Nat /\ MaxAttempts \in Nat /\ m.attempt \in Nat
      BY <1>0, <1>2, <2>1, BudgetGrows, ConsumerAssumption
    <3>2. Cardinality(Ahead(t)') <= Cardinality(Ahead(t)) - 1
      BY <2>2, <2>6, <3>1
    <3> QED BY <2>6, <2>7, <2>9, <3>1, <3>2
  <2> QED BY <1>2, <2>6, <2>8, <2>10, Zenon DEF WithinBound
<1>7. CASE m.task # t
  <2>1. \A n \in Copy : n.task = t => queue'[n] <= queue[n]
    BY <1>3, <1>7
  <2>2. ~Serves(c, t)'
    BY <1>5, <1>7 DEF Serves
  <2>3. Ahead(t)' \subseteq Ahead(t)
    BY <1>0, <1>4, <2>1, <2>2, AheadShrinks
  <2>4. runs'[t] = runs[t]
    BY <1>0, <1>1, <1>7 DEF TypeOK
  <2> QED BY <1>0, <1>2, <2>3, <2>4, StillWithin
<1> QED BY <1>6, <1>7

\* A task comes with one copy, which may be run MaxAttempts times.
LEMMA PublishCosts ==
    ASSUME ConsumerInv, TypeOK', NEW t \in Task, NEW u \in Task, PublishTask(u)
    PROVE  WithinBound(t)'
<1> DEFINE first == [task |-> u, attempt |-> 1]
<1>0. TypeOK /\ HeldWhileBusy /\ NothingInvented /\ WithinBound(t)
  BY DEF ConsumerInv, WorkLeft, WithinBound
<1>1. /\ first \in Copy /\ first.task = u /\ first.attempt = 1
      /\ queue' = [queue EXCEPT ![first] = @ + 1]
      /\ u \notin published /\ published' = published \cup {u}
      /\ UNCHANGED <<pc, held, link, runs, faults>>
  BY FirstCopy DEF PublishTask, Put
<1> HIDE DEF first
<1>2. \A c \in Consumer : Serves(c, t)' => Serves(c, t) /\ held'[c] = held[c]
  BY <1>1 DEF Serves, Handling
<1>3. queue \in [Copy -> Nat]
  BY <1>0 DEF TypeOK
<1>4. CASE t = u
  <2> DEFINE in == Span(<<first, queue[first] + 1>>, 1)
  <2>1. IsFiniteSet(in) /\ Cardinality(in) = MaxAttempts
    <3>1. 1 \in 1 .. MaxAttempts + 1 /\ MaxAttempts \in Nat
      BY ConsumerAssumption
    <3> QED BY <3>1, SpanFacts
  <2>2. Ahead(t)' \subseteq Ahead(t) \cup in
    <3>1. \A m \in Copy : \A k \in 1 .. queue'[m] :
             k \in 1 .. queue[m] \/ (m = first /\ k = queue[first] + 1)
      BY <1>1, <1>3
    <3>2. \A m \in Copy : m.task = t =>
             \A k \in 1 .. queue'[m] : k \in 1 .. queue[m] \/ Span(<<m, k>>, m.attempt) \subseteq in
      BY <1>1, <3>1
    <3> HIDE DEF in
    <3> QED BY <1>2, <3>2, AheadGrows, Zenon
  <2> HIDE DEF in
  <2>3. Ahead(t) = {}
    <3> SUFFICES ASSUME NEW p, p \in Ahead(t) PROVE FALSE
      OBVIOUS
    <3>1. \A m \in Copy : m.task = t => 1 .. queue[m] = {}
      <4>1. \A m \in Copy : m.task = t => queue[m] = 0
        BY <1>0, <1>1, <1>3, <1>4 DEF NothingInvented
      <4> QED BY <4>1
    <3>0. ~OfCopy(t, p)
      BY <3>1 DEF OfCopy
    <3>2. ~OfDelivery(t, p)
      BY <1>1, <1>4, <1>0 DEF OfDelivery, Serves, Handling, Busy, HeldWhileBusy, NothingInvented
    <3> QED BY <3>0, <3>2, AheadMembers, Zenon DEF AheadExact
  <2>4. IsFiniteSet(Ahead(t)') /\ Cardinality(Ahead(t)') <= MaxAttempts
    <3>1. Ahead(t)' \subseteq in
      BY <2>2, <2>3
    <3> QED BY <2>1, <3>1, FS_Subset
  <2>5. runs'[t] = 0 /\ t \in published'
    BY <1>0, <1>1, <1>4 DEF WithinBound
  <2>6. Cardinality(Ahead(t)') \in Nat
    BY <2>4, FS_CardinalityType
  <2>7. MaxAttempts <= MaxAttempts * (1 + faults')
    <3>1. faults' \in Nat /\ MaxAttempts \in Nat
      BY <1>0, <1>1, ConsumerAssumption DEF TypeOK
    <3> QED BY <3>1, Budget
  <2>8. MaxAttempts \in Nat /\ MaxAttempts * (1 + faults') \in Nat
    BY <1>0, <1>1, BudgetGrows, ConsumerAssumption
  <2>9. runs'[t] + Cardinality(Ahead(t)') <= MaxAttempts * (1 + faults')
    BY <2>4, <2>5, <2>6, <2>7, <2>8
  <2> QED BY <2>4, <2>5, <2>9, Zenon DEF WithinBound
<1>5. CASE t # u
  <2>1. \A m \in Copy : m.task = t => queue'[m] <= queue[m]
    BY <1>1, <1>3, <1>5
  <2>2. Ahead(t)' \subseteq Ahead(t)
    BY <1>0, <1>2, <2>1, AheadShrinks
  <2> QED BY <1>0, <1>1, <1>5, <2>2, StillWithin
<1> QED BY <1>4, <1>5

\* A republish trades the attempts of the delivery for those of the message it puts
\* on the queue.
LEMMA RepublishCosts ==
    ASSUME ConsumerInv, TypeOK', NEW t \in Task, NEW c \in Consumer, Republish(c)
    PROVE  WithinBound(t)'
<1> DEFINE next == NextAttempt(held[c])
<1>0. TypeOK /\ HeldWhileBusy /\ WithinBound(t)
  BY DEF ConsumerInv, WorkLeft, WithinBound
<1>1. /\ pc[c] = "excepted" /\ link[c] # "down"
      /\ pc' = [pc EXCEPT ![c] = "requeued"]
      /\ UNCHANGED <<published, held, link, runs, faults>>
      /\ queue' = queue \/ queue' = [queue EXCEPT ![next] = @ + 1]
  BY DEF Republish, Goto, Put
<1>2. held[c] \in Copy /\ held[c].attempt < MaxAttempts
  <2>1. held[c] \in Copy /\ ~(held[c].attempt >= MaxAttempts)
    BY <1>0, <1>1, HeldCopy DEF Republish, LastAttempt, Busy
  <2> QED BY <2>1, CopyFields, ConsumerAssumption
<1>3. /\ next \in Copy /\ next.task = held[c].task
      /\ next.attempt = held[c].attempt + 1
  <2>1. ~(held[c].attempt >= MaxAttempts)
    BY DEF Republish, LastAttempt
  <2> QED BY <1>2, <2>1, NextCopy
<1> HIDE DEF next
<1>4. /\ ~Serves(c, t)'
      /\ \A d \in Consumer : Serves(d, t)' => Serves(d, t) /\ held'[d] = held[d]
  BY <1>0, <1>1 DEF Serves, Handling, Busy, TypeOK
<1>5. queue \in [Copy -> Nat]
  BY <1>0 DEF TypeOK
<1>6. CASE held[c].task = t /\ queue' = [queue EXCEPT ![next] = @ + 1]
  <2> DEFINE from == held[c].attempt + 1
             out == Span(<<c, 0>>, from)
             in == Span(<<next, queue[next] + 1>>, from)
  <2>1. from \in 1 .. MaxAttempts + 1
    BY <1>2, CopyFields, ConsumerAssumption
  <2>2. IsFiniteSet(in) /\ Cardinality(in) = Cardinality(out) /\ Cardinality(in) \in Nat
    <3> HIDE DEF from
    <3>1. IsFiniteSet(in) /\ Cardinality(in) = Cardinality(out)
      BY <2>1, SpanFacts
    <3> QED BY <3>1, FS_CardinalityType
  <2>3. out \subseteq Ahead(t)
    <3> SUFFICES ASSUME NEW p, p \in out PROVE p \in Ahead(t)
      OBVIOUS
    <3>1. Serves(c, t)
      BY <1>1, <1>6 DEF Serves, Handling, Busy
    <3>2. OfDelivery(t, p)
      BY <3>1, Zenon DEF OfDelivery
    <3> QED BY <3>2, AheadMembers, Zenon DEF AheadExact
  <2>4. Ahead(t)' \subseteq Ahead(t) \cup in
    <3>1. \A m \in Copy : \A k \in 1 .. queue'[m] :
             k \in 1 .. queue[m] \/ (m = next /\ k = queue[next] + 1)
      BY <1>3, <1>5, <1>6
    <3>2. \A m \in Copy : m.task = t =>
             \A k \in 1 .. queue'[m] : k \in 1 .. queue[m] \/ Span(<<m, k>>, m.attempt) \subseteq in
      BY <1>3, <3>1
    <3> HIDE DEF in
    <3> QED BY <1>4, <3>2, AheadGrows, Zenon
  <2>5. Ahead(t)' \cap out = {}
    <3>1. \A m \in Copy : \A k \in 1 .. queue'[m] : <<m, k>> # <<c, 0>>
      BY <1>1, <1>5
    <3>2. \A d \in Consumer : Serves(d, t)' => <<d, 0>> # <<c, 0>>
      BY <1>4
    <3> HIDE DEF from
    <3> QED BY <3>1, <3>2, AheadLeaves, Zenon
  <2> HIDE DEF in, out, from
  <2>6. /\ IsFiniteSet(Ahead(t)') /\ Cardinality(Ahead(t)') \in Nat
        /\ Cardinality(Ahead(t)) \in Nat
        /\ Cardinality(Ahead(t)') <= Cardinality(Ahead(t)) - Cardinality(out) + Cardinality(in)
    <3>1. /\ IsFiniteSet(Ahead(t)) /\ out \in SUBSET Ahead(t)
          /\ Ahead(t)' \in SUBSET ((Ahead(t) \ out) \cup in)
      BY <1>0, <2>3, <2>4, <2>5 DEF WithinBound
    <3> QED BY <2>2, <3>1, Exchange
  <2>7. /\ runs[t] \in Nat /\ MaxAttempts * (1 + faults) \in Nat
        /\ Cardinality(Ahead(t)') <= Cardinality(Ahead(t))
    BY <1>0, <1>1, <2>2, <2>6, BudgetGrows DEF TypeOK
  <2>8. ASSUME t \in published
        PROVE  runs[t] + Cardinality(Ahead(t)') <= MaxAttempts * (1 + faults)
    BY <1>0, <2>6, <2>7, <2>8 DEF WithinBound
  <2>9. t \notin published => runs[t] = 0
    BY <1>0 DEF WithinBound
  <2> QED BY <1>1, <2>6, <2>8, <2>9, Zenon DEF WithinBound
<1>7. CASE ~(held[c].task = t /\ queue' = [queue EXCEPT ![next] = @ + 1])
  <2>1. \A m \in Copy : m.task = t => queue'[m] <= queue[m]
    BY <1>1, <1>3, <1>5, <1>7
  <2>2. Ahead(t)' \subseteq Ahead(t)
    BY <1>0, <1>4, <2>1, AheadShrinks
  <2> QED BY <1>0, <1>1, <2>2, StillWithin
<1> QED BY <1>6, <1>7

\* No step takes a task beyond its bound.
LEMMA WorkStep == ConsumerInv /\ [Next]_vars => WorkLeft'
<1> SUFFICES ASSUME ConsumerInv, [Next]_vars, NEW t \in Task PROVE WithinBound(t)'
  BY DEF WorkLeft, WithinBound
<1> USE DEF Goto, LetGo, Fault, broker
<1>0. TypeOK /\ HeldWhileBusy /\ WithinBound(t) /\ TypeOK'
  BY TypeStep DEF ConsumerInv, WorkLeft, WithinBound
<1>q. ASSUME UNCHANGED <<runs, published>>, faults' = faults \/ faults' = faults + 1,
             \A m \in Copy : queue'[m] <= queue[m],
             \A d \in Consumer : Serves(d, t)' => Serves(d, t) /\ held'[d] = held[d]
      PROVE  WithinBound(t)'
  <2>1. Ahead(t)' \subseteq Ahead(t)
    BY <1>0, <1>q, AheadShrinks
  <2> QED BY <1>0, <1>q, <2>1, StillWithin
<1>n. ASSUME UNCHANGED <<queue, runs, published>>, faults' = faults \/ faults' = faults + 1,
             \A d \in Consumer : Serves(d, t)' => Serves(d, t) /\ held'[d] = held[d]
      PROVE  WithinBound(t)'
  <2>1. \A m \in Copy : queue'[m] <= queue[m]
    BY <1>0, <1>n DEF TypeOK
  <2> QED BY <1>n, <1>q, <2>1
<1>1. CASE UNCHANGED vars
  <2>1. \A d \in Consumer : Serves(d, t)' => Serves(d, t) /\ held'[d] = held[d]
    BY <1>1 DEF vars, Serves, Handling
  <2> QED BY <1>1, <1>n, <2>1 DEF vars
<1>2. ASSUME NEW u \in Task, PublishTask(u) PROVE WithinBound(t)'
  BY <1>0, <1>2, PublishCosts
<1>3. ASSUME NEW c \in Consumer, Declare(c) \/ DeclareRefused(c) PROVE WithinBound(t)'
  <2>1. \A d \in Consumer : Serves(d, t)' => Serves(d, t) /\ held'[d] = held[d]
    BY <1>0, <1>3 DEF Declare, DeclareRefused, Serves, Handling, Busy, TypeOK
  <2> QED BY <1>3, <1>n, <2>1 DEF Declare, DeclareRefused
<1>4. ASSUME NEW c \in Consumer, DeleteQueue(c) PROVE WithinBound(t)'
  <2>1. \A d \in Consumer : Serves(d, t)' => Serves(d, t) /\ held'[d] = held[d]
    BY <1>0, <1>4 DEF DeleteQueue, Serves, Handling, Busy, TypeOK
  <2>2. \A m \in Copy : queue'[m] <= queue[m]
    BY <1>0, <1>4 DEF DeleteQueue, TypeOK
  <2> QED BY <1>4, <1>q, <2>1, <2>2 DEF DeleteQueue
<1>5. ASSUME NEW c \in Consumer, Deliver(c) PROVE WithinBound(t)'
  BY <1>0, <1>5, RunCosts
<1>6. ASSUME NEW c \in Consumer, HandlerReturns(c) \/ HandlerRaises(c) PROVE WithinBound(t)'
  <2>1. \A d \in Consumer : Serves(d, t)' => Serves(d, t) /\ held'[d] = held[d]
    BY <1>0, <1>6 DEF HandlerReturns, HandlerRaises, Serves, Handling, Busy, TypeOK
  <2> QED BY <1>6, <1>n, <2>1 DEF HandlerReturns, HandlerRaises
<1>7. ASSUME NEW c \in Consumer, PublishResult(c) \/ PublishResultRaises(c)
      PROVE  WithinBound(t)'
  <2>1. \A d \in Consumer : Serves(d, t)' => Serves(d, t) /\ held'[d] = held[d]
    BY <1>0, <1>7 DEF PublishResult, PublishResultRaises, Serves, Handling, Busy, TypeOK
  <2> QED BY <1>7, <1>n, <2>1 DEF PublishResult, PublishResultRaises
<1>8. ASSUME NEW c \in Consumer, Ack(c) \/ Disconnect(c) PROVE WithinBound(t)'
  <2>1. \A d \in Consumer : Serves(d, t)' => Serves(d, t) /\ held'[d] = held[d]
    BY <1>0, <1>8 DEF Ack, Disconnect, Serves, Handling, Busy, TypeOK
  <2> QED BY <1>8, <1>n, <2>1 DEF Ack, Disconnect
<1>9. ASSUME NEW c \in Consumer, GiveUp(c) \/ RepublishRaises(c) PROVE WithinBound(t)'
  <2>1. \A d \in Consumer : Serves(d, t)' => Serves(d, t) /\ held'[d] = held[d]
    BY <1>0, <1>9 DEF GiveUp, RepublishRaises, DeadLetter, Serves, Handling, Busy, TypeOK
  <2> QED BY <1>9, <1>n, <2>1 DEF GiveUp, RepublishRaises, DeadLetter
<1>10. ASSUME NEW c \in Consumer, Republish(c) PROVE WithinBound(t)'
  BY <1>0, <1>10, RepublishCosts
<1>11. ASSUME NEW c \in Consumer, LoseLink(c) \/ Crash(c) PROVE WithinBound(t)'
  BY <1>0, <1>11, ReturnCosts
<1> QED
  BY <1>1, <1>2, <1>3, <1>4, <1>5, <1>6, <1>7, <1>8, <1>9, <1>10, <1>11
  DEF Next, Work, Break

----------------------------------------------------------------------------

\* The inductive invariant.
THEOREM Invariance == Spec => []ConsumerInv
<1>1. ConsumerInv /\ [Next]_vars => ConsumerInv'
  BY TypeStep, BookStep, InventStep, RanStep, LostStep, OneCopyStep, WorkStep DEF ConsumerInv
<1> QED BY <1>1, InitInv, PTL DEF Spec

\* Type correctness of the consumer loop and its broker.
THEOREM Typing == Spec => []TypeOK
<1>1. ConsumerInv => TypeOK
  BY DEF ConsumerInv
<1> QED BY <1>1, Invariance, PTL

\* No published task is lost: it is answered, dead-lettered, dropped with its
\* queue, on the queue, or returned to it by the broker.
THEOREM TasksKept == Spec => []NoTaskLost
<1>1. ConsumerInv => NoTaskLost
  BY DEF ConsumerInv
<1> QED BY <1>1, Invariance, PTL

\* Attempt numbers count handler runs, and only faults shorten a task's life.
THEOREM AttemptsCount == Spec => []AttemptsHonest
<1>1. ConsumerInv => AttemptsHonest
  BY DEF ConsumerInv
<1> QED BY <1>1, Invariance, PTL

\* A fault costs at most MaxAttempts more runs of a handler, however the copies and
\* the deliveries of a task interleave: retrying is bounded.
THEOREM WorkIsBounded == Spec => []WorkBounded
<1>1. ConsumerInv => WorkBounded
  <2> SUFFICES ASSUME ConsumerInv, NEW t \in Task
               PROVE  runs[t] <= MaxAttempts * (1 + faults)
    BY DEF WorkBounded
  <2>1. TypeOK /\ WithinBound(t)
    BY DEF ConsumerInv, WorkLeft, WithinBound
  <2>2. runs[t] \in Nat /\ MaxAttempts * (1 + faults) \in Nat
    <3>1. MaxAttempts \in Nat /\ faults \in Nat
      BY <2>1, ConsumerAssumption DEF TypeOK
    <3> QED BY <2>1, <3>1, Budget DEF TypeOK
  <2>3. CASE t \in published
    <3>1. /\ runs[t] + Cardinality(Ahead(t)) <= MaxAttempts * (1 + faults)
          /\ Cardinality(Ahead(t)) \in Nat
      BY <2>1, <2>3, FS_CardinalityType DEF WithinBound
    <3> QED BY <2>2, <3>1
  <2>4. CASE t \notin published
    BY <2>1, <2>2, <2>4 DEF WithinBound
  <2> QED BY <2>3, <2>4
<1> QED BY <1>1, Invariance, PTL

\* Until something fails, no two consumers of the queue work on the same task.
THEOREM OneAtATime == Spec => []NoConcurrentRuns
<1>1. ConsumerInv => NoConcurrentRuns
  BY DEF ConsumerInv, OneCopy, NoConcurrentRuns
<1> QED BY <1>1, Invariance, PTL

----------------------------------------------------------------------------

\* What is settled stays settled.
LEMMA SettledGrows == [Next]_vars => SettledTasks \subseteq SettledTasks'
<1> SUFFICES ASSUME [Next]_vars
             PROVE  answered \subseteq answered' /\ dlq \subseteq dlq' /\ dropped \subseteq dropped'
  BY DEF SettledTasks, Settled, DeadLettered
<1> QED
  BY DEF Next, Work, Break, vars, broker, PublishTask, Declare, DeclareRefused, DeleteQueue,
         Deliver, HandlerReturns, HandlerRaises, PublishResult, PublishResultRaises, Ack,
         DeadLetter, Park, GiveUp, Republish, RepublishRaises, Disconnect, LoseLink, Crash

\* Only PublishTask changes what is published.
LEMMA PublishedChanges ==
    [Next]_vars => published' = published \/ \E t \in Task : PublishTask(t)
BY DEF Next, Work, Break, vars, broker, Declare, DeclareRefused, DeleteQueue,
       Deliver, HandlerReturns, HandlerRaises, PublishResult, PublishResultRaises, Ack,
       DeadLetter, Park, GiveUp, Republish, RepublishRaises, Disconnect, LoseLink, Crash

\* A step of the consumers is a step of the abstract queue.
LEMMA PromiseStep ==
    ConsumerInv /\ ConsumerInv' /\ [Next]_vars => [Promise!Next]_(Promise!vars)
<1> SUFFICES ASSUME ConsumerInv, ConsumerInv', [Next]_vars
             PROVE  Promise!Next
  OBVIOUS
<1> USE DEF Promise!Next, Promise!Serve, Promise!Submit
<1>1. CASE published' = published
  <2>1. SettledTasks \subseteq SettledTasks'
    BY SettledGrows
  <2>2. SettledTasks' \subseteq published'
    BY DEF ConsumerInv, TypeOK, NothingInvented, SettledTasks, Settled, DeadLettered
  <2>3. Owed \ Owed' \subseteq SettledTasks'
    BY <1>1 DEF Owed, SettledTasks, ConsumerInv, NoTaskLost, TypeOK
  <2>4. Owed' \subseteq published
    BY <1>1 DEF Owed
  <2> QED BY <1>1, <2>1, <2>2, <2>3, <2>4
<1>2. ASSUME NEW t \in Task, PublishTask(t) PROVE Promise!Next
  <2>1. t \notin published /\ published' = published \cup {t}
    BY <1>2 DEF PublishTask
  <2>2. SettledTasks' = SettledTasks
    BY <1>2 DEF PublishTask, SettledTasks, Settled, DeadLettered
  <2>3. /\ [task |-> t, attempt |-> 1] \in Copy
        /\ queue'[[task |-> t, attempt |-> 1]] > 0
        /\ \A n \in Copy : queue[n] > 0 => queue'[n] > 0
        /\ \A n \in Copy : queue'[n] > 0 => n = [task |-> t, attempt |-> 1] \/ queue[n] > 0
    BY <1>2, FirstCopy, PutFacts DEF PublishTask, ConsumerInv, TypeOK
  <2>4. \A u \in published : (InQueue(u) \/ InHand(u))' <=> InQueue(u) \/ InHand(u)
    BY <1>2, <2>1, <2>3 DEF PublishTask, InQueue, InHand, Unacked
  <2>5. InQueue(t)'
    BY <2>3 DEF InQueue
  <2>6. Owed' = Owed \cup {t}
    BY <2>1, <2>4, <2>5 DEF Owed
  <2> QED BY <2>1, <2>2, <2>6
<1> QED BY <1>1, <1>2, PublishedChanges

\* The consumer loop implements the at-least-once promise: a task stays owed by
\* the broker until it is settled, and what is settled stays settled.
THEOREM Implements == Spec => KeepsPromise
<1>1. Init => Promise!Init
  BY DEF Init, Promise!Init, Owed, SettledTasks, Settled, DeadLettered
<1> QED
  BY <1>1, PromiseStep, Invariance, PTL DEF KeepsPromise, Promise!Spec, Spec
----------------------------------------------------------------------------
(* What it takes to delete a queue that an agent recreated. *)

\* One agent process on the queue, or no queue from before the dead-letter arguments.
OneAgent == \A c, d \in Consumer : c = d
NoLegacy == "legacy" \notin OldTopologies

\* The agent that is about to delete the queue still has the legacy one before it.
DeletesLegacy ==
    /\ pc \in [Consumer -> Label]
    /\ NoLegacy => topology # "legacy"
    /\ \A c \in Consumer : pc[c] = "incompatible" => OneAgent /\ topology # "current"

LEMMA LegacyInit == Init => DeletesLegacy
BY ConsumerAssumption DEF Init, DeletesLegacy, NoLegacy, Label

LEMMA LegacyStep ==
    ASSUME OneAgent \/ NoLegacy, DeletesLegacy, [Next]_vars
    PROVE  DeletesLegacy' /\ (topology = "current" => topology' = "current")
<1> USE DEF DeletesLegacy, Goto, Label
<1> DEFINE Kept == DeletesLegacy' /\ (topology = "current" => topology' = "current")
<1>1. ASSUME NEW c \in Consumer, Declare(c) PROVE Kept
  <2>1. topology' = "current" /\ pc' = [pc EXCEPT ![c] = "idle"] /\ pc[c] # "incompatible"
    BY <1>1 DEF Declare
  <2>2. ASSUME NEW d \in Consumer PROVE pc'[d] # "incompatible"
    BY <2>1 DEF OneAgent
  <2> QED BY <2>1, <2>2
<1>2. ASSUME NEW c \in Consumer, DeclareRefused(c) PROVE Kept
  BY <1>2 DEF DeclareRefused, broker
<1>3. ASSUME NEW c \in Consumer, DeleteQueue(c) PROVE Kept
  BY <1>3 DEF DeleteQueue
<1>4. ASSUME topology' = topology,
             \/ pc' = pc
             \/ \E c \in Consumer, to \in Label \ {"incompatible"} : Goto(c, to)
      PROVE  Kept
  BY <1>4
<1>5. ASSUME NEW t \in Task, PublishTask(t) PROVE Kept
  BY <1>4, <1>5 DEF PublishTask
<1>6. ASSUME NEW c \in Consumer, Work(c) \/ Break(c),
             ~Declare(c), ~DeclareRefused(c), ~DeleteQueue(c)
      PROVE  Kept
  <2>1. topology' = topology
    BY <1>6 DEF Work, Break, broker, Deliver, HandlerReturns, HandlerRaises, PublishResult,
         PublishResultRaises, Ack, GiveUp, DeadLetter, Republish, RepublishRaises, Disconnect,
         LoseLink, Crash
  <2>2. \/ pc' = pc
        \/ \E to \in Label \ {"incompatible"} : Goto(c, to)
    BY <1>6 DEF Work, Break, Deliver, HandlerReturns, HandlerRaises, PublishResult,
         PublishResultRaises, Ack, GiveUp, DeadLetter, Republish, RepublishRaises, Disconnect,
         LoseLink, Crash
  <2> QED BY <1>4, <2>1, <2>2
<1>7. CASE UNCHANGED vars
  BY <1>4, <1>7 DEF vars, broker
<1> QED BY <1>1, <1>2, <1>3, <1>5, <1>6, <1>7 DEF Next

\* declare_queue_with_dlq deletes a queue that an agent already recreated only if two
\* agent processes race for it and it was there from before: with one agent per queue,
\* or on a fresh broker, "recreate" is safe.
THEOREM RecreateIsSafe ==
    ASSUME OneAgent \/ NoLegacy
    PROVE  Spec => CurrentQueueKept
<1>1. DeletesLegacy /\ [Next]_vars => DeletesLegacy'
  BY LegacyStep
<1>2. DeletesLegacy /\ [Next]_vars => [topology = "current" => topology' = "current"]_vars
  BY LegacyStep
<1> QED BY <1>1, <1>2, LegacyInit, PTL DEF Spec, CurrentQueueKept
====
