---- MODULE AtLeastOnce ----
(***************************************************************************)
(* What a durable task queue with acknowledgements and a dead-letter queue *)
(* promises, without consumers, attempts or connections: a submitted task  *)
(* stays owed until it is settled, that is answered by a result message,   *)
(* parked on the dead-letter queue, or discarded with its queue.  A        *)
(* settled task may still be owed: it is then served again, which is why   *)
(* the promise is "at least once".                                         *)
(***************************************************************************)
CONSTANT Task
VARIABLES submitted, owed, settled

vars == <<submitted, owed, settled>>

Init == submitted = {} /\ owed = {} /\ settled = {}

\* A publisher hands a new task to the broker, which owes it from now on.
Submit ==
    \E t \in Task \ submitted :
        /\ submitted' = submitted \cup {t}
        /\ owed' = owed \cup {t}
        /\ UNCHANGED settled

\* Tasks get settled, and only a settled task stops being owed.
Serve ==
    /\ settled \subseteq settled'
    /\ settled' \subseteq submitted
    /\ owed \ owed' \subseteq settled'
    /\ owed' \subseteq submitted
    /\ UNCHANGED submitted

Next == Submit \/ Serve

Spec == Init /\ [][Next]_vars
====
