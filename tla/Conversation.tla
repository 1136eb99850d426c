---- MODULE Conversation ----
(***************************************************************************)
(* What a client may rely on when it reads a conversation: it is open from *)
(* each request on until that request's one answer or one error closes it, *)
(* and a closed conversation changes only when it is asked again.  If      *)
(* requests may overlap, only the shape of a closed one is promised.       *)
(***************************************************************************)
CONSTANTS Run, None
VARIABLES concurrent, state, answer, error

vars == <<concurrent, state, answer, error>>

Init ==
    /\ concurrent \in BOOLEAN
    /\ state = "none" /\ answer = None /\ error = None

Ask == state' = "open" /\ answer' = None /\ error' = None

Answer(r) ==
    /\ state = "open" /\ state' = "answered"
    /\ answer' = r /\ error' = None

Fail(r) ==
    /\ state = "open" /\ state' = "failed"
    /\ answer' = None /\ error' = r

\* Overlapping requests close each other's conversation.
Overtake ==
    /\ concurrent
    /\ state' \in {"open", "answered", "failed"}
    /\ state' = "answered" => answer' \in Run /\ error' = None
    /\ state' = "failed" => error' \in Run

Next ==
    /\ Ask \/ Overtake \/ \E r \in Run : Answer(r) \/ Fail(r)
    /\ UNCHANGED concurrent

Spec == Init /\ [][Next]_vars
====
