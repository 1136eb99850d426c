---- MODULE Exchange ----
(***************************************************************************)
(* What the runs of the pipeline get from asking agents one after the      *)
(* other, without queues, waiters, threads, Redis or a consumer: no run    *)
(* hears of a reply before it was given, from another conversation, or     *)
(* twice for one question, and a promised run hears the reply to the very  *)
(* question it asked.  None is an empty answer.  A run goes on from its    *)
(* first agent only with that agent's own reply; from a later one with     *)
(* whatever it heard.                                                      *)
(***************************************************************************)
EXTENDS Naturals

CONSTANTS Run, MaxLegs, None
VARIABLES
    convOf,      \* the conversation of each run
    concurrent,  \* may the runs of one conversation overlap
    promised,    \* the runs that are promised the replies to their own questions
    stage, leg,  \* where each run is, and which agent it has come to
    answer,      \* the answer in its hand
    replied      \* the questions that an agent has replied to

given == <<convOf, concurrent, promised>>
vars == <<given, stage, leg, answer, replied>>

Question == Run \X (1 .. MaxLegs)
SameConv(q, r) == convOf[q] = convOf[r]

Init ==
    /\ promised \subseteq Run
    /\ stage = [r \in Run |-> "idle"] /\ leg = [r \in Run |-> 1]
    /\ answer = [r \in Run |-> None] /\ replied = {}

\* A run asks its first agent.
Begin(r) ==
    /\ stage[r] = "idle"
    /\ concurrent \/ \A q \in Run : SameConv(q, r) => stage[q] \in {"idle", "over"}
    /\ stage' = [stage EXCEPT ![r] = "asking"]
    /\ UNCHANGED <<leg, answer, replied>>

\* An agent replies to a question, perhaps long after it was given up.
Reply(t) ==
    /\ stage[t[1]] # "idle" /\ t[2] <= leg[t[1]]
    /\ replied' = replied \cup {t}
    /\ UNCHANGED <<stage, leg, answer>>

\* The wait of a run ends, with some answer.
Hear(r) ==
    /\ stage[r] = "asking"
    /\ stage' = [stage EXCEPT ![r] = "answered"]
    /\ \E a \in {None} \cup {t \in replied : SameConv(t[1], r)} :
           /\ answer' = [answer EXCEPT ![r] = a]
           /\ r \in promised => a = <<r, leg[r]>>
    /\ UNCHANGED <<leg, replied>>

\* It goes on to the next agent, ...
AskNext(r) ==
    /\ stage[r] = "answered"
    /\ leg[r] = 1 => answer[r] # None /\ answer[r][2] = 1
    /\ stage' = [stage EXCEPT ![r] = "asking"]
    /\ leg' = [leg EXCEPT ![r] = @ + 1]
    /\ answer' = [answer EXCEPT ![r] = None]
    /\ UNCHANGED replied

\* ... or is over for good: resolved, timed out, failed, or dead with its process,
\* which takes several runs at once.
End(ending) ==
    /\ stage' = [r \in Run |-> IF r \in ending THEN "over" ELSE stage[r]]
    /\ answer' = [r \in Run |-> IF r \in ending THEN None ELSE answer[r]]
    /\ UNCHANGED <<leg, replied>>

Next ==
    /\ \/ \E ending \in SUBSET {r \in Run : stage[r] # "idle"} : End(ending)
       \/ \E r \in Run : Begin(r) \/ Hear(r) \/ AskNext(r)
       \/ \E t \in Question : Reply(t)
    /\ UNCHANGED given

Spec == Init /\ [][Next]_vars
====
