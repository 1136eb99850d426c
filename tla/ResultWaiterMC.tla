---- MODULE ResultWaiterMC ----
(***************************************************************************)
(* Instances of ResultWaiter for TLC.                                      *)
(***************************************************************************)
EXTENDS ResultWaiter

\* The runs are a query and its reprocesses, or each has a conversation of its own (one
\* such mapping is enough: conversations are interchangeable).
OneConversation == [r \in Run |-> CHOOSE c \in Conv : TRUE]
OwnConversations == CHOOSE f \in [Run -> Conv] : \A q, r \in Run : f[q] = f[r] => q = r

\* One agent, one copy of its result, no fault, no timeout, Redis up and keeping its
\* keys, runs one after the other, and a results queue as it should be.
Calm == [convOf |-> OneConversation, legs |-> 1, copies |-> 1, faults |-> 0, timeouts |-> 0,
         redis |-> {TRUE}, overlap |-> FALSE, expire |-> {}, old |-> FALSE]

PairSettings ==
    {[Calm EXCEPT !.convOf = OwnConversations, !.legs = 2, !.faults = 1, !.timeouts = 1,
                  !.overlap = TRUE, !.old = TRUE]}
    \cup {[Calm EXCEPT !.timeouts = 1, !.redis = BOOLEAN, !.overlap = o] : o \in BOOLEAN}
DuplicateSettings ==
    {[Calm EXCEPT !.legs = 3, !.copies = 2, !.faults = 1, !.old = TRUE],
     [Calm EXCEPT !.legs = 3, !.redis = {FALSE}, !.old = TRUE],
     [Calm EXCEPT !.legs = 2, !.copies = 2, !.faults = 1, !.expire = {"result", "processed"}]}
StaleAnswerSettings == {[Calm EXCEPT !.timeouts = 1]}
TornReadSettings    == {[Calm EXCEPT !.legs = 2, !.timeouts = 1]}
OverlapSettings     == {[Calm EXCEPT !.legs = 2, !.overlap = TRUE]}
====
