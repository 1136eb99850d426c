---- MODULE Handlers ----
(***************************************************************************)
(* What the handle_task functions of the inventory agent (consumer.py,     *)
(* crew.py) and of the escalation agent (consumer.py, autogen_config.py)   *)
(* make of a task, whatever their LLM calls come to.                       *)
(***************************************************************************)
EXTENDS RefundRules, SequencesExt

\* "a or b"
Or(a, b) == IF a # None THEN a ELSE b

----------------------------------------------------------------------------
(* The inventory agent: whose stock? *)

\* The item of the order, another one, and what is in quotes (or between two
\* apostrophes) but names no item.
Item == {"ordered", "other"}

\* A query: what extract_item_name finds in it, the first of the four seed names,
\* and those of its longer words that are the whole name of an item, in their order.
QueryText == [quoted : Item \cup {"nonsense", None}, seed : Item \cup {None},
              words : {s \in SeqOf(Item, 2) : IsInjective(s)}]

\* A deliberate defect: it replaces FanoutItem in a run that must then fail.  The
\* query's words come before the order's item.
FanoutItemWordsFirst(query, refund) == Or(query.quoted, Or(query.seed, "ordered"))

\* _item_name_from_results: only the payload of a judged order has an item_name.
FanoutItem(query, refund) ==
    LET judged == IF refund.eligible \/ refund.proposed THEN "ordered" ELSE None
    IN  Or(query.quoted, Or(judged, query.seed))

\* The item whose stock is reported: by name, else, once there is a name, by the
\* words of the query.  None is reported as out of stock.
LookedUp(query, item, table) ==
    LET name == Or(item, query.seed)
        found == SelectSeq(query.words, LAMBDA word : word \in table)
    IN  IF name \in table \cup {None} THEN name
        ELSE IF found = <<>> THEN None ELSE Head(found)

----------------------------------------------------------------------------
(* The escalation agent: three ways to a resolution. *)

\* What an LLM call comes to: a text after FINAL_RESPONSE:, that marker and nothing
\* after it, a text without it, nothing, an exception.
Reply == {"answer", "bare", "plain", "blank", "raises"}

\* The prompt has the marker too: it says "End with FINAL_RESPONSE: <answer>".
Marked == {"answer", "bare", "prompt"}

\* The text after the marker, or all of it.
TextOf(content) ==
    CASE content \in {"answer", "plain"} -> "answer"
      [] content = "prompt"              -> "placeholder"
      [] content \in {"bare", "blank"}   -> "empty"

\* initiate_chat(max_turns=2): the messages PolicyResolver keeps, which include those
\* it received.  A marked reply ends the chat; otherwise the proxy sends an empty one.
Chat(first, second) ==
    <<"prompt", first>> \o IF first \in Marked THEN <<>> ELSE <<"blank", second>>

\* The newest message with the marker, else the newest that is not empty.
FromChat(messages) ==
    LET having(set) == {i \in DOMAIN messages : messages[i] \in set}
        wanted == IF having(Marked) # {} THEN having(Marked) ELSE having({"plain"})
    IN  TextOf(messages[Max(wanted)])

\* Deliberate defects, as above: the reviewer's threshold is its own; only a missing
\* text is no result.
GoodwillFifty(refund) == refund.confidence < 50
TruthyUnlessNone(text) == text # None

\* _deterministic_resolution, for the inventory agent's stock or else the refund's.
Goodwill(refund) == refund.confidence < 60
StockSeen(results) ==
    LET asked == {i \in DOMAIN results : results[i].agent = "inventory"}
    IN  results[IF asked = {} THEN 1 ELSE Min(asked)].in_stock
Deterministic(results) ==
    IF results[1].proposed /\ StockSeen(results) = FALSE THEN "refund_or_credit"
    ELSE IF Goodwill(results[1]) THEN "goodwill" ELSE "as_found"

\* _mistral_single_shot, and "if single".
SingleShot(reply) == IF reply = "raises" THEN None ELSE TextOf(reply)
Truthy(text) == text \notin {None, "empty"}
Fallback(single, results) ==
    IF Truthy(SingleShot(single)) THEN SingleShot(single) ELSE Deterministic(results)

\* run_escalation_conversation (with an API key; without one the handler raises).
Escalate(first, second, single, results) ==
    LET messages == Chat(first, second)
    IN  IF \E i \in DOMAIN messages : messages[i] = "raises" THEN Fallback(single, results)
        ELSE FromChat(messages)
====
