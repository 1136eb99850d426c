---- MODULE RefundRules ----
(***************************************************************************)
(* The refund rules, which two processes apply one after the other: the    *)
(* refund agent (eligibility.py) judges the order, the orchestrator        *)
(* (orchestration.py, escalation.py) decides from that result whether the  *)
(* inventory agent and the escalation agent are asked too.  Confidences    *)
(* are in percent.                                                         *)
(***************************************************************************)
EXTENDS Integers, Sequences

CONSTANTS
    None,       \* a missing value: no agent_name, in_stock unknown
    Considered  \* bound on what the refund agent finds

Agent == {"order", "inventory", "refund", "escalation"}
Intent == {"order", "inventory", "refund"}

\* classify_intent, for the keyword lists that have a word in the query.
Classify(lists) ==
    CASE "refund" \in lists    -> "refund"
      [] "inventory" \in lists /\ "refund" \notin lists -> "inventory"
      [] OTHER                 -> "order"

Threshold == 60

\* What eligibility.py finds: no order_id in the query, no such order, no policy
\* for its category, an order inside the window (which may need an approval) or not.
Finding == {"no_order_id", "not_found", "no_policy", "inside", "approval", "outside"}

ASSUME ConsideredAssumption == Considered \subseteq Finding

\* A result message, as far as the rules look at it.  in_stock is its
\* inventory_status for a refund, its own stock for an inventory result.
Result == [agent : Agent \cup {None}, confidence : 0 .. 100, eligible : BOOLEAN,
           proposed : BOOLEAN, requires : BOOLEAN, in_stock : BOOLEAN \cup {None}]

\* The result of an agent that judges no refund.
Plain(agent, confidence, stock) ==
    [agent |-> agent, confidence |-> confidence, eligible |-> FALSE,
     proposed |-> FALSE, requires |-> FALSE, in_stock |-> stock]

\* wait_for_result's dict when it was cleared under it (see ResultWaiter): every
\* .get has its default.
Empty == Plain(None, 100, None)

Confidence(finding, stock) ==
    CASE finding = "no_order_id"               -> 30
      [] finding \in {"not_found", "no_policy"} -> 40
      [] finding = "inside"                    -> 90
      [] finding = "approval"                  -> 70
      [] finding = "outside"                   -> IF stock THEN 50 ELSE 40

\* compute_eligibility, for the stock the agent reads.
Eligibility(finding, stock) ==
    LET confidence == Confidence(finding, stock)
        early == finding \in {"no_order_id", "not_found", "no_policy"}
        proposed == finding = "outside"
    IN  [agent |-> "refund", confidence |-> confidence,
         eligible |-> finding \in {"inside", "approval"},
         proposed |-> proposed,
         requires |-> early \/ confidence < 60 \/ (proposed /\ ~stock),
         in_stock |-> IF finding \in {"no_order_id", "not_found"} THEN None ELSE stock]

\* A deliberate defect: it replaces LowConfidence in a run that must then fail.  The
\* threshold is taken for one of the confidences below it.
LowConfidenceFifty(result) == result.agent = "refund" /\ result.confidence < 50

\* _maybe_fanout_inventory: is the inventory agent asked after the refund agent?
NeedsInventory(refund) ==
    /\ refund.agent = "refund"
    /\ refund.proposed \/ refund.in_stock = None \/ refund.requires

\* Its answer replaces the stock the refund agent saw.
WithInventory(results) ==
    [results EXCEPT ![1].in_stock = results[Len(results)].in_stock]

LowConfidence(result) == result.agent = "refund" /\ result.confidence < Threshold

OutOfStock(results) ==
    /\ results[1].agent = "refund" /\ results[1].proposed
    /\ \/ results[1].in_stock = FALSE
       \/ \E i \in DOMAIN results : results[i].agent = "inventory" /\ results[i].in_stock = FALSE

\* should_escalate(result, agent_results), where result is the specialist's.
ShouldEscalate(results) == LowConfidence(results[1]) \/ OutOfStock(results)

\* What each agent may answer: its tables change between two questions.  (Out of
\* stock is 95 or 50 percent sure; nothing looks at an inventory confidence.)
Judgements == {Eligibility(f, s) : f \in Considered, s \in BOOLEAN}
Stocks == {Plain("inventory", 95, TRUE), Plain("inventory", 50, FALSE)}
Answers(agent) ==
    CASE agent = "order"      -> {Plain("order", 90, None)}
      [] agent = "inventory"  -> Stocks
      [] agent = "refund"     -> Judgements
      [] agent = "escalation" -> {Plain("escalation", 100, None)}
====
