CONSTANTS
    Run = {r1, r2}
    Query = r1
    MaxFaults = 1
    Considered = {"no_order_id", "not_found", "no_policy", "inside", "approval", "outside"}
    None = None
SPECIFICATION Spec
INVARIANT EscalationAnswered
CHECK_DEADLOCK FALSE
