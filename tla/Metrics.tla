---- MODULE Metrics ----
(***************************************************************************)
(* metrics.py's latency samples: what observe_latency keeps and what       *)
(* snapshot makes of it.  Both hold the module's lock throughout.          *)
(***************************************************************************)
EXTENDS Integers, SequencesExt

CONSTANT MaxSamples

ASSUME MetricsAssumption == MaxSamples \in Nat \ {0}

Excess(samples) == IF Len(samples) > MaxSamples THEN Len(samples) - MaxSamples ELSE 0

\* Deliberate defects, as elsewhere: the newest samples are deleted, or none.
KeepOldest(samples) == SubSeq(samples, 1, Len(samples) - Excess(samples))
KeepAll(samples) == samples

\* del samples[: len(samples) - _MAX_SAMPLES]
Keep(samples) == SubSeq(samples, Excess(samples) + 1, Len(samples))

\* observe_latency
Observe(samples, ms) == Keep(Append(samples, ms))

\* sorted(samples)[k]: the sample that no more than k are below, and more than k are
\* not above.
Ranked(samples, k) ==
    CHOOSE ms \in Range(samples) :
        /\ Cardinality({i \in DOMAIN samples : samples[i] < ms}) <= k
        /\ Cardinality({i \in DOMAIN samples : samples[i] <= ms}) > k

\* snapshot's ordered[int(q * (n - 1))], for q in percent.
Percentile(samples, percent) == Ranked(samples, (percent * (Len(samples) - 1)) \div 100)

\* snapshot's entry for a list that is not empty.
Snapshot(samples) ==
    [count |-> Len(samples), p50 |-> Percentile(samples, 50),
     p95 |-> Percentile(samples, 95), last |-> samples[Len(samples)]]
====
