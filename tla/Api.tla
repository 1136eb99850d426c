---- MODULE Api ----
(***************************************************************************)
(* The requests of the API: auth.py's key check and rate limit, which the  *)
(* REST framework calls in this order before the view, and the Timer of    *)
(* metrics.py around a query.  Redis is a hosted service that outlives the *)
(* orchestrator; its client repeats a call whose reply is lost, and        *)
(* nothing bounds how long a call takes.                                   *)
(***************************************************************************)
EXTENDS Metrics, FiniteSetsExt

CONSTANTS
    Request,
    Limit,       \* RATE_LIMIT_PER_MINUTE; 0 turns the limit off
    Window,      \* the minute, in ticks of the clock
    Ttl,         \* the expiry of a window's key: 70 s
    MaxTime,     \* bound on the clock
    MaxFaults,   \* bound on lost replies, failing calls and restarts
    None

ASSUME ApiAssumption ==
    /\ Limit \in Nat /\ Window \in Nat \ {0} /\ MaxTime \in Nat /\ MaxFaults \in Nat
    /\ Ttl \in Nat /\ Window <= Ttl
    /\ None \notin Nat
    /\ IsFiniteSet(Request)

VARIABLES
    now,       \* the clock
    req,       \* each request: step, the clock as read by it, INCR's count, Timer's start,
               \* when a refused client may come again; and as history, whether its INCR
               \* was late and whether a call of it was repeated or lost its expiry
    hits,      \* Redis: the counter of each window, 0 if there is no key,
    expiry,    \* ... and when that key expires, None if it has no expiry
    samples,   \* metrics.py: the latencies of one kind of query
    observed,  \* every latency so far of this process, to compare with
    faults     \* so far, bounded by MaxFaults

redis == <<hits, expiry>>
metrics == <<samples, observed>>
vars == <<now, req, redis, metrics, faults>>

Bucket == 0 .. MaxTime \div Window

Init ==
    /\ now = 0
    /\ req = [r \in Request |-> [pc |-> "new", at |-> None, count |-> None,
                                 start |-> None, retry |-> None,
                                 late |-> FALSE, mishap |-> FALSE]]
    /\ hits = [b \in Bucket |-> 0]
    /\ expiry = [b \in Bucket |-> None]
    /\ samples = <<>> /\ observed = <<>>
    /\ faults = 0

At(r, label) == req[r].pc = label
Goto(r, label) == req' = [req EXCEPT ![r].pc = label]
Fault == faults < MaxFaults /\ faults' = faults + 1
Over == {"served", "denied", "refused", "dead"}

\* What a request's headers come to: X-API-Key, and a key in Authorization.  An empty
\* value is no header; a blank one is, and its key is empty.
Header == [x_api_key : {"good", "bad", "blank", "empty", None},
           authorization : {"good", "bad", None}]
Extract(header) ==
    IF header.x_api_key \in {"empty", None} THEN header.authorization ELSE header.x_api_key

\* Deliberate defects: each replaces the definition it is named after, in a run that
\* must then fail.  All windows share one key; the key expires with its window; every
\* count but the first sets the expiry.
OneKey(time) == 0
ExpiresWithWindow(time) == (time \div Window + 1) * Window
SetsLater(count) == count > 1

BucketOf(time) == time \div Window
ExpiresAt(time) == time + Ttl
SetsExpiry(count) == count = 1
Wait(time) == Window - (time % Window)

KeyOf(r) == BucketOf(req[r].at)

\* INCR comes to Redis after the ten seconds that a key lives longer than its minute.
Late(r) == now > req[r].at + (Ttl - Window)

----------------------------------------------------------------------------
(* Authentication and rate limit. *)

\* authenticate: 401 before anything is counted.
Authenticate(r, header) ==
    /\ At(r, "new")
    /\ Goto(r, IF Extract(header) # "good" THEN "denied"
               ELSE IF Limit = 0 THEN "serve" ELSE "clock")
    /\ UNCHANGED <<now, redis, metrics, faults>>

\* allow_request: the bucket of the key.
ReadClock(r) ==
    /\ At(r, "clock")
    /\ req' = [req EXCEPT ![r].pc = "incr", ![r].at = now]
    /\ UNCHANGED <<now, redis, metrics, faults>>

Count(r) == hits' = [hits EXCEPT ![KeyOf(r)] = @ + 1]

\* count = client.incr(redis_key)
IncrKey(r) ==
    /\ At(r, "incr")
    /\ Count(r)
    /\ LET count == hits[KeyOf(r)] + 1 IN
       req' = [req EXCEPT ![r].count = count,
                          ![r].late = Late(r),
                          ![r].pc = IF SetsExpiry(count) THEN "expire" ELSE "compare"]
    /\ UNCHANGED <<now, expiry, metrics, faults>>

\* Its reply is lost and the client calls again: the request counts twice.
IncrRepeated(r) ==
    /\ At(r, "incr")
    /\ Fault
    /\ Count(r)
    /\ req' = [req EXCEPT ![r].mishap = TRUE]
    /\ UNCHANGED <<now, expiry, metrics>>

\* Redis cannot be reached: the request is let through.
IncrRaises(r) ==
    /\ At(r, "incr")
    /\ Fault
    /\ Goto(r, "serve")
    /\ UNCHANGED <<now, redis, metrics>>

\* client.expire(redis_key, 70); of no effect without the key.
ExpireKey(r) ==
    /\ At(r, "expire")
    /\ expiry' = [expiry EXCEPT ![KeyOf(r)] = IF hits[KeyOf(r)] > 0 THEN ExpiresAt(now) ELSE @]
    /\ Goto(r, "compare")
    /\ UNCHANGED <<now, hits, metrics, faults>>

ExpireRaises(r) ==
    /\ At(r, "expire")
    /\ Fault
    /\ req' = [req EXCEPT ![r].pc = "serve", ![r].mishap = TRUE]
    /\ UNCHANGED <<now, redis, metrics>>

Allow(r) ==
    /\ At(r, "compare")
    /\ req[r].count <= Limit
    /\ Goto(r, "serve")
    /\ UNCHANGED <<now, redis, metrics, faults>>

\* 429, with the seconds to wait by a second reading of the clock.
Refuse(r) ==
    /\ At(r, "compare")
    /\ req[r].count > Limit
    /\ req' = [req EXCEPT ![r].pc = "refused", ![r].retry = now + Wait(now)]
    /\ UNCHANGED <<now, redis, metrics, faults>>

----------------------------------------------------------------------------
(* The view. *)

\* Timer.__enter__
Serve(r) ==
    /\ At(r, "serve")
    /\ req' = [req EXCEPT ![r].pc = "timed", ![r].start = now]
    /\ UNCHANGED <<now, redis, metrics, faults>>

\* Timer.__exit__, whether or not the query failed.
Leave(r) ==
    /\ At(r, "timed")
    /\ samples' = Observe(samples, now - req[r].start)
    /\ observed' = Append(observed, now - req[r].start)
    /\ req' = [req EXCEPT ![r].pc = "served", ![r].start = None]
    /\ UNCHANGED <<now, redis, faults>>

\* A request that only reads has no Timer.
Read(r) ==
    /\ At(r, "serve")
    /\ Goto(r, "served")
    /\ UNCHANGED <<now, redis, metrics, faults>>

----------------------------------------------------------------------------

\* The process dies, with its requests and its samples.
Restart ==
    /\ Fault
    /\ req' = [r \in Request |-> IF req[r].pc \in Over \cup {"new"} THEN req[r]
                                 ELSE [req[r] EXCEPT !.pc = "dead"]]
    /\ samples' = <<>> /\ observed' = <<>>
    /\ UNCHANGED <<now, redis>>

\* Time passes, and keys expire with it.
Tick ==
    /\ now < MaxTime
    /\ now' = now + 1
    /\ LET gone == {b \in Bucket : expiry[b] = now'} IN
       /\ hits' = [b \in Bucket |-> IF b \in gone THEN 0 ELSE hits[b]]
       /\ expiry' = [b \in Bucket |-> IF b \in gone THEN None ELSE expiry[b]]
    /\ UNCHANGED <<req, metrics, faults>>

Next ==
    \/ \E r \in Request :
          \/ \E header \in Header : Authenticate(r, header)
          \/ ReadClock(r) \/ IncrKey(r) \/ IncrRepeated(r) \/ IncrRaises(r)
          \/ ExpireKey(r) \/ ExpireRaises(r) \/ Allow(r) \/ Refuse(r)
          \/ Serve(r) \/ Leave(r) \/ Read(r)
    \/ Restart
    \/ Tick

Spec == Init /\ [][Next]_vars

----------------------------------------------------------------------------

Label == Over \cup {"new", "clock", "incr", "expire", "compare", "serve", "timed"}
Time == 0 .. MaxTime
Fields == [pc : Label, at : Time \cup {None}, count : Nat \cup {None},
           start : Time \cup {None}, retry : Nat \cup {None}, late : BOOLEAN, mishap : BOOLEAN]

\* The values the variables take; the list of samples never outgrows its cap.
TypeOK ==
    /\ now \in Time
    /\ req \in [Request -> Fields]
    /\ hits \in [Bucket -> Nat] /\ expiry \in [Bucket -> Nat \cup {None}]
    /\ samples \in Seq(Time) /\ Len(samples) <= MaxSamples
    /\ observed \in Seq(Time)
    /\ faults \in 0 .. MaxFaults

\* Let through by its count, not because Redis failed.
Counted(r) == req[r].count # None /\ req[r].count <= Limit

\* In any stretch of the length of a window, which two windows may share, no more than
\* twice the limit is let through of the requests whose INCR came within ten seconds
\* of their reading of the clock, whatever the others do and whichever calls fail, are
\* repeated or set the expiry late.
TwiceTheLimit ==
    Limit > 0 => \A begin \in Time :
        Cardinality({r \in Request : /\ Counted(r) /\ ~req[r].late
                                    /\ req[r].at \in begin .. begin + Window - 1})
            <= 2 * Limit

\* A request is refused only when the limit was used up in its own minute, by others
\* or by repeated calls, and one that waits as told comes in a later minute.
RefusedForCause ==
    \A r \in Request : At(r, "refused") =>
        LET minute == req[r].at \div Window
            others == {q \in Request \ {r} : req[q].at # None /\ req[q].at \div Window = minute}
        IN  /\ Cardinality(others) + faults >= Limit
            /\ req[r].retry \div Window > minute

\* Keys that stay: without an expiry, and no request about to set it.
Leaked == {b \in Bucket : /\ hits[b] > 0 /\ expiry[b] = None
                          /\ \A r \in Request : At(r, "expire") => KeyOf(r) # b}

\* The request was answered that its count is the first and died, or a call of it was
\* repeated or lost the expiry.
Culprit(r) == req[r].mishap \/ (At(r, "dead") /\ req[r].count = 1)

\* Keys do not pile up in Redis: each has an expiry or a request about to set it, unless
\* a request of its own minute died between its two calls or had one go wrong.
LeaksHaveCause ==
    \A b \in Leaked : \E r \in Request : req[r].at # None /\ KeyOf(r) = b /\ Culprit(r)

\* /api/metrics/ speaks of the newest latencies: as many as fit, the last one last,
\* and no more of them above p95 than one in twenty, rounded up.
SnapshotHonest ==
    samples # <<>> =>
        LET shown == Snapshot(samples)
            newest == {i \in DOMAIN observed : i > Len(observed) - shown.count}
            above == {i \in newest : observed[i] > shown.p95}
        IN  /\ shown.count = Min({Len(observed), MaxSamples})
            /\ shown.last = observed[Len(observed)]
            /\ shown.p50 <= shown.p95
            /\ 20 * (Cardinality(above) - 1) < shown.count
            /\ \E i \in newest : observed[i] = shown.p95

----------------------------------------------------------------------------
(* What the invariants above rest on. *)

\* The list holds the newest latencies in their order, as many as fit.
NewestKept ==
    /\ Len(samples) = IF Len(observed) < MaxSamples THEN Len(observed) ELSE MaxSamples
    /\ \A i \in 1 .. Len(samples) : samples[i] = observed[Len(observed) - Len(samples) + i]

\* The requests that had their hit counted in a minute's key.
Incremented(b) == {r \in Request : req[r].count # None /\ KeyOf(r) = b}

\* What a request's step says of its fields: it is refused for its count, and about to
\* set an expiry because that was the first.
StepHonest(r) ==
    /\ At(r, "new") \/ At(r, "clock") => req[r].at = None
    /\ At(r, "incr") => req[r].at # None /\ req[r].count = None
    /\ req[r].count # None => req[r].at # None
    /\ req[r].pc \in {"expire", "compare", "refused"} => req[r].count # None
    /\ At(r, "expire") => req[r].count = 1
    /\ req[r].mishap => req[r].at # None
    /\ req[r].at # None => req[r].at <= now
    /\ At(r, "timed") => req[r].start # None
    /\ req[r].start # None => req[r].start <= now
    /\ At(r, "refused") =>
          /\ req[r].count > Limit
          /\ req[r].retry # None /\ req[r].retry \div Window > KeyOf(r)
StepsHonest == \A r \in Request : StepHonest(r)

\* A minute is closed once its key may have expired.  Until then it counts up, so that
\* no two of its requests that are not late get the same count.
Closed(b) == now >= b * Window + Ttl
KeysOutlive ==
    /\ \A b \in Bucket : expiry[b] # None => expiry[b] >= b * Window + Ttl
    /\ \A r \in Request : req[r].count # None =>
           /\ req[r].count >= 1
           /\ Closed(KeyOf(r)) \/ req[r].count <= hits[KeyOf(r)]
    /\ \A r, q \in Request :
           /\ req[r].count # None /\ req[q].count # None /\ KeyOf(r) = KeyOf(q)
           /\ ~req[r].late /\ ~req[q].late /\ req[r].count = req[q].count
           => r = q

\* The count of a minute never goes back before ten seconds after its end, by an expiry,
\* a crash or a late call: nobody gets a second allowance until then.
CountsOnlyUp == [][\A b \in Bucket : Closed(b)' \/ hits'[b] >= hits[b]]_vars

\* A key counts the requests of its minute, and the calls that were repeated.
HitsOwed ==
    /\ \A b \in Bucket : hits[b] <= Cardinality(Incremented(b)) + faults
    /\ \A r \in Request : req[r].count # None =>
           req[r].count <= Cardinality(Incremented(KeyOf(r))) + faults

ApiInv ==
    /\ TypeOK
    /\ StepsHonest
    /\ KeysOutlive
    /\ HitsOwed
    /\ LeaksHaveCause
    /\ NewestKept
====
