---- MODULE ApiProofs ----
(***************************************************************************)
(* Proofs about Api, for any number of requests, any limit, window and     *)
(* expiry that ApiAssumption admits, and any number of faults.             *)
(***************************************************************************)
EXTENDS Api, FiniteSetTheorems, WellFoundedInduction, TLAPS

\* The constants are numbers.
LEMMA Numbers ==
    /\ Limit \in Nat /\ Window \in Nat /\ Window > 0 /\ MaxTime \in Nat /\ MaxFaults \in Nat
    /\ Ttl \in Nat /\ Window <= Ttl
    /\ None \notin Nat /\ MaxSamples \in Nat \ {0}
BY ApiAssumption, MetricsAssumption

\* The minute of a time: where it begins, and that minutes follow one another.
LEMMA Minute ==
    ASSUME NEW t \in Nat
    PROVE  /\ t \div Window \in Nat
           /\ (t \div Window) * Window <= t
           /\ t < (t \div Window) * Window + Window
BY Numbers

LEMMA MinutesOrdered ==
    ASSUME NEW t \in Nat, NEW u \in Nat, t <= u
    PROVE  t \div Window <= u \div Window
BY Numbers

LEMMA MinuteIsKey ==
    ASSUME NEW t \in Time
    PROVE  t \div Window \in Bucket
<1>1. t \in Nat /\ MaxTime \in Nat /\ t <= MaxTime
  BY Numbers DEF Time
<1>2. t \div Window \in Nat /\ MaxTime \div Window \in Nat /\ t \div Window <= MaxTime \div Window
  BY <1>1, Minute, MinutesOrdered
<1> QED BY <1>2 DEF Bucket

\* A refused client's wait ends in a later minute.
LEMMA WaitEnds ==
    ASSUME NEW t \in Nat
    PROVE  t + Wait(t) \in Nat /\ (t + Wait(t)) \div Window > t \div Window
<1> DEFINE q == t \div Window
<1>1. /\ Window \in Nat /\ Window > 0
      /\ t % Window \in 0 .. Window - 1 /\ t = Window * q + (t % Window) /\ q \in Nat
  BY Numbers
<1>2. t + Wait(t) = Window * q + Window
  BY <1>1 DEF Wait
<1>3. Window * q + Window = Window * (q + 1) /\ Window * q + Window \in Nat
  BY <1>1
<1>4. (Window * (q + 1)) \div Window = q + 1
  BY <1>1
<1> QED BY <1>1, <1>2, <1>3, <1>4

\* The key a request that has read the clock counts in.
LEMMA KeyFacts ==
    ASSUME TypeOK, NEW r \in Request, req[r].at # None
    PROVE  /\ req[r].at \in Time /\ req[r].at \in Nat
           /\ KeyOf(r) \in Bucket /\ KeyOf(r) \in Nat
           /\ KeyOf(r) * Window <= req[r].at
           /\ req[r].at < KeyOf(r) * Window + Window
<1>1. req[r].at \in Time /\ req[r].at \in Nat
  BY DEF TypeOK, Fields, Time
<1> QED BY <1>1, Minute, MinuteIsKey DEF KeyOf, BucketOf

\* A step that gives one request new fields keeps the rest.
LEMMA OneRequestChanges ==
    ASSUME NEW R, req \in [Request -> R], NEW r \in Request, NEW f \in R,
           req' = [req EXCEPT ![r] = f]
    PROVE  /\ req' \in [Request -> R]
           /\ \A q \in Request \ {r} : req'[q] = req[q]
           /\ req'[r] = f
OBVIOUS

\* What a step that only moves a request on leaves of its fields, and one that sets a field.
LEMMA Move ==
    ASSUME req \in [Request -> Fields], NEW r \in Request, NEW p \in Label,
           req' = [req EXCEPT ![r].pc = p]
    PROVE  /\ req' \in [Request -> Fields]
           /\ \A q \in Request \ {r} : req'[q] = req[q]
           /\ req'[r].pc = p
           /\ req'[r].at = req[r].at /\ req'[r].count = req[r].count /\ req'[r].start = req[r].start /\ req'[r].retry = req[r].retry
           /\ req'[r].late = req[r].late /\ req'[r].mishap = req[r].mishap
BY DEF Fields

\* ReadClock.
LEMMA MoveAt ==
    ASSUME req \in [Request -> Fields], NEW r \in Request, NEW p \in Label, NEW v \in Time,
           req' = [req EXCEPT ![r].pc = p, ![r].at = v]
    PROVE  /\ req' \in [Request -> Fields]
           /\ \A q \in Request \ {r} : req'[q] = req[q]
           /\ req'[r].pc = p /\ req'[r].at = v
           /\ req'[r].count = req[r].count /\ req'[r].start = req[r].start /\ req'[r].retry = req[r].retry
           /\ req'[r].late = req[r].late /\ req'[r].mishap = req[r].mishap
BY DEF Fields

\* IncrKey.
LEMMA MoveCount ==
    ASSUME req \in [Request -> Fields], NEW r \in Request, NEW p \in Label, NEW v \in Nat,
           NEW l \in BOOLEAN,
           req' = [req EXCEPT ![r].count = v, ![r].late = l, ![r].pc = p]
    PROVE  /\ req' \in [Request -> Fields]
           /\ \A q \in Request \ {r} : req'[q] = req[q]
           /\ req'[r].pc = p /\ req'[r].count = v /\ req'[r].late = l
           /\ req'[r].at = req[r].at /\ req'[r].start = req[r].start /\ req'[r].retry = req[r].retry
           /\ req'[r].mishap = req[r].mishap
<1>0. req \in [Request -> Fields] /\ r \in Request
  OBVIOUS
<1> DEFINE f == [req[r] EXCEPT !.count = v, !.late = l, !.pc = p]
<1>1. /\ f \in Fields
      /\ f.pc = p /\ f.count = v /\ f.late = l /\ f.at = req[r].at /\ f.start = req[r].start
      /\ f.retry = req[r].retry /\ f.mishap = req[r].mishap
  BY DEF Fields
<1>2. req' = [req EXCEPT ![r] = f]
  OBVIOUS
<1> HIDE DEF f
<1>3. /\ req' \in [Request -> Fields] /\ \A q \in Request \ {r} : req'[q] = req[q]
      /\ req'[r] = f
  BY <1>0, <1>1, <1>2, OneRequestChanges, SMTT(20)
<1> QED BY <1>1, <1>3, Zenon

\* IncrRepeated and ExpireRaises.
LEMMA MoveMishap ==
    ASSUME req \in [Request -> Fields], NEW r \in Request, NEW p \in Label,
           req' = [req EXCEPT ![r].pc = p, ![r].mishap = TRUE]
    PROVE  /\ req' \in [Request -> Fields]
           /\ \A q \in Request \ {r} : req'[q] = req[q]
           /\ req'[r].pc = p /\ req'[r].mishap = TRUE
           /\ req'[r].at = req[r].at /\ req'[r].count = req[r].count /\ req'[r].start = req[r].start /\ req'[r].retry = req[r].retry
           /\ req'[r].late = req[r].late
BY DEF Fields
LEMMA MarkMishap ==
    ASSUME req \in [Request -> Fields], NEW r \in Request,
           req' = [req EXCEPT ![r].mishap = TRUE]
    PROVE  /\ req' \in [Request -> Fields]
           /\ \A q \in Request \ {r} : req'[q] = req[q]
           /\ req'[r].pc = req[r].pc /\ req'[r].mishap = TRUE
           /\ req'[r].at = req[r].at /\ req'[r].count = req[r].count /\ req'[r].start = req[r].start /\ req'[r].retry = req[r].retry
           /\ req'[r].late = req[r].late
BY DEF Fields

\* Serve and Leave.
LEMMA MoveStart ==
    ASSUME req \in [Request -> Fields], NEW r \in Request, NEW p \in Label, NEW v \in Time \cup {None},
           req' = [req EXCEPT ![r].pc = p, ![r].start = v]
    PROVE  /\ req' \in [Request -> Fields]
           /\ \A q \in Request \ {r} : req'[q] = req[q]
           /\ req'[r].pc = p /\ req'[r].start = v
           /\ req'[r].at = req[r].at /\ req'[r].count = req[r].count /\ req'[r].retry = req[r].retry
           /\ req'[r].late = req[r].late /\ req'[r].mishap = req[r].mishap
BY DEF Fields

\* Refuse.
LEMMA MoveRetry ==
    ASSUME req \in [Request -> Fields], NEW r \in Request, NEW p \in Label, NEW v \in Nat,
           req' = [req EXCEPT ![r].pc = p, ![r].retry = v]
    PROVE  /\ req' \in [Request -> Fields]
           /\ \A q \in Request \ {r} : req'[q] = req[q]
           /\ req'[r].pc = p /\ req'[r].retry = v
           /\ req'[r].at = req[r].at /\ req'[r].count = req[r].count /\ req'[r].start = req[r].start
           /\ req'[r].late = req[r].late /\ req'[r].mishap = req[r].mishap
BY DEF Fields

\* The samples stay times, and no more than the cap.
LEMMA KeepTyping ==
    ASSUME NEW s \in Seq(Time), NEW ms \in Time
    PROVE  Observe(s, ms) \in Seq(Time) /\ Len(Observe(s, ms)) <= MaxSamples
<1> DEFINE long == Append(s, ms)
<1>1. long \in Seq(Time) /\ Len(long) \in Nat
  OBVIOUS
<1> HIDE DEF long
<1>2. MaxSamples \in Nat \ {0}
  BY Numbers
<1>3. CASE Len(long) > MaxSamples
  <2>1. Excess(long) = Len(long) - MaxSamples
    BY <1>3 DEF Excess
  <2> DEFINE from == Excess(long) + 1
  <2>2. from \in 1 .. Len(long)
    BY <1>1, <1>2, <1>3, <2>1
  <2>3. SubSeq(long, from, Len(long)) \in Seq(Time) /\ Len(SubSeq(long, from, Len(long))) = Len(long) - from + 1
    BY <1>1, <2>2
  <2>4. Observe(s, ms) = SubSeq(long, from, Len(long))
    BY DEF Observe, Keep, long
  <2> HIDE DEF from
  <2>5. Len(long) - from + 1 = MaxSamples
    BY <1>1, <1>2, <2>1 DEF from
  <2> QED BY <1>2, <2>3, <2>4, <2>5
<1>4. CASE ~(Len(long) > MaxSamples)
  <2>1. Excess(long) = 0
    BY <1>4 DEF Excess
  <2>2. SubSeq(long, 1, Len(long)) \in Seq(Time) /\ Len(SubSeq(long, 1, Len(long))) = Len(long)
    BY <1>1
  <2>3. Observe(s, ms) = SubSeq(long, 1, Len(long))
    BY <2>1 DEF Observe, Keep, long
  <2> QED BY <1>1, <1>2, <1>4, <2>2, <2>3
<1> QED BY <1>3, <1>4

----------------------------------------------------------------------------

LEMMA InitInv == Init => ApiInv
<1> SUFFICES ASSUME Init PROVE ApiInv
  OBVIOUS
<1>0. \A r \in Request : /\ req[r].pc = "new" /\ req[r].at = None /\ req[r].count = None
                         /\ req[r].start = None /\ ~req[r].mishap
  BY DEF Init
<1>1. TypeOK
  <2>1. 0 \in Time /\ 0 \in 0 .. MaxFaults
    BY Numbers DEF Time
  <2>2. req \in [Request -> Fields]
    BY DEF Init, Fields, Label
  <2>3. <<>> \in Seq(Time) /\ Len(<<>>) = 0 /\ 0 <= MaxSamples
    BY Numbers
  <2>4. hits \in [Bucket -> Nat] /\ expiry \in [Bucket -> Nat \cup {None}]
    BY DEF Init
  <2> QED BY <2>1, <2>2, <2>3, <2>4 DEF Init, TypeOK
<1>2. StepsHonest
  BY <1>0 DEF StepsHonest, StepHonest, At
<1>3. KeysOutlive
  BY <1>0 DEF Init, KeysOutlive
<1>4. HitsOwed
  <2>1. \A b \in Bucket : Incremented(b) = {}
    BY <1>0 DEF Incremented
  <2>2. \A b \in Bucket : hits[b] = 0
    BY DEF Init
  <2>3. \A b \in Bucket : hits[b] <= Cardinality(Incremented(b)) + faults
    <3>1. faults = 0 /\ Cardinality({}) = 0
      BY FS_EmptySet DEF Init
    <3> QED BY <2>1, <2>2, <3>1
  <2> QED BY <1>0, <2>3 DEF HitsOwed
<1>5. LeaksHaveCause
  <2>1. \A b \in Bucket : ~(hits[b] > 0)
    BY DEF Init
  <2> QED BY <2>1 DEF Leaked, LeaksHaveCause
<1>6. NewestKept
  <2>1. samples = <<>> /\ observed = <<>> /\ Len(<<>>) = 0
    BY DEF Init
  <2> QED BY <2>1, Numbers DEF NewestKept
<1> QED BY <1>1, <1>2, <1>3, <1>4, <1>5, <1>6 DEF ApiInv

\* Where a step may take a request.
LEMMA Labels ==
    /\ {"denied", "serve", "clock", "incr", "expire", "compare", "timed", "refused", "served", "dead"}
          \subseteq Label
    /\ \A count : (IF SetsExpiry(count) THEN "expire" ELSE "compare") \in Label
BY DEF Label, Over

\* Type correctness, one step per action.
LEMMA TypeStep == ApiInv /\ [Next]_vars => TypeOK'
<1> SUFFICES ASSUME ApiInv, [Next]_vars PROVE TypeOK'
  OBVIOUS
<1> USE DEF Goto, Fault, redis, metrics, At
<1>0. TypeOK /\ StepsHonest
  BY DEF ApiInv
<1>r. req \in [Request -> Fields]
  BY <1>0 DEF TypeOK
<1>m. ASSUME NEW r \in Request, NEW p \in Label, Goto(r, p) PROVE req' \in [Request -> Fields]
  BY <1>r, <1>m, Move
<1>1. CASE UNCHANGED vars
  BY <1>0, <1>1 DEF vars, TypeOK
<1>2. ASSUME NEW r \in Request, NEW header \in Header, Authenticate(r, header) PROVE TypeOK'
  <2>1. PICK p \in {"denied", "serve", "clock"} : Goto(r, p)
    BY <1>2 DEF Authenticate
  <2>2. req' \in [Request -> Fields]
    BY <1>m, <2>1, Labels
  <2> QED BY <1>0, <1>2, <2>2 DEF Authenticate, TypeOK
<1>3. ASSUME NEW r \in Request, ReadClock(r) PROVE TypeOK'
  <2>1. now \in Time
    BY <1>0 DEF TypeOK
  <2>2. req' \in [Request -> Fields]
    BY <1>r, <1>3, <2>1, MoveAt, Labels DEF ReadClock
  <2> QED BY <1>0, <1>3, <2>2 DEF ReadClock, TypeOK
<1>4. ASSUME NEW r \in Request, IncrKey(r) \/ IncrRepeated(r) PROVE TypeOK'
  <2>1. KeyOf(r) \in Bucket /\ hits[KeyOf(r)] \in Nat
    BY <1>0, <1>4, KeyFacts DEF StepsHonest, StepHonest, IncrKey, IncrRepeated, TypeOK
  <2>2. hits' \in [Bucket -> Nat]
    BY <1>0, <1>4, <2>1 DEF IncrKey, IncrRepeated, Count, TypeOK
  <2>3. CASE IncrKey(r)
    <3> DEFINE count == hits[KeyOf(r)] + 1
               p == IF SetsExpiry(count) THEN "expire" ELSE "compare"
    <3>1. count \in Nat /\ p \in Label
      BY <2>1, Labels
    <3>2. req' = [req EXCEPT ![r].count = count, ![r].late = Late(r), ![r].pc = p] /\ Late(r) \in BOOLEAN
      BY <2>3 DEF IncrKey, Late
    <3> HIDE DEF count, p
    <3>3. req' \in [Request -> Fields]
      BY <1>r, <3>1, <3>2, MoveCount
    <3> QED BY <1>0, <2>2, <2>3, <3>3 DEF IncrKey, TypeOK
  <2>4. CASE IncrRepeated(r)
    <3>1. req' \in [Request -> Fields]
      BY <1>r, <2>4, MarkMishap DEF IncrRepeated
    <3> QED BY <1>0, <2>2, <2>4, <3>1, Numbers DEF IncrRepeated, TypeOK
  <2> QED BY <1>4, <2>3, <2>4
<1>5. ASSUME NEW r \in Request, IncrRaises(r) \/ ExpireRaises(r) PROVE TypeOK'
  <2>1. req' \in [Request -> Fields]
    BY <1>r, <1>m, <1>5, MoveMishap, Labels DEF IncrRaises, ExpireRaises
  <2> QED BY <1>0, <1>5, <2>1, Numbers DEF IncrRaises, ExpireRaises, TypeOK
<1>6. ASSUME NEW r \in Request, ExpireKey(r) PROVE TypeOK'
  <2>1. ExpiresAt(now) \in Nat
    BY <1>0, Numbers DEF ExpiresAt, TypeOK, Time
  <2>2. KeyOf(r) \in Bucket
    BY <1>0, <1>6, KeyFacts DEF StepsHonest, StepHonest, ExpireKey
  <2>3. expiry' \in [Bucket -> Nat \cup {None}]
    BY <1>0, <1>6, <2>1, <2>2 DEF ExpireKey, TypeOK
  <2>4. req' \in [Request -> Fields]
    BY <1>m, <1>6, Labels DEF ExpireKey
  <2> QED BY <1>0, <1>6, <2>3, <2>4 DEF ExpireKey, TypeOK
<1>7. ASSUME NEW r \in Request, Allow(r) \/ Read(r) PROVE TypeOK'
  <2>1. req' \in [Request -> Fields]
    BY <1>m, <1>7, Labels DEF Allow, Read
  <2> QED BY <1>0, <1>7, <2>1 DEF Allow, Read, TypeOK
<1>8. ASSUME NEW r \in Request, Refuse(r) PROVE TypeOK'
  <2>1. now + Wait(now) \in Nat
    BY <1>0, WaitEnds DEF TypeOK, Time
  <2>2. req' \in [Request -> Fields]
    BY <1>r, <1>8, <2>1, MoveRetry, Labels DEF Refuse
  <2> QED BY <1>0, <1>8, <2>2 DEF Refuse, TypeOK
<1>9. ASSUME NEW r \in Request, Serve(r) PROVE TypeOK'
  <2>1. now \in Time \cup {None}
    BY <1>0 DEF TypeOK
  <2>2. req' \in [Request -> Fields]
    BY <1>r, <1>9, <2>1, MoveStart, Labels DEF Serve
  <2> QED BY <1>0, <1>9, <2>2 DEF Serve, TypeOK
<1>10. ASSUME NEW r \in Request, Leave(r) PROVE TypeOK'
  <2> DEFINE ms == now - req[r].start
  <2>1. ms \in Time
    <3>1. req[r].start \in Time /\ req[r].start <= now /\ now \in Time
      BY <1>0, <1>r, <1>10 DEF Leave, StepsHonest, StepHonest, TypeOK, Fields
    <3> QED BY <3>1, Numbers DEF Time
  <2>2. samples' = Observe(samples, ms) /\ observed' = Append(observed, ms)
    BY <1>10 DEF Leave
  <2> HIDE DEF ms
  <2>3. samples' \in Seq(Time) /\ Len(samples') <= MaxSamples /\ observed' \in Seq(Time)
    BY <1>0, <2>1, <2>2, KeepTyping DEF TypeOK
  <2>4. req' \in [Request -> Fields]
    BY <1>r, <1>10, MoveStart, Labels DEF Leave
  <2> QED BY <1>0, <1>10, <2>3, <2>4 DEF Leave, TypeOK
<1>11. CASE Restart
  <2>1. \A r \in Request : [req[r] EXCEPT !.pc = "dead"] \in Fields
    BY <1>r, Labels DEF Fields
  <2>2. req' \in [Request -> Fields]
    BY <1>r, <1>11, <2>1 DEF Restart
  <2>3. <<>> \in Seq(Time) /\ Len(<<>>) = 0
    OBVIOUS
  <2> QED BY <1>0, <1>11, <2>2, <2>3, Numbers DEF Restart, TypeOK
<1>12. CASE Tick
  <2>1. now' \in Time
    BY <1>0, <1>12, Numbers DEF Tick, TypeOK, Time
  <2>2. hits' \in [Bucket -> Nat] /\ expiry' \in [Bucket -> Nat \cup {None}]
    BY <1>0, <1>12 DEF Tick, TypeOK
  <2> QED BY <1>0, <1>12, <2>1, <2>2 DEF Tick, TypeOK
<1> QED
  BY <1>1, <1>2, <1>3, <1>4, <1>5, <1>6, <1>7, <1>8, <1>9, <1>10, <1>11, <1>12 DEF Next

----------------------------------------------------------------------------

\* What a step says of a request's fields stays true of the requests it leaves alone.
LEMMA OthersHonest ==
    ASSUME StepsHonest, NEW r \in Request, UNCHANGED now,
           \A q \in Request \ {r} : req'[q] = req[q],
           StepHonest(r)'
    PROVE  StepsHonest'
<1> SUFFICES ASSUME NEW q \in Request, q # r PROVE StepHonest(q)'
  BY DEF StepsHonest
<1>1. req'[q] = req[q] /\ StepHonest(q)
  BY DEF StepsHonest
<1> QED BY <1>1 DEF StepHonest, At, KeyOf

\* The fields of the requests, one step per action.
LEMMA HonestStep == ApiInv /\ [Next]_vars => StepsHonest'
<1> SUFFICES ASSUME ApiInv, [Next]_vars PROVE StepsHonest'
  OBVIOUS
<1>0. TypeOK /\ StepsHonest
  BY DEF ApiInv
<1>r. req \in [Request -> Fields] /\ now \in Time /\ now \in Nat
  BY <1>0 DEF TypeOK, Time
<1> USE DEF At
<1>m. ASSUME NEW r \in Request, NEW p \in Label \ {"refused"}, Goto(r, p), UNCHANGED now,
             p \in {"new", "clock"} => At(r, "new"),
             p \in {"incr", "expire"} => FALSE,
             p = "compare" => At(r, "expire"),
             p = "timed" => FALSE
      PROVE  StepsHonest'
  <2>1. /\ \A q \in Request \ {r} : req'[q] = req[q]
        /\ req'[r].pc = p
        /\ req'[r].at = req[r].at /\ req'[r].count = req[r].count
        /\ req'[r].start = req[r].start /\ req'[r].retry = req[r].retry
        /\ req'[r].mishap = req[r].mishap
    BY <1>r, <1>m, Move DEF Goto
  <2>2. StepHonest(r)
    BY <1>0 DEF StepsHonest
  <2>3. StepHonest(r)'
    BY <1>m, <2>1, <2>2 DEF StepHonest
  <2> QED BY <1>0, <1>m, <2>1, <2>3, OthersHonest
<1>1. CASE UNCHANGED vars
  BY <1>0, <1>1 DEF vars, StepsHonest, StepHonest, KeyOf
<1>2. ASSUME NEW r \in Request, NEW header \in Header, Authenticate(r, header) PROVE StepsHonest'
  <2>1. PICK p \in {"denied", "serve", "clock"} : Goto(r, p)
    BY <1>2 DEF Authenticate
  <2>2. p \in Label \ {"refused"}
    BY <2>1, Labels
  <2> QED BY <1>2, <1>m, <2>1, <2>2 DEF Authenticate
<1>3. ASSUME NEW r \in Request, ReadClock(r) PROVE StepsHonest'
  <2>1. /\ \A q \in Request \ {r} : req'[q] = req[q]
        /\ req'[r].pc = "incr" /\ req'[r].at = now
        /\ req'[r].count = req[r].count /\ req'[r].start = req[r].start
        /\ UNCHANGED now
    <3>1. /\ req' = [req EXCEPT ![r].pc = "incr", ![r].at = now] /\ UNCHANGED now
          /\ "incr" \in Label /\ now \in Time
      BY <1>0, <1>3, Labels DEF ReadClock, TypeOK
    <3>2. req \in [Request -> Fields] /\ r \in Request
      BY <1>r, <1>3
    <3>3. /\ \A q \in Request \ {r} : req'[q] = req[q]
          /\ req'[r].pc = "incr" /\ req'[r].at = now
          /\ req'[r].count = req[r].count /\ req'[r].start = req[r].start
      BY <3>1, <3>2 DEF Fields
    <3> QED BY <3>1, <3>3
  <2>2. StepHonest(r) /\ req[r].pc = "clock" /\ now # None
    BY <1>0, <1>r, <1>3, Numbers DEF StepsHonest, ReadClock
  <2>3. req[r].count = None /\ (req[r].start # None => req[r].start <= now)
    BY <2>2 DEF StepHonest
  <2>5. StepHonest(r)'
    BY <1>r, <2>1, <2>2, <2>3 DEF StepHonest
  <2> QED BY <1>0, <2>1, <2>5, OthersHonest
<1>4. ASSUME NEW r \in Request, IncrKey(r) PROVE StepsHonest'
  <2> DEFINE count == hits[KeyOf(r)] + 1
             p == IF SetsExpiry(count) THEN "expire" ELSE "compare"
  <2>1. StepHonest(r) /\ req[r].pc = "incr"
    BY <1>0, <1>4 DEF StepsHonest, IncrKey
  <2>2. count \in Nat /\ count # None /\ p \in {"expire", "compare"} /\ (p = "expire" => count = 1)
    <3>1. hits[KeyOf(r)] \in Nat
      BY <1>0, <2>1, KeyFacts DEF StepHonest, TypeOK
    <3> QED BY <3>1, Numbers DEF SetsExpiry
  <2>3. /\ req' = [req EXCEPT ![r].count = count, ![r].late = Late(r), ![r].pc = p] /\ UNCHANGED now
        /\ Late(r) \in BOOLEAN
    BY <1>4 DEF IncrKey, Late
  <2> HIDE DEF count, p
  <2>4. /\ \A q \in Request \ {r} : req'[q] = req[q]
        /\ req'[r].pc = p /\ req'[r].count = count
        /\ req'[r].at = req[r].at /\ req'[r].start = req[r].start
    <3>1. p \in Label
      BY <2>2, Labels
    <3> QED BY <1>r, <2>2, <2>3, <3>1, MoveCount
  <2>5. StepHonest(r)'
    BY <2>1, <2>2, <2>3, <2>4 DEF StepHonest
  <2> QED BY <1>0, <2>3, <2>4, <2>5, OthersHonest
<1>5. ASSUME NEW r \in Request, IncrRepeated(r) \/ ExpireRaises(r) PROVE StepsHonest'
  <2>1. /\ \A q \in Request \ {r} : req'[q] = req[q]
        /\ req'[r].pc = "incr" \/ req'[r].pc = "serve"
        /\ req'[r].pc = "incr" => req[r].pc = "incr"
        /\ req'[r].at = req[r].at /\ req'[r].count = req[r].count
        /\ req'[r].start = req[r].start /\ UNCHANGED now
    <3>1. CASE IncrRepeated(r)
      <4>1. req' = [req EXCEPT ![r].mishap = TRUE] /\ req[r].pc = "incr" /\ UNCHANGED now
        BY <3>1 DEF IncrRepeated, At
      <4> QED BY <1>r, <4>1, MarkMishap
    <3>2. CASE ExpireRaises(r)
      <4>1. /\ req' = [req EXCEPT ![r].pc = "serve", ![r].mishap = TRUE]
            /\ "serve" \in Label /\ UNCHANGED now
        BY <3>2, Labels DEF ExpireRaises
      <4> QED BY <1>r, <4>1, MoveMishap
    <3> QED BY <1>5, <3>1, <3>2
  <2>2. StepHonest(r) /\ req[r].pc \in {"incr", "expire"}
    BY <1>0, <1>5 DEF StepsHonest, IncrRepeated, ExpireRaises
  <2>3. req[r].at # None
    BY <2>2 DEF StepHonest
  <2>4. StepHonest(r)'
    BY <2>1, <2>2, <2>3 DEF StepHonest
  <2> QED BY <1>0, <2>1, <2>4, OthersHonest
<1>6. ASSUME NEW r \in Request, IncrRaises(r) \/ Allow(r) PROVE StepsHonest'
  BY <1>6, <1>m, Labels DEF IncrRaises, Allow
<1>7. ASSUME NEW r \in Request, ExpireKey(r) PROVE StepsHonest'
  BY <1>7, <1>m, Labels DEF ExpireKey
<1>8. ASSUME NEW r \in Request, Read(r) PROVE StepsHonest'
  BY <1>8, <1>m, Labels DEF Read
<1>9. ASSUME NEW r \in Request, Refuse(r) PROVE StepsHonest'
  <2> DEFINE retry == now + Wait(now)
  <2>1. retry \in Nat /\ retry # None /\ retry \div Window > now \div Window
    BY <1>r, WaitEnds, Numbers
  <2>2. req' = [req EXCEPT ![r].pc = "refused", ![r].retry = retry] /\ UNCHANGED now
    BY <1>9 DEF Refuse
  <2> HIDE DEF retry
  <2>3. /\ \A q \in Request \ {r} : req'[q] = req[q]
        /\ req'[r].pc = "refused" /\ req'[r].retry = retry
        /\ req'[r].at = req[r].at /\ req'[r].count = req[r].count /\ req'[r].start = req[r].start
        /\ req'[r].mishap = req[r].mishap
    <3>1. "refused" \in Label
      BY Labels
    <3>2. /\ req \in [Request -> Fields] /\ retry \in Nat
          /\ req' = [req EXCEPT ![r].pc = "refused", ![r].retry = retry]
      BY <1>r, <2>1, <2>2
    <3> QED BY <3>2 DEF Fields
  <2>4. StepHonest(r) /\ req[r].pc = "compare" /\ req[r].count > Limit
    BY <1>0, <1>9 DEF StepsHonest, Refuse
  <2>5. req[r].at \in Nat /\ req[r].at <= now /\ KeyOf(r) \in Nat
    BY <1>0, <2>4, KeyFacts DEF StepHonest
  <2>6. retry \div Window > KeyOf(r)
    <3>1. KeyOf(r) <= now \div Window
      BY <1>r, <2>5, MinutesOrdered DEF KeyOf, BucketOf
    <3>2. now \div Window \in Nat /\ retry \div Window \in Nat
      BY <1>r, <2>1, Minute
    <3> QED BY <2>1, <2>5, <3>1, <3>2
  <2>7. KeyOf(r)' = KeyOf(r)
    BY <2>3 DEF KeyOf
  <2>8. StepHonest(r)'
    BY <2>1, <2>2, <2>3, <2>4, <2>6, <2>7 DEF StepHonest
  <2> QED BY <1>0, <2>2, <2>3, <2>8, OthersHonest
<1>10. ASSUME NEW r \in Request, Serve(r) \/ Leave(r) PROVE StepsHonest'
  <2>1. /\ \A q \in Request \ {r} : req'[q] = req[q]
        /\ req'[r].at = req[r].at /\ req'[r].count = req[r].count
        /\ req'[r].mishap = req[r].mishap
        /\ \/ req'[r].pc = "timed" /\ req'[r].start = now
           \/ req'[r].pc = "served" /\ req'[r].start = None
        /\ UNCHANGED now
    BY <1>r, <1>10, MoveStart, Labels DEF Serve, Leave
  <2>2. StepHonest(r) /\ now # None
    BY <1>0, <1>r, Numbers DEF StepsHonest
  <2>3. StepHonest(r)'
    BY <1>r, <2>1, <2>2 DEF StepHonest
  <2> QED BY <1>0, <2>1, <2>3, OthersHonest
<1>11. CASE Restart
  <2> SUFFICES ASSUME NEW r \in Request PROVE StepHonest(r)'
    BY DEF StepsHonest
  <2>1. /\ req'[r].at = req[r].at /\ req'[r].count = req[r].count
        /\ req'[r].start = req[r].start /\ req'[r].retry = req[r].retry
        /\ req'[r].mishap = req[r].mishap
        /\ req'[r].pc = req[r].pc \/ req'[r].pc = "dead"
        /\ UNCHANGED now
    BY <1>r, <1>11 DEF Restart, Fields
  <2>2. StepHonest(r)
    BY <1>0 DEF StepsHonest
  <2>3. KeyOf(r)' = KeyOf(r)
    BY <2>1 DEF KeyOf
  <2> QED BY <2>1, <2>2, <2>3 DEF StepHonest
<1>12. CASE Tick
  <2> SUFFICES ASSUME NEW r \in Request PROVE StepHonest(r)'
    BY DEF StepsHonest
  <2>1. UNCHANGED req /\ now' = now + 1
    BY <1>12 DEF Tick
  <2>2. StepHonest(r) /\ req[r] \in Fields
    BY <1>0, <1>r DEF StepsHonest
  <2>3. KeyOf(r)' = KeyOf(r)
    BY <2>1 DEF KeyOf
  <2>4. /\ req[r].at # None => req[r].at \in Nat
        /\ req[r].start # None => req[r].start \in Nat
    BY <2>2 DEF Fields, Time
  <2>7. /\ req[r].at # None => req[r].at <= now'
        /\ req[r].start # None => req[r].start <= now'
    BY <1>r, <2>1, <2>2, <2>4 DEF StepHonest
  <2> QED BY <2>1, <2>2, <2>3, <2>7 DEF StepHonest
<1> QED
  BY <1>1, <1>2, <1>3, <1>4, <1>5, <1>6, <1>7, <1>8, <1>9, <1>10, <1>11, <1>12 DEF Next

----------------------------------------------------------------------------

\* Counts are for ever, and so is the minute they were counted in.
SameCounts ==
    \A q \in Request : /\ req'[q].count = req[q].count /\ req'[q].late = req[q].late
                       /\ req[q].count # None => req'[q].at = req[q].at

\* What a step does to the counts, the keys and the clock.
LEMMA StepKinds ==
    ASSUME ApiInv, [Next]_vars
    PROVE  /\ faults' = faults \/ faults' = faults + 1
           /\ \/ \E r \in Request : IncrKey(r)
              \/ /\ SameCounts
                 /\ \/ UNCHANGED <<now, hits, expiry>>
                    \/ \E r \in Request : IncrRepeated(r)
                    \/ \E r \in Request : ExpireKey(r)
                    \/ Tick
<1> DEFINE Kind == \/ UNCHANGED <<now, hits, expiry>>
                   \/ \E r \in Request : IncrRepeated(r)
                   \/ \E r \in Request : ExpireKey(r)
                   \/ Tick
           Goal == /\ faults' = faults \/ faults' = faults + 1
                   /\ (\E r \in Request : IncrKey(r)) \/ (SameCounts /\ Kind)
<1> SUFFICES Goal
  OBVIOUS
<1> USE DEF Goto, Fault, redis, metrics, At
<1>0. TypeOK /\ StepsHonest /\ req \in [Request -> Fields]
  BY DEF ApiInv, TypeOK
<1>m. ASSUME NEW r \in Request, NEW p \in Label, Goto(r, p) PROVE SameCounts
  BY <1>0, <1>m, Move DEF SameCounts
<1>u. UNCHANGED req => SameCounts
  BY DEF SameCounts
<1>1. CASE UNCHANGED vars
  BY <1>1, <1>u DEF vars
<1>2. ASSUME NEW r \in Request, NEW header \in Header, Authenticate(r, header) PROVE Goal
  <2>1. PICK p \in {"denied", "serve", "clock"} : Goto(r, p)
    BY <1>2 DEF Authenticate
  <2>2. SameCounts
    BY <1>m, <2>1, Labels
  <2> QED BY <1>2, <2>2 DEF Authenticate
<1>3. ASSUME NEW r \in Request, ReadClock(r) PROVE Goal
  <2>1. req[r].count = None
    BY <1>0, <1>3 DEF ReadClock, StepsHonest, StepHonest
  <2>2. now \in Time
    BY <1>0 DEF TypeOK
  <2>3. SameCounts
    BY <1>0, <1>3, <2>1, <2>2, MoveAt, Labels DEF ReadClock, SameCounts
  <2> QED BY <1>3, <2>3 DEF ReadClock
<1>4. ASSUME NEW r \in Request, IncrKey(r) PROVE Goal
  BY <1>4 DEF IncrKey
<1>5. ASSUME NEW r \in Request, IncrRepeated(r) PROVE Goal
  <2>1. SameCounts
    BY <1>0, <1>5, MarkMishap DEF IncrRepeated, SameCounts
  <2> QED BY <1>5, <2>1 DEF IncrRepeated
<1>6. ASSUME NEW r \in Request, IncrRaises(r) \/ ExpireRaises(r) PROVE Goal
  <2>1. SameCounts
    BY <1>0, <1>m, <1>6, MoveMishap, Labels DEF IncrRaises, ExpireRaises, SameCounts
  <2> QED BY <1>6, <2>1 DEF IncrRaises, ExpireRaises
<1>7. ASSUME NEW r \in Request, ExpireKey(r) PROVE Goal
  <2>1. SameCounts
    BY <1>m, <1>7, Labels DEF ExpireKey
  <2> QED BY <1>7, <2>1 DEF ExpireKey
<1>8. ASSUME NEW r \in Request, Allow(r) \/ Read(r) PROVE Goal
  <2>1. SameCounts
    BY <1>m, <1>8, Labels DEF Allow, Read
  <2> QED BY <1>8, <2>1 DEF Allow, Read
<1>9. ASSUME NEW r \in Request, Refuse(r) PROVE Goal
  <2>1. now + Wait(now) \in Nat
    BY <1>0, WaitEnds DEF TypeOK, Time
  <2>2. SameCounts
    BY <1>0, <1>9, <2>1, MoveRetry, Labels DEF Refuse, SameCounts
  <2> QED BY <1>9, <2>2 DEF Refuse
<1>10. ASSUME NEW r \in Request, Serve(r) \/ Leave(r) PROVE Goal
  <2>1. now \in Time
    BY <1>0 DEF TypeOK
  <2>2. SameCounts
    BY <1>0, <1>10, <2>1, MoveStart, Labels DEF Serve, Leave, SameCounts
  <2> QED BY <1>10, <2>2 DEF Serve, Leave
<1>11. CASE Restart
  <2>1. SameCounts
    BY <1>0, <1>11 DEF Restart, SameCounts, Fields
  <2> QED BY <1>11, <2>1 DEF Restart
<1>12. CASE Tick
  BY <1>12, <1>u DEF Tick
<1> HIDE DEF Goal
<1> QED
  BY <1>1, <1>2, <1>3, <1>4, <1>5, <1>6, <1>7, <1>8, <1>9, <1>10, <1>11, <1>12 DEF Next

\* The request that INCRs: its count is one more than the key's, and unless it is late
\* its minute is not closed.
LEMMA IncrFacts ==
    ASSUME ApiInv, NEW r \in Request, IncrKey(r)
    PROVE  /\ req[r].at # None /\ req[r].count = None
           /\ KeyOf(r) \in Bucket /\ hits[KeyOf(r)] \in Nat
           /\ req'[r].late \/ ~Closed(KeyOf(r))
           /\ req'[r].count = hits[KeyOf(r)] + 1 /\ req'[r].at = req[r].at
           /\ req'[r].mishap = req[r].mishap
           /\ req'[r].pc = IF SetsExpiry(hits[KeyOf(r)] + 1) THEN "expire" ELSE "compare"
           /\ \A q \in Request \ {r} : req'[q] = req[q]
           /\ hits' = [hits EXCEPT ![KeyOf(r)] = @ + 1]
           /\ UNCHANGED <<now, expiry, faults>>
<1>0. TypeOK /\ StepHonest(r) /\ req \in [Request -> Fields] /\ now \in Nat
  BY DEF ApiInv, StepsHonest, TypeOK, Time
<1>1. req[r].at # None /\ req[r].count = None
  BY <1>0 DEF StepHonest, IncrKey, At
<1>2. /\ KeyOf(r) \in Bucket /\ KeyOf(r) \in Nat /\ req[r].at \in Nat
      /\ req[r].at < KeyOf(r) * Window + Window
  BY <1>0, <1>1, KeyFacts
<1>3. Late(r) \/ ~Closed(KeyOf(r))
  <2> DEFINE begins == KeyOf(r) * Window
  <2>1. begins \in Nat
    BY <1>2, Numbers
  <2>2. req[r].at < begins + Window
    BY <1>2
  <2> HIDE DEF begins
  <2>3. now > req[r].at + (Ttl - Window) \/ ~(now >= begins + Ttl)
    BY <1>0, <1>2, <2>1, <2>2, Numbers
  <2> QED BY <2>3 DEF Closed, Late, begins
<1>4. hits[KeyOf(r)] \in Nat
  BY <1>0, <1>2 DEF TypeOK
<1> DEFINE count == hits[KeyOf(r)] + 1
           p == IF SetsExpiry(count) THEN "expire" ELSE "compare"
<1>5. /\ req' = [req EXCEPT ![r].count = count, ![r].late = Late(r), ![r].pc = p]
      /\ Late(r) \in BOOLEAN /\ count \in Nat /\ p \in Label
  BY <1>4, Labels DEF IncrKey, Late
<1> HIDE DEF count, p
<1>6. /\ req'[r].count = count /\ req'[r].at = req[r].at /\ req'[r].late = Late(r)
      /\ req'[r].pc = p /\ req'[r].mishap = req[r].mishap
      /\ \A q \in Request \ {r} : req'[q] = req[q]
  <2> DEFINE late == Late(r)
  <2>1. late \in BOOLEAN /\ req' = [req EXCEPT ![r].count = count, ![r].late = late, ![r].pc = p]
    BY <1>5
  <2> HIDE DEF late
  <2>2. /\ req'[r].count = count /\ req'[r].at = req[r].at /\ req'[r].late = late
        /\ req'[r].pc = p /\ req'[r].mishap = req[r].mishap
        /\ \A q \in Request \ {r} : req'[q] = req[q]
    <3>1. req \in [Request -> Fields] /\ r \in Request /\ p \in Label /\ count \in Nat
      BY <1>0, <1>5
    <3> DEFINE f == [req[r] EXCEPT !.count = count, !.late = late, !.pc = p]
    <3>2. /\ f.pc = p /\ f.count = count /\ f.late = late /\ f.at = req[r].at
          /\ f.mishap = req[r].mishap
      BY <3>1 DEF Fields
    <3>3. req' = [req EXCEPT ![r] = f]
      BY <2>1
    <3> HIDE DEF f
    <3> QED BY <3>1, <3>2, <3>3
  <2> QED BY <2>2 DEF late
<1>7. /\ hits' = [hits EXCEPT ![KeyOf(r)] = @ + 1]
      /\ UNCHANGED <<now, expiry, faults>>
  BY DEF IncrKey, Count
<1>8. /\ req'[r].count = hits[KeyOf(r)] + 1
      /\ req'[r].pc = IF SetsExpiry(hits[KeyOf(r)] + 1) THEN "expire" ELSE "compare"
  BY <1>6 DEF count, p
<1>9. req'[r].late \/ ~Closed(KeyOf(r))
  BY <1>3, <1>6
<1> QED BY <1>1, <1>2, <1>4, <1>6, <1>7, <1>8, <1>9

\* The keys outlive their minutes, so counts tell its requests apart.
LEMMA KeysStep == ApiInv /\ [Next]_vars => KeysOutlive'
<1> SUFFICES ASSUME ApiInv, [Next]_vars PROVE KeysOutlive'
  OBVIOUS
<1>0. TypeOK /\ StepsHonest /\ KeysOutlive
  BY DEF ApiInv
<1>t. /\ now \in Nat
      /\ \A b \in Bucket : b \in Nat /\ hits[b] \in Nat /\ b * Window + Ttl \in Nat
      /\ \A r \in Request : req[r].count # None => req[r].count \in Nat
  <2>1. \A b \in Bucket : b \in Nat
    BY Numbers DEF Bucket
  <2>2. \A b \in Bucket : b * Window + Ttl \in Nat
    BY <2>1, Numbers
  <2> QED BY <1>0, <2>1, <2>2 DEF TypeOK, Time, Fields
<1>k. \A r \in Request : req[r].count # None => req[r].at # None /\ KeyOf(r) \in Bucket
  BY <1>0, KeyFacts DEF StepsHonest, StepHonest
<1>1. ASSUME NEW r \in Request, IncrKey(r) PROVE KeysOutlive'
  <2> DEFINE b == KeyOf(r)
  <2>1. /\ b \in Bucket /\ hits[b] \in Nat /\ (req'[r].late \/ ~Closed(b))
        /\ req'[r].count = hits[b] + 1 /\ req[r].count = None
        /\ hits'[b] = hits[b] + 1 /\ \A c \in Bucket \ {b} : hits'[c] = hits[c]
        /\ \A q \in Request \ {r} : req'[q] = req[q]
        /\ UNCHANGED <<now, expiry>>
        /\ KeyOf(r)' = b
    BY <1>0, <1>1, IncrFacts DEF KeyOf, TypeOK
  <2>2. \A q \in Request \ {r} : KeyOf(q)' = KeyOf(q)
    BY <2>1 DEF KeyOf
  <2>3. \A c : Closed(c)' <=> Closed(c)
    BY <2>1 DEF Closed
  <2> HIDE DEF b
  <2>4. ASSUME NEW q \in Request, req'[q].count # None
        PROVE  req'[q].count >= 1 /\ (Closed(KeyOf(q)') \/ req'[q].count <= hits'[KeyOf(q)'])
    <3>1. CASE q = r
      BY <2>1, <3>1
    <3>2. CASE q # r
      <4>1. req[q].count # None /\ req'[q].count = req[q].count /\ KeyOf(q)' = KeyOf(q)
        BY <2>1, <2>2, <2>4, <3>2
      <4>2. KeyOf(q) \in Bucket /\ hits'[KeyOf(q)] >= hits[KeyOf(q)] /\ hits'[KeyOf(q)] \in Nat
        BY <1>k, <1>t, <2>1, <4>1
      <4>3. req[q].count >= 1 /\ (Closed(KeyOf(q)) \/ req[q].count <= hits[KeyOf(q)])
        BY <1>0, <4>1 DEF KeysOutlive
      <4> QED BY <1>t, <4>1, <4>2, <4>3
    <3> QED BY <3>1, <3>2
  <2>5. ASSUME NEW q \in Request \ {r}, req[q].count # None, KeyOf(q) = b, ~req'[r].late
        PROVE  req[q].count # hits[b] + 1
    <3>1. req[q].count <= hits[b] /\ req[q].count \in Nat
      BY <1>0, <1>t, <2>1, <2>5 DEF KeysOutlive
    <3> QED BY <2>1, <3>1
  <2>6. ASSUME NEW q \in Request, NEW u \in Request,
               req'[q].count # None, req'[u].count # None, KeyOf(q)' = KeyOf(u)',
               ~req'[q].late, ~req'[u].late, req'[q].count = req'[u].count
        PROVE  q = u
    BY <1>0, <2>1, <2>2, <2>5, <2>6 DEF KeysOutlive
  <2>7. \A c \in Bucket : expiry'[c] # None => expiry'[c] >= c * Window + Ttl
    BY <1>0, <2>1 DEF KeysOutlive
  <2> QED BY <2>3, <2>4, <2>6, <2>7 DEF KeysOutlive
<1>2. ASSUME SameCounts,
             \A b \in Bucket : Closed(b) => Closed(b)',
             \A b \in Bucket : hits'[b] \in Nat /\ (hits'[b] >= hits[b] \/ Closed(b)'),
             \A b \in Bucket : expiry'[b] # None => expiry'[b] >= b * Window + Ttl
      PROVE  KeysOutlive'
  <2>1. \A q \in Request : req'[q].count # None =>
           /\ req[q].count # None /\ req'[q].count = req[q].count
           /\ req'[q].late = req[q].late
           /\ KeyOf(q)' = KeyOf(q) /\ KeyOf(q) \in Bucket
    BY <1>2, <1>k DEF SameCounts, KeyOf
  <2>2. ASSUME NEW q \in Request, req'[q].count # None
        PROVE  req'[q].count >= 1 /\ (Closed(KeyOf(q))' \/ req'[q].count <= hits'[KeyOf(q)'])
    <3>1. /\ req[q].count # None /\ req'[q].count = req[q].count
          /\ KeyOf(q)' = KeyOf(q) /\ KeyOf(q) \in Bucket
      BY <2>1, <2>2
    <3>2. req[q].count >= 1 /\ (Closed(KeyOf(q)) \/ req[q].count <= hits[KeyOf(q)])
      BY <1>0, <3>1 DEF KeysOutlive
    <3> DEFINE b == KeyOf(q)
    <3>3. /\ Closed(b) => Closed(b)'
          /\ hits'[b] \in Nat /\ (hits'[b] >= hits[b] \/ Closed(b)')
          /\ hits[b] \in Nat /\ req[q].count \in Nat
      BY <1>2, <1>t, <3>1
    <3> QED BY <3>1, <3>2, <3>3
  <2>3. ASSUME NEW q \in Request, NEW u \in Request,
               req'[q].count # None, req'[u].count # None, KeyOf(q)' = KeyOf(u)',
               ~req'[q].late, ~req'[u].late, req'[q].count = req'[u].count
        PROVE  q = u
    BY <1>0, <2>1, <2>3 DEF KeysOutlive
  <2> QED BY <1>2, <2>2, <2>3 DEF KeysOutlive
<1>3. CASE SameCounts /\ UNCHANGED <<now, hits, expiry>>
  <2>1. \A b : Closed(b)' <=> Closed(b)
    BY <1>3 DEF Closed
  <2> QED BY <1>0, <1>2, <1>3, <1>t, <2>1 DEF KeysOutlive
<1>4. ASSUME SameCounts, NEW r \in Request, IncrRepeated(r) PROVE KeysOutlive'
  <2>1. /\ hits' = [hits EXCEPT ![KeyOf(r)] = @ + 1] /\ UNCHANGED <<now, expiry>>
        /\ hits \in [Bucket -> Nat]
    BY <1>0, <1>4 DEF IncrRepeated, Count, TypeOK
  <2>2. \A b \in Bucket : hits'[b] \in Nat /\ hits'[b] >= hits[b]
    BY <2>1
  <2>3. \A b : Closed(b)' <=> Closed(b)
    BY <2>1 DEF Closed
  <2> QED BY <1>0, <1>2, <1>4, <2>1, <2>2, <2>3 DEF KeysOutlive
<1>5. ASSUME SameCounts, NEW r \in Request, ExpireKey(r) PROVE KeysOutlive'
  <2>1. /\ req[r].at # None /\ req[r].at <= now
        /\ UNCHANGED <<now, hits>>
        /\ \/ UNCHANGED expiry
           \/ expiry' = [expiry EXCEPT ![KeyOf(r)] = now + Ttl]
        /\ DOMAIN expiry = Bucket
    BY <1>0, <1>5 DEF ExpireKey, ExpiresAt, At, StepsHonest, StepHonest, TypeOK
  <2>2. now + Ttl >= KeyOf(r) * Window + Ttl
    <3>1. /\ KeyOf(r) \in Nat /\ KeyOf(r) * Window <= req[r].at /\ req[r].at \in Nat
      BY <1>0, <2>1, KeyFacts
    <3> DEFINE begins == KeyOf(r) * Window
    <3>2. begins \in Nat /\ begins <= req[r].at
      BY <3>1, Numbers
    <3> HIDE DEF begins
    <3>3. now + Ttl >= begins + Ttl
      BY <1>t, <2>1, <3>1, <3>2, Numbers
    <3> QED BY <3>3 DEF begins
  <2>3. \A b \in Bucket : expiry'[b] # None => expiry'[b] >= b * Window + Ttl
    BY <1>0, <2>1, <2>2 DEF KeysOutlive
  <2>4. \A b : Closed(b)' <=> Closed(b)
    BY <2>1 DEF Closed
  <2>5. \A b \in Bucket : hits'[b] \in Nat /\ hits'[b] >= hits[b]
    BY <1>t, <2>1
  <2> QED BY <1>2, <1>5, <2>3, <2>4, <2>5
<1>6. CASE SameCounts /\ Tick
  <2>1. /\ now' = now + 1
        /\ \A b \in Bucket : hits'[b] = (IF expiry[b] = now' THEN 0 ELSE hits[b])
        /\ \A b \in Bucket : expiry'[b] = (IF expiry[b] = now' THEN None ELSE expiry[b])
    BY <1>6 DEF Tick
  <2>2. \A b \in Bucket : Closed(b) => Closed(b)'
    BY <1>t, <2>1 DEF Closed
  <2>3. \A b \in Bucket : expiry[b] = now' => Closed(b)'
    BY <1>0, <1>t, <2>1, Numbers DEF KeysOutlive, Closed
  <2>4. \A b \in Bucket : hits'[b] \in Nat /\ (hits'[b] >= hits[b] \/ Closed(b)')
    BY <1>t, <2>1, <2>3
  <2>5. \A b \in Bucket : expiry'[b] # None => expiry'[b] >= b * Window + Ttl
    BY <1>0, <2>1 DEF KeysOutlive
  <2> QED BY <1>2, <1>6, <2>2, <2>4, <2>5
<1> QED BY <1>1, <1>3, <1>4, <1>5, <1>6, StepKinds

----------------------------------------------------------------------------

\* The counted requests of a minute are finitely many.
LEMMA IncrementedFinite ==
    ASSUME NEW b
    PROVE  IsFiniteSet(Incremented(b)) /\ Cardinality(Incremented(b)) \in Nat
<1>1. Incremented(b) \subseteq Request
  BY DEF Incremented
<1> QED BY <1>1, ApiAssumption, FS_Subset, FS_CardinalityType

\* A key owes its hits to the requests counted in it and to repeated calls.
LEMMA HitsStep == ApiInv /\ [Next]_vars => HitsOwed'
<1> SUFFICES ASSUME ApiInv, [Next]_vars PROVE HitsOwed'
  OBVIOUS
<1>0. TypeOK /\ StepsHonest /\ HitsOwed
  BY DEF ApiInv
<1>t. /\ \A b \in Bucket : hits[b] \in Nat
      /\ faults \in Nat
      /\ \A r \in Request : req[r].count # None =>
            req[r].count \in Nat /\ req[r].at # None /\ KeyOf(r) \in Bucket
  BY <1>0, KeyFacts DEF TypeOK, Fields, StepsHonest, StepHonest
<1>1. ASSUME NEW r \in Request, IncrKey(r) PROVE HitsOwed'
  <2>0. PICK b \in Bucket : b = KeyOf(r)
    BY <1>1, IncrFacts
  <2>1. /\ b \in Bucket /\ hits[b] \in Nat
        /\ req'[r].count = hits[b] + 1 /\ req[r].count = None /\ req'[r].count # None
        /\ hits'[b] = hits[b] + 1 /\ \A c \in Bucket \ {b} : hits'[c] = hits[c]
        /\ \A q \in Request \ {r} : req'[q] = req[q] /\ KeyOf(q)' = KeyOf(q)
        /\ UNCHANGED faults
        /\ KeyOf(r)' = b
    BY <1>0, <1>1, <2>0, IncrFacts, Numbers DEF KeyOf, TypeOK
  <2>2. Incremented(b)' = Incremented(b) \cup {r} /\ r \notin Incremented(b)
    BY <2>1 DEF Incremented
  <2>3. \A c : c # b => Incremented(c)' = Incremented(c)
    BY <2>1 DEF Incremented
  <2>4. Cardinality(Incremented(b)') = Cardinality(Incremented(b)) + 1
    BY <2>2, IncrementedFinite, FS_AddElement
  <2>5. \A c : Cardinality(Incremented(c)) \in Nat
    BY IncrementedFinite
  <2>6. hits[b] + 1 <= Cardinality(Incremented(b)') + faults
    <3>1. hits[b] <= Cardinality(Incremented(b)) + faults
      BY <1>0, <2>1 DEF HitsOwed
    <3> QED BY <1>t, <2>1, <2>4, <2>5, <3>1
  <2>7. ASSUME NEW c \in Bucket PROVE hits'[c] <= Cardinality(Incremented(c)') + faults'
    <3>1. CASE c = b
      BY <2>1, <2>6, <3>1
    <3>2. CASE c # b
      <4>1. hits[c] <= Cardinality(Incremented(c)) + faults
        BY <1>0 DEF HitsOwed
      <4> QED BY <2>1, <2>3, <3>2, <4>1
    <3> QED BY <3>1, <3>2
  <2>8. ASSUME NEW q \in Request, req'[q].count # None
        PROVE  req'[q].count <= Cardinality(Incremented(KeyOf(q)))' + faults'
    <3>1. CASE q = r
      <4>1. Incremented(KeyOf(q))' = Incremented(b)'
        BY <2>1, <3>1 DEF Incremented
      <4> QED BY <2>1, <2>6, <3>1, <4>1
    <3>2. CASE q # r
      <4>0. PICK c \in Bucket : c = KeyOf(q)
        BY <1>t, <2>1, <2>8, <3>2
      <4>1. req[q].count # None /\ req'[q].count = req[q].count /\ KeyOf(q)' = c
        BY <2>1, <2>8, <3>2, <4>0
      <4>2. req[q].count <= Cardinality(Incremented(c)) + faults /\ req[q].count \in Nat
        BY <1>0, <1>t, <4>0, <4>1 DEF HitsOwed
      <4>3. Cardinality(Incremented(c)') >= Cardinality(Incremented(c))
            /\ Cardinality(Incremented(c)') \in Nat
        BY <2>3, <2>4, <2>5
      <4>4. req[q].count <= Cardinality(Incremented(c)') + faults
        BY <1>t, <2>5, <4>2, <4>3
      <4>5. Incremented(KeyOf(q))' = Incremented(c)'
        BY <4>1 DEF Incremented
      <4> QED BY <2>1, <4>1, <4>4, <4>5
    <3> QED BY <3>1, <3>2
  <2> QED BY <2>7, <2>8 DEF HitsOwed
<1>2. ASSUME SameCounts, faults' = faults \/ faults' = faults + 1,
             \A b \in Bucket : hits'[b] \in Nat /\ hits'[b] - hits[b] <= faults' - faults
      PROVE  HitsOwed'
  <2>1. \A q \in Request : req'[q].count # None =>
           /\ req[q].count # None /\ req'[q].count = req[q].count
           /\ KeyOf(q)' = KeyOf(q)
    BY <1>2 DEF SameCounts, KeyOf
  <2>2. \A b : Incremented(b)' = Incremented(b)
    BY <1>2, <2>1 DEF Incremented, SameCounts, KeyOf
  <2>3. \A b : Cardinality(Incremented(b)) \in Nat
    BY IncrementedFinite
  <2>4. ASSUME NEW b \in Bucket PROVE hits'[b] <= Cardinality(Incremented(b)') + faults'
    <3>1. hits[b] <= Cardinality(Incremented(b)) + faults
      BY <1>0 DEF HitsOwed
    <3>2. Cardinality(Incremented(b)') = Cardinality(Incremented(b))
      BY <2>2
    <3> QED BY <1>2, <1>t, <2>3, <3>1, <3>2
  <2>5. ASSUME NEW q \in Request, req'[q].count # None
        PROVE  req'[q].count <= Cardinality(Incremented(KeyOf(q)))' + faults'
    <3>0. PICK c \in Bucket : c = KeyOf(q)
      BY <1>t, <2>1, <2>5
    <3>1. req[q].count # None /\ req'[q].count = req[q].count /\ KeyOf(q)' = c
      BY <2>1, <2>5, <3>0
    <3>2. req[q].count <= Cardinality(Incremented(c)) + faults /\ req[q].count \in Nat
      BY <1>0, <1>t, <3>0, <3>1 DEF HitsOwed
    <3>3. Cardinality(Incremented(c)') = Cardinality(Incremented(c))
      BY <2>2
    <3>4. req[q].count <= Cardinality(Incremented(c)') + faults'
      BY <1>2, <1>t, <2>3, <3>2, <3>3
    <3>5. Incremented(KeyOf(q))' = Incremented(c)'
      BY <3>1 DEF Incremented
    <3> QED BY <3>1, <3>4, <3>5
  <2> QED BY <2>4, <2>5 DEF HitsOwed
<1>f. faults' = faults \/ faults' = faults + 1
  BY StepKinds
<1>3. CASE SameCounts /\ UNCHANGED hits
  BY <1>2, <1>3, <1>f, <1>t
<1>4. ASSUME SameCounts, NEW r \in Request, IncrRepeated(r) PROVE HitsOwed'
  <2>1. faults' = faults + 1 /\ hits' = [hits EXCEPT ![KeyOf(r)] = @ + 1] /\ hits \in [Bucket -> Nat]
    BY <1>0, <1>4 DEF IncrRepeated, Fault, Count, TypeOK
  <2>2. \A b \in Bucket : hits'[b] \in Nat /\ hits'[b] - hits[b] <= faults' - faults
    BY <1>t, <2>1
  <2> QED BY <1>2, <1>4, <1>f, <2>2
<1>5. CASE SameCounts /\ Tick
  <2>1. \A b \in Bucket : hits'[b] = 0 \/ hits'[b] = hits[b]
    BY <1>5 DEF Tick
  <2>2. \A b \in Bucket : hits'[b] \in Nat /\ hits'[b] - hits[b] <= faults' - faults
    BY <1>t, <1>f, <2>1
  <2> QED BY <1>2, <1>5, <1>f, <2>2
<1>6. \A r \in Request : ExpireKey(r) => UNCHANGED hits
  BY DEF ExpireKey
<1> QED BY <1>1, <1>3, <1>4, <1>5, <1>6, StepKinds

----------------------------------------------------------------------------

\* Whoever left a key stays its cause.
CulpritsStay ==
    \A q \in Request : req[q].at # None =>
        req'[q].at = req[q].at /\ KeyOf(q)' = KeyOf(q) /\ (Culprit(q) => Culprit(q)')

\* A key that has lost its expiry names a request that did.
LEMMA CauseKept ==
    ASSUME LeaksHaveCause, CulpritsStay,
           \A k \in Leaked' : \/ k \in Leaked
                             \/ \E q \in Request : req'[q].at # None /\ KeyOf(q)' = k /\ Culprit(q)'
    PROVE  LeaksHaveCause'
<1> SUFFICES ASSUME NEW k \in Leaked'
             PROVE  \E q \in Request : req'[q].at # None /\ KeyOf(q)' = k /\ Culprit(q)'
  BY DEF LeaksHaveCause
<1>1. CASE k \in Leaked
  <2>1. PICK q \in Request : req[q].at # None /\ KeyOf(q) = k /\ Culprit(q)
    BY <1>1 DEF LeaksHaveCause
  <2> QED BY <2>1 DEF CulpritsStay
<1> QED BY <1>1

LEMMA LeakStep == ApiInv /\ [Next]_vars => LeaksHaveCause'
<1> SUFFICES ASSUME ApiInv, [Next]_vars PROVE LeaksHaveCause'
  OBVIOUS
<1> USE DEF Goto, Fault, redis, metrics, At
<1>0. TypeOK /\ StepsHonest /\ LeaksHaveCause /\ req \in [Request -> Fields]
  BY DEF ApiInv, TypeOK
<1>s. ASSUME CulpritsStay, Leaked' \subseteq Leaked PROVE LeaksHaveCause'
  BY <1>0, <1>s, CauseKept
\* A step of one request that was neither dead nor about to set an expiry.
<1>o. ASSUME NEW r \in Request, \A q \in Request \ {r} : req'[q] = req[q],
             req[r].pc # "dead", req[r].mishap => req'[r].mishap,
             req[r].at # None => req'[r].at = req[r].at
      PROVE  CulpritsStay
  BY <1>o DEF CulpritsStay, Culprit, KeyOf
<1>q. ASSUME NEW r \in Request, \A q \in Request \ {r} : req'[q] = req[q],
             req[r].pc \notin {"dead", "expire"}, req[r].mishap => req'[r].mishap,
             req[r].at # None => req'[r].at = req[r].at,
             UNCHANGED <<hits, expiry>>
      PROVE  LeaksHaveCause'
  <2>1. CulpritsStay
    BY <1>o, <1>q
  <2>2. \A q \in Request : req[q].pc = "expire" => req'[q] = req[q]
    BY <1>q
  <2>3. Leaked' \subseteq Leaked
    BY <1>q, <2>2 DEF Leaked, KeyOf
  <2> QED BY <1>s, <2>1, <2>3
<1>m. ASSUME NEW r \in Request, NEW p \in Label, Goto(r, p), req[r].pc \notin {"dead", "expire"},
             UNCHANGED <<hits, expiry>>
      PROVE  LeaksHaveCause'
  <2>1. /\ \A q \in Request \ {r} : req'[q] = req[q]
        /\ req'[r].at = req[r].at /\ req'[r].mishap = req[r].mishap
    BY <1>0, <1>m, Move
  <2> QED BY <1>m, <1>q, <2>1
<1>1. CASE UNCHANGED vars
  BY <1>0, <1>1 DEF vars, LeaksHaveCause, Leaked, KeyOf, Culprit
<1>2. ASSUME NEW r \in Request, NEW header \in Header, Authenticate(r, header) PROVE LeaksHaveCause'
  <2>1. PICK p \in {"denied", "serve", "clock"} : Goto(r, p)
    BY <1>2 DEF Authenticate
  <2>2. p \in Label /\ req[r].pc \notin {"dead", "expire"}
    BY <1>2, <2>1, Labels DEF Authenticate
  <2> QED BY <1>2, <1>m, <2>1, <2>2 DEF Authenticate
<1>3. ASSUME NEW r \in Request, ReadClock(r) PROVE LeaksHaveCause'
  <2>1. now \in Time
    BY <1>0 DEF TypeOK
  <2>2. /\ \A q \in Request \ {r} : req'[q] = req[q]
        /\ req'[r].mishap = req[r].mishap
    BY <1>0, <1>3, <2>1, MoveAt, Labels DEF ReadClock
  <2>3. req[r].at = None /\ req[r].pc = "clock"
    BY <1>0, <1>3 DEF ReadClock, StepsHonest, StepHonest
  <2> QED BY <1>3, <1>q, <2>2, <2>3 DEF ReadClock
<1>4. ASSUME NEW r \in Request, IncrKey(r) PROVE LeaksHaveCause'
  <2> DEFINE b == KeyOf(r)
             p == IF SetsExpiry(hits[b] + 1) THEN "expire" ELSE "compare"
  <2>1. /\ req[r].at # None
        /\ b \in Bucket /\ hits[b] \in Nat
        /\ req'[r].at = req[r].at /\ req'[r].mishap = req[r].mishap /\ req'[r].pc = p
        /\ \A q \in Request \ {r} : req'[q] = req[q]
        /\ hits' = [hits EXCEPT ![b] = @ + 1]
        /\ UNCHANGED expiry
    BY <1>4, IncrFacts
  <2>2. req[r].pc = "incr"
    BY <1>4 DEF IncrKey
  <2>3. hits[b] = 0 => req'[r].pc = "expire"
    BY <2>1 DEF SetsExpiry
  <2>4. \A q \in Request : KeyOf(q)' = KeyOf(q)
    BY <2>1 DEF KeyOf
  <2>5. hits \in [Bucket -> Nat]
    BY <1>0 DEF TypeOK
  <2> HIDE DEF b, p
  <2>6. ASSUME NEW k \in Leaked' PROVE k \in Leaked
    <3>1. k \in Bucket /\ hits'[k] > 0 /\ expiry[k] = None
          /\ \A q \in Request : req'[q].pc = "expire" => KeyOf(q) # k
      BY <2>1, <2>4 DEF Leaked
    <3>2. \A q \in Request : req[q].pc = "expire" => KeyOf(q) # k
      BY <2>1, <2>2, <3>1
    <3>3. hits[k] > 0
      <4>1. CASE k = b
        BY <2>1, <2>3, <3>1, <4>1 DEF b
      <4>2. CASE k # b
        BY <2>1, <2>5, <3>1, <4>2
      <4> QED BY <4>1, <4>2
    <3> QED BY <3>1, <3>2, <3>3 DEF Leaked
  <2>7. CulpritsStay
    BY <1>o, <2>1, <2>2
  <2> QED BY <1>s, <2>6, <2>7
\* Both make r the cause of what becomes of its key.
<1>5. ASSUME NEW r \in Request, IncrRepeated(r) \/ ExpireRaises(r) PROVE LeaksHaveCause'
  <2>1. /\ \A q \in Request \ {r} : req'[q] = req[q]
        /\ req'[r].at = req[r].at /\ req'[r].mishap
    BY <1>0, <1>5, MarkMishap, MoveMishap, Labels DEF IncrRepeated, ExpireRaises
  <2>2. req[r].at # None /\ req[r].pc # "dead"
    BY <1>0, <1>5 DEF IncrRepeated, ExpireRaises, StepsHonest, StepHonest
  <2>3. \A q \in Request : KeyOf(q)' = KeyOf(q)
    BY <2>1 DEF KeyOf
  <2>4. /\ UNCHANGED expiry /\ \A k \in Bucket \ {KeyOf(r)} : hits'[k] = hits[k]
    BY <1>0, <1>5 DEF IncrRepeated, ExpireRaises, Count, TypeOK
  <2>5. ASSUME NEW k \in Leaked', k # KeyOf(r) PROVE k \in Leaked
    <3>1. k \in Bucket /\ hits[k] > 0 /\ expiry[k] = None
          /\ \A q \in Request : req'[q].pc = "expire" => KeyOf(q) # k
      BY <2>3, <2>4, <2>5 DEF Leaked
    <3>2. \A q \in Request : req[q].pc = "expire" => KeyOf(q) # k
      BY <2>1, <2>5, <3>1
    <3> QED BY <3>1, <3>2 DEF Leaked
  <2>6. CulpritsStay
    BY <1>o, <2>1, <2>2
  <2>7. Culprit(r)'
    BY <2>1 DEF Culprit
  <2> QED BY <1>0, <2>1, <2>2, <2>3, <2>5, <2>6, <2>7, CauseKept
<1>6. ASSUME NEW r \in Request, IncrRaises(r) \/ Allow(r) \/ Read(r) PROVE LeaksHaveCause'
  BY <1>6, <1>m, Labels DEF IncrRaises, Allow, Read
<1>7. ASSUME NEW r \in Request, ExpireKey(r) PROVE LeaksHaveCause'
  <2>1. /\ \A q \in Request \ {r} : req'[q] = req[q]
        /\ req'[r].at = req[r].at /\ req'[r].mishap = req[r].mishap
    BY <1>0, <1>7, Move, Labels DEF ExpireKey
  <2>2. \A q \in Request : KeyOf(q)' = KeyOf(q)
    BY <2>1 DEF KeyOf
  <2>3. ExpiresAt(now) # None
    <3>1. now \in Nat
      BY <1>0 DEF TypeOK, Time
    <3> QED BY <3>1, Numbers DEF ExpiresAt
  <2>4. /\ UNCHANGED hits
        /\ expiry' = [expiry EXCEPT ![KeyOf(r)] = IF hits[KeyOf(r)] > 0 THEN ExpiresAt(now) ELSE @]
        /\ DOMAIN expiry = Bucket
    BY <1>0, <1>7 DEF ExpireKey, TypeOK
  <2>5. ASSUME NEW k \in Leaked' PROVE k \in Leaked
    <3>1. k \in Bucket /\ hits[k] > 0 /\ expiry'[k] = None
          /\ \A q \in Request : req'[q].pc = "expire" => KeyOf(q) # k
      BY <2>2, <2>4, <2>5 DEF Leaked
    <3>2. k # KeyOf(r) /\ expiry[k] = None
      BY <2>3, <2>4, <3>1
    <3>3. \A q \in Request : req[q].pc = "expire" => KeyOf(q) # k
      BY <2>1, <3>1, <3>2
    <3> QED BY <3>1, <3>2, <3>3 DEF Leaked
  <2>6. CulpritsStay
    BY <1>7, <1>o, <2>1 DEF ExpireKey
  <2> QED BY <1>s, <2>5, <2>6
<1>9. ASSUME NEW r \in Request, Refuse(r) \/ Serve(r) \/ Leave(r) PROVE LeaksHaveCause'
  <2>1. now \in Time /\ now + Wait(now) \in Nat
    BY <1>0, WaitEnds DEF TypeOK, Time
  <2>2. /\ \A q \in Request \ {r} : req'[q] = req[q]
        /\ req'[r].at = req[r].at /\ req'[r].mishap = req[r].mishap
    BY <1>0, <1>9, <2>1, MoveRetry, MoveStart, Labels DEF Refuse, Serve, Leave
  <2>3. req[r].pc \notin {"dead", "expire"} /\ UNCHANGED <<hits, expiry>>
    BY <1>9 DEF Refuse, Serve, Leave
  <2> QED BY <1>q, <2>2, <2>3
\* The requests about to set an expiry die: each was answered a count of one.
<1>10. CASE Restart
  <2>1. /\ \A q \in Request : /\ req'[q].at = req[q].at /\ req'[q].mishap = req[q].mishap
                              /\ req'[q].count = req[q].count
                              /\ req[q].pc = "dead" => req'[q].pc = "dead"
                              /\ req[q].pc = "expire" => req'[q].pc = "dead"
        /\ UNCHANGED <<hits, expiry>>
    BY <1>0, <1>10 DEF Restart, Fields, Over
  <2>2. \A q \in Request : KeyOf(q)' = KeyOf(q)
    BY <2>1 DEF KeyOf
  <2>3. CulpritsStay
    BY <2>1, <2>2 DEF CulpritsStay, Culprit
  <2>4. ASSUME NEW k \in Leaked', k \notin Leaked
        PROVE  \E q \in Request : req'[q].at # None /\ KeyOf(q)' = k /\ Culprit(q)'
    <3>1. PICK q \in Request : req[q].pc = "expire" /\ KeyOf(q) = k
      BY <2>1, <2>4 DEF Leaked
    <3>2. req[q].at # None /\ req[q].count = 1
      <4>1. req[q].count = 1 /\ req[q].count # None /\ (req[q].count # None => req[q].at # None)
        BY <1>0, <3>1, Numbers DEF StepsHonest, StepHonest
      <4> QED BY <4>1
    <3> QED BY <2>1, <2>2, <3>1, <3>2 DEF Culprit
  <2> QED BY <1>0, <2>3, <2>4, CauseKept
<1>11. CASE Tick
  <2>1. /\ UNCHANGED req
        /\ \A b \in Bucket : hits'[b] = (IF expiry[b] = now' THEN 0 ELSE hits[b])
        /\ \A b \in Bucket : expiry'[b] = (IF expiry[b] = now' THEN None ELSE expiry[b])
    BY <1>11 DEF Tick
  <2>2. Leaked' \subseteq Leaked
    BY <2>1 DEF Leaked, KeyOf
  <2>3. CulpritsStay
    BY <2>1 DEF CulpritsStay, Culprit, KeyOf
  <2> QED BY <1>s, <2>2, <2>3
<1> QED
  BY <1>1, <1>2, <1>3, <1>4, <1>5, <1>6, <1>7, <1>9, <1>10, <1>11 DEF Next

----------------------------------------------------------------------------

\* A latency observed pushes the oldest out, once the list is full.
LEMMA KeepNewest ==
    ASSUME NEW s \in Seq(Time), NEW ms \in Time, Len(s) <= MaxSamples
    PROVE  LET kept == Observe(s, ms) IN
           /\ Len(s) < MaxSamples => kept = Append(s, ms)
           /\ Len(s) = MaxSamples =>
                  /\ Len(kept) = Len(s)
                  /\ \A i \in 1 .. Len(s) : kept[i] = Append(s, ms)[i + 1]
<1> DEFINE long == Append(s, ms)
<1>1. long \in Seq(Time) /\ Len(long) = Len(s) + 1 /\ Len(s) \in Nat
  OBVIOUS
<1> HIDE DEF long
<1>2. MaxSamples \in Nat \ {0}
  BY Numbers
<1>3. ASSUME Len(s) < MaxSamples PROVE Observe(s, ms) = long
  <2>1. Excess(long) = 0
    BY <1>1, <1>2, <1>3 DEF Excess
  <2>2. Observe(s, ms) = SubSeq(long, 1, Len(long))
    BY <2>1 DEF Observe, Keep, long
  <2>3. SubSeq(long, 1, Len(long)) = long
    BY <1>1
  <2> QED BY <2>2, <2>3
<1>4. ASSUME Len(s) = MaxSamples
      PROVE  /\ Len(Observe(s, ms)) = Len(s)
             /\ \A i \in 1 .. Len(s) : Observe(s, ms)[i] = long[i + 1]
  <2>1. Excess(long) = 1
    BY <1>1, <1>2, <1>4 DEF Excess
  <2>2. Observe(s, ms) = SubSeq(long, 2, Len(long))
    BY <2>1 DEF Observe, Keep, long
  <2>3. /\ Len(SubSeq(long, 2, Len(long))) = Len(s)
        /\ \A i \in 1 .. Len(s) : SubSeq(long, 2, Len(long))[i] = long[i + 1]
    BY <1>1, <1>2, <1>4
  <2> QED BY <2>2, <2>3
<1> QED BY <1>3, <1>4 DEF long

\* Only Leave and Restart touch the latencies.
LEMMA NewestStep == ApiInv /\ [Next]_vars => NewestKept'
<1> SUFFICES ASSUME ApiInv, [Next]_vars PROVE NewestKept'
  OBVIOUS
<1>0. TypeOK /\ StepsHonest /\ NewestKept
  BY DEF ApiInv
<1>u. ASSUME UNCHANGED <<samples, observed>> PROVE NewestKept'
  BY <1>0, <1>u DEF NewestKept
<1>1. ASSUME NEW r \in Request, Leave(r) PROVE NewestKept'
  <2> DEFINE ms == now - req[r].start
             n == Len(samples)
             m == Len(observed)
  <2>1. ms \in Time
    <3>1. req[r].start \in Time /\ req[r].start <= now /\ now \in Time
      BY <1>0, <1>1 DEF Leave, StepsHonest, StepHonest, TypeOK, Fields, At
    <3> QED BY <3>1, Numbers DEF Time
  <2>2. samples' = Observe(samples, ms) /\ observed' = Append(observed, ms)
    BY <1>1 DEF Leave
  <2>3. /\ samples \in Seq(Time) /\ observed \in Seq(Time) /\ n \in Nat /\ m \in Nat
        /\ n <= MaxSamples /\ MaxSamples \in Nat \ {0}
    BY <1>0, Numbers DEF TypeOK
  <2>4. /\ n = IF m < MaxSamples THEN m ELSE MaxSamples
        /\ \A i \in 1 .. n : samples[i] = observed[m - n + i]
    BY <1>0 DEF NewestKept
  <2> HIDE DEF ms
  <2>5. /\ Len(observed') = m + 1 /\ observed'[m + 1] = ms
        /\ \A i \in 1 .. m : observed'[i] = observed[i]
    BY <2>1, <2>2, <2>3
  <2>6. CASE n < MaxSamples
    <3>1. samples' = Append(samples, ms)
      BY <2>1, <2>2, <2>3, <2>6, KeepNewest
    <3>2. /\ Len(samples') = n + 1 /\ samples'[n + 1] = ms
          /\ \A i \in 1 .. n : samples'[i] = samples[i]
      BY <2>1, <2>3, <3>1
    <3>3. n = m
      BY <2>3, <2>4, <2>6
    <3>4. ASSUME NEW i \in 1 .. n + 1 PROVE samples'[i] = observed'[i]
      <4>1. CASE i = n + 1
        BY <2>5, <3>2, <3>3, <4>1
      <4>2. CASE i # n + 1
        <5>1. i \in 1 .. n /\ m - n + i = i
          BY <2>3, <3>3, <4>2
        <5> QED BY <2>4, <2>5, <3>2, <3>3, <5>1
      <4> QED BY <4>1, <4>2
    <3>5. Len(samples') = IF Len(observed') < MaxSamples THEN Len(observed') ELSE MaxSamples
      BY <2>3, <2>5, <2>6, <3>2, <3>3
    <3>6. \A i \in 1 .. Len(samples') : samples'[i] = observed'[Len(observed') - Len(samples') + i]
      BY <2>3, <2>5, <3>2, <3>3, <3>4
    <3> QED BY <3>5, <3>6 DEF NewestKept
  <2>7. CASE n = MaxSamples
    <3>1. Len(samples') = n /\ \A i \in 1 .. n : samples'[i] = Append(samples, ms)[i + 1]
      BY <2>1, <2>2, <2>3, <2>7, KeepNewest
    <3>2. \A i \in 1 .. n - 1 : samples'[i] = samples[i + 1]
      BY <2>1, <2>3, <3>1
    <3>3. samples'[n] = ms
      BY <2>1, <2>3, <2>7, <3>1
    <3>4. m >= n
      BY <2>3, <2>4, <2>7
    <3>5. ASSUME NEW i \in 1 .. n PROVE samples'[i] = observed'[m + 1 - n + i]
      <4>1. CASE i = n
        BY <2>3, <2>5, <3>3, <4>1
      <4>2. CASE i # n
        <5>1. i \in 1 .. n - 1 /\ i + 1 \in 1 .. n /\ m - n + (i + 1) \in 1 .. m
          BY <2>3, <3>4, <4>2
        <5>2. samples[i + 1] = observed[m - n + (i + 1)]
          BY <2>4, <5>1
        <5>3. m - n + (i + 1) = m + 1 - n + i
          BY <2>3, <5>1
        <5> QED BY <2>5, <3>2, <5>1, <5>2, <5>3
      <4> QED BY <4>1, <4>2
    <3>6. Len(samples') = IF Len(observed') < MaxSamples THEN Len(observed') ELSE MaxSamples
      BY <2>3, <2>5, <2>7, <3>1, <3>4
    <3>7. \A i \in 1 .. Len(samples') : samples'[i] = observed'[Len(observed') - Len(samples') + i]
      BY <2>5, <3>1, <3>5
    <3> QED BY <3>6, <3>7 DEF NewestKept
  <2> QED BY <2>3, <2>6, <2>7
<1>2. CASE Restart
  <2>1. samples' = <<>> /\ observed' = <<>> /\ Len(<<>>) = 0
    BY <1>2 DEF Restart
  <2> QED BY <2>1, Numbers DEF NewestKept
<1>3. ASSUME NEW r \in Request, NEW header \in Header, Authenticate(r, header)
      PROVE  UNCHANGED <<samples, observed>>
  BY <1>3 DEF Authenticate, metrics
<1>4. ASSUME NEW r \in Request,
             \/ ReadClock(r) \/ IncrKey(r) \/ IncrRepeated(r) \/ IncrRaises(r)
             \/ ExpireKey(r) \/ ExpireRaises(r) \/ Allow(r) \/ Refuse(r) \/ Serve(r) \/ Read(r)
      PROVE  UNCHANGED <<samples, observed>>
  BY <1>4 DEF ReadClock, IncrKey, IncrRepeated, IncrRaises, ExpireKey, ExpireRaises, Allow,
              Refuse, Serve, Read, metrics
<1>5. CASE Tick \/ UNCHANGED vars
  BY <1>5, <1>u DEF Tick, vars, metrics
<1> QED BY <1>u, <1>1, <1>2, <1>3, <1>4, <1>5 DEF Next

----------------------------------------------------------------------------

\* The inductive invariant.
THEOREM Invariance == Spec => []ApiInv
<1>1. ApiInv /\ [Next]_vars => ApiInv'
  BY TypeStep, HonestStep, KeysStep, HitsStep, LeakStep, NewestStep DEF ApiInv
<1> QED BY <1>1, InitInv, PTL DEF Spec

\* A key without an expiry, and without a request about to set it, was left by a request
\* of its minute that died or had a call go wrong.
THEOREM LeaksAreCaused == Spec => []LeaksHaveCause
<1>1. ApiInv => LeaksHaveCause
  BY DEF ApiInv
<1> QED BY <1>1, Invariance, PTL

\* A refusal has its cause, and its wait leads to another minute.
LEMMA RefusalHasCause == ApiInv => RefusedForCause
<1> SUFFICES ASSUME ApiInv, NEW r \in Request, At(r, "refused")
             PROVE  LET minute == req[r].at \div Window
                        others == {q \in Request \ {r} : req[q].at # None /\ req[q].at \div Window = minute}
                    IN  /\ Cardinality(others) + faults >= Limit
                        /\ req[r].retry \div Window > minute
  BY DEF RefusedForCause
<1> DEFINE minute == req[r].at \div Window
           others == {q \in Request \ {r} : req[q].at # None /\ req[q].at \div Window = minute}
<1>0. TypeOK /\ StepHonest(r) /\ StepsHonest /\ HitsOwed
  BY DEF ApiInv, StepsHonest
<1>1. /\ req[r].count # None /\ req[r].count > Limit
      /\ req[r].retry \div Window > KeyOf(r) /\ KeyOf(r) = minute
  BY <1>0 DEF StepHonest, At, KeyOf, BucketOf
<1>2. req[r].count \in Nat /\ faults \in Nat
  BY <1>0, <1>1 DEF TypeOK, Fields
<1>3. req[r].count <= Cardinality(Incremented(minute)) + faults
  BY <1>0, <1>1 DEF HitsOwed
<1>4. Incremented(minute) \ {r} \subseteq others /\ r \in Incremented(minute)
  BY <1>0, <1>1 DEF Incremented, KeyOf, BucketOf, StepsHonest, StepHonest
<1>5. IsFiniteSet(others)
  <2>1. others \subseteq Request
    OBVIOUS
  <2> QED BY <2>1, ApiAssumption, FS_Subset
<1> HIDE DEF minute, others
<1>6. /\ IsFiniteSet(Incremented(minute))
      /\ Cardinality(Incremented(minute) \ {r}) = Cardinality(Incremented(minute)) - 1
  BY <1>4, IncrementedFinite, FS_RemoveElement
<1>7. Cardinality(Incremented(minute) \ {r}) <= Cardinality(others)
  BY <1>4, <1>5, FS_Subset
<1>8. Cardinality(others) \in Nat /\ Cardinality(Incremented(minute)) \in Nat
  BY <1>5, <1>6, FS_CardinalityType
<1>9. Cardinality(others) + faults >= Limit
  BY <1>1, <1>2, <1>3, <1>6, <1>7, <1>8, Numbers
<1> QED BY <1>1, <1>9 DEF minute, others

\* A request is refused only for the requests of its own minute, or repeated calls,
\* and one that waits as told comes in a later minute.
THEOREM RefusalsHaveCause == Spec => []RefusedForCause
BY RefusalHasCause, Invariance, PTL

\* The requests of a minute that are let through and not late have different counts,
\* none above the limit.
LEMMA MinuteLimited ==
    ASSUME ApiInv, NEW b
    PROVE  LET through == {r \in Incremented(b) : req[r].count <= Limit /\ ~req[r].late}
           IN  IsFiniteSet(through) /\ Cardinality(through) <= Limit
<1> DEFINE through == {r \in Incremented(b) : req[r].count <= Limit /\ ~req[r].late}
           f == [r \in through |-> req[r].count]
           counts == 1 .. Limit
<1>0. TypeOK /\ KeysOutlive
  BY DEF ApiInv
<1>1. \A r \in through : /\ r \in Request /\ req[r].count # None /\ KeyOf(r) = b /\ ~req[r].late
                         /\ req[r].count \in counts
  BY <1>0, Numbers DEF Incremented, KeysOutlive, TypeOK, Fields
<1>2. f \in [through -> counts] /\ DOMAIN f = through
  BY <1>1
<1>3. \A r, q \in through : f[r] = f[q] => r = q
  BY <1>0, <1>1 DEF KeysOutlive
<1>4. IsFiniteSet(counts) /\ Cardinality(counts) = Limit
  <2>1. 1 \in Int /\ Limit \in Int /\ Limit \in Nat
    BY Numbers
  <2>2. IsFiniteSet(1 .. Limit)
        /\ Cardinality(1 .. Limit) = IF 1 > Limit THEN 0 ELSE Limit - 1 + 1
    BY <2>1, FS_Interval
  <2> QED BY <2>1, <2>2
<1> HIDE DEF f, through, counts
<1>5. f \in Injection(through, counts)
  BY <1>2, <1>3 DEF Injection, IsInjective
<1>6. IsFiniteSet(through) /\ Cardinality(through) <= Cardinality(counts)
  BY <1>4, <1>5, FS_Injection
<1> QED BY <1>4, <1>6 DEF through

\* A stretch of one window's length has requests of two minutes at most.
LEMMA TwiceLimited == ApiInv => TwiceTheLimit
<1> SUFFICES ASSUME ApiInv, NEW begin \in Time
             PROVE  Cardinality({r \in Request : /\ Counted(r) /\ ~req[r].late
                                               /\ req[r].at \in begin .. begin + Window - 1})
                        <= 2 * Limit
  BY DEF TwiceTheLimit
<1> DEFINE stretch == {r \in Request : /\ Counted(r) /\ ~req[r].late
                                      /\ req[r].at \in begin .. begin + Window - 1}
           first == begin \div Window
           Through(b) == {r \in Incremented(b) : req[r].count <= Limit /\ ~req[r].late}
<1>0. TypeOK /\ StepsHonest
  BY DEF ApiInv
<1>1. begin \in Nat /\ first \in Nat /\ first * Window <= begin /\ begin < first * Window + Window
  <2>1. begin \in Nat
    BY DEF Time
  <2> QED BY <2>1, Minute
<1>2. ASSUME NEW r \in stretch
      PROVE  r \in Through(first) \cup Through(first + 1)
  <2>1. /\ r \in Request /\ req[r].count # None /\ req[r].count <= Limit /\ ~req[r].late
        /\ req[r].at >= begin /\ req[r].at < begin + Window
    BY <1>1, Numbers DEF Counted
  <2>2. req[r].at # None
    BY <1>0, <2>1 DEF StepsHonest, StepHonest
  <2>3. /\ req[r].at \in Nat /\ KeyOf(r) \in Nat
        /\ KeyOf(r) * Window <= req[r].at
    BY <1>0, <2>1, <2>2, KeyFacts
  <2>4. KeyOf(r) >= first
    BY <1>1, <2>1, <2>3, MinutesOrdered DEF KeyOf, BucketOf
  <2> DEFINE k == KeyOf(r)
  <2>5. k \in Nat /\ k * Window <= req[r].at /\ k >= first
    BY <2>3, <2>4
  <2> HIDE DEF k, first
  <2>6. k * Window < first * Window + Window + Window
    <3>1. k * Window \in Nat /\ first * Window \in Nat
      BY <1>1, <2>5, Numbers
    <3> QED BY <1>1, <2>1, <2>3, <2>5, <3>1, Numbers
  <2>7. k < first + 2
    BY <1>1, <2>5, <2>6, Numbers
  <2>8. k = first \/ k = first + 1
    BY <1>1, <2>5, <2>7
  <2> QED BY <2>1, <2>8 DEF Incremented, k
<1>3. /\ IsFiniteSet(Through(first)) /\ Cardinality(Through(first)) <= Limit
      /\ IsFiniteSet(Through(first + 1)) /\ Cardinality(Through(first + 1)) <= Limit
  BY MinuteLimited
<1> DEFINE A == Through(first)
           B == Through(first + 1)
<1>4. stretch \subseteq A \cup B
  BY <1>2
<1>5. IsFiniteSet(A) /\ IsFiniteSet(B) /\ Cardinality(A) <= Limit /\ Cardinality(B) <= Limit
  BY <1>3
<1> HIDE DEF A, B, stretch
<1>6. /\ IsFiniteSet(A \cup B)
      /\ Cardinality(A \cup B) = Cardinality(A) + Cardinality(B) - Cardinality(A \cap B)
  BY <1>5, FS_Union
<1>7. IsFiniteSet(A \cap B) /\ Cardinality(A \cap B) \in Nat
  <2>1. A \cap B \subseteq A
    OBVIOUS
  <2> QED BY <1>5, <2>1, FS_Subset, FS_CardinalityType
<1>8. IsFiniteSet(stretch) /\ Cardinality(stretch) <= Cardinality(A \cup B)
  BY <1>4, <1>6, FS_Subset
<1>9. /\ Cardinality(stretch) \in Nat /\ Cardinality(A \cup B) \in Nat
      /\ Cardinality(A) \in Nat /\ Cardinality(B) \in Nat
  BY <1>5, <1>6, <1>8, FS_CardinalityType
<1>10. Cardinality(stretch) <= 2 * Limit
  BY <1>5, <1>6, <1>7, <1>8, <1>9, Numbers
<1> QED BY <1>10 DEF stretch

\* In any stretch as long as a window, at most twice the limit is let through of the
\* requests that are not late.
THEOREM AtMostTwiceTheLimit == Spec => []TwiceTheLimit
BY TwiceLimited, Invariance, PTL

----------------------------------------------------------------------------

\* Only the clock takes a count back, with the expiry of a key whose minute is closed.
LEMMA CountStep ==
    ApiInv /\ [Next]_vars => \A b \in Bucket : Closed(b)' \/ hits'[b] >= hits[b]
<1> SUFFICES ASSUME ApiInv, [Next]_vars, NEW b \in Bucket
             PROVE  Closed(b)' \/ hits'[b] >= hits[b]
  OBVIOUS
<1>0. /\ hits \in [Bucket -> Nat] /\ now \in Nat
      /\ expiry[b] # None => expiry[b] >= b * Window + Ttl
  BY Numbers DEF ApiInv, TypeOK, Time, KeysOutlive
<1>1. ASSUME NEW r \in Request, IncrKey(r) \/ IncrRepeated(r) PROVE hits'[b] >= hits[b]
  BY <1>0, <1>1 DEF IncrKey, IncrRepeated, Count
<1>2. CASE Tick
  <2>1. CASE expiry[b] = now'
    <3>1. now' # None /\ now' \in Nat
      BY <1>0, <1>2, Numbers DEF Tick
    <3> QED BY <1>0, <2>1, <3>1 DEF Closed
  <2>2. CASE expiry[b] # now'
    BY <1>0, <1>2, <2>2 DEF Tick
  <2> QED BY <2>1, <2>2
<1>3. ASSUME UNCHANGED hits PROVE hits'[b] >= hits[b]
  BY <1>0, <1>3
<1>4. ASSUME NEW r \in Request, NEW header \in Header, Authenticate(r, header)
      PROVE  UNCHANGED hits
  BY <1>4 DEF Authenticate, redis
<1>5. ASSUME NEW r \in Request,
             \/ ReadClock(r) \/ IncrRaises(r) \/ ExpireKey(r) \/ ExpireRaises(r)
             \/ Allow(r) \/ Refuse(r) \/ Serve(r) \/ Leave(r) \/ Read(r)
      PROVE  UNCHANGED hits
  BY <1>5 DEF ReadClock, IncrRaises, ExpireKey, ExpireRaises, Allow, Refuse, Serve, Leave,
              Read, redis
<1>6. CASE Restart \/ UNCHANGED vars
  BY <1>6, <1>3 DEF Restart, vars, redis
<1> QED BY <1>1, <1>2, <1>3, <1>4, <1>5, <1>6 DEF Next

\* No step takes the count of an open minute back.
THEOREM CountsKept == Spec => CountsOnlyUp
BY CountStep, Invariance, PTL DEF Spec, CountsOnlyUp

----------------------------------------------------------------------------
(* The snapshot. *)

\* Every set of natural numbers that is not empty has a least element.
LEMMA Least ==
    ASSUME NEW S \in SUBSET Nat, S # {}
    PROVE  \E m \in S : \A n \in S : m <= n
<1> DEFINE R == OpToRel(<, Nat)
<1>1. IsWellFoundedOn(R, Nat)
  BY NatLessThanWellFounded
<1>2. \A x, y \in Nat : x < y => <<x, y>> \in R
  BY DEF OpToRel
<1> HIDE DEF R
<1>3. PICK m \in S : \A n \in S : ~(<<n, m>> \in R)
  BY <1>1, WFMin
<1>4. ASSUME NEW n \in S PROVE m <= n
  <2>1. m \in Nat /\ n \in Nat
    OBVIOUS
  <2>2. ~(n < m)
    BY <1>2, <1>3, <2>1
  <2> QED BY <2>1, <2>2
<1> QED BY <1>4

\* Positions in a list are finitely many, as many as it is long.
LEMMA Positions ==
    ASSUME NEW s \in Seq(Time), NEW S \in SUBSET DOMAIN s
    PROVE  /\ IsFiniteSet(S) /\ Cardinality(S) \in Nat /\ Cardinality(S) <= Len(s)
           /\ IsFiniteSet(DOMAIN s) /\ Cardinality(DOMAIN s) = Len(s)
<1>1. DOMAIN s = 1 .. Len(s) /\ Len(s) \in Nat
  OBVIOUS
<1>2. IsFiniteSet(DOMAIN s) /\ Cardinality(DOMAIN s) = Len(s)
  <2>1. IsFiniteSet(1 .. Len(s))
        /\ Cardinality(1 .. Len(s)) = IF 1 > Len(s) THEN 0 ELSE Len(s) - 1 + 1
    <3>1. 1 \in Int /\ Len(s) \in Int
      BY <1>1
    <3> QED BY <3>1, FS_Interval, Zenon
  <2> QED BY <1>1, <2>1
<1>3. IsFiniteSet(S) /\ Cardinality(S) <= Cardinality(DOMAIN s)
  BY <1>2, FS_Subset
<1> QED BY <1>2, <1>3, FS_CardinalityType

\* There is a k-th smallest sample.  (The least value that more than k samples do not
\* exceed: one step below it there are no more than k.)
LEMMA RankedFacts ==
    ASSUME NEW s \in Seq(Time), NEW k \in Nat, k < Len(s)
    PROVE  /\ Ranked(s, k) \in Range(s)
           /\ Cardinality({i \in DOMAIN s : s[i] < Ranked(s, k)}) <= k
           /\ Cardinality({i \in DOMAIN s : s[i] <= Ranked(s, k)}) > k
<1> DEFINE Upto(v) == {i \in DOMAIN s : s[i] <= v}
           Below(v) == {i \in DOMAIN s : s[i] < v}
           Enough == {v \in Nat : Cardinality(Upto(v)) > k}
<1>t. \A i \in DOMAIN s : s[i] \in Nat /\ s[i] <= MaxTime
  BY Numbers DEF Time
<1>c. \A v : Cardinality(Upto(v)) \in Nat /\ Cardinality(Below(v)) \in Nat
  <2>1. \A S \in SUBSET DOMAIN s : Cardinality(S) \in Nat
    BY Positions
  <2> QED BY <2>1
<1>1. Enough # {}
  <2>1. Upto(MaxTime) = DOMAIN s
    BY <1>t
  <2>2. Cardinality(Upto(MaxTime)) = Len(s)
    BY <2>1, Positions
  <2> QED BY <2>2, Numbers
<1>2. PICK m \in Enough : \A v \in Enough : m <= v
  BY <1>1, Least
<1>3. m \in Nat /\ Cardinality(Upto(m)) > k
  BY <1>2
<1>4. Cardinality(Below(m)) <= k
  <2>1. CASE m = 0
    <3>1. Below(m) = {}
      BY <1>t, <2>1
    <3>2. Cardinality({}) = 0
      BY FS_EmptySet
    <3> QED BY <3>1, <3>2
  <2>2. CASE m # 0
    <3>1. m - 1 \in Nat /\ ~(m <= m - 1)
      BY <1>3, <2>2
    <3>2. m - 1 \notin Enough
      BY <1>2, <3>1
    <3>3. ~(Cardinality(Upto(m - 1)) > k)
      BY <3>1, <3>2
    <3>4. Below(m) = Upto(m - 1)
      BY <1>t, <1>3
    <3> HIDE DEF Upto, Below
    <3> QED BY <1>c, <3>3, <3>4
  <2> QED BY <2>1, <2>2
<1>5. m \in Range(s)
  <2>1. Upto(m) # Below(m)
    <3> HIDE DEF Upto, Below
    <3> QED BY <1>c, <1>3, <1>4
  <2>2. PICK i \in DOMAIN s : s[i] <= m /\ ~(s[i] < m)
    BY <1>t, <1>3, <2>1
  <2>3. s[i] = m
    BY <1>t, <1>3, <2>2
  <2> QED BY <2>3 DEF Range
<1> DEFINE Fit(v) == Cardinality(Below(v)) <= k /\ Cardinality(Upto(v)) > k
<1>6. \E v \in Range(s) : Fit(v)
  BY <1>3, <1>4, <1>5
<1>7. Ranked(s, k) = CHOOSE v \in Range(s) : Fit(v)
  BY DEF Ranked
<1> HIDE DEF Fit
<1>8. Ranked(s, k) \in Range(s) /\ Fit(Ranked(s, k))
  BY <1>6, <1>7
<1> QED BY <1>8 DEF Fit

\* A lower rank has no larger sample.
LEMMA RanksOrdered ==
    ASSUME NEW s \in Seq(Time), NEW j \in Nat, NEW k \in Nat, j <= k, k < Len(s)
    PROVE  Ranked(s, j) <= Ranked(s, k)
<1> DEFINE lo == Ranked(s, j)
           hi == Ranked(s, k)
           Upto == {i \in DOMAIN s : s[i] <= hi}
           Below == {i \in DOMAIN s : s[i] < lo}
<1>1. Len(s) \in Nat /\ j < Len(s)
  OBVIOUS
<1>2. lo \in Range(s) /\ hi \in Range(s) /\ Cardinality(Below) <= j /\ Cardinality(Upto) > k
  BY <1>1, RankedFacts
<1>t. \A i \in DOMAIN s : s[i] \in Nat
  BY Numbers DEF Time
<1>3. lo \in Nat /\ hi \in Nat
  BY <1>2, <1>t DEF Range
<1> HIDE DEF lo, hi
<1>4. ASSUME hi < lo PROVE FALSE
  <2>1. Upto \subseteq Below
    BY <1>t, <1>3, <1>4
  <2>2. IsFiniteSet(Below) /\ Cardinality(Below) \in Nat /\ Cardinality(Upto) \in Nat
    BY Positions
  <2>3. Cardinality(Upto) <= Cardinality(Below)
    BY <2>1, <2>2, FS_Subset
  <2> QED BY <1>2, <2>2, <2>3
<1> QED BY <1>3, <1>4 DEF lo, hi

\* The ranks of the two percentiles; what lies above the higher one is at most one in
\* twenty, and one more.
LEMMA PercentRanks ==
    ASSUME NEW n \in Nat, n > 0
    PROVE  LET j == (50 * (n - 1)) \div 100
               k == (95 * (n - 1)) \div 100
           IN  j \in Nat /\ k \in Nat /\ j <= k /\ k < n /\ 20 * (n - k - 2) < n
OBVIOUS

LEMMA Snapshots == ApiInv => SnapshotHonest
<1> SUFFICES ASSUME ApiInv, samples # <<>> PROVE SnapshotHonest
  BY DEF SnapshotHonest
<1> DEFINE n == Len(samples)
           m == Len(observed)
           j == (50 * (n - 1)) \div 100
           k == (95 * (n - 1)) \div 100
           p50 == Ranked(samples, j)
           p95 == Ranked(samples, k)
           newest == {i \in DOMAIN observed : i > m - n}
           above == {i \in newest : observed[i] > p95}
<1>1. /\ samples \in Seq(Time) /\ observed \in Seq(Time) /\ n \in Nat /\ n > 0 /\ m \in Nat
      /\ MaxSamples \in Nat \ {0}
      /\ DOMAIN observed = 1 .. m /\ DOMAIN samples = 1 .. n
  BY Numbers DEF ApiInv, TypeOK
<1>2. /\ n = IF m < MaxSamples THEN m ELSE MaxSamples
      /\ \A i \in 1 .. n : samples[i] = observed[m - n + i]
  BY DEF ApiInv, NewestKept
<1>3. Snapshot(samples) = [count |-> n, p50 |-> p50, p95 |-> p95, last |-> samples[n]]
  BY DEF Snapshot, Percentile
<1>4. j \in Nat /\ k \in Nat /\ j <= k /\ k < n /\ 20 * (n - k - 2) < n
  BY <1>1, PercentRanks
<1> HIDE DEF j, k
<1>5. /\ p50 <= p95 /\ p95 \in Range(samples)
      /\ Cardinality({i \in DOMAIN samples : samples[i] <= p95}) > k
  BY <1>1, <1>4, RankedFacts, RanksOrdered
<1> HIDE DEF p50, p95
<1>6. n <= m /\ n = Min({m, MaxSamples})
  <2>1. n <= m /\ n \in {m, MaxSamples} /\ \A y \in {m, MaxSamples} : n <= y
    BY <1>1, <1>2
  <2>2. \A x \in {m, MaxSamples} : (\A y \in {m, MaxSamples} : x <= y) => x = n
    BY <1>1, <1>2
  <2> QED BY <2>1, <2>2 DEF Min
<1>7. samples[n] = observed[m]
  <2>1. n \in 1 .. n /\ m - n + n = m
    BY <1>1
  <2> QED BY <1>2, <2>1
<1>8. \E i \in newest : observed[i] = p95
  <2>1. PICK i \in 1 .. n : samples[i] = p95
    BY <1>1, <1>5 DEF Range
  <2>2. m - n + i \in newest
    BY <1>1, <1>6
  <2> QED BY <1>2, <2>1, <2>2
<1>9. 20 * (Cardinality(above) - 1) < n
  <2> DEFINE Upto == {i \in DOMAIN samples : samples[i] <= p95}
             Over95 == DOMAIN samples \ Upto
             shift == [i \in above |-> i - (m - n)]
  <2>1. /\ IsFiniteSet(DOMAIN samples) /\ Cardinality(DOMAIN samples) = n
        /\ IsFiniteSet(Over95) /\ Cardinality(Over95) \in Nat
        /\ IsFiniteSet(Upto) /\ Cardinality(Upto) \in Nat
    BY <1>1, Positions
  <2>2. Cardinality(Over95) = n - Cardinality(Upto)
    <3>1. DOMAIN samples \ Over95 = Upto
      OBVIOUS
    <3>2. Cardinality(Over95) = Cardinality(DOMAIN samples) - Cardinality(DOMAIN samples \cap Upto)
      BY <2>1, FS_Difference
    <3>3. DOMAIN samples \cap Upto = Upto
      OBVIOUS
    <3> QED BY <2>1, <3>2, <3>3
  <2>3. Cardinality(Over95) <= n - k - 1
    BY <1>1, <1>4, <1>5, <2>1, <2>2
  <2>p. p95 \in Nat /\ \A i \in DOMAIN samples : samples[i] \in Nat
    BY <1>1, <1>5, Numbers DEF Range, Time
  <2>4. ASSUME NEW i \in above PROVE i - (m - n) \in Over95
    <3>1. i \in 1 .. m /\ i > m - n /\ observed[i] > p95
      BY <1>1
    <3>2. i - (m - n) \in 1 .. n /\ m - n + (i - (m - n)) = i
      BY <1>1, <1>6, <3>1
    <3>3. samples[i - (m - n)] = observed[i]
      BY <1>2, <3>2
    <3> QED BY <1>1, <2>p, <3>1, <3>2, <3>3
  <2>5. shift \in Injection(above, Over95)
    <3>1. \A a, b \in above : shift[a] = shift[b] => a = b
      BY <1>1
    <3>2. shift \in [above -> Over95]
      BY <2>4
    <3> QED BY <3>1, <3>2 DEF Injection, IsInjective
  <2>6. IsFiniteSet(above) /\ Cardinality(above) <= Cardinality(Over95)
    BY <2>1, <2>5, FS_Injection
  <2>7. Cardinality(above) \in Nat
    BY <2>6, FS_CardinalityType
  <2> QED BY <1>1, <1>4, <2>1, <2>3, <2>6, <2>7
<1> HIDE DEF n, m, newest, above
<1>10. LET shown == Snapshot(samples)
           new == {i \in DOMAIN observed : i > Len(observed) - shown.count}
           over == {i \in new : observed[i] > shown.p95}
       IN  new = newest /\ over = above
  BY <1>3 DEF newest, above, n, m
<1>11. LET shown == Snapshot(samples)
       IN  shown.count = n /\ shown.p50 = p50 /\ shown.p95 = p95 /\ shown.last = samples[n]
  BY <1>3
<1> QED BY <1>5, <1>6, <1>7, <1>8, <1>9, <1>10, <1>11 DEF SnapshotHonest, n, m

\* The snapshot speaks of the newest latencies, whatever their number.
THEOREM SnapshotsHonest == Spec => []SnapshotHonest
BY Snapshots, Invariance, PTL
====
