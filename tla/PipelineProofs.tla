---- MODULE PipelineProofs ----
(***************************************************************************)
(* Proofs about Pipeline, for any number of requests of a conversation and *)
(* of database errors and restarts.                                        *)
(***************************************************************************)
EXTENDS Pipeline, FiniteSetTheorems, TLAPS

----------------------------------------------------------------------------
(* The refund rules and the handlers. *)

\* None is Python's None: no text and no truth value.
LEMMA NoneDiffers ==
    /\ None # TRUE /\ None # FALSE /\ None \notin Agent /\ None # "ordered"
    /\ None \notin {"refund_or_credit", "goodwill", "as_found"}
<1>1. \A x \in BOOLEAN : None # x
  BY NoneApart
<1>2. None # "ordered"
  BY NoneApart DEF Item
<1> QED BY <1>1, <1>2, NoneApart

\* The fields of a result that judges no refund.
LEMMA PlainFields ==
    ASSUME NEW agent \in Agent \cup {None}, NEW c \in 0 .. 100, NEW s \in BOOLEAN \cup {None}
    PROVE  /\ Plain(agent, c, s) \in Result
           /\ Plain(agent, c, s).agent = agent /\ Plain(agent, c, s).confidence = c
           /\ ~Plain(agent, c, s).proposed /\ ~Plain(agent, c, s).requires
           /\ Plain(agent, c, s).in_stock = s
BY Zenon DEF Plain, Result

LEMMA EmptyIsResult ==
    /\ Empty \in Result /\ Empty.agent = None
    /\ Empty.confidence = 100 /\ ~Empty.proposed /\ ~NeedsInventory(Empty)
<1>1. 100 \in 0 .. 100
  OBVIOUS
<1>2. "refund" # None
  BY NoneDiffers DEF Agent
<1>3. /\ Empty \in Result /\ Empty.agent = None
      /\ Empty.confidence = 100 /\ ~Empty.proposed
  BY <1>1, PlainFields DEF Empty
<1> QED BY <1>2, <1>3 DEF NeedsInventory

\* What eligibility.py may find.
LEMMA JudgedFacts ==
    ASSUME NEW m \in Answers("refund")
    PROVE  /\ m \in Result /\ m.agent = "refund"
           /\ m.requires <=> m.confidence < Threshold
           /\ m.eligible <=> ~m.requires
           /\ m.proposed => m.requires
           /\ NeedsInventory(m) <=> m.requires
<1>1. PICK f \in Finding, s \in BOOLEAN : m = Eligibility(f, s)
  BY ConsideredAssumption DEF Answers, Judgements
<1> DEFINE early == f \in {"no_order_id", "not_found", "no_policy"}
           low == Confidence(f, s) < 60
<1>2. /\ m.agent = "refund" /\ m.confidence = Confidence(f, s)
      /\ m.eligible <=> f \in {"inside", "approval"}
      /\ m.proposed <=> f = "outside"
      /\ m.requires <=> early \/ low \/ (f = "outside" /\ ~s)
      /\ m.in_stock = IF f \in {"no_order_id", "not_found"} THEN None ELSE s
  BY <1>1, Zenon DEF Eligibility
<1>3. /\ f \in {"no_order_id", "not_found", "no_policy", "outside"}
            => Confidence(f, s) \in {30, 40, 50}
      /\ f \in {"inside", "approval"} => Confidence(f, s) \in {90, 70}
  BY DEF Confidence, Finding
<1>4. low <=> f \in {"no_order_id", "not_found", "no_policy", "outside"}
  BY <1>3 DEF Finding
<1> HIDE DEF low
<1>5. m.requires <=> f \in {"no_order_id", "not_found", "no_policy", "outside"}
  BY <1>2, <1>4, Zenon
<1>6. NeedsInventory(m) <=> m.requires
  <2>1. m.proposed => m.requires
    BY <1>2, <1>5, Zenon
  <2>2. m.in_stock = None => m.requires
    BY <1>2, <1>5, NoneDiffers, Zenon
  <2> QED BY <1>2, <2>1, <2>2, Zenon DEF NeedsInventory
<1>7. m \in Result
  <2>1. Confidence(f, s) \in 0 .. 100
    BY <1>3 DEF Finding
  <2>2. (IF f \in {"no_order_id", "not_found"} THEN None ELSE s) \in BOOLEAN \cup {None}
    BY Zenon
  <2>3. m.requires \in BOOLEAN /\ m.eligible \in BOOLEAN /\ m.proposed \in BOOLEAN
    BY <1>1 DEF Eligibility
  <2>4. m = [agent |-> m.agent, confidence |-> m.confidence, eligible |-> m.eligible,
             proposed |-> m.proposed, requires |-> m.requires, in_stock |-> m.in_stock]
    BY <1>1, Zenon DEF Eligibility
  <2> QED BY <1>2, <2>1, <2>2, <2>3, <2>4 DEF Result, Agent
<1>8. m.requires <=> m.confidence < Threshold
  BY <1>2, <1>4, <1>5, Zenon DEF low, Threshold
<1>9. m.eligible <=> ~m.requires
  BY <1>2, <1>5, Zenon DEF Finding
<1> QED BY <1>2, <1>5, <1>6, <1>7, <1>8, <1>9, Zenon

\* The answers of the other agents.
LEMMA PlainFacts ==
    ASSUME NEW agent \in {"order", "inventory", "escalation"}, NEW m \in Answers(agent)
    PROVE  m \in Result /\ m.agent = agent /\ ~NeedsInventory(m) /\ ~m.proposed
<1>1. PICK c \in 0 .. 100, s \in BOOLEAN \cup {None} : m = Plain(agent, c, s)
  <2>1. CASE agent = "order"
    BY <2>1, 90 \in 0 .. 100 DEF Answers
  <2>2. CASE agent = "escalation"
    BY <2>2, 100 \in 0 .. 100 DEF Answers
  <2>3. CASE agent = "inventory"
    <3>1. m \in Stocks
      BY <2>3 DEF Answers
    <3>2. 95 \in 0 .. 100 /\ 50 \in 0 .. 100
      OBVIOUS
    <3> QED BY <2>3, <3>1, <3>2, Zenon DEF Stocks
  <2> QED BY <2>1, <2>2, <2>3
<1>2. agent \in Agent \cup {None} /\ agent # "refund"
  BY DEF Agent
<1>3. /\ Plain(agent, c, s) \in Result /\ Plain(agent, c, s).agent = agent
      /\ ~Plain(agent, c, s).proposed
  BY <1>2, Zenon DEF Plain, Result
<1>4. m \in Result /\ m.agent = agent /\ ~m.proposed
  BY <1>1, <1>3, Zenon
<1> QED BY <1>2, <1>4 DEF NeedsInventory

LEMMA AnswerTypes ==
    ASSUME NEW agent \in Agent, NEW m \in Answers(agent)
    PROVE  m \in Result
<1>1. CASE agent = "refund"
  BY <1>1, JudgedFacts
<1>2. CASE agent # "refund"
  BY <1>2, PlainFacts DEF Agent
<1> QED BY <1>1, <1>2

\* Another agent's result is well-formed, and nobody is asked because of it unless its
\* name is the refund agent's.
LEMMA StrayFacts ==
    ASSUME NEW asked \in Intent, NEW expected \in Agent, NEW m \in Strays(asked, expected)
    PROVE  /\ m \in Result /\ m.agent # expected /\ ~m.proposed
           /\ expected = asked => m.agent # "refund" /\ ~NeedsInventory(m)
<1>1. PICK agent \in Involved(asked) \ {expected} : m = Plain(agent, 100, None)
  BY DEF Strays, Stray
<1>2. agent \in Agent \cup {None} /\ None \in BOOLEAN \cup {None}
  BY <1>1 DEF Involved, Intent, Agent
<1>3. /\ Plain(agent, 100, None) \in Result /\ Plain(agent, 100, None).agent = agent
      /\ ~Plain(agent, 100, None).proposed
  <2> DEFINE hundred == 100
  <2>1. hundred \in 0 .. 100
    OBVIOUS
  <2> HIDE DEF hundred
  <2>2. /\ Plain(agent, hundred, None) \in Result /\ Plain(agent, hundred, None).agent = agent
        /\ ~Plain(agent, hundred, None).proposed
    BY <1>2, <2>1, Zenon DEF Plain, Result
  <2> QED BY <2>2 DEF hundred
<1>4. m \in Result /\ m.agent = agent /\ ~m.proposed
  BY <1>1, <1>3, Zenon
<1>5. expected = asked => agent # "refund"
  BY <1>1 DEF Involved, Intent
<1> QED BY <1>1, <1>4, <1>5 DEF NeedsInventory

LEMMA HeardTypes ==
    ASSUME NEW asked \in Intent, NEW agent \in Agent, NEW m \in Heard(asked, agent)
    PROVE  m \in Result
BY AnswerTypes, EmptyIsResult, StrayFacts DEF Heard

\* What _maybe_fanout_inventory returns.
LEMMA StockFacts ==
    ASSUME NEW m \in Result, NEW n \in Result
    PROVE  /\ Append(<<m>>, n) = <<m, n>>
           /\ WithInventory(<<m, n>>) = <<[m EXCEPT !.in_stock = n.in_stock], n>>
           /\ [m EXCEPT !.in_stock = n.in_stock] \in Result
           /\ WithInventory(<<m, n>>) \in Seq(Result)
<1>1. [m EXCEPT !.in_stock = n.in_stock] \in Result
  BY Zenon DEF Result
<1> DEFINE k == [m EXCEPT !.in_stock = n.in_stock]
           s == [<<m, n>> EXCEPT ![1] = k]
<1>2. WithInventory(<<m, n>>) = s
  BY DEF WithInventory
<1> HIDE DEF k
<1>3. s = <<k, n>>
  OBVIOUS
<1>4. Append(<<m>>, n) = <<m, n>>
  <2>1. /\ Append(<<m>>, n) \in Seq(Result) /\ Len(Append(<<m>>, n)) = 2
        /\ Append(<<m>>, n)[1] = m /\ Append(<<m>>, n)[2] = n
    OBVIOUS
  <2>2. \A t \in Seq(Result) : Len(t) = 2 => t = <<t[1], t[2]>>
    OBVIOUS
  <2> QED BY <2>1, <2>2
<1>5. k \in Result
  BY <1>1 DEF k
<1>6. <<k, n>> \in Seq(Result)
  BY <1>5
<1> QED BY <1>1, <1>2, <1>3, <1>4, <1>5, <1>6, Zenon DEF k

\* A specialist's result that stands alone never escalates: what makes the refund agent
\* ask for the inventory agent or the escalation agent is one and the same.
LEMMA AloneFacts ==
    ASSUME NEW asked \in Intent, NEW results, Alone(asked, results)
    PROVE  /\ results \in Seq(Result) /\ Len(results) = 1
           /\ results[1].agent = "refund" => results[1].eligible /\ ~results[1].requires
           /\ ~ShouldEscalate(results)
<1>1. PICK m \in Heard(asked, asked) : ~NeedsInventory(m) /\ results = <<m>>
  BY DEF Alone
<1>2. \/ m = Empty \/ m \in Strays(asked, asked)
      \/ (asked = "refund" /\ m \in Answers("refund"))
      \/ (asked \in {"order", "inventory"} /\ m \in Answers(asked))
  BY <1>1 DEF Heard, Intent
<1>3. /\ m \in Result /\ ~m.proposed
      /\ m.agent = "refund" => m.eligible /\ ~m.requires /\ ~(m.confidence < Threshold)
  <2>1. CASE m = Empty
    <3>1. m.agent # "refund"
      BY <2>1, EmptyIsResult, NoneDiffers DEF Agent
    <3> QED BY <2>1, <3>1, EmptyIsResult
  <2>2. CASE asked = "refund" /\ m \in Answers("refund")
    BY <1>1, <2>2, JudgedFacts
  <2>3. CASE asked \in {"order", "inventory"} /\ m \in Answers(asked)
    BY <2>3, PlainFacts
  <2>4. CASE m \in Strays(asked, asked)
    BY <2>4, StrayFacts DEF Intent, Agent
  <2> QED BY <1>2, <2>1, <2>2, <2>3, <2>4
<1>4. results \in Seq(Result) /\ Len(results) = 1 /\ results[1] = m
  BY <1>1, <1>3
<1>5. ~LowConfidence(m) /\ ~OutOfStock(results)
  BY <1>3, <1>4 DEF LowConfidence, OutOfStock
<1> QED BY <1>3, <1>4, <1>5, Zenon DEF ShouldEscalate

LEMMA StockedFacts ==
    ASSUME NEW asked, NEW results, Stocked(asked, results)
    PROVE  /\ asked = "refund" /\ results \in Seq(Result) /\ Len(results) = 2
           /\ results[1].agent = "refund" /\ results[1].requires
           /\ results[1].confidence < Threshold /\ results[1].in_stock = results[2].in_stock
           /\ ShouldEscalate(results)
<1>1. PICK m \in Answers("refund"), n \in Heard("refund", "inventory") :
         Judged(asked, m) /\ results = WithInventory(<<m, n>>)
  BY DEF Stocked
<1>2. /\ m \in Result /\ m.agent = "refund" /\ m.requires /\ m.confidence < Threshold
      /\ asked = "refund"
  BY <1>1, JudgedFacts DEF Judged
<1>3. n \in Result
  BY HeardTypes DEF Intent, Agent
<1> DEFINE k == [m EXCEPT !.in_stock = n.in_stock]
<1>4. results = <<k, n>> /\ k \in Result
  BY <1>1, <1>2, <1>3, StockFacts
<1>5. /\ k.agent = "refund" /\ k.requires /\ k.confidence < Threshold
      /\ k.in_stock = n.in_stock
  BY <1>2 DEF Result
<1> HIDE DEF k
<1>6. results \in Seq(Result) /\ Len(results) = 2 /\ results[1] = k /\ results[2] = n
  BY <1>3, <1>4
<1>7. LowConfidence(results[1])
  BY <1>5, <1>6 DEF LowConfidence
<1> QED BY <1>2, <1>3, <1>5, <1>6, <1>7 DEF ShouldEscalate

LEMMA ReviewedFacts ==
    ASSUME NEW asked, NEW results, Reviewed(asked, results)
    PROVE  /\ asked = "refund" /\ results \in Seq(Result) /\ Len(results) = 3
           /\ results[1].agent = "refund"
<1>1. PICK m \in Answers("refund"), n \in Heard("refund", "inventory"),
           e \in Heard("refund", "escalation") :
         Judged(asked, m) /\ results = Append(WithInventory(<<m, n>>), e)
  BY DEF Reviewed
<1> DEFINE front == WithInventory(<<m, n>>)
<1>2. Stocked(asked, front)
  BY <1>1 DEF Stocked
<1>3. e \in Result
  BY HeardTypes DEF Intent, Agent
<1>4. results = Append(front, e)
  BY <1>1
<1> HIDE DEF front
<1> QED BY <1>2, <1>3, <1>4, StockedFacts

----------------------------------------------------------------------------
(* agents_involved. *)

\* How many of the numbers up to the i-th there are.
LEMMA FewNumbers ==
    /\ Cardinality({}) = 0 /\ Cardinality({1}) = 1
    /\ Cardinality({1, 2}) = 2 /\ Cardinality({1, 3}) = 2 /\ Cardinality({1, 2, 3}) = 3
<1>1. Cardinality({}) = 0
  BY FS_EmptySet
<1>2. IsFiniteSet({1}) /\ Cardinality({1}) = 1
  BY FS_Singleton
<1>3. {1, 2} = {1} \cup {2} /\ {1, 3} = {1} \cup {3} /\ {1, 2, 3} = {1, 2} \cup {3}
  OBVIOUS
<1>4. 2 \notin {1} /\ 3 \notin {1} /\ 3 \notin {1, 2}
  OBVIOUS
<1>5. IsFiniteSet({1, 2}) /\ Cardinality({1, 2}) = 2 /\ Cardinality({1, 3}) = 2
  BY <1>2, <1>3, <1>4, FS_AddElement
<1>6. Cardinality({1, 2, 3}) = 3
  BY <1>3, <1>4, <1>5, FS_AddElement
<1> QED BY <1>1, <1>2, <1>5, <1>6

\* Of up to three results of which the first is named, or none, the named ones have each
\* its place.
LEMMA Places ==
    ASSUME NEW S \in {{}, {1}, {1, 2}, {1, 3}, {1, 2, 3}}
    PROVE  /\ Cardinality(S) \in Nat
           /\ \A k \in 1 .. Cardinality(S) : \E i \in S : Cardinality({j \in S : j <= i}) = k
<1> DEFINE P(i) == {j \in S : j <= i}
<1>1. CASE S = {}
  BY <1>1, FewNumbers
<1>2. CASE S = {1}
  <2>1. P(1) = {1}
    BY <1>2
  <2> QED BY <1>2, <2>1, FewNumbers
<1>3. CASE S = {1, 2}
  <2>1. P(1) = {1} /\ P(2) = {1, 2}
    BY <1>3
  <2>2. Cardinality(P(1)) = 1 /\ Cardinality(P(2)) = 2 /\ Cardinality(S) = 2
    BY <1>3, <2>1, FewNumbers
  <2> HIDE DEF P
  <2> QED BY <1>3, <2>2 DEF P
<1>4. CASE S = {1, 3}
  <2>1. P(1) = {1} /\ P(3) = {1, 3}
    BY <1>4
  <2>2. Cardinality(P(1)) = 1 /\ Cardinality(P(3)) = 2 /\ Cardinality(S) = 2
    BY <1>4, <2>1, FewNumbers
  <2> QED BY <1>4, <2>2
<1>5. CASE S = {1, 2, 3}
  <2>1. P(1) = {1} /\ P(2) = {1, 2} /\ P(3) = {1, 2, 3}
    BY <1>5
  <2>2. /\ Cardinality(P(1)) = 1 /\ Cardinality(P(2)) = 2 /\ Cardinality(P(3)) = 3
        /\ Cardinality(S) = 3
    BY <1>5, <2>1, FewNumbers
  <2> QED BY <1>5, <2>2
<1> QED BY <1>1, <1>2, <1>3, <1>4, <1>5

\* Whatever was read empty, agents_involved lists agents.
LEMMA AgentsTyped ==
    ASSUME NEW results \in Seq(Result),
           {i \in DOMAIN results : results[i].agent # None}
               \in {{}, {1}, {1, 2}, {1, 3}, {1, 2, 3}}
    PROVE  AgentsOf(results) \in Seq(Agent)
<1> DEFINE named == {i \in DOMAIN results : results[i].agent # None}
           place(i) == Cardinality({j \in named : j <= i})
           n == Cardinality(named)
           pick(k) == CHOOSE i \in named : place(i) = k
<1>1. AgentsOf(results) = [k \in 1 .. n |-> results[pick(k)].agent]
  BY Zenon DEF AgentsOf
<1>2. n \in Nat /\ \A k \in 1 .. n : \E i \in named : place(i) = k
  BY Places, Zenon
<1>3. \A i \in named : results[i].agent \in Agent
  <2>1. \A m \in Result : m.agent \in Agent \cup {None}
    BY DEF Result
  <2>2. \A i \in DOMAIN results : results[i] \in Result
    OBVIOUS
  <2> QED BY <2>1, <2>2, Zenon
<1> HIDE DEF named, place, n
<1>4. \A k \in 1 .. n : pick(k) \in named
  BY <1>2
<1> HIDE DEF pick
<1>5. \A k \in 1 .. n : results[pick(k)].agent \in Agent
  BY <1>3, <1>4
<1> QED BY <1>1, <1>2, <1>5

\* If none was, it lists the agents of all results in their order.
LEMMA AgentsNamed ==
    ASSUME NEW results \in Seq(Result),
           \A i \in DOMAIN results : results[i].agent # None
    PROVE  AgentsOf(results) = [k \in 1 .. Len(results) |-> results[k].agent]
<1> DEFINE named == {i \in DOMAIN results : results[i].agent # None}
           place(i) == Cardinality({j \in named : j <= i})
           n == Cardinality(named)
           pick(k) == CHOOSE i \in named : place(i) = k
<1>1. AgentsOf(results) = [k \in 1 .. n |-> results[pick(k)].agent]
  BY Zenon DEF AgentsOf
<1>2. named = 1 .. Len(results) /\ Len(results) \in Nat
  OBVIOUS
<1>3. \A i \in named : {j \in named : j <= i} = 1 .. i /\ i \in Nat /\ i >= 1
  BY <1>2
<1>4. \A i \in Nat : Cardinality(1 .. i) = i
  BY FS_Interval
<1>5. n = Len(results)
  BY <1>2, <1>4
<1>6. \A i \in named : place(i) = i
  BY <1>3, <1>4
<1> HIDE DEF named, place, n
<1>7. \A k \in 1 .. n : pick(k) = k
  BY <1>2, <1>5, <1>6
<1> HIDE DEF pick
<1> QED BY <1>1, <1>5, <1>7

\* What the final save stores of the results of a run.
LEMMA WholeFacts ==
    ASSUME NEW asked \in Intent, NEW results, NEW escalated \in BOOLEAN,
           Whole(asked, results, escalated)
    PROVE  /\ results \in Seq(Result) /\ Len(results) = IF escalated THEN 3 ELSE 1
           /\ AgentsOf(results) \in Seq(Agent)
           /\ (\A i \in DOMAIN results : results[i].agent # None) =>
                 AgentsOf(results) = [i \in DOMAIN results |-> results[i].agent]
<1> DEFINE named == {i \in DOMAIN results : results[i].agent # None}
<1>1. /\ results \in Seq(Result) /\ Len(results) = IF escalated THEN 3 ELSE 1
      /\ named \in {{}, {1}, {1, 2}, {1, 3}, {1, 2, 3}}
  <2>1. CASE escalated
    <3>1. results \in Seq(Result) /\ Len(results) = 3 /\ results[1].agent = "refund"
      BY <2>1, ReviewedFacts DEF Whole
    <3>2. DOMAIN results = {1, 2, 3} /\ 1 \in named
      BY <3>1, NoneDiffers DEF Agent
    <3> QED BY <2>1, <3>1, <3>2
  <2>2. CASE ~escalated
    <3>1. results \in Seq(Result) /\ Len(results) = 1
      BY <2>2, AloneFacts DEF Whole
    <3> QED BY <2>2, <3>1
  <2> QED BY <2>1, <2>2
<1>2. AgentsOf(results) \in Seq(Agent)
  BY <1>1, AgentsTyped
<1>3. (\A i \in DOMAIN results : results[i].agent # None) =>
         AgentsOf(results) = [i \in DOMAIN results |-> results[i].agent]
  BY <1>1, AgentsNamed
<1> QED BY <1>1, <1>2, <1>3

----------------------------------------------------------------------------
(* What the steps do. *)

Response == {None, 200, 500, 504}
RunState == [pc : Label, log : Row, results : Seq(Result), db : {"up", "lost"},
             response : Response]

\* A step of request r.
Step(r) ==
    \/ CreateRow(r) \/ CreateRaises(r) \/ LoadRow(r) \/ LoadRaises(r) \/ Reset(r)
    \/ ResetRaises(r) \/ CountQuery(r) \/ Answer(r) \/ WaitTimesOut(r) \/ Jam(r)
    \/ PublishRaises(r) \/ Decide(r) \/ SaveEscalated(r) \/ Finish(r) \/ SaveRaises(r) \/ CountResolved(r)
    \/ SaveFailed(r) \/ SaveFailedRaises(r)

LEMMA NextSteps == Next => (\E r \in Run : Step(r)) \/ Restart
BY DEF Next, Proceed, Step

LEMMA FreshType == Fresh \in Row
<1>1. <<>> \in Seq(Agent)
  OBVIOUS
<1> QED BY <1>1, Zenon DEF Fresh, Row

\* The rows that are saved.
LEMMA RowTypes ==
    ASSUME NEW r \in Run
    PROVE  /\ ResetLog(r) \in Row
           /\ row \in Row => EscalatedRow(r) \in Row /\ FailedRow(r) \in Row
BY FreshType, Zenon DEF Row, ResetLog, EscalatedRow, FailedRow

\* What the final save stores.
LEMMA ResolutionFacts ==
    ASSUME NEW r \in Run, run \in [Run -> RunState], intent \in Intent,
           Whole(intent, run[r].results, Log(r).escalated)
    PROVE  /\ Resolution(r) \in Row
           /\ Resolution(r).status = "resolved" /\ Resolution(r).final = r
           /\ Resolution(r).error = None
           /\ Resolution(r).escalated = Log(r).escalated
           /\ Resolution(r).agents = AgentsOf(run[r].results)
           /\ Resolution(r).last = run[r].results[Len(run[r].results)].agent
<1> DEFINE results == run[r].results
<1>1. Log(r) \in Row
  BY DEF RunState, Log
<1>2. Log(r).escalated \in BOOLEAN
  BY <1>1 DEF Row
<1> DEFINE escalated == Log(r).escalated
<1>w. Whole(intent, results, escalated) /\ escalated \in BOOLEAN
  BY <1>2
<1> HIDE DEF results, escalated
<1>3. /\ results \in Seq(Result) /\ Len(results) = IF escalated THEN 3 ELSE 1
      /\ AgentsOf(results) \in Seq(Agent)
  BY <1>w, WholeFacts
<1>4. Shown(r) = results[Len(results)]
  BY <1>3 DEF Shown, results, escalated
<1>5. results[Len(results)] \in Result
  BY <1>3
<1>6. results[Len(results)].agent \in Agent \cup {None}
  BY <1>5 DEF Result
<1>7. Resolution(r) = [Log(r) EXCEPT !.status = "resolved", !.final = r, !.error = None,
         !.last = results[Len(results)].agent, !.agents = AgentsOf(results)]
  BY <1>4 DEF Resolution, results
<1>8. Resolution(r) \in Row
  BY <1>1, <1>3, <1>6, <1>7, Zenon DEF Row
<1> QED BY <1>1, <1>7, <1>8, Zenon DEF Row, results

\* The fields that a step changes.
LEMMA LogFields ==
    ASSUME NEW w \in Row, NEW b \in BOOLEAN,
           NEW t \in {"pending", "in_progress", "escalated", "resolved", "failed"}
    PROVE  [w EXCEPT !.status = t, !.escalated = b] \in Row
BY Zenon DEF Row

LEMMA PcField ==
    ASSUME NEW s \in RunState, NEW pc \in Label
    PROVE  [s EXCEPT !.pc = pc] \in RunState
BY Zenon DEF RunState

LEMMA ResponseField ==
    ASSUME NEW s \in RunState, NEW pc \in Label, NEW code \in Response
    PROVE  [s EXCEPT !.pc = pc, !.response = code] \in RunState
BY Zenon DEF RunState

LEMMA LogField ==
    ASSUME NEW s \in RunState, NEW pc \in Label, NEW log \in Row
    PROVE  [s EXCEPT !.pc = pc, !.log = log] \in RunState
BY Zenon DEF RunState

LEMMA ResultsField ==
    ASSUME NEW s \in RunState, NEW pc \in Label, NEW results \in Seq(Result)
    PROVE  [s EXCEPT !.results = results, !.pc = pc] \in RunState
BY Zenon DEF RunState

LEMMA DbField ==
    ASSUME NEW s \in RunState, NEW pc \in Label, NEW db \in {"up", "lost"}
    PROVE  [s EXCEPT !.pc = pc, !.db = db] \in RunState
BY Zenon DEF RunState

LEMMA DbLogField ==
    ASSUME NEW s \in RunState, NEW pc \in Label, NEW db \in {"up", "lost"}, NEW log \in Row
    PROVE  [s EXCEPT !.pc = pc, !.db = db, !.log = log] \in RunState
BY Zenon DEF RunState

\* Fields of a record that are assigned at once.
LEMMA TwoAtOnce ==
    ASSUME NEW f, NEW r, NEW x, NEW y
    PROVE  /\ [f EXCEPT ![r].pc = x, ![r].response = y]
                  = [f EXCEPT ![r] = [f[r] EXCEPT !.pc = x, !.response = y]]
           /\ [f EXCEPT ![r].pc = x, ![r].log = y]
                  = [f EXCEPT ![r] = [f[r] EXCEPT !.pc = x, !.log = y]]
           /\ [f EXCEPT ![r].results = x, ![r].pc = y]
                  = [f EXCEPT ![r] = [f[r] EXCEPT !.results = x, !.pc = y]]
           /\ [f EXCEPT ![r].pc = x, ![r].db = y]
                  = [f EXCEPT ![r] = [f[r] EXCEPT !.pc = x, !.db = y]]
BY Zenon

LEMMA ThreeAtOnce ==
    ASSUME NEW f, NEW r, NEW x, NEW y, NEW z
    PROVE  [f EXCEPT ![r].pc = x, ![r].db = y, ![r].log = z]
               = [f EXCEPT ![r] = [f[r] EXCEPT !.pc = x, !.db = y, !.log = z]]
BY Zenon

\* What the steps of request r do to its record: which step it leaves, where it goes, and
\* what becomes of its log, results and connection.
Same(r) == run'[r].results = run[r].results /\ run'[r].db = run[r].db
Kept(r) == Same(r) /\ run'[r].log = run[r].log
Goes(r, from, to) == run[r].pc \in from /\ run'[r].pc = to

Opens(r) ==
    /\ Goes(r, {"new"}, "reset") /\ Same(r)
    /\ \/ r = Query /\ run'[r].log = run[r].log /\ row' = Fresh
       \/ /\ r # Query /\ row # None /\ run'[r].log = row
          /\ overlap \/ \A q \in Run : run[q].pc \in Over \cup {"new"}
Quits(r) ==
    /\ run[r].pc \in {"new", "reset", "count_resolved", "save_timeout", "save_error"}
    /\ run'[r].pc = "done" \/ (run'[r].pc = "stuck" /\ run[r].pc \notin {"new", "reset"})
    /\ Kept(r)
StartsOver(r) ==
    /\ Goes(r, {"reset"}, "count") /\ Same(r)
    /\ run'[r].log = ResetLog(r) /\ row' = ResetLog(r)
Counts(r) == At(r, "count") /\ run'[r].pc \in {"ask_specialist", "blocked"} /\ Kept(r)
Hears(r) == run'[r].log = run[r].log /\ run'[r].db = run[r].db
HearsSpecialist(r) ==
    /\ At(r, "ask_specialist") /\ Hears(r)
    /\ \E m \in Heard(intent, intent) :
          /\ run'[r].results = <<m>>
          /\ run'[r].pc \in IF NeedsInventory(m) THEN {"ask_inventory", "blocked"} ELSE {"decide"}
HearsInventory(r) ==
    /\ Goes(r, {"ask_inventory"}, "decide") /\ Hears(r)
    /\ \E n \in Heard("refund", "inventory") :
          run'[r].results = WithInventory(Append(run[r].results, n))
HearsEscalation(r) ==
    /\ Goes(r, {"ask_escalation"}, "finish") /\ Hears(r)
    /\ \E e \in Heard("refund", "escalation") : run'[r].results = Append(run[r].results, e)
Blocks(r) == Goes(r, Asking, "blocked") /\ Kept(r)
GivesUp(r) ==
    run[r].pc \in Asking /\ run'[r].pc \in {"save_timeout", "save_error"} /\ Kept(r)
Settles(r) == Goes(r, {"decide"}, "finish") /\ Kept(r) /\ ~ShouldEscalate(run[r].results)
Escalates(r) ==
    /\ Goes(r, {"decide"}, "save_escalated") /\ Same(r)
    /\ ShouldEscalate(run[r].results) /\ run'[r].log.escalated
Refers(r) ==
    At(r, "save_escalated") /\ run'[r].pc \in {"ask_escalation", "blocked"} /\ Kept(r)
Resolves(r) == Goes(r, {"finish"}, "count_resolved") /\ Same(r) /\ run'[r].log = Resolution(r)
Breaks(r) ==
    /\ Goes(r, {"save_escalated", "finish"}, "save_error")
    /\ run'[r].results = run[r].results /\ (run'[r].db = "up" => run[r].db = "up")

MovesOf(r) ==
    \/ Opens(r) \/ Quits(r) \/ StartsOver(r) \/ Counts(r) \/ HearsSpecialist(r)
    \/ HearsInventory(r) \/ HearsEscalation(r) \/ Blocks(r) \/ GivesUp(r) \/ Settles(r)
    \/ Escalates(r) \/ Refers(r) \/ Resolves(r) \/ Breaks(r)

\* One request's record changes, and it stays well-formed.
LEMMA RunSteps ==
    ASSUME run \in [Run -> RunState], row \in Row \cup {None}, intent \in Intent, ResultsFit,
           NEW r \in Run, Step(r)
    PROVE  MovesOf(r) /\ \E s \in RunState : run' = [run EXCEPT ![r] = s]
<1> DEFINE Becomes(s) == s \in RunState /\ run' = [run EXCEPT ![r] = s]
<1>t. /\ run[r] \in RunState /\ run[r].log \in Row /\ run[r].results \in Seq(Result)
      /\ run[r].db \in {"up", "lost"}
  BY DEF RunState
<1>n. /\ {"new", "reset", "count", "ask_specialist", "ask_inventory", "ask_escalation", "decide",
           "save_escalated", "finish", "count_resolved", "save_timeout", "save_error", "done",
           "blocked", "stuck"} \subseteq Label
  BY DEF Label, InFlight, Asking, Over
<1>m. "done" \in Label /\ "save_error" \in Label
  BY <1>n
<1>b. ASSUME NEW s, Becomes(s)
      PROVE  (\E t \in RunState : run' = [run EXCEPT ![r] = t]) /\ run'[r] = s
  BY <1>b
<1>g. ASSUME NEW to \in Label, Goto(r, to)
      PROVE  Becomes([run[r] EXCEPT !.pc = to])
  <2>1. [run[r] EXCEPT !.pc = to] \in RunState
    BY <1>t, PcField
  <2> QED BY <1>g, <2>1, Zenon DEF Goto
<1>h. ASSUME NEW code \in Response, Respond(r, code)
      PROVE  Becomes([run[r] EXCEPT !.pc = "done", !.response = code])
  <2>1. [run[r] EXCEPT !.pc = "done", !.response = code] \in RunState
    BY <1>t, <1>m, ResponseField, Zenon
  <2>2. [run EXCEPT ![r].pc = "done", ![r].response = code]
           = [run EXCEPT ![r] = [run[r] EXCEPT !.pc = "done", !.response = code]]
    BY TwoAtOnce, Zenon
  <2> QED BY <1>h, <2>1, <2>2, Zenon DEF Respond
<1>l. ASSUME NEW to \in Label, NEW log \in Row,
             run' = [run EXCEPT ![r].pc = to, ![r].log = log]
      PROVE  Becomes([run[r] EXCEPT !.pc = to, !.log = log])
  <2>1. [run[r] EXCEPT !.pc = to, !.log = log] \in RunState
    BY <1>t, LogField, Zenon
  <2>2. [run EXCEPT ![r].pc = to, ![r].log = log]
           = [run EXCEPT ![r] = [run[r] EXCEPT !.pc = to, !.log = log]]
    BY TwoAtOnce, Zenon
  <2> QED BY <1>l, <2>1, <2>2, Zenon
<1>a. ASSUME NEW to \in Label, NEW results \in Seq(Result),
             run' = [run EXCEPT ![r].results = results, ![r].pc = to]
      PROVE  Becomes([run[r] EXCEPT !.results = results, !.pc = to])
  <2>1. [run[r] EXCEPT !.results = results, !.pc = to] \in RunState
    BY <1>t, ResultsField, Zenon
  <2>2. [run EXCEPT ![r].results = results, ![r].pc = to]
           = [run EXCEPT ![r] = [run[r] EXCEPT !.results = results, !.pc = to]]
    BY TwoAtOnce, Zenon
  <2> QED BY <1>a, <2>1, <2>2, Zenon
<1>d. ASSUME NEW db \in {"up", "lost"},
             run' = [run EXCEPT ![r].pc = "save_error", ![r].db = db]
      PROVE  Becomes([run[r] EXCEPT !.pc = "save_error", !.db = db])
  <2>1. [run[r] EXCEPT !.pc = "save_error", !.db = db] \in RunState
    BY <1>t, <1>m, DbField, Zenon
  <2>2. [run EXCEPT ![r].pc = "save_error", ![r].db = db]
           = [run EXCEPT ![r] = [run[r] EXCEPT !.pc = "save_error", !.db = db]]
    BY TwoAtOnce, Zenon
  <2> QED BY <1>d, <2>1, <2>2, Zenon
<1>e. ASSUME NEW db \in {"up", "lost"}, NEW log \in Row,
             run' = [run EXCEPT ![r].pc = "save_error", ![r].db = db, ![r].log = log]
      PROVE  Becomes([run[r] EXCEPT !.pc = "save_error", !.db = db, !.log = log])
  <2>1. [run[r] EXCEPT !.pc = "save_error", !.db = db, !.log = log] \in RunState
    BY <1>t, <1>m, DbLogField, Zenon
  <2>2. [run EXCEPT ![r].pc = "save_error", ![r].db = db, ![r].log = log]
           = [run EXCEPT ![r] = [run[r] EXCEPT !.pc = "save_error", !.db = db, !.log = log]]
    BY ThreeAtOnce, Zenon
  <2> QED BY <1>e, <2>1, <2>2, Zenon
<1> HIDE DEF Becomes
<1>r. {200, 500, 504} \subseteq Response
  BY DEF Response
<1> DEFINE One == \E s \in RunState : run' = [run EXCEPT ![r] = s]
<1>G. ASSUME NEW to \in Label, Goto(r, to)
      PROVE  One /\ run'[r].pc = to /\ Kept(r)
  <2>1. One /\ run'[r] = [run[r] EXCEPT !.pc = to]
    BY <1>b, <1>g, <1>G
  <2> QED BY <1>t, <2>1 DEF RunState, Kept, Same
<1>H. ASSUME NEW code \in Response, Respond(r, code)
      PROVE  One /\ run'[r].pc = "done" /\ Kept(r)
  <2>1. One /\ run'[r] = [run[r] EXCEPT !.pc = "done", !.response = code]
    BY <1>b, <1>h, <1>H
  <2> QED BY <1>t, <2>1 DEF RunState, Kept, Same
<1>I. ASSUME NEW code \in Response, Leaves(r, code)
      PROVE  One /\ run'[r].pc \in {"done", "stuck"} /\ Kept(r)
  <2>1. Goto(r, "stuck") \/ Respond(r, code)
    BY <1>I DEF Leaves
  <2>2. "stuck" \in Label
    BY <1>n
  <2> QED BY <1>G, <1>H, <2>1, <2>2
<1>L. ASSUME NEW to \in Label, NEW log \in Row,
             run' = [run EXCEPT ![r].pc = to, ![r].log = log]
      PROVE  One /\ run'[r].pc = to /\ run'[r].log = log /\ Same(r)
  <2>1. One /\ run'[r] = [run[r] EXCEPT !.pc = to, !.log = log]
    BY <1>b, <1>l, <1>L
  <2> QED BY <1>t, <2>1 DEF RunState, Same
<1>A. ASSUME NEW to \in Label, NEW results \in Seq(Result),
             run' = [run EXCEPT ![r].results = results, ![r].pc = to]
      PROVE  /\ One /\ run'[r].pc = to /\ run'[r].results = results
             /\ run'[r].log = run[r].log /\ run'[r].db = run[r].db
  <2>1. One /\ run'[r] = [run[r] EXCEPT !.results = results, !.pc = to]
    BY <1>b, <1>a, <1>A
  <2> QED BY <1>t, <2>1 DEF RunState
<1>D. ASSUME NEW db \in {"up", "lost"},
             run' = [run EXCEPT ![r].pc = "save_error", ![r].db = db]
      PROVE  One /\ run'[r].pc = "save_error" /\ run'[r].results = run[r].results /\ run'[r].db = db
  <2>1. One /\ run'[r] = [run[r] EXCEPT !.pc = "save_error", !.db = db]
    BY <1>b, <1>d, <1>D
  <2> QED BY <1>t, <2>1 DEF RunState
<1>E. ASSUME NEW db \in {"up", "lost"}, NEW log \in Row,
             run' = [run EXCEPT ![r].pc = "save_error", ![r].db = db, ![r].log = log]
      PROVE  One /\ run'[r].pc = "save_error" /\ run'[r].results = run[r].results /\ run'[r].db = db
  <2>1. One /\ run'[r] = [run[r] EXCEPT !.pc = "save_error", !.db = db, !.log = log]
    BY <1>b, <1>e, <1>E
  <2> QED BY <1>t, <2>1 DEF RunState
<1>f. /\ At(r, "finish") => Resolution(r) \in Row
      /\ ResetLog(r) \in Row
      /\ [run[r].log EXCEPT !.status = "escalated", !.escalated = TRUE] \in Row
  <2>1. At(r, "finish") => Whole(intent, run[r].results, Log(r).escalated)
    BY DEF ResultsFit, Fits, At
  <2>2. At(r, "finish") => Resolution(r) \in Row
    BY <2>1, ResolutionFacts
  <2>3. "escalated" \in {"pending", "in_progress", "escalated", "resolved", "failed"}
    OBVIOUS
  <2>4. [run[r].log EXCEPT !.status = "escalated", !.escalated = TRUE] \in Row
    BY <1>t, <2>3, LogFields, Zenon
  <2> QED BY <2>2, <2>4, RowTypes
<1> HIDE DEF One
<1>1. CASE CreateRow(r)
  <2>1. At(r, "new") /\ Goto(r, "reset") /\ r = Query /\ row' = Fresh
    BY <1>1 DEF CreateRow, Writes
  <2>2. "reset" \in Label
    BY <1>n
  <2>3. One /\ run'[r].pc = "reset" /\ Kept(r)
    BY <1>G, <2>1, <2>2
  <2>9. Opens(r)
    BY <2>1, <2>3 DEF Opens, Goes, At, Kept, Same
  <2> QED BY <2>3, <2>9 DEF MovesOf, One
<1>2. CASE CreateRaises(r)
  <2>1. At(r, "new") /\ r = Query /\ \E code \in {500} : Respond(r, code)
    BY <1>2 DEF CreateRaises
  <2>2. One /\ run'[r].pc = "done" /\ Kept(r)
    BY <1>r, <1>H, <2>1
  <2>9. Quits(r)
    BY <2>1, <2>2 DEF Quits, Goes, At, Kept, Same
  <2> QED BY <2>2, <2>9 DEF MovesOf, One
<1>3. CASE LoadRow(r)
  <2>1. /\ At(r, "new") /\ r # Query /\ row # None
        /\ overlap \/ \A q \in Run : run[q].pc \in Over \cup {"new"}
        /\ run' = [run EXCEPT ![r].pc = "reset", ![r].log = row]
    BY <1>3 DEF LoadRow, Reprocess, RowFound
  <2>2. "reset" \in Label /\ row \in Row
    BY <1>n, <2>1
  <2>3. One /\ run'[r].pc = "reset" /\ run'[r].log = row /\ Same(r)
    BY <1>L, <2>1, <2>2
  <2>9. Opens(r)
    BY <2>1, <2>3 DEF Opens, Goes, At, Kept, Same
  <2> QED BY <2>3, <2>9 DEF MovesOf, One
<1>4. CASE Reset(r)
  <2>1. /\ At(r, "reset") /\ row' = ResetLog(r)
        /\ run' = [run EXCEPT ![r].pc = "count", ![r].log = ResetLog(r)]
    BY <1>4 DEF Reset, Writes
  <2>2. "count" \in Label
    BY <1>n
  <2>3. One /\ run'[r].pc = "count" /\ run'[r].log = ResetLog(r) /\ Same(r)
    BY <1>f, <1>L, <2>1, <2>2
  <2>9. StartsOver(r)
    BY <2>1, <2>3 DEF StartsOver, Goes, At, Kept, Same
  <2> QED BY <2>3, <2>9 DEF MovesOf, One
<1>5. CASE ResetRaises(r)
  <2>1. At(r, "reset") /\ \E code \in {500} : Respond(r, code)
    BY <1>5 DEF ResetRaises
  <2>2. One /\ run'[r].pc = "done" /\ Kept(r)
    BY <1>r, <1>H, <2>1
  <2>9. Quits(r)
    BY <2>1, <2>2 DEF Quits, Goes, At, Kept, Same
  <2> QED BY <2>2, <2>9 DEF MovesOf, One
<1>6. CASE CountQuery(r)
  <2>1. At(r, "count") /\ (Goto(r, "ask_specialist") \/ Goto(r, "blocked"))
    BY <1>6 DEF CountQuery, Enters
  <2>2. "ask_specialist" \in Label /\ "blocked" \in Label
    BY <1>n
  <2>3. One /\ run'[r].pc \in {"ask_specialist", "blocked"} /\ Kept(r)
    BY <1>G, <2>1, <2>2
  <2>9. Counts(r)
    BY <2>1, <2>3 DEF Counts, Goes, At, Kept, Same
  <2> QED BY <2>3, <2>9 DEF MovesOf, One
<1>7. CASE WaitTimesOut(r)
  <2>1. run[r].pc \in Asking /\ Goto(r, "save_timeout")
    BY <1>7 DEF WaitTimesOut, Deadline
  <2>2. "save_timeout" \in Label
    BY <1>n
  <2>3. One /\ run'[r].pc = "save_timeout" /\ Kept(r)
    BY <1>G, <2>1, <2>2
  <2>9. GivesUp(r)
    BY <2>1, <2>3 DEF GivesUp, Kept, Same
  <2> QED BY <2>3, <2>9 DEF MovesOf, One
<1>8. CASE PublishRaises(r)
  <2>1. run[r].pc \in Asking /\ Goto(r, "save_error")
    BY <1>8 DEF PublishRaises
  <2>2. "save_error" \in Label
    BY <1>n
  <2>3. One /\ run'[r].pc = "save_error" /\ Kept(r)
    BY <1>G, <2>1, <2>2
  <2>9. GivesUp(r)
    BY <2>1, <2>3 DEF GivesUp, Kept, Same
  <2> QED BY <2>3, <2>9 DEF MovesOf, One
<1>9. CASE SaveEscalated(r)
  <2>1. At(r, "save_escalated") /\ (Goto(r, "ask_escalation") \/ Goto(r, "blocked"))
    BY <1>9 DEF SaveEscalated, Enters
  <2>2. "ask_escalation" \in Label /\ "blocked" \in Label
    BY <1>n
  <2>3. One /\ run'[r].pc \in {"ask_escalation", "blocked"} /\ Kept(r)
    BY <1>G, <2>1, <2>2
  <2>9. Refers(r)
    BY <2>1, <2>3 DEF Refers, Goes, At, Kept, Same
  <2> QED BY <2>3, <2>9 DEF MovesOf, One
<1>10. CASE CountResolved(r)
  <2>1. At(r, "count_resolved") /\ \E code \in {200} : Leaves(r, code)
    BY <1>10 DEF CountResolved
  <2>2. One /\ run'[r].pc \in {"done", "stuck"} /\ Kept(r)
    BY <1>r, <1>I, <2>1
  <2>9. Quits(r)
    BY <2>1, <2>2 DEF Quits, Goes, At, Kept, Same
  <2> QED BY <2>2, <2>9 DEF MovesOf, One
<1>11. CASE SaveFailed(r)
  <2>1. run[r].pc \in {"save_timeout", "save_error"} /\ \E code \in {500, 504} : Leaves(r, code)
    BY <1>11 DEF SaveFailed
  <2>2. One /\ run'[r].pc \in {"done", "stuck"} /\ Kept(r)
    BY <1>r, <1>I, <2>1
  <2>9. Quits(r)
    BY <2>1, <2>2 DEF Quits, Goes, At, Kept, Same
  <2> QED BY <2>2, <2>9 DEF MovesOf, One
<1>12. CASE SaveFailedRaises(r)
  <2>1. run[r].pc \in {"save_timeout", "save_error"} /\ \E code \in {500} : Leaves(r, code)
    BY <1>12 DEF SaveFailedRaises
  <2>2. One /\ run'[r].pc \in {"done", "stuck"} /\ Kept(r)
    BY <1>r, <1>I, <2>1
  <2>9. Quits(r)
    BY <2>1, <2>2 DEF Quits, Goes, At, Kept, Same
  <2> QED BY <2>2, <2>9 DEF MovesOf, One
<1>13. CASE Finish(r)
  <2>1. At(r, "finish") /\ run' = [run EXCEPT ![r].pc = "count_resolved", ![r].log = Resolution(r)]
    BY <1>13 DEF Finish
  <2>2. "count_resolved" \in Label
    BY <1>n
  <2>3. One /\ run'[r].pc = "count_resolved" /\ run'[r].log = Resolution(r) /\ Same(r)
    BY <1>f, <1>L, <2>1, <2>2
  <2>9. Resolves(r)
    BY <2>1, <2>3 DEF Resolves, Goes, At, Kept, Same
  <2> QED BY <2>3, <2>9 DEF MovesOf, One
<1>14. CASE Decide(r) /\ ShouldEscalate(run[r].results)
  <2> DEFINE log == [run[r].log EXCEPT !.status = "escalated", !.escalated = TRUE]
  <2>1. At(r, "decide") /\ run' = [run EXCEPT ![r].pc = "save_escalated", ![r].log = log]
    BY <1>14, Zenon DEF Decide
  <2>2. "save_escalated" \in Label
    BY <1>n
  <2>3. log.escalated
    BY <1>t, Zenon DEF Row
  <2>4. log \in Row
    BY <1>f
  <2> HIDE DEF log
  <2>5. One /\ run'[r].pc = "save_escalated" /\ run'[r].log = log /\ Same(r)
    BY <1>L, <2>1, <2>2, <2>4
  <2>9. Escalates(r)
    BY <1>14, <2>1, <2>3, <2>5 DEF Escalates, Goes, At, Kept, Same
  <2> QED BY <2>5, <2>9 DEF MovesOf, One
<1>15. CASE Decide(r) /\ ~ShouldEscalate(run[r].results)
  <2>1. At(r, "decide") /\ Goto(r, "finish")
    BY <1>15 DEF Decide
  <2>2. "finish" \in Label
    BY <1>n
  <2>3. One /\ run'[r].pc = "finish" /\ Kept(r)
    BY <1>G, <2>1, <2>2
  <2>9. Settles(r)
    BY <1>15, <2>1, <2>3 DEF Settles, Goes, At, Kept, Same
  <2> QED BY <2>3, <2>9 DEF MovesOf, One
<1>16. CASE SaveRaises(r)
  <2>1. PICK db \in {"up", "lost"} :
           /\ run[r].pc \in {"save_escalated", "finish"}
           /\ \/ run' = [run EXCEPT ![r].pc = "save_error", ![r].db = db]
              \/ At(r, "finish")
                 /\ run' = [run EXCEPT ![r].pc = "save_error", ![r].db = db, ![r].log = Resolution(r)]
           /\ db = "up" => run[r].db = "up"
    BY <1>16 DEF SaveRaises, Raises, At
  <2>2. /\ One /\ run'[r].pc = "save_error" /\ run'[r].results = run[r].results
        /\ run'[r].db = db
    BY <1>f, <1>D, <1>E, <2>1
  <2>9. Breaks(r)
    BY <2>1, <2>2 DEF Breaks, Goes
  <2> QED BY <2>2, <2>9 DEF MovesOf, One
<1>17. CASE Answer(r)
  <2>1. PICK m \in Answers(Expected(r)) \cup {Empty} \cup Strays(intent, Expected(r)) :
           SpecialistAnswers(r, m) \/ InventoryAnswers(r, m) \/ EscalationAnswers(r, m)
    BY <1>17 DEF Answer
  <2>2. CASE SpecialistAnswers(r, m)
    <3>1. At(r, "ask_specialist") /\ Expected(r) = intent
      BY <2>2 DEF SpecialistAnswers, Expected, At
    <3>2. m \in Heard(intent, intent) /\ m \in Result
      BY <2>1, <3>1, HeardTypes DEF Intent, Agent, Heard
    <3> DEFINE to == IF NeedsInventory(m) THEN Enters("ask_inventory") ELSE "decide"
    <3>3. /\ to \in IF NeedsInventory(m) THEN {"ask_inventory", "blocked"} ELSE {"decide"}
          /\ to \in Label /\ <<m>> \in Seq(Result)
      BY <1>n, <3>2 DEF Enters
    <3>4. run' = [run EXCEPT ![r].results = <<m>>, ![r].pc = to]
      BY <2>2 DEF SpecialistAnswers
    <3> HIDE DEF to
    <3>5. One /\ run'[r].pc = to /\ run'[r].results = <<m>> /\ Hears(r)
      BY <1>A, <3>3, <3>4 DEF Hears
    <3>6. HearsSpecialist(r)
      BY <3>1, <3>2, <3>3, <3>5 DEF HearsSpecialist
    <3> QED BY <3>5, <3>6 DEF MovesOf, One
  <2>3. CASE InventoryAnswers(r, m)
    <3>1. At(r, "ask_inventory") /\ Expected(r) = "inventory"
      BY <2>3 DEF InventoryAnswers, Expected, At
    <3>3. PICK k \in Answers("refund") : Judged(intent, k) /\ run[r].results = <<k>>
      BY <3>1 DEF ResultsFit, Fits, At
    <3>2. m \in Heard("refund", "inventory") /\ m \in Result
      BY <2>1, <3>1, <3>3, HeardTypes DEF Intent, Agent, Heard, Judged
    <3>4. k \in Result
      BY AnswerTypes DEF Agent
    <3> DEFINE results == WithInventory(Append(run[r].results, m))
    <3>5. results \in Seq(Result)
      <4>1. Append(run[r].results, m) = <<k, m>>
        BY <3>2, <3>3, <3>4, StockFacts
      <4>2. WithInventory(<<k, m>>) \in Seq(Result)
        BY <3>2, <3>4, StockFacts
      <4> QED BY <4>1, <4>2
    <3>6. run' = [run EXCEPT ![r].results = results, ![r].pc = "decide"]
      BY <2>3, Zenon DEF InventoryAnswers
    <3> HIDE DEF results
    <3>7. One /\ run'[r].pc = "decide" /\ run'[r].results = results /\ Hears(r)
      BY <1>n, <1>A, <3>5, <3>6 DEF Hears
    <3>8. HearsInventory(r)
      BY <3>1, <3>2, <3>7 DEF HearsInventory, Goes, At, results
    <3> QED BY <3>7, <3>8 DEF MovesOf, One
  <2>4. CASE EscalationAnswers(r, m)
    <3>1. At(r, "ask_escalation") /\ Expected(r) = "escalation"
      BY <2>4 DEF EscalationAnswers, Expected, At
    <3>2. m \in Heard("refund", "escalation") /\ m \in Result
      <4>1. intent = "refund"
        BY <3>1, StockedFacts DEF ResultsFit, Fits, At
      <4> QED BY <2>1, <3>1, <4>1, HeardTypes DEF Intent, Agent, Heard
    <3> DEFINE results == Append(run[r].results, m)
    <3>3. results \in Seq(Result)
      BY <1>t, <3>2
    <3>4. run' = [run EXCEPT ![r].results = results, ![r].pc = "finish"]
      BY <2>4, Zenon DEF EscalationAnswers
    <3> HIDE DEF results
    <3>5. One /\ run'[r].pc = "finish" /\ run'[r].results = results /\ Hears(r)
      BY <1>n, <1>A, <3>3, <3>4 DEF Hears
    <3>6. HearsEscalation(r)
      BY <3>1, <3>2, <3>5 DEF HearsEscalation, Goes, At, results
    <3> QED BY <3>5, <3>6 DEF MovesOf, One
  <2> QED BY <2>1, <2>2, <2>3, <2>4
<1>18. CASE LoadRaises(r)
  <2>1. At(r, "new") /\ \E code \in {500} : Respond(r, code)
    BY <1>18 DEF LoadRaises, Reprocess
  <2>2. One /\ run'[r].pc = "done" /\ Kept(r)
    BY <1>r, <1>H, <2>1
  <2>9. Quits(r)
    BY <2>1, <2>2 DEF Quits, At
  <2> QED BY <2>2, <2>9 DEF MovesOf, One
<1>19. CASE Jam(r)
  <2>1. run[r].pc \in Asking /\ Goto(r, "blocked")
    BY <1>19 DEF Jam
  <2>2. "blocked" \in Label
    BY <1>n
  <2>3. One /\ run'[r].pc = "blocked" /\ Kept(r)
    BY <1>G, <2>1, <2>2
  <2>9. Blocks(r)
    BY <2>1, <2>3 DEF Blocks, Goes
  <2> QED BY <2>3, <2>9 DEF MovesOf, One
<1> QED BY <1>1, <1>2, <1>3, <1>4, <1>5, <1>6, <1>7, <1>8, <1>9, <1>10, <1>11, <1>12, <1>13,
           <1>14, <1>15, <1>16, <1>17, <1>18, <1>19 DEF Step

\* Where a step lands.
LEMMA Lands ==
    ASSUME run \in [Run -> RunState], NEW r \in Run
    PROVE  /\ \A to : Goto(r, to) => run'[r].pc = to
           /\ \A code : Respond(r, code) =>
                  run'[r].pc = "done" /\ run'[r].response = code /\ run'[r].db = run[r].db
           /\ \A code : Leaves(r, code) =>
                  /\ run'[r].db = run[r].db
                  /\ run'[r].pc = "stuck" \/ (run'[r].pc = "done" /\ run'[r].response = code)
<1>1. ASSUME NEW to, Goto(r, to) PROVE run'[r].pc = to
  BY <1>1 DEF Goto, RunState
<1>2. ASSUME NEW code, Respond(r, code)
      PROVE  run'[r].pc = "done" /\ run'[r].response = code /\ run'[r].db = run[r].db
  BY <1>2 DEF Respond, RunState
<1>3. ASSUME NEW code, Leaves(r, code)
      PROVE  /\ run'[r].db = run[r].db
             /\ run'[r].pc = "stuck" \/ (run'[r].pc = "done" /\ run'[r].response = code)
  <2>1. CASE Goto(r, "stuck")
    BY <1>1, <2>1 DEF Goto, RunState
  <2>2. CASE Respond(r, code)
    BY <1>2, <2>2
  <2> QED BY <1>3, <2>1, <2>2 DEF Leaves
<1> QED BY <1>1, <1>2, <1>3

\* What the steps of request r may write to the row: one of five, over a connection that
\* is up.  If the final save took effect and raised, the connection is lost.
WritesOf(r) ==
    /\ run[r].db = "up"
    /\ \/ At(r, "new") /\ r = Query /\ row' = Fresh
       \/ At(r, "reset") /\ row' = ResetLog(r)
       \/ At(r, "save_escalated") /\ row' = EscalatedRow(r)
       \/ At(r, "finish") /\ row' = Resolution(r)
          /\ (run'[r].pc = "count_resolved" \/ run'[r].db = "lost")
       \/ run[r].pc \in {"save_timeout", "save_error"} /\ row' = FailedRow(r)

LEMMA RaisesFacts ==
    ASSUME NEW r, NEW new, NEW db, Raises(r, new, db)
    PROVE  /\ row' = row \/ (run[r].db = "up" /\ db = "lost" /\ row' = new)
           /\ (run[r].db = "lost" /\ faults' = faults) \/ Fault
BY DEF Raises

LEMMA RowSteps ==
    ASSUME run \in [Run -> RunState], NEW r \in Run, Step(r)
    PROVE  UNCHANGED given /\ (row' = row \/ WritesOf(r))
<1>1. CASE \/ LoadRow(r) \/ CountQuery(r) \/ Answer(r) \/ WaitTimesOut(r) \/ PublishRaises(r)
           \/ Decide(r) \/ CountResolved(r) \/ LoadRaises(r) \/ Jam(r)
  <2>1. CASE LoadRow(r)
    BY <2>1 DEF LoadRow
  <2>2. CASE CountQuery(r)
    BY <2>2 DEF CountQuery
  <2>3. CASE Answer(r)
    BY <2>3 DEF Answer, SpecialistAnswers, InventoryAnswers, EscalationAnswers
  <2>4. CASE WaitTimesOut(r)
    BY <2>4 DEF WaitTimesOut
  <2>5. CASE PublishRaises(r)
    BY <2>5 DEF PublishRaises
  <2>6. CASE Decide(r)
    BY <2>6 DEF Decide
  <2>7. CASE CountResolved(r)
    BY <2>7 DEF CountResolved
  <2>8. CASE LoadRaises(r)
    BY <2>8 DEF LoadRaises
  <2>9. CASE Jam(r)
    BY <2>9 DEF Jam
  <2> QED BY <1>1, <2>1, <2>2, <2>3, <2>4, <2>5, <2>6, <2>7, <2>8, <2>9
<1>2. CASE CreateRow(r)
  BY <1>2 DEF CreateRow, Writes, WritesOf
<1>3. CASE CreateRaises(r)
  BY <1>3, RaisesFacts DEF CreateRaises, WritesOf
<1>4. CASE Reset(r)
  BY <1>4 DEF Reset, Writes, WritesOf
<1>5. CASE ResetRaises(r)
  BY <1>5, RaisesFacts DEF ResetRaises, WritesOf
<1>6. CASE SaveEscalated(r)
  BY <1>6 DEF SaveEscalated, Writes, WritesOf
<1>7. CASE Finish(r)
  <2>1. run'[r].pc = "count_resolved"
    BY <1>7 DEF Finish, RunState
  <2> QED BY <1>7, <2>1 DEF Finish, Writes, WritesOf
<1>8. CASE SaveRaises(r)
  <2>1. PICK db \in {"up", "lost"} :
           /\ \/ At(r, "save_escalated") /\ Raises(r, EscalatedRow(r), db)
                 /\ run' = [run EXCEPT ![r].pc = "save_error", ![r].db = db]
              \/ At(r, "finish") /\ Raises(r, Resolution(r), db)
                 /\ run' = [run EXCEPT ![r].pc = "save_error", ![r].db = db,
                                       ![r].log = Resolution(r)]
           /\ UNCHANGED given
    BY <1>8 DEF SaveRaises
  <2>2. run'[r].db = db
    BY <2>1 DEF RunState
  <2> QED BY <2>1, <2>2, RaisesFacts DEF WritesOf
<1>9. CASE SaveFailed(r)
  BY <1>9 DEF SaveFailed, Writes, WritesOf
<1>10. CASE SaveFailedRaises(r)
  BY <1>10, RaisesFacts DEF SaveFailedRaises, WritesOf
<1> QED BY <1>1, <1>2, <1>3, <1>4, <1>5, <1>6, <1>7, <1>8, <1>9, <1>10 DEF Step

\* As long as nothing failed, connections are up and no save raises.  A run that leaves
\* closes the row or, after a failure, answers 500.
LEMMA FaultSteps ==
    ASSUME run \in [Run -> RunState], faults \in 0 .. MaxFaults, NEW r \in Run, Step(r)
    PROVE  /\ faults' \in 0 .. MaxFaults
           /\ faults' >= faults
           /\ faults' = 0 /\ run[r].db = "up" => run'[r].db = "up"
           /\ run'[r].pc = "done" =>
                \/ At(r, "count_resolved")
                \/ Begun(r) /\ row' = FailedRow(r)
                \/ run'[r].response = 500 /\ (faults' # 0 \/ run[r].db = "lost")
           /\ run'[r].pc = "stuck" =>
                \/ At(r, "count_resolved")
                \/ Begun(r) /\ row' = FailedRow(r)
                \/ faults' # 0 \/ run[r].db = "lost"
           /\ run'[r].pc = "count_resolved" => row' = Resolution(r)
<1>a. MaxFaults \in Nat /\ faults \in Nat
  BY PipelineAssumption
<1>b. /\ Fault => faults' \in 0 .. MaxFaults /\ faults' # 0 /\ faults' >= faults
      /\ UNCHANGED faults => faults' \in 0 .. MaxFaults /\ faults' >= faults
  BY <1>a DEF Fault
<1> DEFINE Quiet == UNCHANGED faults
<1>c. ASSUME NEW to, Goto(r, to) PROVE run'[r].pc = to /\ run'[r].db = run[r].db
  BY <1>c DEF Goto, RunState
<1>d. ASSUME NEW code, Respond(r, code)
      PROVE  run'[r].pc = "done" /\ run'[r].response = code /\ run'[r].db = run[r].db
  BY <1>d, Lands
<1>f. ASSUME NEW code, Leaves(r, code)
      PROVE  /\ run'[r].db = run[r].db
             /\ run'[r].pc = "stuck" \/ (run'[r].pc = "done" /\ run'[r].response = code)
  BY <1>f, Lands
<1>e. ASSUME NEW new, NEW db, Raises(r, new, db)
      PROVE  (run[r].db = "up" => Fault) /\ (Quiet \/ Fault)
  BY <1>e DEF Raises
<1>1. CASE CreateRow(r)
  BY <1>1, <1>c DEF CreateRow, Writes, At
<1>2. CASE LoadRow(r)
  <2>1. run'[r].pc = "reset" /\ run'[r].db = run[r].db
    BY <1>2 DEF LoadRow, RunState
  <2> QED BY <1>2, <2>1 DEF LoadRow
<1>3. CASE CreateRaises(r) \/ ResetRaises(r) \/ SaveFailedRaises(r) \/ LoadRaises(r)
  <2>1. (run[r].db = "up" => Fault) /\ (Quiet \/ Fault)
    BY <1>3, <1>e DEF CreateRaises, ResetRaises, SaveFailedRaises, LoadRaises
  <2>2. /\ run[r].db \in {"up", "lost"} /\ run'[r].db = run[r].db
        /\ run'[r].pc = "stuck" \/ (run'[r].pc = "done" /\ run'[r].response = 500)
    BY <1>3, <1>d, <1>f DEF CreateRaises, ResetRaises, SaveFailedRaises, LoadRaises, RunState
  <2> QED BY <1>a, <1>b, <2>1, <2>2
<1>4. CASE SaveRaises(r)
  <2>1. (run[r].db = "up" => Fault) /\ (Quiet \/ Fault)
    BY <1>4, <1>e DEF SaveRaises
  <2>2. run'[r].pc = "save_error"
    BY <1>4 DEF SaveRaises, RunState
  <2> QED BY <1>a, <1>b, <2>1, <2>2
<1>5. CASE Reset(r)
  <2>1. run'[r].pc = "count" /\ run'[r].db = run[r].db /\ At(r, "reset")
    BY <1>5 DEF Reset, RunState
  <2> QED BY <1>5, <2>1 DEF Reset, Writes, At
<1>6. CASE CountQuery(r) \/ WaitTimesOut(r) \/ Jam(r) \/ PublishRaises(r) \/ SaveEscalated(r)
  <2>1. /\ Quiet /\ run[r].pc # "new" /\ run'[r].db = run[r].db
        /\ run'[r].pc \in {"ask_specialist", "save_timeout", "save_error", "ask_escalation",
                          "blocked"}
    BY <1>6, <1>c DEF CountQuery, WaitTimesOut, Deadline, Jam, PublishRaises, SaveEscalated,
                      Writes, Enters, At, Asking
  <2> QED BY <1>b, <2>1 DEF At
<1>7. CASE Answer(r)
  <2>1. /\ Quiet /\ run[r].pc # "new" /\ run'[r].db = run[r].db
        /\ run'[r].pc \in {"ask_inventory", "decide", "finish", "blocked"}
    BY <1>7 DEF Answer, SpecialistAnswers, InventoryAnswers, EscalationAnswers, RunState, Asking,
                Enters
  <2> QED BY <1>b, <2>1 DEF At
<1>8. CASE Decide(r)
  <2>1. /\ Quiet /\ At(r, "decide") /\ run'[r].db = run[r].db
        /\ run'[r].pc \in {"save_escalated", "finish"}
    BY <1>8, <1>c DEF Decide, RunState
  <2> QED BY <1>b, <2>1 DEF At
<1>9. CASE Finish(r)
  <2>1. /\ Quiet /\ At(r, "finish") /\ run'[r].db = run[r].db /\ row' = Resolution(r)
        /\ run'[r].pc = "count_resolved"
    BY <1>9 DEF Finish, Writes, RunState
  <2> QED BY <1>b, <2>1 DEF At
<1>10. CASE CountResolved(r)
  <2>1. /\ Quiet /\ At(r, "count_resolved") /\ run'[r].pc \in {"done", "stuck"}
        /\ run'[r].db = run[r].db
    BY <1>10, <1>f DEF CountResolved
  <2> QED BY <1>b, <2>1
<1>11. CASE SaveFailed(r)
  <2>1. Quiet /\ Begun(r) /\ row' = FailedRow(r)
    BY <1>11 DEF SaveFailed, Writes, Begun, Over
  <2>2. run'[r].pc \in {"done", "stuck"} /\ run'[r].db = run[r].db
    BY <1>11, <1>f DEF SaveFailed
  <2> QED BY <1>b, <2>1, <2>2 DEF At
<1> QED BY <1>1, <1>2, <1>3, <1>4, <1>5, <1>6, <1>7, <1>8, <1>9, <1>10, <1>11 DEF Step

\* What the steps of request r count.
LEMMA CountSteps ==
    ASSUME run \in [Run -> RunState], counters \in [Counter -> Nat], NEW r \in Run, Step(r)
    PROVE  /\ counters' \in [Counter -> Nat]
           /\ \/ /\ At(r, "count") /\ run'[r].pc \in {"ask_specialist", "blocked"}
                 /\ Incr("total")
              \/ /\ At(r, "count_resolved") /\ run'[r].pc \in {"done", "stuck"}
                 /\ Incr("resolved")
              \/ /\ run[r].pc \in InFlight \ {"count_resolved"}
                 /\ run'[r].pc \in {"save_timeout", "save_error"}
                 /\ Incr("timeout") \/ Incr("error")
              \/ /\ run[r].pc \in InFlight <=> run'[r].pc \in InFlight
                 /\ UNCHANGED counters \/ Incr("escalated")
<1>a. {"total", "resolved", "timeout", "error", "escalated"} \subseteq Counter
  BY DEF Counter
<1>b. ASSUME NEW n \in Counter, Incr(n) PROVE counters' \in [Counter -> Nat]
  BY <1>b DEF Incr
<1>c. Asking \subseteq InFlight /\ "count_resolved" \notin Asking
  BY DEF InFlight, Asking
<1>d. InFlight = {"ask_specialist", "ask_inventory", "ask_escalation", "decide",
                  "save_escalated", "finish", "count_resolved", "blocked"}
  BY DEF InFlight, Asking
<1>1. CASE \/ CreateRow(r) \/ CreateRaises(r) \/ LoadRaises(r) \/ ResetRaises(r)
           \/ SaveFailed(r) \/ SaveFailedRaises(r)
  <2>1. /\ UNCHANGED counters /\ run[r].pc \in {"new", "reset", "save_timeout", "save_error"}
        /\ run'[r].pc \in {"reset", "done", "stuck"}
    BY <1>1, Lands DEF CreateRow, CreateRaises, LoadRaises, Reprocess, ResetRaises, SaveFailed,
                       SaveFailedRaises, At
  <2> QED BY <1>d, <2>1
<1>2. CASE LoadRow(r) \/ Reset(r)
  <2>1. /\ UNCHANGED counters /\ run[r].pc \in {"new", "reset"}
        /\ run'[r].pc \in {"reset", "count"}
    BY <1>2 DEF LoadRow, Reprocess, Reset, At, RunState
  <2> QED BY <1>d, <2>1
<1>3. CASE CountQuery(r)
  <2>1. run'[r].pc \in {"ask_specialist", "blocked"} /\ Incr("total") /\ At(r, "count")
    BY <1>3, Lands DEF CountQuery, Enters
  <2> QED BY <1>a, <1>b, <2>1
<1>4. CASE CountResolved(r)
  <2>1. run'[r].pc \in {"done", "stuck"} /\ Incr("resolved") /\ At(r, "count_resolved")
    BY <1>4, Lands DEF CountResolved
  <2> QED BY <1>a, <1>b, <2>1
<1>5. CASE WaitTimesOut(r)
  <2>1. run'[r].pc = "save_timeout" /\ Incr("timeout") /\ run[r].pc \in Asking
    BY <1>5, Lands DEF WaitTimesOut, Deadline
  <2> QED BY <1>a, <1>b, <1>c, <2>1
<1>6. CASE PublishRaises(r)
  <2>1. run'[r].pc = "save_error" /\ Incr("error") /\ run[r].pc \in Asking
    BY <1>6, Lands DEF PublishRaises, CountError
  <2> QED BY <1>a, <1>b, <1>c, <2>1
<1>7. CASE SaveRaises(r)
  <2>1. Incr("error") /\ run[r].pc \in {"save_escalated", "finish"} /\ run'[r].pc = "save_error"
    BY <1>7 DEF SaveRaises, CountError, At, RunState
  <2> QED BY <1>a, <1>b, <1>d, <2>1
<1>8. CASE Answer(r)
  <2>1. /\ UNCHANGED counters /\ run[r].pc \in Asking
        /\ run'[r].pc \in {"ask_inventory", "decide", "finish", "blocked"}
    BY <1>8 DEF Answer, SpecialistAnswers, InventoryAnswers, EscalationAnswers, RunState, Enters
  <2> QED BY <1>c, <1>d, <2>1
<1>9. CASE Decide(r)
  <2>1. /\ UNCHANGED counters \/ Incr("escalated")
        /\ At(r, "decide") /\ run'[r].pc \in {"save_escalated", "finish"}
    BY <1>9, Lands DEF Decide, RunState
  <2> QED BY <1>a, <1>b, <1>d, <2>1 DEF At
<1>10. CASE SaveEscalated(r)
  <2>1. /\ UNCHANGED counters /\ At(r, "save_escalated")
        /\ run'[r].pc \in {"ask_escalation", "blocked"}
    BY <1>10, Lands DEF SaveEscalated, Enters
  <2> QED BY <1>d, <2>1 DEF At
<1>11. CASE Finish(r)
  <2>1. UNCHANGED counters /\ At(r, "finish") /\ run'[r].pc = "count_resolved"
    BY <1>11 DEF Finish, RunState
  <2> QED BY <1>d, <2>1 DEF At
<1>12. CASE Jam(r)
  <2>1. UNCHANGED counters /\ run[r].pc \in Asking /\ run'[r].pc = "blocked"
    BY <1>12, Lands DEF Jam
  <2> QED BY <1>c, <1>d, <2>1
<1> QED BY <1>1, <1>2, <1>3, <1>4, <1>5, <1>6, <1>7, <1>8, <1>9, <1>10, <1>11, <1>12 DEF Step

\* What the steps of request r do to the registry: a run that comes to ask makes the entry,
\* only a run that leaves pops it, and only one that asks without it jams the lock.
Leaving == {"count_resolved", "save_timeout", "save_error"}

LEMMA RegistrySteps ==
    ASSUME run \in [Run -> RunState], entry \in BOOLEAN, jammed \in BOOLEAN,
           NEW r \in Run, Step(r)
    PROVE  /\ entry' \in BOOLEAN /\ jammed' \in BOOLEAN
           /\ ~jammed /\ jammed' => run[r].pc \in Asking /\ ~entry
           /\ ~jammed /\ entry /\ ~entry' => run[r].pc \in Leaving
           /\ ~jammed /\ run'[r].pc \in Asking => entry'
<1>1. CASE CreateRow(r) \/ LoadRow(r) \/ Reset(r) \/ Finish(r)
  <2>1. UNCHANGED registry /\ run'[r].pc \in {"reset", "count", "count_resolved"}
    BY <1>1, Lands DEF CreateRow, LoadRow, Reset, Finish, RunState
  <2> QED BY <2>1 DEF registry, Asking
<1>2. CASE CreateRaises(r) \/ LoadRaises(r) \/ ResetRaises(r)
  <2>1. UNCHANGED registry /\ run'[r].pc = "done"
    BY <1>2, Lands DEF CreateRaises, LoadRaises, ResetRaises
  <2> QED BY <2>1 DEF registry, Asking
<1>3. CASE WaitTimesOut(r) \/ PublishRaises(r) \/ Decide(r)
  <2>1. UNCHANGED registry /\ run'[r].pc \in {"save_timeout", "save_error", "save_escalated", "finish"}
    BY <1>3, Lands DEF WaitTimesOut, PublishRaises, Decide, RunState
  <2> QED BY <2>1 DEF registry, Asking
<1>4. CASE SaveRaises(r)
  <2>1. UNCHANGED registry /\ run'[r].pc = "save_error"
    BY <1>4 DEF SaveRaises, RunState
  <2> QED BY <2>1 DEF registry, Asking
<1>5. CASE CountQuery(r) \/ SaveEscalated(r)
  <2>1. entry' = EntryMade /\ jammed' = jammed
    BY <1>5 DEF CountQuery, SaveEscalated
  <2> QED BY <2>1 DEF EntryMade
<1>6. CASE CountResolved(r) \/ SaveFailed(r) \/ SaveFailedRaises(r)
  <2>1. /\ entry' = (jammed /\ entry) /\ jammed' = jammed /\ run[r].pc \in Leaving
        /\ run'[r].pc \in {"done", "stuck"}
    BY <1>6, Lands DEF CountResolved, SaveFailed, SaveFailedRaises, Leaves, Leaving, At
  <2> QED BY <2>1 DEF Asking
<1>7. CASE Jam(r)
  <2>1. entry' = entry /\ jammed' = TRUE /\ run[r].pc \in Asking /\ ~entry /\ run'[r].pc = "blocked"
    BY <1>7, Lands DEF Jam
  <2> QED BY <2>1 DEF Asking
<1>8. CASE Answer(r)
  <2>1. PICK m : SpecialistAnswers(r, m) \/ InventoryAnswers(r, m) \/ EscalationAnswers(r, m)
    BY <1>8 DEF Answer
  <2>2. CASE SpecialistAnswers(r, m)
    <3>1. jammed' = jammed /\ entry' = IF NeedsInventory(m) THEN EntryMade ELSE entry
      BY <2>2 DEF SpecialistAnswers
    <3>2. ~NeedsInventory(m) => run'[r].pc = "decide"
      BY <2>2 DEF SpecialistAnswers, RunState
    <3> QED BY <3>1, <3>2 DEF EntryMade, Asking
  <2>3. CASE InventoryAnswers(r, m) \/ EscalationAnswers(r, m)
    <3>1. UNCHANGED registry /\ run'[r].pc \in {"decide", "finish"}
      BY <2>3 DEF InventoryAnswers, EscalationAnswers, RunState
    <3> QED BY <3>1 DEF registry, Asking
  <2> QED BY <2>1, <2>2, <2>3
<1> QED BY <1>1, <1>2, <1>3, <1>4, <1>5, <1>6, <1>7, <1>8 DEF Step

----------------------------------------------------------------------------
(* The inductive invariant: steps of a request. *)

\* A run that left the row open, or may have.
Lapsed(r) == Broken(r) \/ At(r, "stuck")

LEMMA TypeFacts ==
    TypeOK <=> /\ intent \in Intent /\ overlap \in BOOLEAN
               /\ row \in Row \cup {None}
               /\ run \in [Run -> RunState]
               /\ counters \in [Counter -> Nat]
               /\ entry \in BOOLEAN /\ jammed \in BOOLEAN
               /\ faults \in 0 .. MaxFaults
BY DEF TypeOK, RunState, Response

LEMMA StepFacts ==
    ASSUME PipelineInv, NEW r \in Run, Step(r)
    PROVE  /\ MovesOf(r) /\ (row' = row \/ WritesOf(r)) /\ UNCHANGED given
           /\ run' \in [Run -> RunState] /\ \A q \in Run : q # r => run'[q] = run[q]
<1>1. /\ run \in [Run -> RunState] /\ row \in Row \cup {None} /\ intent \in Intent
      /\ ResultsFit
  BY TypeFacts DEF PipelineInv
<1>2. MovesOf(r) /\ \E s \in RunState : run' = [run EXCEPT ![r] = s]
  BY <1>1, RunSteps
<1>3. PICK s \in RunState : run' = [run EXCEPT ![r] = s]
  BY <1>2
<1>4. run' \in [Run -> RunState] /\ \A q \in Run : q # r => run'[q] = run[q]
  BY <1>1, <1>3
<1> QED BY <1>1, <1>2, <1>4, RowSteps

\* The steps that leave or reach a step of the pipeline.
LEMMA PcMoves ==
    ASSUME NEW r \in Run, MovesOf(r)
    PROVE  /\ run[r].pc \notin Over /\ run'[r].pc # "new"
           /\ At(r, "new") => run'[r].pc \in {"reset", "done"}
           /\ run[r].pc \notin {"blocked", "stuck"}
           /\ run'[r].pc \in {"done", "stuck"} => Quits(r)
           /\ run'[r].pc = "reset" => Opens(r)
           /\ run[r].pc \in {"count_resolved", "save_error", "save_timeout"} => Quits(r)
           /\ run'[r].pc = "count_resolved" => Resolves(r)
           /\ run'[r].pc # "dead"
BY DEF MovesOf, Opens, Quits, StartsOver, Counts, HearsSpecialist, HearsInventory, HearsEscalation,
       Blocks, GivesUp, Settles, Escalates, Refers, Resolves, Breaks, Goes, At, Over, Asking

\* The rows of the runs at work are rows.
LEMMA RowIs ==
    ASSUME PipelineInv, NEW r \in Run, Begun(r)
    PROVE  row \in Row
BY TypeFacts DEF PipelineInv, RowThere

LEMMA WriteTypes ==
    ASSUME PipelineInv, NEW r \in Run, WritesOf(r)
    PROVE  row' \in Row
<1>1. CASE At(r, "new")
  BY <1>1, FreshType DEF WritesOf, At
<1>2. CASE At(r, "reset")
  BY <1>2, RowTypes DEF WritesOf, At
<1>3. CASE At(r, "save_escalated") \/ run[r].pc \in {"save_timeout", "save_error"}
  <2>1. row \in Row
    BY <1>3, RowIs DEF Begun, At, Over
  <2> QED BY <1>3, <2>1, RowTypes DEF WritesOf, At
<1>4. CASE At(r, "finish")
  <2>1. /\ run \in [Run -> RunState] /\ intent \in Intent
        /\ Whole(intent, run[r].results, Log(r).escalated)
    BY <1>4, TypeFacts DEF PipelineInv, ResultsFit, Fits, At
  <2> QED BY <1>4, <2>1, ResolutionFacts DEF WritesOf, At
<1> QED BY <1>1, <1>2, <1>3, <1>4 DEF WritesOf

LEMMA TypeStep ==
    ASSUME PipelineInv, NEW r \in Run, Step(r)
    PROVE  TypeOK'
<1>1. /\ run \in [Run -> RunState] /\ row \in Row \cup {None} /\ intent \in Intent
      /\ overlap \in BOOLEAN /\ counters \in [Counter -> Nat] /\ faults \in 0 .. MaxFaults
      /\ entry \in BOOLEAN /\ jammed \in BOOLEAN
  BY TypeFacts DEF PipelineInv
<1>2. /\ counters' \in [Counter -> Nat] /\ faults' \in 0 .. MaxFaults
      /\ entry' \in BOOLEAN /\ jammed' \in BOOLEAN
  BY <1>1, CountSteps, FaultSteps, RegistrySteps
<1>3. /\ run' \in [Run -> RunState] /\ intent' \in Intent /\ overlap' \in BOOLEAN
  BY <1>1, StepFacts DEF given
<1>4. row' \in Row \cup {None}
  BY <1>1, StepFacts, WriteTypes
<1> QED BY <1>2, <1>3, <1>4 DEF TypeOK, RunState, Response

LEMMA RowThereStep ==
    ASSUME PipelineInv, NEW r \in Run, Step(r)
    PROVE  RowThere'
<1>1. /\ MovesOf(r) /\ (row' = row \/ WritesOf(r))
      /\ \A q \in Run : q # r => run'[q] = run[q]
  BY StepFacts
<1>2. /\ At(Query, "new") => row = None
      /\ \A q \in Run : Begun(q) => row # None
  BY DEF PipelineInv, RowThere
<1>3. row' # row => row' \in Row /\ row' # None
  BY <1>1, WriteTypes, NoneApart
<1>4. ASSUME run'[Query].pc = "new" PROVE row' = None
  <2>1. r # Query /\ At(Query, "new")
    BY <1>1, <1>4, PcMoves, PipelineAssumption DEF At
  <2>2. row = None /\ ~Begun(r)
    BY <1>2, <2>1
  <2>3. ~WritesOf(r)
    BY <2>1, <2>2 DEF WritesOf, Begun, At, Over
  <2> QED BY <1>1, <2>2, <2>3
<1>5. ASSUME NEW q \in Run, Begun(q)' PROVE row' # None
  <2>1. CASE Begun(q)
    BY <1>2, <1>3, <2>1
  <2>2. CASE ~Begun(q)
    <3>1. q = r /\ At(r, "new") /\ Opens(r)
      BY <1>1, <1>5, <2>2, PcMoves DEF Begun, At, Over
    <3>2. row' = Fresh \/ row # None
      BY <3>1 DEF Opens
    <3>3. Fresh # None
      BY FreshType, NoneApart
    <3> QED BY <1>3, <3>2, <3>3
  <2> QED BY <2>1, <2>2
<1> QED BY <1>4, <1>5 DEF RowThere, At

LEMMA ResultsStep ==
    ASSUME PipelineInv, NEW r \in Run, Step(r)
    PROVE  ResultsFit'
<1>1. MovesOf(r) /\ intent' = intent /\ \A q \in Run : q # r => run'[q] = run[q]
  BY StepFacts DEF given
<1>2. /\ intent \in Intent
      /\ \A q \in Run : Fits(run[q].pc, intent, run[q].results, run[q].log.escalated)
  BY TypeFacts DEF PipelineInv, ResultsFit, Log
<1> DEFINE Fit == Fits(run'[r].pc, intent, run'[r].results, run'[r].log.escalated)
<1>a. ASSUME Opens(r) PROVE Fit
  BY <1>2, <1>a DEF Opens, Goes, Same, Fits
<1>b. ASSUME Quits(r) PROVE Fit
  BY <1>b DEF Quits, Goes, Fits
<1>c. ASSUME StartsOver(r) PROVE Fit
  <2>1. ~ResetLog(r).escalated
    BY DEF ResetLog, Fresh
  <2> QED BY <1>2, <1>c, <2>1 DEF StartsOver, Goes, Same, Fits
<1>d. ASSUME Counts(r) PROVE Fit
  BY <1>2, <1>d DEF Counts, At, Kept, Same, Fits
<1>e. ASSUME HearsSpecialist(r) PROVE Fit
  <2>1. PICK m \in Heard(intent, intent) :
           /\ run'[r].results = <<m>> /\ run'[r].log.escalated = run[r].log.escalated
           /\ run'[r].pc \in IF NeedsInventory(m) THEN {"ask_inventory", "blocked"} ELSE {"decide"}
    BY <1>e DEF HearsSpecialist, Hears
  <2>2. ~run[r].log.escalated
    BY <1>2, <1>e DEF HearsSpecialist, At, Fits
  <2>3. CASE NeedsInventory(m)
    <3>1. intent = "refund" /\ m \in Answers("refund")
      <4>1. m # Empty /\ m \notin Strays(intent, intent)
        BY <1>2, <2>3, EmptyIsResult, StrayFacts DEF Intent, Agent
      <4> QED BY <1>2, <2>1, <2>3, <4>1, PlainFacts DEF Intent, Heard
    <3> QED BY <2>1, <2>2, <2>3, <3>1 DEF Fits, Judged
  <2>4. CASE ~NeedsInventory(m)
    <3>1. Alone(intent, <<m>>)
      BY <2>1, <2>4 DEF Alone
    <3> QED BY <2>1, <2>2, <2>4, <3>1 DEF Fits
  <2> QED BY <2>3, <2>4
<1>f. ASSUME HearsInventory(r) PROVE Fit
  <2>1. PICK n \in Heard("refund", "inventory") :
           run'[r].results = WithInventory(Append(run[r].results, n))
    BY <1>f DEF HearsInventory
  <2>2. PICK m \in Answers("refund") : Judged(intent, m) /\ run[r].results = <<m>>
    BY <1>2, <1>f DEF HearsInventory, Goes, Fits
  <2>3. m \in Result /\ n \in Result
    BY AnswerTypes, HeardTypes DEF Agent, Intent
  <2>4. run'[r].results = WithInventory(<<m, n>>)
    BY <2>1, <2>2, <2>3, StockFacts
  <2>5. Stocked(intent, run'[r].results)
    BY <2>2, <2>4 DEF Stocked
  <2>6. ~run'[r].log.escalated /\ run'[r].pc = "decide"
    BY <1>2, <1>f DEF HearsInventory, Hears, Goes, Fits
  <2> QED BY <2>5, <2>6 DEF Fits
<1>g. ASSUME HearsEscalation(r) PROVE Fit
  <2>1. PICK e \in Heard("refund", "escalation") : run'[r].results = Append(run[r].results, e)
    BY <1>g DEF HearsEscalation
  <2>2. Stocked(intent, run[r].results) /\ run[r].log.escalated
    BY <1>2, <1>g DEF HearsEscalation, Goes, Fits
  <2>3. Reviewed(intent, run'[r].results)
    BY <2>1, <2>2 DEF Stocked, Reviewed
  <2>4. run'[r].log.escalated /\ run'[r].pc = "finish"
    BY <1>g, <2>2 DEF HearsEscalation, Hears, Goes
  <2> QED BY <2>3, <2>4 DEF Fits, Whole
<1>h. ASSUME GivesUp(r) PROVE Fit
  BY <1>h DEF GivesUp, Fits
<1>n. ASSUME Blocks(r) PROVE Fit
  BY <1>n DEF Blocks, Goes, Fits
<1>i. ASSUME Settles(r) PROVE Fit
  <2>1. Alone(intent, run[r].results) /\ ~run[r].log.escalated
    BY <1>2, <1>i, StockedFacts DEF Settles, Goes, Fits
  <2> QED BY <1>i, <2>1 DEF Settles, Goes, Kept, Same, Fits, Whole
<1>j. ASSUME Escalates(r) PROVE Fit
  <2>1. Stocked(intent, run[r].results)
    BY <1>2, <1>j, AloneFacts DEF Escalates, Goes, Fits
  <2> QED BY <1>j, <2>1 DEF Escalates, Goes, Same, Fits
<1>k. ASSUME Refers(r) PROVE Fit
  BY <1>2, <1>k DEF Refers, At, Kept, Same, Fits
<1>l. ASSUME Resolves(r) PROVE Fit
  <2>1. Whole(intent, run[r].results, run[r].log.escalated)
    BY <1>2, <1>l DEF Resolves, Goes, Fits
  <2>2. Resolution(r).escalated = run[r].log.escalated
    BY <1>2, <2>1, ResolutionFacts, TypeFacts DEF PipelineInv, Log
  <2> QED BY <1>l, <2>1, <2>2 DEF Resolves, Goes, Same, Fits
<1>m. ASSUME Breaks(r) PROVE Fit
  BY <1>m DEF Breaks, Goes, Fits
<1>3. Fit
  BY <1>1, <1>a, <1>b, <1>c, <1>d, <1>e, <1>f, <1>g, <1>h, <1>i, <1>j, <1>k, <1>l, <1>m, <1>n
     DEF MovesOf
<1>4. \A q \in Run : Fits(run'[q].pc, intent', run'[q].results, run'[q].log.escalated)
  BY <1>1, <1>2, <1>3
<1> QED BY <1>4 DEF ResultsFit, Log

\* What the row says after it was written.
LEMMA WriteFields ==
    ASSUME PipelineInv, NEW r \in Run, WritesOf(r)
    PROVE  /\ run[r].pc \in {"new", "reset", "save_escalated", "finish", "save_timeout", "save_error"}
           /\ run[r].pc \in {"new", "reset"} =>
                row'.status \in {"pending", "in_progress"} /\ row'.error = None /\ Blank'
           /\ At(r, "save_escalated") =>
                /\ row'.status = "escalated" /\ row'.error = row.error
                /\ row'.final = row.final /\ row'.agents = row.agents
           /\ At(r, "finish") =>
                /\ row'.status = "resolved" /\ row'.final = r /\ row'.error = None
                /\ Whole(intent, run[r].results, row'.escalated)
                /\ row'.agents = AgentsOf(run[r].results)
                /\ row'.last = run[r].results[Len(run[r].results)].agent
           /\ run[r].pc \in {"save_timeout", "save_error"} =>
                /\ row'.status = "failed" /\ row'.error = r
                /\ row'.final = row.final /\ row'.agents = row.agents
<1>1. CASE run[r].pc \in {"new", "reset"}
  <2>1. row' = Fresh \/ row' = ResetLog(r)
    BY <1>1 DEF WritesOf, At
  <2>2. /\ Fresh.status = "pending" /\ Fresh.error = None
        /\ Fresh.final = None /\ Fresh.agents = <<>>
    BY Zenon DEF Fresh
  <2>3. /\ ResetLog(r).status = "in_progress" /\ ResetLog(r).error = None
        /\ ResetLog(r).final = None /\ ResetLog(r).agents = <<>>
    BY Zenon DEF Fresh, ResetLog
  <2> QED BY <1>1, <2>1, <2>2, <2>3 DEF Blank, At
<1>2. CASE At(r, "save_escalated")
  <2>1. row \in Row
    BY <1>2, RowIs DEF Begun, At, Over
  <2>2. row' = EscalatedRow(r)
    BY <1>2 DEF WritesOf, At
  <2>3. /\ row'.status = "escalated" /\ row'.error = row.error
        /\ row'.final = row.final /\ row'.agents = row.agents
    BY <2>1, <2>2, Zenon DEF EscalatedRow, Row
  <2> QED BY <1>2, <2>3 DEF At
<1>3. CASE At(r, "finish")
  <2>1. /\ run \in [Run -> RunState] /\ intent \in Intent
        /\ Whole(intent, run[r].results, Log(r).escalated)
    BY <1>3, TypeFacts DEF PipelineInv, ResultsFit, Fits, At
  <2>2. row' = Resolution(r)
    BY <1>3 DEF WritesOf, At
  <2>3. /\ row'.status = "resolved" /\ row'.final = r /\ row'.error = None
        /\ row'.escalated = Log(r).escalated
        /\ row'.agents = AgentsOf(run[r].results)
        /\ row'.last = run[r].results[Len(run[r].results)].agent
    BY <2>1, <2>2, ResolutionFacts
  <2>4. Whole(intent, run[r].results, row'.escalated)
    BY <2>1, <2>3
  <2> QED BY <1>3, <2>3, <2>4 DEF At
<1>4. CASE run[r].pc \in {"save_timeout", "save_error"}
  <2>1. row \in Row
    BY <1>4, RowIs DEF Begun, At, Over
  <2>2. row' = FailedRow(r)
    BY <1>4 DEF WritesOf, At
  <2>3. /\ row'.status = "failed" /\ row'.error = r
        /\ row'.final = row.final /\ row'.agents = row.agents
    BY <2>1, <2>2, Zenon DEF FailedRow, Row
  <2> QED BY <1>4, <2>3 DEF At
<1> QED BY <1>1, <1>2, <1>3, <1>4 DEF WritesOf, At

LEMMA HonestStep ==
    ASSUME PipelineInv, NEW r \in Run, Step(r)
    PROVE  RowHonest'
<1> DEFINE Ended == {"count_resolved", "save_error", "stuck"} \cup Over
           Says(q) == /\ Whole(intent, run[q].results, row.escalated)
                      /\ row.agents = AgentsOf(run[q].results)
                      /\ row.last = run[q].results[Len(run[q].results)].agent
<1>1. /\ MovesOf(r) /\ (row' = row \/ WritesOf(r)) /\ intent' = intent
      /\ \A q \in Run : q # r => run'[q] = run[q]
  BY StepFacts DEF given
<1>2. row # None =>
        /\ row.status = "failed" => row.error \in Run
        /\ row.status = "resolved" => /\ row.final \in Run /\ row.error = None
                                     /\ run[row.final].pc \in Ended /\ Says(row.final)
  BY DEF PipelineInv, RowHonest
\* The run that closed the row gets no more results.
<1>3. ASSUME NEW q \in Run, run[q].pc \in Ended
      PROVE  run'[q].results = run[q].results /\ run'[q].pc \in Ended
  <2>1. CASE q # r
    BY <1>1, <1>3, <2>1
  <2>2. CASE q = r
    <3>1. Quits(r)
      BY <1>1, <1>3, <2>2, PcMoves
    <3> QED BY <2>2, <3>1 DEF Quits, Goes, Kept, Same, Over
  <2> QED BY <2>1, <2>2
<1>4. CASE row' = row
  <2>1. ASSUME row # None, row.status = "resolved"
        PROVE  run'[row.final].pc \in Ended /\ Says(row.final)'
    <3>1. row.final \in Run /\ run[row.final].pc \in Ended /\ Says(row.final)
      BY <1>2, <2>1
    <3>2. run'[row.final].results = run[row.final].results /\ run'[row.final].pc \in Ended
      BY <1>3, <3>1
    <3> QED BY <1>1, <1>4, <3>1, <3>2
  <2> QED BY <1>2, <1>4, <2>1 DEF RowHonest
<1>5. CASE WritesOf(r)
  <2>1. row'.status = "failed" => row'.error = r
    BY <1>5, WriteFields DEF At
  <2>2. ASSUME row'.status = "resolved"
        PROVE  row'.final = r /\ row'.error = None /\ run'[r].pc \in Ended /\ Says(r)'
    <3>1. At(r, "finish")
      BY <1>5, <2>2, WriteFields DEF At
    <3>2. Resolves(r) \/ Breaks(r)
      BY <1>1, <1>5, <3>1 DEF MovesOf, WritesOf, Opens, Quits, StartsOver, Counts, HearsSpecialist,
            HearsInventory, HearsEscalation, Blocks, GivesUp, Settles, Escalates, Refers, Goes,
            At, Asking
    <3>3. run'[r].results = run[r].results /\ run'[r].pc \in Ended
      BY <3>2 DEF Resolves, Breaks, Goes, Same
    <3> QED BY <1>1, <1>5, <3>1, <3>3, WriteFields
  <2> QED BY <2>1, <2>2 DEF RowHonest
<1> QED BY <1>1, <1>4, <1>5

LEMMA SerialStep ==
    ASSUME PipelineInv, NEW r \in Run, Step(r)
    PROVE  SerialRow'
<1> SUFFICES ASSUME ~overlap PROVE SerialRow'
  BY StepFacts DEF given, SerialRow
<1> DEFINE Clear == row.status \in OpenStatus /\ row.error = None /\ Blank
<1>1. /\ MovesOf(r) /\ (row' = row \/ WritesOf(r)) /\ overlap' = overlap
      /\ \A q \in Run : q # r => run'[q] = run[q]
  BY StepFacts DEF given
<1>2. /\ \A p, q \in Run : Begun(p) /\ Begun(q) => p = q
      /\ \A q \in Run : Reopened(q) /\ run[q].db = "up" => Clear
      /\ row # None /\ row.status = "failed" => Blank
  BY DEF PipelineInv, SerialRow
\* No other run is at work while this one is, creates the row or loads it.
<1>3. ASSUME Begun(r) \/ Opens(r) \/ WritesOf(r), NEW q \in Run, q # r PROVE ~Begun(q)
  <2>1. CASE Begun(r)
    BY <1>2, <1>3, <2>1
  <2>2. CASE At(Query, "new")
    BY <2>2 DEF PipelineInv, RowThere
  <2>3. CASE ~Begun(r) /\ ~At(Query, "new")
    <3>1. Opens(r) /\ r # Query
      BY <1>3, <2>3 DEF WritesOf, Begun, At, Over, Opens, Goes
    <3>2. \A p \in Run : run[p].pc \in Over \cup {"new"}
      BY <3>1 DEF Opens
    <3> QED BY <3>2 DEF Begun
  <2> QED BY <2>1, <2>2, <2>3
<1>4. Begun(r)' => Begun(r) \/ Opens(r)
  BY <1>1, PcMoves DEF Begun, At, Over
<1>5. \A q \in Run : q # r => (Begun(q)' <=> Begun(q)) /\ (Reopened(q)' <=> Reopened(q))
  BY <1>1 DEF Begun, Owes, Reopened, At
<1>6. ASSUME NEW p \in Run, NEW q \in Run, Begun(p)', Begun(q)' PROVE p = q
  BY <1>2, <1>3, <1>4, <1>5, <1>6
<1>7. ASSUME NEW q \in Run, Reopened(q)', run'[q].db = "up" PROVE Clear'
  <2>1. CASE q # r
    <3>1. Reopened(q) /\ Begun(q) /\ run[q].db = "up"
      BY <1>1, <1>5, <1>7, <2>1 DEF Reopened, Owes
    <3>2. row' = row
      BY <1>1, <1>3, <2>1, <3>1
    <3> QED BY <1>2, <3>1, <3>2 DEF Blank
  <2>2. CASE q = r /\ StartsOver(r)
    <3>1. row'.status = "in_progress" /\ row'.error = None /\ row'.final = None
          /\ row'.agents = <<>>
      BY <2>2, Zenon DEF StartsOver, Fresh, ResetLog
    <3> QED BY <3>1 DEF Blank, OpenStatus
  <2>3. CASE q = r /\ ~StartsOver(r)
    <3>1. Reopened(r) /\ run[r].db = "up"
      BY <1>1, <1>7, <2>3 DEF MovesOf, Opens, Quits, Counts, HearsSpecialist, HearsInventory,
           HearsEscalation, Blocks, GivesUp, Settles, Escalates, Refers, Resolves, Breaks, Goes,
           At, Hears, Kept, Same, Over, Asking, Reopened, Owes, Begun
    <3>2. CASE row' = row
      BY <1>2, <3>1, <3>2 DEF Blank
    <3>3. CASE WritesOf(r)
      <4>1. run[r].pc \notin {"new", "reset"}
        BY <3>1 DEF Reopened, Owes, Begun, At
      <4>2. ~At(r, "finish")
        BY <1>7, <2>3, <3>3 DEF WritesOf, Reopened, Owes, At
      <4>3. run[r].pc \notin {"save_timeout", "save_error"}
        BY <1>1, <1>7, <2>3, PcMoves DEF Quits, Goes, Reopened, Owes, Begun, Over, At
      <4>4. At(r, "save_escalated")
        BY <3>3, <4>1, <4>2, <4>3, WriteFields DEF At
      <4>5. row'.status = "escalated" /\ row'.error = row.error /\ row'.final = row.final
            /\ row'.agents = row.agents
        BY <3>3, <4>4, WriteFields
      <4> QED BY <1>2, <3>1, <4>5 DEF Blank, OpenStatus
    <3> QED BY <1>1, <3>2, <3>3
  <2> QED BY <2>1, <2>2, <2>3
<1>8. ASSUME row' # None, row'.status = "failed" PROVE Blank'
  <2>1. CASE row' = row
    BY <1>2, <1>8, <2>1 DEF Blank
  <2>2. CASE WritesOf(r)
    <3>1. run[r].pc \in {"save_timeout", "save_error"} /\ run[r].db = "up"
      BY <1>8, <2>2, WriteFields DEF At, WritesOf
    <3>2. Reopened(r)
      BY <3>1 DEF Reopened, Owes, Begun, At, Over
    <3>3. row'.final = row.final /\ row'.agents = row.agents
      BY <2>2, <3>1, WriteFields
    <3> QED BY <1>2, <3>1, <3>2, <3>3 DEF Blank
  <2> QED BY <1>1, <2>1, <2>2
<1> QED BY <1>6, <1>7, <1>8 DEF SerialRow

LEMMA RegisteredStep ==
    ASSUME PipelineInv, NEW r \in Run, Step(r)
    PROVE  Registered'
<1> SUFFICES ASSUME ~overlap PROVE Registered'
  BY StepFacts DEF given, Registered
<1>1. \A q \in Run : q # r => run'[q] = run[q]
  BY StepFacts
<1>2. /\ run \in [Run -> RunState] /\ entry \in BOOLEAN /\ jammed \in BOOLEAN
      /\ ~jammed /\ \A q \in Run : run[q].pc \in Asking => entry
      /\ \A p, q \in Run : Begun(p) /\ Begun(q) => p = q
  BY TypeFacts DEF PipelineInv, Registered, SerialRow
<1>3. ~jammed'
  BY <1>2, RegistrySteps
<1>4. ASSUME NEW q \in Run, run'[q].pc \in Asking PROVE entry'
  <2>1. CASE q = r
    BY <1>2, <1>4, <2>1, RegistrySteps
  <2>2. CASE q # r
    <3>1. Begun(q) /\ entry
      BY <1>1, <1>2, <1>4, <2>2 DEF Begun, Asking, Over
    <3>2. ~Begun(r)
      BY <1>2, <2>2, <3>1
    <3> QED BY <1>2, <3>1, <3>2, RegistrySteps DEF Begun, Leaving, Over
  <2> QED BY <2>1, <2>2
<1> QED BY <1>3, <1>4 DEF Registered

LEMMA OwedStep ==
    ASSUME PipelineInv, NEW r \in Run, Step(r)
    PROVE  Owed'
<1>1. /\ MovesOf(r) /\ (row' = row \/ WritesOf(r))
      /\ \A q \in Run : q # r => run'[q] = run[q]
  BY StepFacts
<1>2. run \in [Run -> RunState] /\ intent \in Intent /\ faults \in 0 .. MaxFaults
  BY TypeFacts DEF PipelineInv
<1>3. /\ faults' >= faults /\ faults \in Nat /\ faults' \in Nat
      /\ faults' = 0 /\ run[r].db = "up" => run'[r].db = "up"
      /\ run'[r].pc = "done" =>
           \/ At(r, "count_resolved")
           \/ Begun(r) /\ row' = FailedRow(r)
           \/ run'[r].response = 500 /\ (faults' # 0 \/ run[r].db = "lost")
      /\ run'[r].pc = "stuck" =>
           \/ At(r, "count_resolved")
           \/ Begun(r) /\ row' = FailedRow(r)
           \/ faults' # 0 \/ run[r].db = "lost"
      /\ run'[r].pc = "count_resolved" => row' = Resolution(r)
  <2>1. MaxFaults \in Nat /\ faults \in Nat
    BY <1>2, PipelineAssumption
  <2>2. faults' \in 0 .. MaxFaults
    BY <1>2, FaultSteps
  <2>3. faults' \in Nat
    BY <2>1, <2>2
  <2> QED BY <1>2, <2>1, <2>3, FaultSteps
<1>4. /\ faults = 0 => \A q \in Run : run[q].db = "up"
      /\ row # None /\ row.status \in OpenStatus =>
             (\E q \in Run : Owes(q)) \/ (faults > 0 /\ \E q \in Run : Lapsed(q))
  BY DEF PipelineInv, Owed, Lapsed
<1>5. faults' = 0 => \A q \in Run : run'[q].db = "up"
  BY <1>1, <1>3, <1>4
\* The run that stops owing has closed the row, or could not and said so.
<1>6. ASSUME ~Owes(r)'
      PROVE  \/ At(r, "count_resolved")
             \/ row'.status \in {"resolved", "failed"}
             \/ faults' > 0 /\ Lapsed(r)'
  <2>1. run'[r].pc \in {"done", "stuck", "count_resolved"}
    BY <1>1, <1>6, PcMoves DEF Owes, Begun, At, Over
  <2>2. CASE row' = FailedRow(r) /\ Begun(r)
    <3>1. row \in Row
      BY <2>2, RowIs
    <3> QED BY <2>2, <3>1, Zenon DEF FailedRow, Row
  <2>3. CASE run'[r].pc = "done" /\ run'[r].response = 500 /\ (faults' # 0 \/ run[r].db = "lost")
    <3>1. faults' > 0
      BY <1>3, <1>4, <2>3
    <3> QED BY <2>3, <3>1 DEF Lapsed, Broken, At
  <2>5. CASE run'[r].pc = "stuck" /\ (faults' # 0 \/ run[r].db = "lost")
    <3>1. faults' > 0
      BY <1>3, <1>4, <2>5
    <3> QED BY <2>5, <3>1 DEF Lapsed, At
  <2>4. CASE run'[r].pc = "count_resolved"
    <3>1. At(r, "finish")
      BY <1>1, <2>4, PcMoves DEF Resolves, Goes, At
    <3>2. Whole(intent, run[r].results, Log(r).escalated)
      BY <3>1 DEF PipelineInv, ResultsFit, Fits, At
    <3> QED BY <1>2, <1>3, <2>4, <3>2, ResolutionFacts
  <2> QED BY <1>3, <2>1, <2>2, <2>3, <2>4, <2>5
<1>7. ASSUME row' # None, row'.status \in OpenStatus
      PROVE  (\E q \in Run : Owes(q)') \/ (faults' > 0 /\ \E q \in Run : Lapsed(q)')
  <2>1. CASE Owes(r)'
    BY <2>1
  <2>2. CASE faults' > 0 /\ Lapsed(r)'
    BY <2>2
  <2>3. CASE ~Owes(r)' /\ ~(faults' > 0 /\ Lapsed(r)')
    <3>1. At(r, "count_resolved")
      BY <1>6, <1>7, <2>3 DEF OpenStatus
    <3>2. row' = row
      BY <1>1, <3>1 DEF WritesOf, At
    <3>3. CASE \E q \in Run : Owes(q)
      <4>1. PICK q \in Run : Owes(q)
        BY <3>3
      <4>2. q # r
        BY <3>1, <4>1 DEF Owes, At
      <4> QED BY <1>1, <4>1, <4>2 DEF Owes, Begun, At
    <3>4. CASE faults > 0 /\ \E q \in Run : Lapsed(q)
      <4>1. PICK q \in Run : Lapsed(q)
        BY <3>4
      <4>2. q # r
        BY <3>1, <4>1 DEF Lapsed, Broken, At
      <4>3. Lapsed(q)'
        BY <1>1, <4>1, <4>2 DEF Lapsed, Broken, At
      <4> QED BY <1>3, <3>4, <4>3
    <3> QED BY <1>4, <1>7, <3>2, <3>3, <3>4
  <2> QED BY <2>1, <2>2, <2>3
<1> QED BY <1>5, <1>7 DEF Owed, Lapsed

LEMMA BalanceStep ==
    ASSUME PipelineInv, NEW r \in Run, Step(r)
    PROVE  Balance'
<1>1. \A q \in Run : q # r => run'[q] = run[q]
  BY StepFacts
<1>2. run \in [Run -> RunState] /\ counters \in [Counter -> Nat]
  BY TypeFacts DEF PipelineInv
<1>3. /\ counters["total"] = counters["resolved"] + counters["timeout"] + counters["error"]
                             + Cardinality(Underway)
      /\ IsFiniteSet(Underway)
  BY DEF PipelineInv, Balance, CountersBalance, Underway
<1>c. {"total", "resolved", "timeout", "error", "escalated"} = Counter
  BY DEF Counter
<1>n. {counters["total"], counters["resolved"], counters["timeout"], counters["error"]} \subseteq Nat
  BY <1>2, <1>c
<1>i. /\ Cardinality(Underway) \in Nat
      /\ r \notin Underway => /\ IsFiniteSet(Underway \cup {r})
                             /\ Cardinality(Underway \cup {r}) = Cardinality(Underway) + 1
      /\ r \in Underway => /\ IsFiniteSet(Underway \ {r})
                           /\ Cardinality(Underway \ {r}) = Cardinality(Underway) - 1
  BY <1>3, FS_CardinalityType, FS_AddElement, FS_RemoveElement
<1>s. ASSUME /\ IsFiniteSet(Underway')
             /\ counters'["total"] = counters'["resolved"] + counters'["timeout"]
                                     + counters'["error"] + Cardinality(Underway')
      PROVE  Balance'
  BY <1>s DEF Balance, CountersBalance, Underway
<1>q. {"ask_specialist", "blocked", "count_resolved"} \subseteq InFlight
      /\ {"count", "done", "stuck", "save_timeout", "save_error"} \cap InFlight = {}
  BY DEF InFlight, Asking
<1>4. CASE At(r, "count") /\ run'[r].pc \in {"ask_specialist", "blocked"} /\ Incr("total")
  <2>1. Underway' = Underway \cup {r} /\ r \notin Underway
    BY <1>1, <1>4, <1>q DEF Underway, At
  <2>2. counters'["total"] = counters["total"] + 1 /\ counters'["resolved"] = counters["resolved"]
        /\ counters'["timeout"] = counters["timeout"] /\ counters'["error"] = counters["error"]
    BY <1>2, <1>4, <1>c DEF Incr
  <2> QED BY <1>3, <1>i, <1>n, <1>s, <2>1, <2>2
<1>5. CASE At(r, "count_resolved") /\ run'[r].pc \in {"done", "stuck"} /\ Incr("resolved")
  <2>1. Underway' = Underway \ {r} /\ r \in Underway
    BY <1>1, <1>5, <1>q DEF Underway, At
  <2>2. counters'["resolved"] = counters["resolved"] + 1 /\ counters'["total"] = counters["total"]
        /\ counters'["timeout"] = counters["timeout"] /\ counters'["error"] = counters["error"]
    BY <1>2, <1>5, <1>c DEF Incr
  <2>3. IsFiniteSet(Underway') /\ Cardinality(Underway') = Cardinality(Underway) - 1
    BY <1>i, <2>1
  <2>4. counters'["total"] = counters'["resolved"] + counters'["timeout"]
                             + counters'["error"] + Cardinality(Underway')
    BY <1>3, <1>i, <1>n, <2>2, <2>3
  <2> QED BY <1>s, <2>3, <2>4
<1>6. CASE /\ run[r].pc \in InFlight \ {"count_resolved"}
           /\ run'[r].pc \in {"save_timeout", "save_error"}
           /\ Incr("timeout") \/ Incr("error")
  <2>1. Underway' = Underway \ {r} /\ r \in Underway
    BY <1>1, <1>6, <1>q DEF Underway
  <2>2. counters'["resolved"] = counters["resolved"] /\ counters'["total"] = counters["total"]
        /\ counters'["timeout"] + counters'["error"] = counters["timeout"] + counters["error"] + 1
        /\ counters'["timeout"] \in Nat /\ counters'["error"] \in Nat
    BY <1>2, <1>6, <1>c, <1>n DEF Incr
  <2> QED BY <1>3, <1>i, <1>n, <1>s, <2>1, <2>2
<1>7. CASE (run[r].pc \in InFlight <=> run'[r].pc \in InFlight) /\ (UNCHANGED counters \/ Incr("escalated"))
  <2>1. Underway' = Underway
    BY <1>1, <1>7 DEF Underway
  <2>2. counters'["resolved"] = counters["resolved"] /\ counters'["total"] = counters["total"]
        /\ counters'["timeout"] = counters["timeout"] /\ counters'["error"] = counters["error"]
    BY <1>2, <1>7, <1>c DEF Incr
  <2> QED BY <1>3, <1>s, <2>1, <2>2
<1> QED BY <1>2, <1>4, <1>5, <1>6, <1>7, CountSteps

----------------------------------------------------------------------------
(* The inductive invariant: the other steps. *)

LEMMA RestartStep ==
    ASSUME PipelineInv, Restart
    PROVE  PipelineInv'
<1>1. /\ intent \in Intent /\ overlap \in BOOLEAN /\ row \in Row \cup {None}
      /\ run \in [Run -> RunState] /\ faults \in 0 .. MaxFaults
  BY TypeFacts DEF PipelineInv
<1>2. /\ faults' = faults + 1 /\ faults < MaxFaults /\ intent' = intent /\ overlap' = overlap
      /\ row' = row /\ counters' = [n \in Counter |-> 0]
      /\ run' = [q \in Run |-> IF run[q].pc \in {"new", "done"} THEN run[q]
                               ELSE [run[q] EXCEPT !.pc = "dead"]]
      /\ entry' = FALSE /\ jammed' = FALSE
  BY DEF Restart, Fault, given
<1>3. MaxFaults \in Nat /\ faults' \in 1 .. MaxFaults
  BY <1>1, <1>2, PipelineAssumption
<1>4. ASSUME NEW q \in Run
      PROVE  /\ run'[q] \in RunState /\ run'[q].results = run[q].results
             /\ (run'[q].pc = "new" /\ run'[q] = run[q]) \/ run'[q].pc \in Over
             /\ run[q].pc = "new" => run'[q].pc = "new"
  <2>1. CASE run[q].pc \in {"new", "done"}
    BY <1>1, <1>2, <2>1 DEF Over
  <2>2. CASE run[q].pc \notin {"new", "done"}
    <3>1. run'[q] = [run[q] EXCEPT !.pc = "dead"]
      BY <1>2, <2>2
    <3>2. run[q] \in RunState /\ "dead" \in Label
      BY <1>1 DEF Label, Over
    <3>3. run'[q] \in RunState
      BY <3>1, <3>2, PcField
    <3>4. run'[q].results = run[q].results /\ run'[q].pc = "dead"
      BY <3>1, <3>2 DEF RunState
    <3> QED BY <2>2, <3>3, <3>4 DEF Over
  <2> QED BY <2>1, <2>2
<1>5. \A q \in Run : ~Begun(q)'
  BY <1>4 DEF Begun, Over
<1>6. TypeOK'
  <2>1. run' \in [Run -> RunState]
    BY <1>2, <1>4
  <2>2. counters' \in [Counter -> Nat]
    BY <1>2
  <2>3. faults' \in 0 .. MaxFaults
    BY <1>3
  <2> QED BY <1>1, <1>2, <2>1, <2>2, <2>3 DEF TypeOK, RunState, Response
<1>7. RowThere'
  <2>1. At(Query, "new")' => At(Query, "new")
    BY <1>4, PipelineAssumption DEF At, Over
  <2>2. At(Query, "new") => row = None
    BY DEF PipelineInv, RowThere
  <2> QED BY <1>2, <1>5, <2>1, <2>2 DEF RowThere
<1>8. ResultsFit'
  <2>1. \A q \in Run : Fits(run[q].pc, intent, run[q].results, run[q].log.escalated)
    BY DEF PipelineInv, ResultsFit, Log
  <2>2. \A q \in Run : Fits(run'[q].pc, intent', run'[q].results, run'[q].log.escalated)
    BY <1>2, <1>4, <2>1 DEF Fits, Over
  <2> QED BY <2>2 DEF ResultsFit, Log
<1>9. RowHonest'
  <2>1. RowHonest
    BY DEF PipelineInv
  <2>2. \A q \in Run : run[q].pc \in {"count_resolved", "save_error", "stuck"} \cup Over
                        => run'[q].pc \in Over
    BY <1>4 DEF Over
  <2>3. ASSUME row # None, row.status = "resolved"
        PROVE  /\ row.final \in Run /\ run'[row.final].pc \in Over
               /\ run'[row.final].results = run[row.final].results
    BY <1>4, <2>1, <2>2, <2>3 DEF RowHonest
  <2> QED BY <1>2, <2>1, <2>3 DEF RowHonest
<1>10. SerialRow'
  <2>1. SerialRow
    BY DEF PipelineInv
  <2> QED BY <1>2, <1>5, <2>1 DEF SerialRow, Reopened, Owes, Blank
<1>11. Owed'
  <2>1. faults' > 0 /\ faults \in Nat
    BY <1>1, <1>3
  <2>2. ASSUME row # None, row.status \in OpenStatus PROVE \E q \in Run : Broken(q)'
    <3>1. PICK q \in Run : Owes(q) \/ Broken(q) \/ At(q, "stuck")
      BY <2>2 DEF PipelineInv, Owed
    <3>2. CASE run[q].pc = "done"
      <4>1. run'[q] = run[q] /\ Broken(q)
        BY <1>2, <3>1, <3>2 DEF Owes, Begun, Over, At
      <4> QED BY <4>1 DEF Broken, At
    <3>3. CASE run[q].pc \notin {"new", "done"}
      <4>1. run'[q].pc = "dead"
        BY <1>1, <1>2, <3>3 DEF RunState
      <4> QED BY <4>1 DEF Broken, At
    <3> QED BY <3>1, <3>2, <3>3 DEF Owes, Begun, Broken, At
  <2> QED BY <1>2, <2>1, <2>2 DEF Owed
<1>13. Registered'
  BY <1>2, <1>4 DEF Registered, Asking, Over
<1>12. Balance'
  <2>1. Underway' = {}
    BY <1>4 DEF Underway, InFlight, Asking, Over
  <2>2. IsFiniteSet({}) /\ Cardinality({}) = 0
    BY FS_EmptySet
  <2>3. /\ counters'["total"] = 0 /\ counters'["resolved"] = 0 /\ counters'["timeout"] = 0
        /\ counters'["error"] = 0
    BY <1>2 DEF Counter
  <2>4. IsFiniteSet(Underway')
    BY <2>1, <2>2
  <2>5. counters'["total"] = counters'["resolved"] + counters'["timeout"] + counters'["error"]
                             + Cardinality(Underway')
    BY <2>1, <2>2, <2>3
  <2> QED BY <2>4, <2>5 DEF Balance, CountersBalance, Underway
<1> QED BY <1>6, <1>7, <1>8, <1>9, <1>10, <1>11, <1>12, <1>13 DEF PipelineInv

LEMMA StutterStep ==
    ASSUME PipelineInv, UNCHANGED vars
    PROVE  PipelineInv'
<1>1. /\ intent' = intent /\ overlap' = overlap /\ row' = row /\ run' = run
      /\ counters' = counters /\ faults' = faults /\ entry' = entry /\ jammed' = jammed
  BY DEF vars, given, registry
<1>2. TypeOK'
  BY <1>1 DEF PipelineInv, TypeOK
<1>3. RowThere' /\ ResultsFit'
  BY <1>1 DEF PipelineInv, RowThere, ResultsFit, Begun, At, Log
<1>4. RowHonest'
  BY <1>1 DEF PipelineInv, RowHonest
<1>5. SerialRow' /\ Owed'
  BY <1>1 DEF PipelineInv, SerialRow, Owed, Blank, Reopened, Owes, Broken, Begun, At
<1>6. Balance'
  BY <1>1 DEF PipelineInv, Balance, CountersBalance, Underway
<1>7. Registered'
  BY <1>1 DEF PipelineInv, Registered
<1> QED BY <1>2, <1>3, <1>4, <1>5, <1>6, <1>7 DEF PipelineInv

LEMMA InitStep ==
    ASSUME Init
    PROVE  PipelineInv
<1>1. /\ intent \in Intent /\ overlap \in BOOLEAN /\ row = None /\ faults = 0
      /\ counters = [n \in Counter |-> 0] /\ entry = FALSE /\ jammed = FALSE
  BY DEF Init, Classify, Intent
<1> DEFINE idle == [pc |-> "new", log |-> Fresh, results |-> <<>>, db |-> "up", response |-> None]
<1>2. run = [q \in Run |-> idle]
  BY DEF Init
<1>3. idle \in RunState
  <2>1. <<>> \in Seq(Result) /\ "new" \in Label /\ None \in Response
    BY DEF Label, Response
  <2> QED BY <2>1, FreshType, Zenon DEF RunState
<1>4. idle.pc = "new" /\ idle.results = <<>> /\ idle.db = "up"
  OBVIOUS
<1> HIDE DEF idle
<1>5. run \in [Run -> RunState] /\ \A q \in Run : run[q] = idle
  BY <1>2, <1>3
<1>6. \A q \in Run : At(q, "new") /\ ~Begun(q)
  BY <1>4, <1>5 DEF At, Begun
<1>7. TypeOK
  <2>1. faults \in 0 .. MaxFaults
    BY <1>1, PipelineAssumption
  <2>2. counters \in [Counter -> Nat]
    BY <1>1
  <2> QED BY <1>1, <1>5, <2>1, <2>2 DEF TypeOK, RunState, Response
<1>8. RowThere
  BY <1>1, <1>6 DEF RowThere
<1>9. ResultsFit
  BY <1>4, <1>5 DEF ResultsFit, Fits
<1>10. RowHonest
  BY <1>1 DEF RowHonest
<1>11. SerialRow
  BY <1>1, <1>6 DEF SerialRow, Reopened, Owes
<1>12. Owed
  BY <1>1, <1>4, <1>5 DEF Owed
<1>13. Balance
  <2>1. Underway = {}
    BY <1>4, <1>5 DEF Underway, InFlight, Asking
  <2>2. IsFiniteSet({}) /\ Cardinality({}) = 0
    BY FS_EmptySet
  <2>3. /\ counters["total"] = 0 /\ counters["resolved"] = 0 /\ counters["timeout"] = 0
        /\ counters["error"] = 0
    BY <1>1 DEF Counter
  <2> QED BY <2>1, <2>2, <2>3 DEF Balance, CountersBalance, Underway
<1>14. Registered
  BY <1>1, <1>4, <1>5 DEF Registered, Asking
<1> QED BY <1>7, <1>8, <1>9, <1>10, <1>11, <1>12, <1>13, <1>14 DEF PipelineInv

----------------------------------------------------------------------------
(* What the pipeline keeps, whatever its requests, its faults and their order. *)

\* run_conversation_pipeline and its views preserve PipelineInv.
THEOREM PipelineInvariance == Spec => []PipelineInv
<1>1. Init => PipelineInv
  BY InitStep
<1>2. PipelineInv /\ [Next]_vars => PipelineInv'
  <2> SUFFICES ASSUME PipelineInv, [Next]_vars PROVE PipelineInv'
    OBVIOUS
  <2>1. ASSUME NEW r \in Run, Step(r) PROVE PipelineInv'
    BY <2>1, TypeStep, RowThereStep, ResultsStep, HonestStep, SerialStep, RegisteredStep,
       OwedStep, BalanceStep DEF PipelineInv
  <2>2. CASE Restart
    BY <2>2, RestartStep
  <2>3. CASE UNCHANGED vars
    BY <2>3, StutterStep
  <2> QED BY <2>1, <2>2, <2>3, NextSteps
<1> QED BY <1>1, <1>2, PTL DEF Spec

\* The values of the variables, in every reachable state.
THEOREM PipelineTyping == Spec => []TypeOK
<1>1. PipelineInv => TypeOK
  BY DEF PipelineInv
<1> QED BY <1>1, PipelineInvariance, PTL

\* /api/metrics/ accounts for every counted query, however many are under way.
THEOREM EveryQueryCounted == Spec => []CountersBalance
<1>1. PipelineInv => CountersBalance
  BY DEF PipelineInv, Balance
<1> QED BY <1>1, PipelineInvariance, PTL

\* A row that a client reads as resolved is one run's, and complete.
THEOREM ResolvedIsWhole == Spec => []ResolvedRowWhole
<1>1. ASSUME PipelineInv PROVE ResolvedRowWhole
  <2> SUFFICES ASSUME row # None, row.status = "resolved"
               PROVE  /\ row.final # None /\ row.error = None
                      /\ LET results == run[row.final].results
                             heard == [i \in DOMAIN results |-> results[i].agent]
                         IN  /\ Len(results) = IF row.escalated THEN 3 ELSE 1
                             /\ row.last = heard[Len(results)]
                             /\ (\A i \in DOMAIN heard : heard[i] # None) => row.agents = heard
    BY DEF ResolvedRowWhole
  <2> DEFINE results == run[row.final].results
             heard == [i \in DOMAIN results |-> results[i].agent]
  <2>1. /\ row.final \in Run /\ row.error = None /\ Whole(intent, results, row.escalated)
        /\ row.agents = AgentsOf(results) /\ row.last = results[Len(results)].agent
    BY <1>1 DEF PipelineInv, RowHonest
  <2>2. row \in Row /\ intent \in Intent
    BY <1>1, TypeFacts DEF PipelineInv
  <2>3. row.escalated \in BOOLEAN
    BY <2>2 DEF Row
  <2>4. row.final # None
    BY <2>1, NoneApart
  <2> HIDE DEF results
  <2>5. /\ results \in Seq(Result) /\ Len(results) = IF row.escalated THEN 3 ELSE 1
        /\ (\A i \in DOMAIN results : results[i].agent # None) => AgentsOf(results) = heard
    BY <2>1, <2>2, <2>3, WholeFacts
  <2>6. row.last = heard[Len(results)]
    BY <2>1, <2>5
  <2>7. (\A i \in DOMAIN heard : heard[i] # None) => row.agents = heard
    BY <2>1, <2>5
  <2> QED BY <2>1, <2>4, <2>5, <2>6, <2>7 DEF results
<1> QED BY <1>1, PipelineInvariance, PTL

\* A failed row has its message and, while runs do not overlap, no answer.
THEOREM FailedIsClean == Spec => []FailedRowClean
<1>1. ASSUME PipelineInv PROVE FailedRowClean
  <2>1. row # None /\ row.status = "failed" => row.error \in Run
    BY <1>1 DEF PipelineInv, RowHonest
  <2>2. row # None /\ row.status = "failed" /\ ~overlap => Blank
    BY <1>1 DEF PipelineInv, SerialRow
  <2> QED BY <2>1, <2>2, NoneApart DEF FailedRowClean, Blank
<1> QED BY <1>1, PipelineInvariance, PTL

\* A conversation at rest is closed, unless the database or the process failed and a
\* request of it died or was answered 500.
THEOREM LeftOpenHasCause == Spec => []LeftOpenForCause
<1>1. ASSUME PipelineInv PROVE LeftOpenForCause
  <2> SUFFICES ASSUME \A r \in Run : run[r].pc \in Over \cup {"new"},
                      row # None, row.status \in OpenStatus
               PROVE  faults > 0 /\ \E r \in Run : Broken(r)
    BY DEF LeftOpenForCause
  <2>1. \A r \in Run : ~Owes(r) /\ ~At(r, "stuck")
    BY DEF Owes, Begun, At, Over
  <2> QED BY <1>1, <2>1 DEF PipelineInv, Owed
<1> QED BY <1>1, PipelineInvariance, PTL

\* requires_escalation and should_escalate never disagree.
THEOREM DecisionsAgreement == Spec => []DecisionsAgree
<1>1. ASSUME PipelineInv PROVE DecisionsAgree
  <2> SUFFICES ASSUME NEW r \in Run, At(r, "decide"), run[r].results[1].agent = "refund"
               PROVE  ShouldEscalate(run[r].results) = run[r].results[1].requires
    BY DEF DecisionsAgree
  <2> DEFINE results == run[r].results
  <2>1. intent \in Intent /\ (Alone(intent, results) \/ Stocked(intent, results))
    BY <1>1, TypeFacts DEF PipelineInv, ResultsFit, Fits, At
  <2>2. results \in Seq(Result) /\ Len(results) >= 1
    BY <2>1, AloneFacts, StockedFacts
  <2>3. results[1].requires \in BOOLEAN
    <3> HIDE DEF results
    <3>1. results[1] \in Result
      BY <2>2
    <3> QED BY <3>1, Zenon DEF Result
  <2>4. ShouldEscalate(results) <=> results[1].requires
    BY <2>1, AloneFacts, StockedFacts
  <2>5. ShouldEscalate(results) \in BOOLEAN
    BY DEF ShouldEscalate
  <2> HIDE DEF results
  <2>6. ShouldEscalate(results) = results[1].requires
    BY <2>3, <2>4, <2>5, Zenon
  <2> QED BY <2>6 DEF results
<1> QED BY <1>1, PipelineInvariance, PTL

\* No refund is granted that is not eligible, unless it was escalated.
THEOREM IneligibleEscalated == Spec => []OnlyEligibleUnescalated
<1>1. ASSUME PipelineInv PROVE OnlyEligibleUnescalated
  <2> SUFFICES ASSUME NEW r \in Run, At(r, "finish"), run[r].results[1].agent = "refund",
                      ~Log(r).escalated
               PROVE  run[r].results[1].eligible
    BY DEF OnlyEligibleUnescalated
  <2>1. intent \in Intent /\ Alone(intent, run[r].results)
    BY <1>1, TypeFacts DEF PipelineInv, ResultsFit, Fits, At, Whole
  <2> QED BY <2>1, AloneFacts
<1> QED BY <1>1, PipelineInvariance, PTL

\* The escalation agent's fixed text names the conflict the orchestrator escalated for.
THEOREM ReviewAgreement == Spec => []ReviewAgrees
<1>1. ASSUME PipelineInv PROVE ReviewAgrees
  <2> SUFFICES ASSUME NEW r \in Run, At(r, "ask_escalation")
               PROVE  Deterministic(run[r].results) =
                        IF OutOfStock(run[r].results) THEN "refund_or_credit" ELSE "goodwill"
    BY DEF ReviewAgrees
  <2> DEFINE results == run[r].results
  <2>1. Stocked(intent, results)
    BY <1>1 DEF PipelineInv, ResultsFit, Fits, At
  <2> HIDE DEF results
  <2>2. /\ results \in Seq(Result) /\ Len(results) = 2 /\ results[1].agent = "refund"
        /\ results[1].confidence < 60 /\ results[1].in_stock = results[2].in_stock
        /\ DOMAIN results = {1, 2}
    BY <2>1, StockedFacts DEF Threshold
  <2> DEFINE asked == {i \in DOMAIN results : results[i].agent = "inventory"}
  <2>3. asked = {} \/ asked = {2}
    BY <2>2
  <2>4. Min({2}) = 2
    BY DEF Min
  <2>5. StockSeen(results) = results[1].in_stock
    BY <2>2, <2>3, <2>4 DEF StockSeen
  <2>6. OutOfStock(results) <=> results[1].proposed /\ results[1].in_stock = FALSE
    BY <2>2 DEF OutOfStock
  <2>7. Goodwill(results[1])
    BY <2>2 DEF Goodwill
  <2>8. Deterministic(results) = IF OutOfStock(results) THEN "refund_or_credit" ELSE "goodwill"
    BY <2>5, <2>6, <2>7, Zenon DEF Deterministic
  <2> QED BY <2>8 DEF results
<1> QED BY <1>1, PipelineInvariance, PTL

\* A chat that fails ends in a text all the same.
THEOREM FallbackAlwaysAnswers == Spec => []FallbackAnswers
<1>1. ASSUME NEW results, NEW single \in Reply PROVE Fallback(single, results) \notin {"empty", None}
  <2>1. Deterministic(results) \in {"refund_or_credit", "goodwill", "as_found"}
    BY DEF Deterministic
  <2>2. Deterministic(results) \notin {"empty", None}
    BY <2>1, NoneDiffers
  <2> QED BY <2>2 DEF Fallback, Truthy
\* The second and the fourth message of a chat that no reply ends.
<1>0. ASSUME NEW a, NEW b, NEW c, NEW d
      PROVE  LET chat == <<a, b>> \o <<c, d>>
             IN  {2, 4} \subseteq DOMAIN chat /\ chat[2] = b /\ chat[4] = d
  OBVIOUS
<1>2. ASSUME NEW first \in Reply, NEW second \in Reply, "raises" \in {first, second},
             first \in Marked => second # "raises"
      PROVE  \E i \in DOMAIN Chat(first, second) : Chat(first, second)[i] = "raises"
  <2>1. CASE first = "raises"
    BY <1>0, <2>1 DEF Chat, Marked
  <2>2. CASE first \notin Marked /\ second = "raises"
    BY <1>0, <2>2 DEF Chat
  <2> QED BY <1>2, <2>1, <2>2 DEF Marked
<1>3. FallbackAnswers
  BY <1>1, <1>2 DEF FallbackAnswers, Escalate
<1> QED BY <1>3, PTL

\* The stock that decides about a refund is that of the order's item.
THEOREM StockIsOfOrder == Spec => []StockOfOrder
<1>1. ASSUME NEW query, NEW refund, NEW table, query.quoted = None, "ordered" \in table,
             refund.eligible \/ refund.proposed
      PROVE  LookedUp(query, FanoutItem(query, refund), table) = "ordered"
  <2>1. FanoutItem(query, refund) = "ordered"
    BY <1>1, NoneDiffers DEF FanoutItem, Or
  <2>2. Or("ordered", query.seed) = "ordered"
    BY NoneDiffers DEF Or
  <2> QED BY <1>1, <2>1, <2>2 DEF LookedUp
<1>2. StockOfOrder
  BY <1>1, Zenon DEF StockOfOrder
<1> QED BY <1>2, PTL

----------------------------------------------------------------------------
(* The row keeps what Conversation promises. *)

\* What a step makes of the row is a step of Conversation, or none at all.
LEMMA ReaderStep ==
    ASSUME PipelineInv, NEW r \in Run, Step(r)
    PROVE  [Reader!Next]_(Reader!vars)
<1>1. (row' = row \/ WritesOf(r)) /\ overlap' = overlap
  BY StepFacts DEF given
<1>2. overlap \in BOOLEAN /\ row \in Row \cup {None}
  BY TypeFacts DEF PipelineInv
<1>3. CASE row' = row
  BY <1>1, <1>3 DEF Reader!vars, RowState
<1>4. CASE WritesOf(r)
  <2>1. row' \in Row /\ row' # None
    BY <1>4, WriteTypes, NoneApart
  <2>2. /\ row'.status \in {"pending", "in_progress", "escalated"} => RowState' = "open"
        /\ row'.status = "resolved" => RowState' = "answered"
        /\ row'.status = "failed" => RowState' = "failed"
    BY <2>1 DEF RowState
  <2> DEFINE answer == IF row = None THEN None ELSE row.final
             error == IF row = None THEN None ELSE row.error
  <2>3. answer' = row'.final /\ error' = row'.error
    BY <2>1
  \* Without overlap the row is open, and blank, until the run closes it.
  <2>4. ASSUME ~overlap, run[r].pc \notin {"new", "reset"}
        PROVE  RowState = "open" /\ row.error = None /\ row.final = None
    <3>1. Reopened(r) /\ run[r].db = "up" /\ row # None
      BY <1>4, <2>4 DEF WritesOf, Reopened, Owes, Begun, At, Over, PipelineInv, RowThere
    <3>2. row.status \in OpenStatus /\ row.error = None /\ Blank
      BY <2>4, <3>1 DEF PipelineInv, SerialRow
    <3> QED BY <3>1, <3>2 DEF RowState, OpenStatus, Blank
  <2> HIDE DEF answer, error
  <2>5. CASE run[r].pc \in {"new", "reset"}
    <3>1. row'.status \in {"pending", "in_progress"} /\ row'.error = None /\ row'.final = None
      BY <1>4, <2>5, WriteFields DEF Blank
    <3>2. Reader!Ask
      BY <2>2, <2>3, <3>1 DEF Reader!Ask, answer, error
    <3> QED BY <1>1, <3>2 DEF Reader!Next
  <2>6. CASE At(r, "save_escalated")
    <3>1. row'.status = "escalated" /\ row'.error = row.error /\ row'.final = row.final
      BY <1>4, <2>6, WriteFields
    <3>2. CASE overlap
      <4>1. Reader!Overtake
        BY <2>2, <3>1, <3>2 DEF Reader!Overtake
      <4> QED BY <1>1, <4>1 DEF Reader!Next
    <3>3. CASE ~overlap
      <4>1. Reader!Ask
        BY <2>2, <2>3, <2>4, <2>6, <3>1, <3>3 DEF Reader!Ask, answer, error, At
      <4> QED BY <1>1, <4>1 DEF Reader!Next
    <3> QED BY <1>2, <3>2, <3>3
  <2>7. CASE At(r, "finish")
    <3>1. row'.status = "resolved" /\ row'.error = None /\ row'.final = r
      BY <1>4, <2>7, WriteFields
    <3>2. CASE overlap
      <4>1. Reader!Overtake
        BY <2>2, <2>3, <3>1, <3>2 DEF Reader!Overtake, answer, error
      <4> QED BY <1>1, <4>1 DEF Reader!Next
    <3>3. CASE ~overlap
      <4>1. Reader!Answer(r)
        BY <2>2, <2>3, <2>4, <2>7, <3>1, <3>3 DEF Reader!Answer, answer, error, At
      <4> QED BY <1>1, <4>1 DEF Reader!Next
    <3> QED BY <1>2, <3>2, <3>3
  <2>8. CASE run[r].pc \in {"save_timeout", "save_error"}
    <3>1. row'.status = "failed" /\ row'.error = r /\ row'.final = row.final
      BY <1>4, <2>8, WriteFields
    <3>2. CASE overlap
      <4>1. Reader!Overtake
        BY <2>2, <2>3, <3>1, <3>2 DEF Reader!Overtake, error
      <4> QED BY <1>1, <4>1 DEF Reader!Next
    <3>3. CASE ~overlap
      <4>1. Reader!Fail(r)
        BY <2>2, <2>3, <2>4, <2>8, <3>1, <3>3 DEF Reader!Fail, answer, error
      <4> QED BY <1>1, <4>1 DEF Reader!Next
    <3> QED BY <1>2, <3>2, <3>3
  <2> QED BY <1>4, <2>5, <2>6, <2>7, <2>8, WriteFields DEF At
<1> QED BY <1>1, <1>3, <1>4

\* Pipeline implements Conversation, for any number of requests, faults and restarts.
THEOREM PipelineKeepsConversation == Spec => KeepsConversation
<1>1. Init => Reader!Init
  BY DEF Init, Reader!Init, RowState
<1>2. PipelineInv /\ [Next]_vars => [Reader!Next]_(Reader!vars)
  <2> SUFFICES ASSUME PipelineInv, [Next]_vars PROVE [Reader!Next]_(Reader!vars)
    OBVIOUS
  <2>1. ASSUME NEW r \in Run, Step(r) PROVE [Reader!Next]_(Reader!vars)
    BY <2>1, ReaderStep
  <2>2. CASE Restart \/ UNCHANGED vars
    <3>1. row' = row /\ overlap' = overlap
      BY <2>2 DEF Restart, vars, given
    <3> QED BY <3>1 DEF Reader!vars, RowState
  <2> QED BY <2>1, <2>2, NextSteps
<1> QED BY <1>1, <1>2, PipelineInvariance, PTL DEF Spec, KeepsConversation, Reader!Spec

====
