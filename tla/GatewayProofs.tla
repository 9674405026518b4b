---------------------------- MODULE GatewayProofs -----------------------------
(***************************************************************************)
(* Proofs about the AI gateway, for any number of models, overlapping      *)
(* completions, fallbacks, retries and waits.                              *)
(*                                                                         *)
(* OpenSheds: the retries that calls already at a model may still make,    *)
(* and the requests it was sent since its breaker opened, are together at  *)
(* most what the calls other than the one that opened it can make; no call *)
(* joins an open model.  DurationBounded: what a completion has used and   *)
(* what its running timer may still use is covered by the candidates it    *)
(* has left behind and the attempts it has made at the present one.        *)
(***************************************************************************)
EXTENDS Gateway, FiniteSetTheorems, WellFoundedInduction, TLAPS

(* The choice of the next candidate.                                       *)

LEMMA LeastElement ==
  ASSUME NEW T \in SUBSET Nat, T # {}
  PROVE  \E x \in T : \A y \in T : x <= y
<1>. DEFINE R == {ss \in Nat \X Nat : ss[1] < ss[2]}
<1>1. IsWellFoundedOn(R, Nat)
  BY NatLessThanWellFounded DEF OpToRel
<1>. HIDE DEF R
<1>2. PICK x \in T : \A y \in T : <<y, x>> \notin R
  BY <1>1, WFMin
<1>3. \A y \in T : ~(y < x)
  BY <1>2 DEF R
<1>. QED
  BY <1>3

LEMMA LongestIsLongest ==
  /\ Longest \in Nat \ {0}
  /\ \A w \in Waits : w <= Longest
<1>1. \E w \in Waits : \A v \in Waits : v <= w
  BY GatewayAssumption DEF GatewayAssumption
<1>2. Longest \in Waits /\ \A v \in Waits : v <= Longest
  BY <1>1 DEF Longest
<1>. QED
  BY <1>2, GatewayAssumption DEF GatewayAssumption

LEMMA TimeoutType ==
  ASSUME NEW budget \in Budgets
  PROVE  CallTimeout(budget) \in Nat \ {0}
BY GatewayAssumption DEF GatewayAssumption, CallTimeout

LEMMA CandidatesType ==
  ASSUME NEW n \in Names
  PROVE  /\ Candidates(n) \in Seq(Models)
         /\ Len(Candidates(n)) = 1 + Len(FallbackModels)
<1>. DEFINE rest == [i \in DOMAIN FallbackModels |-> ResolveModel(FallbackModels[i])]
<1>1. FallbackModels \in Seq(Names)
  BY GatewayAssumption DEF GatewayAssumption
<1>2. \A i \in 1 .. Len(FallbackModels) : ResolveModel(FallbackModels[i]) \in Models
  BY <1>1 DEF Models
<1>3. rest \in Seq(Models) /\ Len(rest) = Len(FallbackModels)
  BY <1>1, <1>2
<1>4. <<ResolveModel(n)>> \in Seq(Models) /\ Len(<<ResolveModel(n)>>) = 1
  BY DEF Models
<1>. HIDE DEF rest
<1>5. <<ResolveModel(n)>> \o rest \in Seq(Models)
      /\ Len(<<ResolveModel(n)>> \o rest) = 1 + Len(FallbackModels)
  BY <1>1, <1>3, <1>4
<1>. QED
  BY <1>5 DEF Candidates, rest

Ends(c, b) ==
  /\ call' = [call EXCEPT ![c] = Idle]
  /\ breaker' = b
  /\ Count({})

Asks(c, todo, i, budget, elapsed, b) ==
  /\ ~IsOpen(b[todo[i]])
  /\ call' = [call EXCEPT ![c] = Asking(SubSeq(todo, i, Len(todo)), 0, budget, elapsed)]
  /\ breaker' = [b EXCEPT ![todo[i]] = Probed(@)]
  /\ Count({todo[i]})

\* The loop over the candidates ends the completion, or asks one whose breaker is
\* not open.
LEMMA TryNextCases ==
  ASSUME NEW c \in Calls, NEW todo \in Seq(Models), NEW budget, NEW elapsed, NEW b,
         TryNext(c, todo, budget, elapsed, b)
  PROVE  Ends(c, b) \/ \E i \in 1 .. Len(todo) : Asks(c, todo, i, budget, elapsed, b)
<1>1. CASE Available(todo, b) = {}
  BY <1>1 DEF TryNext, Ends
<1>2. CASE Available(todo, b) # {}
  <2>. DEFINE i == CHOOSE i \in Available(todo, b) : \A j \in Available(todo, b) : i <= j
  <2>1. Available(todo, b) \in SUBSET (1 .. Len(todo))
    BY DEF Available
  <2>2. \E k \in Available(todo, b) : \A j \in Available(todo, b) : k <= j
    BY <1>2, <2>1, LeastElement
  <2>3. i \in Available(todo, b)
    BY <2>2
  <2>4. /\ call' = [call EXCEPT ![c] = Asking(SubSeq(todo, i, Len(todo)), 0, budget, elapsed)]
        /\ breaker' = [b EXCEPT ![todo[i]] = Probed(@)]
        /\ Count({todo[i]})
    BY <1>2 DEF TryNext
  <2>. HIDE DEF i
  <2>5. i \in 1 .. Len(todo) /\ ~IsOpen(b[todo[i]])
    BY <2>3 DEF Available
  <2>. QED
    BY <2>4, <2>5 DEF Asks
<1>. QED
  BY <1>1, <1>2

LEMMA RestFacts ==
  ASSUME NEW todo \in Seq(Models), NEW i \in 1 .. Len(todo)
  PROVE  /\ SubSeq(todo, i, Len(todo)) \in Seq(Models) \ {<<>>}
         /\ Len(SubSeq(todo, i, Len(todo))) = Len(todo) - i + 1
         /\ Head(SubSeq(todo, i, Len(todo))) = todo[i]
         /\ todo[i] \in Models
<1>. DEFINE rest == SubSeq(todo, i, Len(todo))
<1>1. rest \in Seq(Models) /\ Len(rest) = Len(todo) - i + 1 /\ rest[1] = todo[i]
  OBVIOUS
<1>2. todo[i] \in Models
  OBVIOUS
<1>. HIDE DEF rest
<1>3. rest # <<>> /\ Head(rest) = todo[i]
  BY <1>1
<1>. QED
  BY <1>1, <1>2, <1>3 DEF rest

LEMMA AskingType ==
  ASSUME NEW todo \in Seq(Models) \ {<<>>}, NEW attempt \in 0 .. MaxRetries,
         NEW budget \in Budgets, NEW elapsed \in Nat
  PROVE  /\ Asking(todo, attempt, budget, elapsed) \in Completion
         /\ Asking(todo, attempt, budget, elapsed) # Idle
<1>1. CallTimeout(budget) \in Nat
  BY TimeoutType
<1>2. Asking(todo, attempt, budget, elapsed) \in Completion
  BY <1>1 DEF Asking, Completion
<1>3. Asking(todo, attempt, budget, elapsed).pc = "calling"
  BY DEF Asking
<1>. QED
  BY <1>2, <1>3 DEF Idle

-----------------------------------------------------------------------------
(* Type correctness.                                                       *)

LEMMA InFlightType ==
  ASSUME TypeOK, NEW c \in Calls, InFlight(c)
  PROVE  /\ call[c] \in Completion
         /\ Asked(c) \in Models
         /\ Tail(call[c].todo) \in Seq(Models)
         /\ Len(Tail(call[c].todo)) = Len(call[c].todo) - 1
BY DEF TypeOK, InFlight, Completion, Asked

LEMMA BreakerSteps ==
  ASSUME NEW b \in BreakerState
  PROVE  /\ Probed(b) \in BreakerState
         /\ AfterSuccess(b) \in BreakerState
         /\ AfterFailure(b) \in BreakerState
<1>1. Closed \in BreakerState
  BY GatewayAssumption DEF GatewayAssumption, Closed, BreakerState
<1>2. Probed(b) \in BreakerState
  BY DEF Probed, BreakerState
<1>3. ASSUME NEW x \in BreakerState PROVE Opened(x) \in BreakerState
  <2>. DEFINE y == [x EXCEPT !.state = "open"]
  <2>1. y \in BreakerState
    BY DEF BreakerState
  <2>2. Cooldown \in 0 .. Cooldown
    BY GatewayAssumption DEF GatewayAssumption
  <2>3. Opened(x) = [y EXCEPT !.left = Cooldown]
    BY DEF Opened
  <2>. HIDE DEF y
  <2>. QED
    BY <2>1, <2>2, <2>3 DEF BreakerState
<1>4. ASSUME NEW n \in 0 .. FailureThreshold
      PROVE  [b EXCEPT !.failures = n] \in BreakerState
  BY DEF BreakerState
<1>. DEFINE n == IF b.failures < FailureThreshold THEN b.failures + 1 ELSE b.failures
<1>5. n \in 0 .. FailureThreshold
  BY GatewayAssumption DEF GatewayAssumption, BreakerState
<1>6. AfterFailure(b) \in {[b EXCEPT !.failures = n], Opened([b EXCEPT !.failures = n])}
  BY DEF AfterFailure
<1>. QED
  BY <1>1, <1>2, <1>3, <1>4, <1>5, <1>6 DEF AfterSuccess

LEMMA CountType ==
  ASSUME TypeOK, NEW S, Count(S)
  PROVE  probes' \in [Models -> Nat]
BY DEF TypeOK, Count

LEMMA TryNextType ==
  ASSUME TypeOK, NEW c \in Calls, NEW todo \in Seq(Models), NEW budget \in Budgets,
         NEW elapsed \in Nat, NEW b \in [Models -> BreakerState],
         TryNext(c, todo, budget, elapsed, b)
  PROVE  TypeOK'
<1>1. CASE Ends(c, b)
  BY <1>1, CountType DEF TypeOK, Ends
<1>2. ASSUME NEW i \in 1 .. Len(todo), Asks(c, todo, i, budget, elapsed, b)
      PROVE  TypeOK'
  <2>1. call' \in [Calls -> {Idle} \cup Completion]
    <3>1. 0 \in 0 .. MaxRetries
      BY GatewayAssumption DEF GatewayAssumption
    <3>2. Asking(SubSeq(todo, i, Len(todo)), 0, budget, elapsed) \in Completion
      BY <3>1, RestFacts, AskingType
    <3>. QED
      BY <1>2, <3>2 DEF TypeOK, Asks
  <2>2. breaker' \in [Models -> BreakerState]
    BY <1>2, RestFacts, BreakerSteps DEF Asks
  <2>. QED
    BY <1>2, <2>1, <2>2, CountType DEF TypeOK, Asks
<1>. QED
  BY <1>1, <1>2, TryNextCases

LEMMA TypeInit == Init => TypeOK
<1>1. Closed \in BreakerState
  BY GatewayAssumption DEF GatewayAssumption, Closed, BreakerState
<1>. QED
  BY <1>1 DEF Init, TypeOK

LEMMA TypeNext == TypeOK /\ [Next]_vars => TypeOK'
<1>. SUFFICES ASSUME TypeOK, [Next]_vars PROVE TypeOK'
  OBVIOUS
<1>1. ASSUME NEW c \in Calls, NEW n \in Names, NEW budget \in Budgets,
             Complete(c, n, budget)
      PROVE  TypeOK'
  BY <1>1, CandidatesType, TryNextType DEF Complete, TypeOK
<1>2. ASSUME NEW c \in Calls, Success(c) PROVE TypeOK'
  <2>1. Asked(c) \in Models
    BY <1>2, InFlightType DEF Success
  <2>2. breaker' \in [Models -> BreakerState]
    BY <1>2, <2>1, BreakerSteps DEF Success, TypeOK
  <2>3. call' \in [Calls -> {Idle} \cup Completion]
    BY <1>2 DEF Success, TypeOK
  <2>. QED
    BY <1>2, <2>2, <2>3, CountType DEF Success, TypeOK
<1>3. ASSUME NEW c \in Calls, Retry(c) PROVE TypeOK'
  <2>1. PICK w \in Waits : call' = [call EXCEPT ![c].pc = "sleeping", ![c].timer = w]
    BY <1>3 DEF Retry
  <2>2. w \in Nat
    BY GatewayAssumption DEF GatewayAssumption
  <2>3. call[c] \in Completion
    BY <1>3, InFlightType DEF Retry
  <2>4. [call[c] EXCEPT !.pc = "sleeping", !.timer = w] \in Completion
    BY <1>3, <2>2, <2>3 DEF Completion, Retry
  <2>5. call' = [call EXCEPT ![c] = [call[c] EXCEPT !.pc = "sleeping", !.timer = w]]
    BY <2>1 DEF TypeOK
  <2>. QED
    BY <1>3, <2>4, <2>5 DEF Retry, TypeOK
<1>4. ASSUME NEW c \in Calls, Resume(c) PROVE TypeOK'
  <2>. DEFINE x == call[c]
  <2>1. x \in Completion /\ x.attempt < MaxRetries
    BY <1>4, InFlightType DEF Resume, Completion
  <2>2. /\ x.todo \in Seq(Models) \ {<<>>} /\ x.attempt + 1 \in 0 .. MaxRetries
        /\ x.budget \in Budgets /\ x.elapsed \in Nat
    BY <2>1, GatewayAssumption DEF Completion, GatewayAssumption
  <2>3. call' = [call EXCEPT ![c] = Asking(x.todo, x.attempt + 1, x.budget, x.elapsed)]
    BY <1>4 DEF Resume
  <2>. HIDE DEF x
  <2>4. call' \in [Calls -> {Idle} \cup Completion]
    BY <2>2, <2>3, AskingType DEF TypeOK
  <2>5. breaker' = breaker /\ probes' \in [Models -> Nat]
    BY <1>4, CountType DEF Resume
  <2>. QED
    BY <2>4, <2>5 DEF TypeOK
<1>5. ASSUME NEW c \in Calls, Fail(c) PROVE TypeOK'
  <2>1. /\ call[c] \in Completion /\ Asked(c) \in Models
        /\ Tail(call[c].todo) \in Seq(Models)
    BY <1>5, InFlightType DEF Fail
  <2>2. call[c].budget \in Budgets /\ call[c].elapsed \in Nat
    BY <2>1 DEF Completion
  <2>3. [breaker EXCEPT ![Asked(c)] = AfterFailure(@)] \in [Models -> BreakerState]
    BY <2>1, BreakerSteps DEF TypeOK
  <2>. QED
    BY <1>5, <2>1, <2>2, <2>3, TryNextType DEF Fail
<1>6. CASE Tick
  <2>1. ASSUME NEW c \in Calls, InFlight(c)
        PROVE  [call[c] EXCEPT !.timer = @ - 1, !.elapsed = @ + 1] \in Completion
    <3>. DEFINE x == call[c]
                y == [x EXCEPT !.timer = x.timer - 1]
                z == [y EXCEPT !.elapsed = y.elapsed + 1]
    <3>1. x \in Completion /\ x.timer > 0
      BY <1>6, <2>1, InFlightType DEF Tick
    <3>2. [call[c] EXCEPT !.timer = @ - 1, !.elapsed = @ + 1] = z
      OBVIOUS
    <3>. HIDE DEF x
    <3>3. y \in Completion
      BY <3>1 DEF Completion
    <3>. HIDE DEF y
    <3>4. z \in Completion
      BY <3>3 DEF Completion
    <3>. QED
      BY <3>2, <3>4
  <2>2. call' \in [Calls -> {Idle} \cup Completion]
    BY <1>6, <2>1 DEF Tick, TypeOK
  <2>3. ASSUME NEW m \in Models, breaker[m].left > 0
        PROVE  [breaker[m] EXCEPT !.left = @ - 1] \in BreakerState
    <3>. DEFINE b == breaker[m]
    <3>1. b \in BreakerState /\ b.left > 0
      BY <2>3 DEF TypeOK
    <3>2. [breaker[m] EXCEPT !.left = @ - 1] = [b EXCEPT !.left = b.left - 1]
      OBVIOUS
    <3>. HIDE DEF b
    <3>. QED
      BY <3>1, <3>2, GatewayAssumption DEF GatewayAssumption, BreakerState
  <2>4. breaker' \in [Models -> BreakerState]
    BY <1>6, <2>3 DEF Tick, TypeOK
  <2>. QED
    BY <1>6, <2>2, <2>4 DEF Tick, TypeOK
<1>7. CASE UNCHANGED vars
  BY <1>7 DEF vars, TypeOK
<1>. QED
  BY <1>1, <1>2, <1>3, <1>4, <1>5, <1>6, <1>7 DEF Next

\* Type correctness of the gateway: in particular no request follows the last
\* attempt, and a completion in flight always has a model to ask.
THEOREM GatewayTypeCorrect == Spec => []TypeOK
BY TypeInit, TypeNext, PTL DEF Spec

-----------------------------------------------------------------------------
(* The breakers.                                                           *)

BreakerRight(b) ==
  /\ b.state = "closed" <=> b.failures < FailureThreshold
  /\ b.left > 0 => b.state = "open"

LEMMA BreakerStepsRight ==
  ASSUME NEW b \in BreakerState, BreakerRight(b)
  PROVE  /\ BreakerRight(Probed(b))
         /\ BreakerRight(AfterSuccess(b))
         /\ BreakerRight(AfterFailure(b))
<1>1. BreakerRight(Probed(b))
  BY DEF BreakerRight, Probed, BreakerState
<1>2. BreakerRight(AfterSuccess(b))
  BY GatewayAssumption DEF GatewayAssumption, BreakerRight, AfterSuccess, Closed
<1>. DEFINE n == IF b.failures < FailureThreshold THEN b.failures + 1 ELSE b.failures
            counted == [b EXCEPT !.failures = n]
<1>3. n \in 0 .. FailureThreshold
      /\ (n >= FailureThreshold => n = FailureThreshold)
      /\ (b.failures >= FailureThreshold => n = b.failures)
  BY GatewayAssumption DEF GatewayAssumption, BreakerState
<1>4. AfterFailure(b) = IF b.state = "half_open" \/ (n >= FailureThreshold /\ b.state = "closed")
                        THEN Opened(counted) ELSE counted
  BY DEF AfterFailure
<1>5. counted.failures = n /\ counted.state = b.state /\ counted.left = b.left
  BY DEF BreakerState
<1>6. /\ Opened(counted).failures = n /\ Opened(counted).state = "open"
      /\ Opened(counted).left = Cooldown
  BY <1>5 DEF BreakerState, Opened
<1>. HIDE DEF n, counted
<1>7. b.failures \in 0 .. FailureThreshold /\ b.left \in 0 .. Cooldown
      /\ b.state \in {"closed", "open", "half_open"}
  BY DEF BreakerState
<1>8. BreakerRight(AfterFailure(b))
  <2>1. CASE b.state = "half_open" \/ (n >= FailureThreshold /\ b.state = "closed")
    BY <1>3, <1>4, <1>6, <1>7, <2>1, GatewayAssumption DEF GatewayAssumption, BreakerRight
  <2>2. CASE ~(b.state = "half_open" \/ (n >= FailureThreshold /\ b.state = "closed"))
    BY <1>3, <1>4, <1>5, <1>7, <2>2, GatewayAssumption DEF GatewayAssumption, BreakerRight
  <2>. QED
    BY <2>1, <2>2
<1>. QED
  BY <1>1, <1>2, <1>8

LEMMA TryNextRight ==
  ASSUME TypeOK, NEW c \in Calls, NEW todo \in Seq(Models), NEW budget \in Budgets,
         NEW elapsed \in Nat, NEW b \in [Models -> BreakerState],
         \A m \in Models : BreakerRight(b[m]),
         TryNext(c, todo, budget, elapsed, b)
  PROVE  \A m \in Models : BreakerRight(breaker'[m])
<1>1. CASE Ends(c, b)
  BY <1>1 DEF Ends
<1>2. ASSUME NEW i \in 1 .. Len(todo), Asks(c, todo, i, budget, elapsed, b)
      PROVE  \A m \in Models : BreakerRight(breaker'[m])
  <2>1. ASSUME NEW m \in Models PROVE breaker'[m] \in {b[m], Probed(b[m])}
    BY <1>2, RestFacts DEF Asks
  <2>2. ASSUME NEW m \in Models PROVE BreakerRight(Probed(b[m]))
    BY BreakerStepsRight
  <2>. QED
    BY <2>1, <2>2
<1>. QED
  BY <1>1, <1>2, TryNextCases

LEMMA CountsNext ==
  TypeOK /\ BreakerCounts /\ [Next]_vars => BreakerCounts'
<1>. SUFFICES ASSUME TypeOK, BreakerCounts, [Next]_vars PROVE BreakerCounts'
  OBVIOUS
<1>. SUFFICES \A m \in Models : BreakerRight(breaker'[m])
  BY DEF BreakerCounts, BreakerRight
<1>1. \A m \in Models : breaker[m] \in BreakerState /\ BreakerRight(breaker[m])
  BY DEF TypeOK, BreakerCounts, BreakerRight
<1>2. ASSUME NEW c \in Calls, NEW n \in Names, NEW budget \in Budgets,
             Complete(c, n, budget)
      PROVE  \A m \in Models : BreakerRight(breaker'[m])
  BY <1>1, <1>2, CandidatesType, TryNextRight DEF Complete, TypeOK
<1>3. ASSUME NEW c \in Calls, Success(c)
      PROVE  \A m \in Models : BreakerRight(breaker'[m])
  <2>1. breaker' = [breaker EXCEPT ![Asked(c)] = AfterSuccess(@)]
    BY <1>3 DEF Success
  <2>2. \A m \in Models : breaker'[m] \in {breaker[m], AfterSuccess(breaker[m])}
    BY <2>1 DEF TypeOK
  <2>3. ASSUME NEW m \in Models PROVE BreakerRight(AfterSuccess(breaker[m]))
    BY <1>1, BreakerStepsRight
  <2>. QED
    BY <1>1, <2>2, <2>3
<1>4. ASSUME NEW c \in Calls, Retry(c) \/ Resume(c)
      PROVE  \A m \in Models : BreakerRight(breaker'[m])
  BY <1>1, <1>4 DEF Retry, Resume
<1>5. ASSUME NEW c \in Calls, Fail(c)
      PROVE  \A m \in Models : BreakerRight(breaker'[m])
  <2>. DEFINE b == [breaker EXCEPT ![Asked(c)] = AfterFailure(@)]
  <2>1. /\ call[c] \in Completion /\ Asked(c) \in Models
        /\ Tail(call[c].todo) \in Seq(Models)
    BY <1>5, InFlightType DEF Fail
  <2>2. call[c].budget \in Budgets /\ call[c].elapsed \in Nat
    BY <2>1 DEF Completion
  <2>3. ASSUME NEW m \in Models
        PROVE  b[m] \in BreakerState /\ BreakerRight(b[m])
    <3>1. b[m] \in {breaker[m], AfterFailure(breaker[m])}
      BY <2>1 DEF TypeOK
    <3>2. AfterFailure(breaker[m]) \in BreakerState /\ BreakerRight(AfterFailure(breaker[m]))
      BY <1>1, BreakerSteps, BreakerStepsRight
    <3>. QED
      BY <1>1, <3>1, <3>2
  <2>4. TryNext(c, Tail(call[c].todo), call[c].budget, call[c].elapsed, b)
    BY <1>5 DEF Fail
  <2>5. b \in [Models -> BreakerState]
    BY <2>3 DEF TypeOK
  <2>. HIDE DEF b
  <2>. QED
    BY <2>1, <2>2, <2>3, <2>4, <2>5, TryNextRight
<1>6. CASE Tick
  <2>1. ASSUME NEW m \in Models
        PROVE  breaker'[m] = IF breaker[m].left > 0
                             THEN [breaker[m] EXCEPT !.left = @ - 1] ELSE breaker[m]
    BY <1>6 DEF Tick
  <2>2. ASSUME NEW b \in BreakerState, BreakerRight(b), b.left > 0
        PROVE  BreakerRight([b EXCEPT !.left = @ - 1])
    BY <2>2 DEF BreakerRight, BreakerState
  <2>. QED
    BY <1>1, <2>1, <2>2
<1>7. CASE UNCHANGED vars
  BY <1>1, <1>7 DEF vars
<1>. QED
  BY <1>2, <1>3, <1>4, <1>5, <1>6, <1>7 DEF Next

\* However the answers of overlapping completions are ordered, a breaker is closed
\* exactly while fewer failures than the threshold have come in since the last
\* success, and only an open one is cooling down.
THEOREM GatewayBreakerCounts == Spec => []BreakerCounts
<1>1. Init => BreakerCounts
  BY GatewayAssumption DEF GatewayAssumption, Init, BreakerCounts, Closed
<1>. QED
  BY <1>1, CountsNext, GatewayTypeCorrect, PTL DEF Spec

-----------------------------------------------------------------------------
(* Shedding load.                                                          *)

\* The retries still open to the completions that are at model m.
RetriesLeft(m) ==
  {p \in Calls \X (1 .. MaxRetries) :
     InFlight(p[1]) /\ Asked(p[1]) = m /\ call[p[1]].attempt < p[2]}

\* At an open breaker, what was sent to the model since it opened and what the
\* completions there may still send it.
Sheds(m) ==
  IF breaker[m].state = "open"
  THEN Cardinality(RetriesLeft(m)) + probes[m] <= MaxRetries * (Cardinality(Calls) - 1)
  ELSE probes[m] = 0

SheddingInv == \A m \in Models : Sheds(m)

LEMMA RetriesFinite ==
  ASSUME NEW m
  PROVE  IsFiniteSet(RetriesLeft(m)) /\ Cardinality(RetriesLeft(m)) \in Nat
<1>1. IsFiniteSet(Calls) /\ IsFiniteSet(1 .. MaxRetries)
  BY FS_Interval, GatewayAssumption DEF GatewayAssumption
<1>2. IsFiniteSet(Calls \X (1 .. MaxRetries))
  BY <1>1, FS_Product
<1>3. RetriesLeft(m) \subseteq Calls \X (1 .. MaxRetries)
  BY DEF RetriesLeft
<1>4. IsFiniteSet(RetriesLeft(m))
  BY <1>2, <1>3, FS_Subset
<1>. QED
  BY <1>4, FS_CardinalityType

\* The completions other than c have so many retries in all.
LEMMA OthersRetries ==
  ASSUME NEW c \in Calls, NEW S, S \subseteq (Calls \ {c}) \X (1 .. MaxRetries)
  PROVE  /\ Cardinality(S) \in Nat
         /\ Cardinality(S) <= MaxRetries * (Cardinality(Calls) - 1)
<1>. DEFINE others == Calls \ {c}
<1>1. IsFiniteSet(Calls) /\ MaxRetries \in Nat
  BY GatewayAssumption DEF GatewayAssumption
<1>2. IsFiniteSet(others) /\ Cardinality(others) = Cardinality(Calls) - 1
  BY <1>1, FS_RemoveElement
<1>3. IsFiniteSet(1 .. MaxRetries) /\ Cardinality(1 .. MaxRetries) = MaxRetries
  BY <1>1, FS_Interval
<1>. HIDE DEF others
<1>4. /\ IsFiniteSet(others \X (1 .. MaxRetries))
      /\ Cardinality(others \X (1 .. MaxRetries)) = Cardinality(others) * MaxRetries
  BY <1>2, <1>3, FS_Product
<1>5. IsFiniteSet(S) /\ Cardinality(S) <= Cardinality(others \X (1 .. MaxRetries))
  BY <1>4, FS_Subset DEF others
<1>6. Cardinality(others) \in Nat /\ Cardinality(S) \in Nat
  BY <1>2, <1>5, FS_CardinalityType
<1>. DEFINE k == Cardinality(others)
<1>7. k * MaxRetries = MaxRetries * k
  BY <1>1, <1>6
<1>. QED
  BY <1>2, <1>4, <1>5, <1>6, <1>7

\* A model at which no completion arrives and which is sent nothing keeps the
\* invariant, if it was open before.
LEMMA ShedsFrame ==
  ASSUME SheddingInv, TypeOK, NEW m \in Models,
         RetriesLeft(m)' \subseteq RetriesLeft(m), probes'[m] = probes[m],
         breaker[m].state = "open"
  PROVE  Cardinality(RetriesLeft(m)') + probes'[m] <= MaxRetries * (Cardinality(Calls) - 1)
<1>. DEFINE R == RetriesLeft(m)
            Q == RetriesLeft(m)'
            bound == MaxRetries * (Cardinality(Calls) - 1)
<1>1. IsFiniteSet(R) /\ Cardinality(R) \in Nat /\ Q \subseteq R
  BY RetriesFinite
<1>2. Cardinality(R) + probes[m] <= bound
  BY DEF SheddingInv, Sheds
<1>3. probes[m] \in Nat /\ bound \in Int
  <2>1. Cardinality(Calls) \in Nat /\ MaxRetries \in Nat
    BY FS_CardinalityType, GatewayAssumption DEF GatewayAssumption
  <2>. QED
    BY <2>1 DEF TypeOK
<1>4. Cardinality(Q) <= Cardinality(R) /\ Cardinality(Q) \in Nat
  BY <1>1, FS_Subset, FS_CardinalityType
<1>. HIDE DEF R, Q, bound
<1>5. Cardinality(Q) + probes[m] <= bound
  BY <1>1, <1>2, <1>3, <1>4
<1>. QED
  BY <1>5 DEF Q, bound

\* The step that moves completion c to candidate i, or ends it: whatever model is
\* open afterwards was open or opened by b, was sent nothing, and c is not there.
LEMMA TryNextSheds ==
  ASSUME TypeOK, NEW c \in Calls, NEW todo \in Seq(Models), NEW budget \in Budgets,
         NEW elapsed \in Nat, NEW b \in [Models -> BreakerState],
         TryNext(c, todo, budget, elapsed, b),
         NEW m \in Models, breaker'[m].state = "open"
  PROVE  /\ b[m].state = "open"
         /\ probes'[m] = IF breaker[m].state = "open" THEN probes[m] ELSE 0
         /\ RetriesLeft(m)' \subseteq RetriesLeft(m)
         /\ RetriesLeft(m)' \subseteq (Calls \ {c}) \X (1 .. MaxRetries)
<1>1. CASE Ends(c, b)
  <2>1. call' = [call EXCEPT ![c] = Idle] /\ breaker' = b /\ Count({})
    BY <1>1 DEF Ends
  <2>2. probes'[m] = IF breaker[m].state = "open" THEN probes[m] ELSE 0
    BY <2>1 DEF Count, TypeOK
  <2>3. ASSUME NEW d \in Calls, InFlight(d)'
        PROVE  d # c /\ call'[d] = call[d]
    BY <2>1, <2>3 DEF InFlight, TypeOK
  <2>. QED
    BY <2>1, <2>2, <2>3 DEF RetriesLeft, InFlight, Asked
<1>2. ASSUME NEW i \in 1 .. Len(todo), Asks(c, todo, i, budget, elapsed, b)
      PROVE  /\ b[m].state = "open"
             /\ probes'[m] = IF breaker[m].state = "open" THEN probes[m] ELSE 0
             /\ RetriesLeft(m)' \subseteq RetriesLeft(m)
             /\ RetriesLeft(m)' \subseteq (Calls \ {c}) \X (1 .. MaxRetries)
  <2>. DEFINE x == Asking(SubSeq(todo, i, Len(todo)), 0, budget, elapsed)
  <2>1. /\ ~IsOpen(b[todo[i]])
        /\ call' = [call EXCEPT ![c] = x]
        /\ breaker' = [b EXCEPT ![todo[i]] = Probed(@)]
        /\ Count({todo[i]})
    BY <1>2 DEF Asks
  <2>2. todo[i] \in Models /\ Head(x.todo) = todo[i]
    BY RestFacts DEF Asking
  <2>3. Probed(b[todo[i]]).state # "open"
    <3>1. b[todo[i]] \in BreakerState
      BY <2>2
    <3>. QED
      BY <2>1, <3>1 DEF IsOpen, Probed, BreakerState
  <2>4. m # todo[i] /\ breaker'[m] = b[m]
    BY <2>1, <2>2, <2>3
  <2>5. probes'[m] = IF breaker[m].state = "open" THEN probes[m] ELSE 0
    BY <2>1, <2>4 DEF Count, TypeOK
  <2>6. call'[c] = x /\ \A d \in Calls \ {c} : call'[d] = call[d]
    BY <2>1 DEF TypeOK
  <2>. HIDE DEF x
  <2>7. ASSUME NEW d \in Calls, Asked(d)' = m
        PROVE  d # c /\ call'[d] = call[d]
    BY <2>2, <2>4, <2>6, <2>7 DEF Asked
  <2>. QED
    BY <2>4, <2>5, <2>7 DEF RetriesLeft, InFlight, Asked
<1>. QED
  BY <1>1, <1>2, TryNextCases

\* A step that moves no completion and leaves the breaker of m in its state.
LEMMA ShedsStill ==
  ASSUME SheddingInv, TypeOK, NEW m \in Models,
         RetriesLeft(m)' \subseteq RetriesLeft(m), probes'[m] = probes[m],
         breaker'[m].state = breaker[m].state
  PROVE  Sheds(m)'
BY ShedsFrame DEF SheddingInv, Sheds

LEMMA TryNextShedding ==
  ASSUME TypeOK, SheddingInv, NEW c \in Calls, NEW todo \in Seq(Models),
         NEW budget \in Budgets, NEW elapsed \in Nat,
         NEW b \in [Models -> BreakerState], TryNext(c, todo, budget, elapsed, b),
         NEW m \in Models
  PROVE  Sheds(m)'
<1>1. CASE breaker'[m].state # "open"
  <2>1. Count({}) \/ \E i \in 1 .. Len(todo) : Count({todo[i]})
    BY TryNextCases DEF Ends, Asks
  <2>2. probes'[m] = 0
    BY <1>1, <2>1 DEF Count
  <2>. QED
    BY <1>1, <2>2 DEF Sheds
<1>2. CASE breaker'[m].state = "open" /\ breaker[m].state = "open"
  BY <1>2, TryNextSheds, ShedsFrame DEF Sheds
<1>3. CASE breaker'[m].state = "open" /\ breaker[m].state # "open"
  <2>1. probes'[m] = 0 /\ RetriesLeft(m)' \subseteq (Calls \ {c}) \X (1 .. MaxRetries)
    BY <1>3, TryNextSheds
  <2>2. Cardinality(RetriesLeft(m)') <= MaxRetries * (Cardinality(Calls) - 1)
    BY <2>1, OthersRetries
  <2>3. Cardinality(RetriesLeft(m)') \in Nat
    BY <2>1, OthersRetries
  <2>. QED
    BY <1>3, <2>1, <2>2, <2>3 DEF Sheds
<1>. QED
  BY <1>1, <1>2, <1>3

LEMMA SheddingNext ==
  TypeOK /\ SheddingInv /\ [Next]_vars => SheddingInv'
<1>. SUFFICES ASSUME TypeOK, SheddingInv, [Next]_vars, NEW m \in Models
              PROVE  Sheds(m)'
  BY DEF SheddingInv, Sheds
<1>1. ASSUME NEW c \in Calls, NEW n \in Names, NEW budget \in Budgets,
             Complete(c, n, budget)
      PROVE  Sheds(m)'
  BY <1>1, CandidatesType, TryNextShedding DEF Complete, TypeOK
<1>2. ASSUME NEW c \in Calls, Success(c)
      PROVE  Sheds(m)'
  <2>1. /\ breaker' = [breaker EXCEPT ![Asked(c)] = AfterSuccess(@)]
        /\ call' = [call EXCEPT ![c] = Idle]
        /\ Count({})
    BY <1>2 DEF Success
  <2>2. CASE m = Asked(c)
    <3>1. breaker'[m].state = "closed"
      BY <2>1, <2>2 DEF AfterSuccess, Closed, TypeOK
    <3>. QED
      BY <2>1, <3>1 DEF Count, Sheds
  <2>3. CASE m # Asked(c)
    <3>1. breaker'[m] = breaker[m]
      BY <2>1, <2>3 DEF TypeOK
    <3>2. probes'[m] = probes[m]
      BY <2>1, <3>1 DEF Count, TypeOK, SheddingInv, Sheds
    <3>3. ASSUME NEW d \in Calls, InFlight(d)'
          PROVE  call'[d] = call[d]
      BY <2>1, <3>3 DEF InFlight, TypeOK
    <3>4. RetriesLeft(m)' \subseteq RetriesLeft(m)
      BY <3>3 DEF RetriesLeft, InFlight, Asked
    <3>. QED
      BY <3>1, <3>2, <3>4, ShedsStill
  <2>. QED
    BY <2>2, <2>3
<1>3. ASSUME NEW c \in Calls, Retry(c)
      PROVE  Sheds(m)'
  <2>1. PICK w \in Waits : call' = [call EXCEPT ![c].pc = "sleeping", ![c].timer = w]
    BY <1>3 DEF Retry
  <2>2. InFlight(c) /\ call[c] \in Completion
    BY <1>3, InFlightType DEF Retry
  <2>3. call'[c].todo = call[c].todo /\ call'[c].attempt = call[c].attempt
    BY <2>1, <2>2 DEF TypeOK, Completion
  <2>4. \A d \in Calls \ {c} : call'[d] = call[d]
    BY <2>1 DEF TypeOK
  <2>5. RetriesLeft(m)' \subseteq RetriesLeft(m)
    BY <2>2, <2>3, <2>4 DEF RetriesLeft, InFlight, Asked
  <2>. QED
    BY <1>3, <2>5, ShedsStill DEF Retry
<1>4. ASSUME NEW c \in Calls, Resume(c)
      PROVE  Sheds(m)'
  <2>. DEFINE k == call[c].attempt + 1
  <2>1. /\ InFlight(c) /\ call[c] \in Completion /\ k \in 1 .. MaxRetries
        /\ breaker' = breaker /\ Count({Asked(c)})
    BY <1>4, InFlightType, GatewayAssumption DEF Resume, Completion, GatewayAssumption
  <2>2. /\ call'[c].todo = call[c].todo /\ call'[c].attempt = k
        /\ \A d \in Calls \ {c} : call'[d] = call[d]
    BY <1>4, <2>1 DEF Resume, Asking, TypeOK, Completion
  <2>3. RetriesLeft(m)' \subseteq RetriesLeft(m)
    <3>1. ASSUME NEW j \in 1 .. MaxRetries, k < j PROVE call[c].attempt < j
      BY <2>1, <3>1 DEF Completion
    <3>. HIDE DEF k
    <3>. QED
      BY <2>1, <2>2, <3>1 DEF RetriesLeft, InFlight, Asked
  <2>4. CASE m # Asked(c) \/ breaker[m].state # "open"
    <3>1. probes'[m] = probes[m]
      BY <2>1, <2>4 DEF Count, TypeOK, SheddingInv, Sheds
    <3>. QED
      BY <2>1, <2>3, <3>1, ShedsStill
  <2>5. CASE m = Asked(c) /\ breaker[m].state = "open"
    <3>. DEFINE R == RetriesLeft(m)
                Q == RetriesLeft(m)'
                bound == MaxRetries * (Cardinality(Calls) - 1)
    <3>1. probes'[m] = probes[m] + 1 /\ probes[m] \in Nat
      BY <2>1, <2>5 DEF Count, TypeOK
    <3>2. <<c, k>> \in R
      <4>1. <<c, k>> \in Calls \X (1 .. MaxRetries) /\ call[c].attempt < k
        BY <2>1 DEF Completion
      <4>. HIDE DEF k
      <4>. QED
        BY <2>1, <2>5, <4>1 DEF RetriesLeft
    <3>3. <<c, k>> \notin Q
      <4>1. k \in Int
        BY <2>1
      <4>. HIDE DEF k
      <4>. QED
        BY <2>2, <4>1 DEF RetriesLeft
    <3>4. IsFiniteSet(R) /\ Cardinality(R) \in Nat
      BY RetriesFinite
    <3>5. Cardinality(R) + probes[m] <= bound
      BY <2>5 DEF SheddingInv, Sheds
    <3>6. bound \in Int
      <4>1. Cardinality(Calls) \in Nat /\ MaxRetries \in Nat
        BY FS_CardinalityType, GatewayAssumption DEF GatewayAssumption
      <4>. QED
        BY <4>1
    <3>. HIDE DEF R, Q, bound, k
    <3>7. Q \subseteq R \ {<<c, k>>}
      BY <2>3, <3>3 DEF R, Q
    <3>8. IsFiniteSet(R \ {<<c, k>>}) /\ Cardinality(R \ {<<c, k>>}) = Cardinality(R) - 1
      BY <3>2, <3>4, FS_RemoveElement
    <3>9. Cardinality(Q) <= Cardinality(R) - 1 /\ Cardinality(Q) \in Nat
      BY <3>7, <3>8, FS_Subset, FS_CardinalityType
    <3>10. Cardinality(Q) + probes'[m] <= bound
      BY <3>1, <3>4, <3>5, <3>6, <3>9
    <3>. QED
      BY <2>1, <2>5, <3>10 DEF Q, bound, Sheds
  <2>. QED
    BY <2>4, <2>5
<1>5. ASSUME NEW c \in Calls, Fail(c)
      PROVE  Sheds(m)'
  <2>1. /\ call[c] \in Completion /\ Asked(c) \in Models
        /\ Tail(call[c].todo) \in Seq(Models)
    BY <1>5, InFlightType DEF Fail
  <2>2. call[c].budget \in Budgets /\ call[c].elapsed \in Nat
    BY <2>1 DEF Completion
  <2>3. [breaker EXCEPT ![Asked(c)] = AfterFailure(@)] \in [Models -> BreakerState]
    BY <2>1, BreakerSteps DEF TypeOK
  <2>. QED
    BY <1>5, <2>1, <2>2, <2>3, TryNextShedding DEF Fail
<1>6. CASE Tick
  <2>1. breaker'[m].state = breaker[m].state
    BY <1>6 DEF Tick, TypeOK, BreakerState
  <2>2. ASSUME NEW d \in Calls
        PROVE  /\ InFlight(d)' => InFlight(d)
               /\ InFlight(d) => call'[d].todo = call[d].todo
                                  /\ call'[d].attempt = call[d].attempt
    BY <1>6 DEF Tick, InFlight, TypeOK, Completion
  <2>3. RetriesLeft(m)' \subseteq RetriesLeft(m)
    BY <2>2 DEF RetriesLeft, Asked
  <2>. QED
    BY <1>6, <2>1, <2>3, ShedsStill DEF Tick
<1>7. CASE UNCHANGED vars
  <2>1. RetriesLeft(m)' = RetriesLeft(m)
    BY <1>7 DEF vars, RetriesLeft, InFlight, Asked
  <2>. QED
    BY <1>7, <2>1, ShedsStill DEF vars
<1>. QED
  BY <1>1, <1>2, <1>3, <1>4, <1>5, <1>6, <1>7 DEF Next

\* An open breaker sheds the load: since it opened its model was sent no more than
\* the retries of the completions that were at it then.
THEOREM GatewayOpenSheds == Spec => []OpenSheds
<1>1. Init => SheddingInv
  BY DEF Init, SheddingInv, Sheds, Closed
<1>2. TypeOK /\ SheddingInv => OpenSheds
  <2>. SUFFICES ASSUME TypeOK, SheddingInv, NEW m \in Models
                PROVE  probes[m] <= MaxRetries * (Cardinality(Calls) - 1)
    BY DEF OpenSheds
  <2>1. probes[m] \in Nat /\ Cardinality(RetriesLeft(m)) \in Nat
    BY RetriesFinite DEF TypeOK
  <2>2. Cardinality(Calls) - 1 \in Nat /\ MaxRetries \in Nat
    <3>1. Cardinality(Calls) \in Nat /\ Cardinality(Calls) # 0
      BY FS_CardinalityType, FS_EmptySet, GatewayAssumption DEF GatewayAssumption
    <3>. QED
      BY <3>1, GatewayAssumption DEF GatewayAssumption
  <2>3. MaxRetries * (Cardinality(Calls) - 1) \in Nat
    BY <2>2
  <2>. QED
    BY <2>1, <2>3 DEF SheddingInv, Sheds
<1>. QED
  BY <1>1, <1>2, SheddingNext, GatewayTypeCorrect, PTL DEF Spec

-----------------------------------------------------------------------------
(* The duration of a completion.                                           *)

\* The longest a model may take: its attempts and the waits between them.
PerModel(budget) == (MaxRetries + 1) * CallTimeout(budget) + MaxRetries * Longest

TriedBefore(x) == 1 + Len(FallbackModels) - Len(x.todo)

\* What x has used of its present model when its timer runs out.
UsedHere(x) ==
  x.attempt * (CallTimeout(x.budget) + Longest) + CallTimeout(x.budget)
  + (IF x.pc = "sleeping" THEN Longest ELSE 0)

InTime(x) ==
  /\ Len(x.todo) <= 1 + Len(FallbackModels)
  /\ x.elapsed + x.timer <= TriedBefore(x) * PerModel(x.budget) + UsedHere(x)

DurationInv == \A c \in Calls : InFlight(c) => InTime(call[c])

LEMMA PerModelType ==
  ASSUME NEW budget \in Budgets
  PROVE  PerModel(budget) \in Nat
<1>1. CallTimeout(budget) \in Nat /\ MaxRetries \in Nat /\ Longest \in Nat
  BY TimeoutType, LongestIsLongest, GatewayAssumption DEF GatewayAssumption
<1>. QED
  BY <1>1 DEF PerModel

LEMMA Monotone ==
  ASSUME NEW i \in Int, NEW j \in Int, NEW k \in Nat, i <= j
  PROVE  i * k <= j * k
OBVIOUS

\* A completion never uses more of its present model than PerModel.
LEMMA UsedBounded ==
  ASSUME NEW x \in Completion
  PROVE  UsedHere(x) \in Nat /\ UsedHere(x) <= PerModel(x.budget)
<1>. DEFINE t == CallTimeout(x.budget)
            a == x.attempt
<1>1. t \in Nat /\ MaxRetries \in Nat /\ Longest \in Nat /\ a \in Nat
  <2>1. x.budget \in Budgets /\ x.attempt \in 0 .. MaxRetries
    BY DEF Completion
  <2>2. t \in Nat
    BY <2>1, TimeoutType
  <2>3. MaxRetries \in Nat /\ Longest \in Nat
    BY LongestIsLongest, GatewayAssumption DEF GatewayAssumption
  <2>. QED
    BY <2>1, <2>2, <2>3
<1>2. a <= MaxRetries /\ (x.pc = "sleeping" => a + 1 <= MaxRetries)
  BY GatewayAssumption DEF GatewayAssumption, Completion
<1>3. UsedHere(x) = a * (t + Longest) + t + (IF x.pc = "sleeping" THEN Longest ELSE 0)
  BY DEF UsedHere
<1>4. PerModel(x.budget) = (MaxRetries + 1) * t + MaxRetries * Longest
  BY DEF PerModel
<1>. HIDE DEF t, a
<1>5. (MaxRetries + 1) * t + MaxRetries * Longest = MaxRetries * (t + Longest) + t
  BY <1>1
<1>6. a * (t + Longest) \in Nat /\ a * (t + Longest) <= MaxRetries * (t + Longest)
  BY <1>1, <1>2, Monotone
<1>7. CASE x.pc = "sleeping"
  <2>1. (a + 1) * (t + Longest) <= MaxRetries * (t + Longest)
    BY <1>1, <1>2, <1>7, Monotone
  <2>2. (a + 1) * (t + Longest) = a * (t + Longest) + t + Longest
    BY <1>1
  <2>. DEFINE p == a * (t + Longest)
              q == MaxRetries * (t + Longest)
  <2>3. p \in Nat /\ q \in Int /\ p + t + Longest <= q
    BY <1>1, <1>6, <2>1, <2>2
  <2>4. UsedHere(x) = p + t + Longest /\ PerModel(x.budget) = q + t
    BY <1>3, <1>4, <1>5, <1>7
  <2>. HIDE DEF p, q
  <2>. QED
    BY <1>1, <2>3, <2>4
<1>8. CASE x.pc # "sleeping"
  <2>. DEFINE p == a * (t + Longest)
              q == MaxRetries * (t + Longest)
  <2>1. p \in Nat /\ q \in Int /\ p <= q
    BY <1>1, <1>6
  <2>2. UsedHere(x) = p + t + 0 /\ PerModel(x.budget) = q + t
    BY <1>3, <1>4, <1>5, <1>8
  <2>. HIDE DEF p, q
  <2>. QED
    BY <1>1, <2>1, <2>2
<1>. QED
  BY <1>7, <1>8

LEMMA TriedLengths ==
  ASSUME NEW todo \in Seq(Models), Len(todo) <= 1 + Len(FallbackModels)
  PROVE  1 + Len(FallbackModels) - Len(todo) \in Nat /\ Len(FallbackModels) \in Nat
<1>1. Len(FallbackModels) \in Nat
  BY GatewayAssumption DEF GatewayAssumption
<1>. QED
  BY <1>1

\* A completion that starts on the models todo within the time of those before is in
\* time when it asks the i-th of them.
LEMMA AskingInTime ==
  ASSUME NEW todo \in Seq(Models), NEW budget \in Budgets, NEW elapsed \in Nat,
         Len(todo) <= 1 + Len(FallbackModels),
         elapsed <= (1 + Len(FallbackModels) - Len(todo)) * PerModel(budget),
         NEW i \in 1 .. Len(todo)
  PROVE  InTime(Asking(SubSeq(todo, i, Len(todo)), 0, budget, elapsed))
<1>. DEFINE rest == SubSeq(todo, i, Len(todo))
            x == Asking(rest, 0, budget, elapsed)
            t == CallTimeout(budget)
            n == 1 + Len(FallbackModels) - Len(todo)
            k == 1 + Len(FallbackModels) - Len(rest)
<1>1. Len(rest) = Len(todo) - i + 1 /\ Len(todo) \in Nat /\ i \in Nat /\ i <= Len(todo)
      /\ 1 <= i
  BY RestFacts
<1>2. t \in Nat /\ Longest \in Nat /\ PerModel(budget) \in Nat
  BY TimeoutType, LongestIsLongest, PerModelType
<1>3. /\ x.todo = rest /\ x.elapsed = elapsed /\ x.timer = t /\ x.budget = budget
      /\ x.attempt = 0 /\ x.pc = "calling"
  BY DEF Asking
<1>4. n \in Nat /\ Len(FallbackModels) \in Nat
  BY TriedLengths
<1>. HIDE DEF rest, x
<1>5. k \in Nat /\ n <= k /\ Len(rest) <= 1 + Len(FallbackModels)
  BY <1>1, <1>4
<1>. HIDE DEF n, k, t
<1>6. n * PerModel(budget) <= k * PerModel(budget)
  BY <1>2, <1>4, <1>5, Monotone
<1>7. UsedHere(x) = t
  BY <1>2, <1>3 DEF UsedHere, t
<1>8. TriedBefore(x) = k
  BY <1>3 DEF TriedBefore, k
<1>9. elapsed <= n * PerModel(budget)
  BY DEF n
<1>10. elapsed + t <= k * PerModel(budget) + t
  <2>. DEFINE p == n * PerModel(budget)
              q == k * PerModel(budget)
  <2>1. p \in Nat /\ q \in Nat /\ p <= q /\ elapsed <= p
    BY <1>2, <1>4, <1>5, <1>6, <1>9
  <2>. HIDE DEF p, q
  <2>2. elapsed + t <= q + t
    BY <1>2, <2>1
  <2>. QED
    BY <2>2 DEF q
<1>11. InTime(x)
  BY <1>3, <1>5, <1>7, <1>8, <1>10 DEF InTime
<1>. QED
  BY <1>11 DEF x, rest

LEMMA TryNextInTime ==
  ASSUME TypeOK, DurationInv, NEW c \in Calls, NEW todo \in Seq(Models),
         NEW budget \in Budgets, NEW elapsed \in Nat, NEW b,
         Len(todo) <= 1 + Len(FallbackModels),
         elapsed <= (1 + Len(FallbackModels) - Len(todo)) * PerModel(budget),
         TryNext(c, todo, budget, elapsed, b)
  PROVE  DurationInv'
<1>1. CASE Ends(c, b)
  BY <1>1 DEF Ends, DurationInv, InFlight, TypeOK
<1>2. ASSUME NEW i \in 1 .. Len(todo), Asks(c, todo, i, budget, elapsed, b)
      PROVE  DurationInv'
  <2>1. InTime(Asking(SubSeq(todo, i, Len(todo)), 0, budget, elapsed))
    BY AskingInTime
  <2>2. call' = [call EXCEPT ![c] = Asking(SubSeq(todo, i, Len(todo)), 0, budget, elapsed)]
    BY <1>2 DEF Asks
  <2>. QED
    BY <2>1, <2>2 DEF DurationInv, InFlight, TypeOK
<1>. QED
  BY <1>1, <1>2, TryNextCases

\* In a state in time, the candidates up to the present one cover what was used.
LEMMA UsedCovered ==
  ASSUME NEW x \in Completion, InTime(x)
  PROVE  /\ x.elapsed <= (TriedBefore(x) + 1) * PerModel(x.budget)
         /\ TriedBefore(x) + 1 \in Nat /\ TriedBefore(x) + 1 <= 1 + Len(FallbackModels)
<1>. DEFINE k == TriedBefore(x)
            p == PerModel(x.budget)
<1>1. x.elapsed \in Nat /\ x.timer \in Nat /\ x.budget \in Budgets
      /\ x.todo \in Seq(Models) /\ x.todo # <<>>
  BY DEF Completion
<1>2. Len(x.todo) \in Nat /\ Len(x.todo) >= 1 /\ Len(x.todo) <= 1 + Len(FallbackModels)
  BY <1>1 DEF InTime
<1>3. p \in Nat /\ UsedHere(x) \in Nat /\ UsedHere(x) <= p
  BY <1>1, PerModelType, UsedBounded
<1>4. k \in Nat /\ k + 1 <= 1 + Len(FallbackModels)
  <2>. DEFINE n == Len(x.todo)
              f == Len(FallbackModels)
  <2>1. f \in Nat
    BY GatewayAssumption DEF GatewayAssumption
  <2>2. k = 1 + f - n /\ n \in Nat /\ n >= 1 /\ n <= 1 + f
    BY <1>2 DEF TriedBefore
  <2>. HIDE DEF k, n, f
  <2>3. k \in Nat /\ k + 1 <= 1 + f
    BY <2>1, <2>2
  <2>. QED
    BY <2>3 DEF f
<1>5. x.elapsed + x.timer <= k * p + UsedHere(x)
  BY DEF InTime
<1>. HIDE DEF k, p
<1>6. (k + 1) * p = k * p + p /\ k * p \in Nat
  BY <1>3, <1>4
<1>. DEFINE kp == k * p
<1>7. x.elapsed <= kp + p
  <2>1. kp \in Nat /\ x.elapsed + x.timer <= kp + UsedHere(x)
    BY <1>5, <1>6
  <2>. HIDE DEF kp
  <2>. QED
    BY <1>1, <1>3, <2>1
<1>8. x.elapsed <= (k + 1) * p
  BY <1>6, <1>7
<1>. QED
  BY <1>4, <1>8 DEF k, p

LEMMA DurationNext ==
  TypeOK /\ DurationInv /\ [Next]_vars => DurationInv'
<1>. SUFFICES ASSUME TypeOK, DurationInv, [Next]_vars PROVE DurationInv'
  OBVIOUS
<1>1. ASSUME NEW c \in Calls, NEW n \in Names, NEW budget \in Budgets,
             Complete(c, n, budget)
      PROVE  DurationInv'
  <2>. DEFINE todo == Candidates(n)
  <2>1. todo \in Seq(Models) /\ Len(todo) = 1 + Len(FallbackModels)
    BY CandidatesType
  <2>2. Len(FallbackModels) \in Nat /\ PerModel(budget) \in Nat
    BY PerModelType, GatewayAssumption DEF GatewayAssumption
  <2>3. TryNext(c, todo, budget, 0, breaker)
    BY <1>1 DEF Complete
  <2>. HIDE DEF todo
  <2>4. /\ Len(todo) <= 1 + Len(FallbackModels)
        /\ 0 <= (1 + Len(FallbackModels) - Len(todo)) * PerModel(budget)
    BY <2>1, <2>2
  <2>. QED
    BY <2>1, <2>3, <2>4, TryNextInTime
<1>2. ASSUME NEW c \in Calls, Success(c) PROVE DurationInv'
  BY <1>2 DEF Success, DurationInv, InFlight, TypeOK
<1>3. ASSUME NEW c \in Calls, Retry(c) PROVE DurationInv'
  <2>. DEFINE x == call[c]
              y == call'[c]
  <2>1. PICK w \in Waits : call' = [call EXCEPT ![c].pc = "sleeping", ![c].timer = w]
    BY <1>3 DEF Retry
  <2>2. x \in Completion /\ InFlight(c) /\ x.pc = "calling" /\ InTime(x)
    BY <1>3, InFlightType DEF Retry, DurationInv
  <2>3. /\ y.pc = "sleeping" /\ y.timer = w /\ y.todo = x.todo /\ y.attempt = x.attempt
        /\ y.budget = x.budget /\ y.elapsed = x.elapsed
    BY <2>1, <2>2 DEF TypeOK, Completion
  <2>4. \A d \in Calls \ {c} : call'[d] = call[d]
    BY <2>1 DEF TypeOK
  <2>5. w \in Nat /\ w <= Longest /\ Longest \in Nat
    BY LongestIsLongest, GatewayAssumption DEF GatewayAssumption
  <2>6. InTime(y)
    <3>. DEFINE kp == TriedBefore(x) * PerModel(x.budget)
    <3>1. TriedBefore(y) = TriedBefore(x) /\ UsedHere(y) = UsedHere(x) + Longest
      <4>1. x.attempt \in Nat /\ CallTimeout(x.budget) \in Nat
        <5>1. x.attempt \in 0 .. MaxRetries /\ x.budget \in Budgets
          BY <2>2 DEF Completion
        <5>. QED
          BY <5>1, TimeoutType
      <4>2. UsedHere(x) = x.attempt * (CallTimeout(x.budget) + Longest)
                          + CallTimeout(x.budget) + 0
        BY <2>2 DEF UsedHere
      <4>3. UsedHere(y) = x.attempt * (CallTimeout(x.budget) + Longest)
                          + CallTimeout(x.budget) + Longest
        BY <2>3 DEF UsedHere
      <4>4. TriedBefore(y) = TriedBefore(x)
        BY <2>3 DEF TriedBefore
      <4>. HIDE DEF x, y
      <4>5. x.attempt * (CallTimeout(x.budget) + Longest) \in Nat
        BY <2>5, <4>1
      <4>. QED
        BY <2>5, <4>1, <4>2, <4>3, <4>4, <4>5
    <3>2. x.elapsed + x.timer <= kp + UsedHere(x)
      BY <2>2 DEF InTime
    <3>3. x.elapsed \in Nat /\ x.timer \in Nat /\ UsedHere(x) \in Nat
      BY <2>2, UsedBounded DEF Completion
    <3>4. kp \in Nat
      <4>1. /\ x.todo \in Seq(Models) /\ x.budget \in Budgets
            /\ Len(x.todo) <= 1 + Len(FallbackModels)
        BY <2>2 DEF Completion, InTime
      <4>2. TriedBefore(x) \in Nat /\ PerModel(x.budget) \in Nat
        BY <4>1, TriedLengths, PerModelType DEF TriedBefore
      <4>. QED
        BY <4>2
    <3>. HIDE DEF kp
    <3>5. x.elapsed + w <= kp + (UsedHere(x) + Longest)
      BY <2>5, <3>2, <3>3, <3>4
    <3>. HIDE DEF x, y
    <3>6. y.elapsed + y.timer <= TriedBefore(y) * PerModel(y.budget) + UsedHere(y)
      BY <2>3, <3>1, <3>5 DEF kp
    <3>. QED
      BY <2>2, <2>3, <3>6 DEF InTime
  <2>. QED
    BY <2>2, <2>4, <2>6 DEF DurationInv, InFlight
<1>4. ASSUME NEW c \in Calls, Resume(c) PROVE DurationInv'
  <2>. DEFINE x == call[c]
              y == Asking(x.todo, x.attempt + 1, x.budget, x.elapsed)
              t == CallTimeout(x.budget)
  <2>1. x \in Completion /\ InFlight(c) /\ x.pc = "sleeping" /\ x.timer = 0 /\ InTime(x)
    BY <1>4, InFlightType DEF Resume, DurationInv
  <2>2. call'[c] = y /\ \A d \in Calls \ {c} : call'[d] = call[d]
    BY <1>4 DEF Resume, TypeOK
  <2>3. /\ y.pc = "calling" /\ y.timer = t /\ y.todo = x.todo
        /\ y.attempt = x.attempt + 1 /\ y.budget = x.budget /\ y.elapsed = x.elapsed
    BY DEF Asking
  <2>4. /\ x.attempt \in Nat /\ x.budget \in Budgets /\ x.elapsed \in Nat
        /\ x.todo \in Seq(Models)
    BY <2>1, GatewayAssumption DEF GatewayAssumption, Completion
  <2>5. t \in Nat /\ Longest \in Nat
    BY <2>4, TimeoutType, LongestIsLongest
  <2>6. InTime(y)
    <3>. DEFINE kp == TriedBefore(x) * PerModel(x.budget)
                p == x.attempt * (t + Longest)
    <3>1. UsedHere(x) = p + t + Longest
      BY <2>1 DEF UsedHere
    <3>2. UsedHere(y) = (x.attempt + 1) * (t + Longest) + t + 0 /\ TriedBefore(y) = TriedBefore(x)
      BY <2>3 DEF UsedHere, TriedBefore
    <3>3. x.elapsed + 0 <= kp + UsedHere(x)
      BY <2>1 DEF InTime
    <3>4. kp \in Nat
      <4>1. Len(x.todo) <= 1 + Len(FallbackModels)
        BY <2>1 DEF InTime
      <4>2. TriedBefore(x) \in Nat /\ PerModel(x.budget) \in Nat
        BY <2>4, <4>1, TriedLengths, PerModelType DEF TriedBefore
      <4>. QED
        BY <4>2
    <3>. HIDE DEF x, y, t
    <3>5. (x.attempt + 1) * (t + Longest) = p + t + Longest /\ p \in Nat
      BY <2>4, <2>5
    <3>. HIDE DEF p, kp
    <3>6. x.elapsed + t <= kp + UsedHere(y)
      BY <2>4, <2>5, <3>1, <3>2, <3>3, <3>4, <3>5
    <3>7. y.elapsed + y.timer <= TriedBefore(y) * PerModel(y.budget) + UsedHere(y)
      BY <2>3, <3>2, <3>6 DEF kp
    <3>. QED
      BY <2>1, <2>3, <3>7 DEF InTime
  <2>. HIDE DEF x, y
  <2>. QED
    BY <2>1, <2>2, <2>6 DEF DurationInv, InFlight
<1>5. ASSUME NEW c \in Calls, Fail(c) PROVE DurationInv'
  <2>. DEFINE x == call[c]
              rest == Tail(x.todo)
  <2>1. /\ x \in Completion /\ InTime(x) /\ rest \in Seq(Models)
        /\ Len(rest) = Len(x.todo) - 1
    BY <1>5, InFlightType DEF Fail, DurationInv
  <2>2. x.budget \in Budgets /\ x.elapsed \in Nat /\ x.todo \in Seq(Models)
    BY <2>1 DEF Completion
  <2>3. TryNext(c, rest, x.budget, x.elapsed, [breaker EXCEPT ![Asked(c)] = AfterFailure(@)])
    BY <1>5 DEF Fail
  <2>4. /\ x.elapsed <= (TriedBefore(x) + 1) * PerModel(x.budget)
        /\ Len(x.todo) <= 1 + Len(FallbackModels)
    BY <2>1, UsedCovered DEF InTime
  <2>5. /\ TriedBefore(x) + 1 = 1 + Len(FallbackModels) - Len(rest)
        /\ Len(rest) <= 1 + Len(FallbackModels)
    <3>1. Len(x.todo) \in Nat /\ Len(FallbackModels) \in Nat
      BY <2>2, GatewayAssumption DEF GatewayAssumption
    <3>. HIDE DEF x, rest
    <3>. QED
      BY <2>1, <2>4, <3>1 DEF TriedBefore
  <2>. HIDE DEF x, rest
  <2>. QED
    BY <2>1, <2>2, <2>3, <2>4, <2>5, TryNextInTime
<1>6. CASE Tick
  <2>. SUFFICES ASSUME NEW c \in Calls, InFlight(c)' PROVE InTime(call'[c])
    BY DEF DurationInv
  <2>1. InFlight(c) /\ call[c].timer > 0
        /\ call'[c] = [call[c] EXCEPT !.timer = @ - 1, !.elapsed = @ + 1]
    BY <1>6 DEF Tick, InFlight, TypeOK
  <2>. DEFINE x == call[c]
              y == call'[c]
  <2>2. x \in Completion /\ InTime(x)
    BY <2>1, InFlightType DEF DurationInv
  <2>3. /\ y.pc = x.pc /\ y.todo = x.todo /\ y.attempt = x.attempt /\ y.budget = x.budget
        /\ y.timer = x.timer - 1 /\ y.elapsed = x.elapsed + 1
    BY <2>1, <2>2 DEF Completion
  <2>4. x.timer \in Nat /\ x.elapsed \in Nat
    BY <2>2 DEF Completion
  <2>. HIDE DEF x, y
  <2>5. y.elapsed + y.timer = x.elapsed + x.timer
    BY <2>3, <2>4
  <2>6. UsedHere(y) = UsedHere(x) /\ TriedBefore(y) = TriedBefore(x)
    BY <2>3 DEF UsedHere, TriedBefore
  <2>7. InTime(y)
    BY <2>2, <2>3, <2>5, <2>6 DEF InTime
  <2>. QED
    BY <2>7 DEF y
<1>7. CASE UNCHANGED vars
  BY <1>7 DEF vars, DurationInv, InFlight
<1>. QED
  BY <1>1, <1>2, <1>3, <1>4, <1>5, <1>6, <1>7 DEF Next

\* However models fail, a completion takes no longer than the timeouts and waits of
\* all its candidates.
THEOREM GatewayDurationBounded == Spec => []DurationBounded
<1>1. Init => DurationInv
  BY DEF Init, DurationInv, InFlight
<1>2. TypeOK /\ DurationInv => DurationBounded
  <2>. SUFFICES ASSUME TypeOK, DurationInv, NEW c \in Calls, InFlight(c)
                PROVE  call[c].elapsed <= (1 + Len(FallbackModels)) * PerModel(call[c].budget)
    BY DEF DurationBounded, PerModel
  <2>. DEFINE x == call[c]
  <2>1. x \in Completion /\ InTime(x)
    BY InFlightType DEF DurationInv
  <2>2. /\ x.elapsed <= (TriedBefore(x) + 1) * PerModel(x.budget)
        /\ TriedBefore(x) + 1 \in Nat /\ TriedBefore(x) + 1 <= 1 + Len(FallbackModels)
    BY <2>1, UsedCovered
  <2>3. x.elapsed \in Nat /\ PerModel(x.budget) \in Nat /\ Len(FallbackModels) \in Nat
    <3>1. x.elapsed \in Nat /\ x.budget \in Budgets
      BY <2>1 DEF Completion
    <3>2. PerModel(x.budget) \in Nat
      BY <3>1, PerModelType
    <3>3. Len(FallbackModels) \in Nat
      BY GatewayAssumption DEF GatewayAssumption
    <3>. QED
      BY <3>1, <3>2, <3>3
  <2>. HIDE DEF x
  <2>. DEFINE i == TriedBefore(x) + 1
              j == 1 + Len(FallbackModels)
              k == PerModel(x.budget)
  <2>4. i \in Int /\ j \in Int /\ k \in Nat /\ i <= j
    BY <2>2, <2>3
  <2>5. x.elapsed <= i * k
    BY <2>2
  <2>. HIDE DEF i, j, k
  <2>6. i * k <= j * k /\ i * k \in Int /\ j * k \in Int
    BY <2>4, Monotone
  <2>7. x.elapsed <= j * k
    BY <2>3, <2>5, <2>6
  <2>. QED
    BY <2>7 DEF x, j, k
<1>. QED
  BY <1>1, <1>2, DurationNext, GatewayTypeCorrect, PTL DEF Spec

=============================================================================
