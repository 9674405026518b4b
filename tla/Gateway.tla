------------------------------ MODULE Gateway ------------------------------
(***************************************************************************)
(* The AI gateway: concurrent completions that retry a model, fall back to *)
(* the next one, and share one circuit breaker per model.  The coroutine   *)
(* gives up control only while a model is asked and while a retry waits,   *)
(* so everything between two of these is one action.                       *)
(*                                                                         *)
(* Time is counted in ticks.  Whatever may still take time has a timer,    *)
(* which a tick counts down; time does not pass beyond a timer at zero, so *)
(* a request never outlasts its timeout nor a retry its wait.              *)
(***************************************************************************)
EXTENDS Integers, Sequences, FiniteSets

CONSTANTS Calls,            \* completions in flight at one time
          Names,            \* the model names callers use
          ModelMap,         \* logical name -> model; other names stand for themselves
          FallbackModels,   \* fallback_models, a sequence of names
          Budgets,          \* the deadline budgets callers ask for
          TimeoutSeconds,
          MaxRetries,
          Waits,            \* the waits a failed request may lead to: backoff or Retry-After
          FailureThreshold,
          Cooldown

ASSUME GatewayAssumption ==
  /\ IsFiniteSet(Calls) /\ Calls # {}
  /\ Budgets \subseteq Nat \ {0} /\ TimeoutSeconds \in Nat \ {0}
  /\ Waits \subseteq Nat \ {0} /\ \E w \in Waits : \A v \in Waits : v <= w
  /\ MaxRetries \in Nat
  /\ FailureThreshold \in Nat \ {0} /\ Cooldown \in Nat \ {0}
  /\ FallbackModels \in Seq(Names)

VARIABLES breaker,  \* per model: state, consecutive failures, what is left of the cooldown
          call,     \* per completion: what it is doing
          probes    \* history, per model: requests sent to it since its breaker opened

vars == <<breaker, call, probes>>

ResolveModel(n) == IF n \in DOMAIN ModelMap THEN ModelMap[n] ELSE n

Models == {ResolveModel(n) : n \in Names}

\* The primary model, then the fallbacks.
Candidates(n) == <<ResolveModel(n)>> \o [i \in DOMAIN FallbackModels |-> ResolveModel(FallbackModels[i])]

CallTimeout(budget) == IF TimeoutSeconds < budget THEN TimeoutSeconds ELSE budget

Idle == [pc |-> "idle"]

InFlight(c) == call[c] # Idle

Asked(c) == Head(call[c].todo)

\* _call_model: the first model of todo is sent a request.
Asking(todo, attempt, budget, elapsed) ==
  [pc |-> "calling", todo |-> todo, attempt |-> attempt, timer |-> CallTimeout(budget),
   budget |-> budget, elapsed |-> elapsed]

-----------------------------------------------------------------------------
(* The circuit breaker.  Failures are only compared with the threshold, so  *)
(* they are not counted past it.                                            *)

Closed == [state |-> "closed", failures |-> 0, left |-> 0]

\* is_open: an open breaker whose cooldown is over lets the call pass, half open.
IsOpen(b) == b.state = "open" /\ b.left > 0

Probed(b) == IF b.state = "open" /\ b.left = 0 THEN [b EXCEPT !.state = "half_open"] ELSE b

Opened(b) == [b EXCEPT !.state = "open", !.left = Cooldown]

\* Mutant of AfterSuccess: the failures are still counted.
AfterSuccessCounted(b) == [b EXCEPT !.state = "closed", !.left = 0]

\* record_success
AfterSuccess(b) == Closed

\* record_failure: a failed probe, or the last of enough failures.
AfterFailure(b) ==
  LET n == IF b.failures < FailureThreshold THEN b.failures + 1 ELSE b.failures
      counted == [b EXCEPT !.failures = n]
  IN IF b.state = "half_open" \/ (n >= FailureThreshold /\ b.state = "closed")
     THEN Opened(counted) ELSE counted

-----------------------------------------------------------------------------
Init ==
  /\ breaker = [m \in Models |-> Closed]
  /\ call = [c \in Calls |-> Idle]
  /\ probes = [m \in Models |-> 0]

\* History: requests are sent to the models S in this step.
Count(S) ==
  probes' = [m \in Models |->
    IF breaker[m].state = "open" /\ breaker'[m].state = "open"
    THEN probes[m] + (IF m \in S THEN 1 ELSE 0) ELSE 0]

\* Mutant of Available: only the first candidate's breaker is looked at.
AvailableFirst(todo, b) == {i \in DOMAIN todo : i > 1 \/ ~IsOpen(b[todo[i]])}

Available(todo, b) == {i \in DOMAIN todo : ~IsOpen(b[todo[i]])}

\* The loop over the candidates from here on, with the breakers as they are: the
\* first that is not open is asked; without one the completion fails.
TryNext(c, todo, budget, elapsed, b) ==
  IF Available(todo, b) = {}
  THEN /\ call' = [call EXCEPT ![c] = Idle]
       /\ breaker' = b
       /\ Count({})
  ELSE LET i == CHOOSE i \in Available(todo, b) : \A j \in Available(todo, b) : i <= j
           m == todo[i]
           passed == [b EXCEPT ![m] = Probed(@)]
       IN /\ call' = [call EXCEPT ![c] =
               Asking(SubSeq(todo, i, Len(todo)), 0, budget, elapsed)]
          /\ breaker' = passed
          /\ Count({m})

\* complete
Complete(c, n, budget) ==
  /\ ~InFlight(c)
  /\ TryNext(c, Candidates(n), budget, 0, breaker)

\* The model answers.  The deadline is tested only now: a late answer closes the
\* breaker too, but the caller gets DeadlineExceeded.
Success(c) ==
  /\ InFlight(c) /\ call[c].pc = "calling"
  /\ breaker' = [breaker EXCEPT ![Asked(c)] = AfterSuccess(@)]
  /\ call' = [call EXCEPT ![c] = Idle]
  /\ Count({})

\* Mutant of Retry: the last attempt is followed by another.
RetryOnce(c) ==
  /\ InFlight(c) /\ call[c].pc = "calling" /\ call[c].attempt <= MaxRetries
  /\ \E w \in Waits : call' = [call EXCEPT ![c].pc = "sleeping", ![c].timer = w]
  /\ UNCHANGED <<breaker, probes>>

\* A transient error or a timeout, with attempts left: wait.
Retry(c) ==
  /\ InFlight(c) /\ call[c].pc = "calling" /\ call[c].attempt < MaxRetries
  /\ \E w \in Waits : call' = [call EXCEPT ![c].pc = "sleeping", ![c].timer = w]
  /\ UNCHANGED <<breaker, probes>>

\* Mutant of Resume: a retry waits until the breaker is closed.
ResumeClosed(c) ==
  /\ InFlight(c) /\ call[c].pc = "sleeping" /\ call[c].timer = 0
  /\ breaker[Asked(c)].state # "open"
  /\ call' = [call EXCEPT ![c] = Asking(@.todo, @.attempt + 1, @.budget, @.elapsed)]
  /\ UNCHANGED <<breaker, probes>>

\* The wait is over: the same model is asked again, whatever its breaker says now.
Resume(c) ==
  /\ InFlight(c) /\ call[c].pc = "sleeping" /\ call[c].timer = 0
  /\ call' = [call EXCEPT ![c] = Asking(@.todo, @.attempt + 1, @.budget, @.elapsed)]
  /\ UNCHANGED breaker
  /\ Count({Asked(c)})

\* A permanent error at any attempt, or any error at the last: the failure is
\* recorded once and the next candidate is tried.
Fail(c) ==
  /\ InFlight(c) /\ call[c].pc = "calling"
  /\ TryNext(c, Tail(call[c].todo), call[c].budget, call[c].elapsed,
             [breaker EXCEPT ![Asked(c)] = AfterFailure(@)])

\* A request that has run into its timeout: litellm raises Timeout.
TimeOut(c) == call[c].timer = 0 /\ (Retry(c) \/ (call[c].attempt = MaxRetries /\ Fail(c)))

\* Time passes, unless a timer is due.
Tick ==
  /\ \A c \in Calls : InFlight(c) => call[c].timer > 0
  /\ call' = [c \in Calls |-> IF InFlight(c) THEN [call[c] EXCEPT !.timer = @ - 1, !.elapsed = @ + 1]
                              ELSE call[c]]
  /\ breaker' = [m \in Models |-> IF breaker[m].left > 0 THEN [breaker[m] EXCEPT !.left = @ - 1]
                                  ELSE breaker[m]]
  /\ UNCHANGED probes

Next ==
  \/ \E c \in Calls :
       \/ \E n \in Names, budget \in Budgets : Complete(c, n, budget)
       \/ Success(c) \/ Retry(c) \/ Resume(c) \/ Fail(c)
  \/ Tick

Spec == Init /\ [][Next]_vars

\* Time passes; requests end at their timeout, and waits are over in time.
FairSpec ==
  /\ Spec
  /\ WF_vars(Tick)
  /\ \A c \in Calls : WF_vars(InFlight(c) /\ (TimeOut(c) \/ Resume(c)))

-----------------------------------------------------------------------------
BreakerState == [state : {"closed", "open", "half_open"},
                 failures : 0 .. FailureThreshold, left : 0 .. Cooldown]

\* Whoever waits has an attempt left.
Completion ==
  {x \in [pc : {"calling", "sleeping"}, todo : Seq(Models) \ {<<>>},
          attempt : 0 .. MaxRetries, timer : Nat, budget : Budgets, elapsed : Nat] :
     x.pc = "sleeping" => x.attempt < MaxRetries}

TypeOK ==
  /\ breaker \in [Models -> BreakerState]
  /\ call \in [Calls -> {Idle} \cup Completion]
  /\ probes \in [Models -> Nat]

\* A breaker is closed exactly while fewer failures than the threshold have come in
\* since the last success, however the answers of overlapping calls are ordered;
\* only an open one is cooling down.
BreakerCounts ==
  \A m \in Models :
    /\ breaker[m].state = "closed" <=> breaker[m].failures < FailureThreshold
    /\ breaker[m].left > 0 => breaker[m].state = "open"

\* An open breaker sheds the load: the model is sent no request but the retries of
\* the other calls that were at it when the breaker opened.
OpenSheds == \A m \in Models : probes[m] <= MaxRetries * (Cardinality(Calls) - 1)

\* However models fail, a completion takes no longer than the timeouts and waits of
\* all its candidates.  (Its deadline does not bind it: see Success.)
Longest == CHOOSE w \in Waits : \A v \in Waits : v <= w

DurationBounded ==
  \A c \in Calls : InFlight(c) =>
    call[c].elapsed <= (1 + Len(FallbackModels))
                       * ((MaxRetries + 1) * CallTimeout(call[c].budget) + MaxRetries * Longest)

\* Every completion ends, whatever breakers open meanwhile.
EveryCallEnds == \A c \in Calls : InFlight(c) ~> ~InFlight(c)

=============================================================================
