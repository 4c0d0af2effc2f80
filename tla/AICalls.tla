------------------------------ MODULE AICalls ------------------------------
(***************************************************************************)
(* The AI calls of forecast runs: generate_multi_model_forecasts asks      *)
(* every active model for every method, generate_forecast_with_model asks  *)
(* once and has an answer it cannot parse repaired once, AIClient.call     *)
(* makes up to MaxAttempts requests and feeds the circuit breaker.  The    *)
(* runs of several threads share the breaker.                              *)
(*                                                                         *)
(* ai_client imports the breaker as `circuit_breaker`, which is found only *)
(* when scripts/core itself is on the path (forecast_runner started as a   *)
(* script, the tests); elsewhere, the server included, the ImportError is  *)
(* swallowed and the calls neither test nor feed it.  onPath says which.   *)
(*                                                                         *)
(* What is done with an answer (normalising, the R/R test, the log) is     *)
(* SignalPath's; the sleeps that space the requests leave no trace.        *)
(***************************************************************************)
EXTENDS CircuitBreaker

CONSTANTS Caller,        \* the threads that may run forecasts
          Models,        \* the number of active models
          Methods,       \* the number of methods
          MaxAttempts    \* requests of one call (3)

ASSUME CallsAssumption ==
  /\ Models \in Nat \ {0}
  /\ Methods \in Nat \ {0}
  /\ MaxAttempts \in Nat \ {0}

VARIABLES breaker,    \* the breaker the AI client imports
          onPath,     \* it can be imported
          provider,   \* OpenRouter: "up" answers, "trouble" does anything
          call        \* per caller: where its run stands

aiVars == <<breaker, onPath, provider, call>>

Idle == [at |-> "idle", model |-> 1, method |-> 1, kind |-> "ask", attempt |-> 1]
Unit(mo, me) == [at |-> "enter", model |-> mo, method |-> me, kind |-> "ask", attempt |-> 1]

Calls ==
  [at      : {"idle", "enter", "post", "pause", "done"},
   model   : 1 .. Models,
   method  : 1 .. Methods,
   kind    : {"ask", "repair"},
   attempt : 1 .. MaxAttempts]

AITypeOK ==
  /\ breaker \in Breaker
  /\ onPath \in BOOLEAN
  /\ provider \in {"up", "trouble"}
  /\ call \in [Caller -> Calls]

AIInit ==
  /\ breaker = NewBreaker
  /\ onPath \in BOOLEAN
  /\ provider = "up"
  /\ call = [c \in Caller |-> Idle]

-----------------------------------------------------------------------------
\* The loops: methods within models.
NextModel(k) ==
  IF k.model < Models THEN Unit(k.model + 1, 1) ELSE [Idle EXCEPT !.at = "done"]

NextMethod(k) ==
  IF k.method < Methods THEN Unit(k.model, k.method + 1) ELSE NextModel(k)

BeginRun(c) ==
  /\ call[c].at = "idle"
  /\ call' = [call EXCEPT ![c] = Unit(1, 1)]
  /\ UNCHANGED <<breaker, onPath, provider>>

EndRun(c) ==
  /\ call[c].at = "done"
  /\ call' = [call EXCEPT ![c] = Idle]
  /\ UNCHANGED <<breaker, onPath, provider>>

\* The breaker is asked once, before the first request of a call.
EnterCall(c) ==
  LET k    == call[c]
      seen == IF onPath THEN CheckTransition(breaker) ELSE breaker
  IN /\ k.at = "enter"
     /\ breaker' = seen
     /\ call' = [call EXCEPT ![c] =
                   IF seen.state = "OPEN" THEN NextMethod(k)
                   ELSE [k EXCEPT !.at = "post", !.attempt = 1]]
     /\ UNCHANGED <<onPath, provider>>

\* "good" has what the caller can use (or nothing at all), "bad" is no JSON,
\* "error" a timeout, a 5xx or any other exception, "refused" a 401 to 404.
Answers == IF provider = "up" THEN {"good", "bad"}
           ELSE {"good", "error", "refused", "limited"}

\* request_json_repair: a call of its own, with the answer as its prompt.
Repair(k) == [k EXCEPT !.at = "enter", !.kind = "repair"]

\* Mutant: a rate limit is waited out and the same request made again.
AfterAnswerLimitedAgain(k, r) ==
  CASE r \in {"error", "limited"}         -> [k EXCEPT !.at = "pause", !.attempt = 1]
    [] r = "bad" /\ k.kind = "ask"        -> Repair(k)
    [] OTHER                              -> NextMethod(k)

\* The repair call swallows every exception, the rate limit too.
AfterAnswer(k, r) ==
  CASE r = "error"                        -> [k EXCEPT !.at = "pause"]
    [] r = "bad" /\ k.kind = "ask"        -> Repair(k)
    [] r = "limited" /\ k.kind = "ask"    -> NextModel(k)
    [] OTHER                              -> NextMethod(k)

Request(c) ==
  \E r \in Answers :
    /\ call[c].at = "post"
    /\ breaker' = CASE onPath /\ r \in {"good", "bad"} -> RecordSuccess(breaker)
                    [] onPath /\ r = "error"          -> RecordFailure(breaker)
                    [] OTHER                          -> breaker
    /\ call' = [call EXCEPT ![c] = AfterAnswer(@, r)]
    /\ UNCHANGED <<onPath, provider>>

\* The sleep after a failed attempt, the last one included.
Retry(c) ==
  LET k == call[c] IN
  /\ k.at = "pause"
  /\ call' = [call EXCEPT ![c] =
                IF k.attempt < MaxAttempts
                THEN [k EXCEPT !.at = "post", !.attempt = @ + 1]
                ELSE NextMethod(k)]
  /\ UNCHANGED <<breaker, onPath, provider>>

CallStep(c) == EnterCall(c) \/ Request(c) \/ Retry(c)

GraceElapses ==
  /\ ~breaker.graceOver
  /\ breaker' = [breaker EXCEPT !.graceOver = TRUE]
  /\ UNCHANGED <<onPath, provider, call>>

ProviderChanges ==
  /\ provider' = IF provider = "up" THEN "trouble" ELSE "up"
  /\ UNCHANGED <<breaker, onPath, call>>
=============================================================================
