--------------------------- MODULE CircuitBreaker ---------------------------
(***************************************************************************)
(* The circuit breaker of the robust fetcher                               *)
(* (src/tachyon-node/src/fetcher/robust_fetcher.rs): CircuitBreaker with   *)
(* record_success, record_failure and can_call, and fetch_price_robust,    *)
(* which asks the exchange's breaker, tries the exchange up to             *)
(* 1 + max_retries times and records one success or one failure.           *)
(*                                                                         *)
(* RobustFetcher keeps one breaker per exchange, made on first use with    *)
(* threshold 5 and timeout 60 s.  fetch_price_robust takes &mut self, so   *)
(* calls on one fetcher never overlap and each is one step.  The wall      *)
(* clock is kept as the seconds since last_failure_time, held at           *)
(* Timeout + 1 once past the timeout (only now - last > timeout is ever    *)
(* asked), and NoFailure for None.  The u32 counters are held at the       *)
(* largest value the code compares them with (Threshold, 3): a larger      *)
(* value answers every comparison the same way.                           *)
(*                                                                         *)
(* result[e] is what the last fetch_price_robust on e returned: Ok, the   *)
(* error of the last attempt, or the "Circuit breaker OPEN" error.         *)
(* up[e] is the environment: while an exchange is up every attempt         *)
(* answers; while it is down an attempt may fail or answer.                *)
(***************************************************************************)
EXTENDS Naturals

CONSTANTS Exchanges, Threshold, Timeout, MaxRetries, NoFailure

VARIABLES breaker, up, result

cbVars == <<breaker, up, result>>

States == {"Closed", "Open", "HalfOpen"}

(* CircuitBreaker::new(threshold, timeout_secs)                           *)
NewBreaker == [state |-> "Closed", failure_count |-> 0, success_count |-> 0,
               since |-> NoFailure]

(* A u32 += 1, held at the largest value the code compares it with.       *)
Incr(n, cap) == IF n < cap THEN n + 1 ELSE cap

(* A variant of RecordSuccess that leaves failure_count alone (mutant).    *)
RecordSuccessKeepFailures(b) ==
    LET b1 == [b EXCEPT !.success_count = Incr(@, 3)]
    IN  IF b1.state = "HalfOpen" /\ b1.success_count >= 3
        THEN [b1 EXCEPT !.state = "Closed", !.failure_count = 0,
                        !.success_count = 0]
        ELSE b1

(* record_success                                                          *)
RecordSuccess(b) ==
    LET b1 == [b EXCEPT !.success_count = Incr(@, 3)]
    IN  CASE b1.state = "HalfOpen" /\ b1.success_count >= 3 ->
               [b1 EXCEPT !.state = "Closed", !.failure_count = 0,
                          !.success_count = 0]
          [] b1.state = "Closed" -> [b1 EXCEPT !.failure_count = 0]
          [] OTHER -> b1

(* record_failure: count, stamp the time, open at the threshold.          *)
RecordFailure(b) ==
    LET b1 == [b EXCEPT !.failure_count = Incr(@, Threshold), !.since = 0]
    IN  IF b1.failure_count >= Threshold THEN [b1 EXCEPT !.state = "Open"]
        ELSE b1

(* A variant of CanCall that never leaves Open (mutant).                   *)
CanCallNoProbe(b) ==
    IF b.state = "Open" THEN <<FALSE, b>> ELSE <<TRUE, b>>

(* can_call: <<answer, breaker after the call>>; an Open breaker whose     *)
(* timeout has passed goes HalfOpen with success_count 0 and answers yes. *)
CanCall(b) ==
    CASE b.state \in {"Closed", "HalfOpen"} -> <<TRUE, b>>
      [] b.since # NoFailure /\ b.since > Timeout ->
           <<TRUE, [b EXCEPT !.state = "HalfOpen", !.success_count = 0]>>
      [] OTHER -> <<FALSE, b>>

Init ==
    /\ breaker = [e \in Exchanges |-> NewBreaker]
    /\ up \in [Exchanges -> BOOLEAN]
    /\ result = [e \in Exchanges |-> "none"]

(* fetch_price_robust(symbol, e): refused by can_call; or some attempt of *)
(* the first and max_retries retries answers and record_success runs; or  *)
(* all 1 + max_retries attempts fail and record_failure runs.             *)
FetchPriceRobust(e) ==
    LET checked == CanCall(breaker[e])
        b == checked[2]
    IN  /\ \/ /\ ~checked[1]
              /\ breaker' = [breaker EXCEPT ![e] = b]
              /\ result' = [result EXCEPT ![e] = "open"]
           \/ /\ checked[1]
              /\ breaker' = [breaker EXCEPT ![e] = RecordSuccess(b)]
              /\ result' = [result EXCEPT ![e] = "ok"]
           \/ /\ checked[1]
              /\ ~up[e]
              /\ breaker' = [breaker EXCEPT ![e] = RecordFailure(b)]
              /\ result' = [result EXCEPT ![e] = "failed"]
        /\ UNCHANGED up

(* The wall clock advances.                                               *)
Tick ==
    /\ breaker' = [e \in Exchanges |->
                     [breaker[e] EXCEPT !.since =
                         IF @ = NoFailure \/ @ > Timeout THEN @ ELSE @ + 1]]
    /\ UNCHANGED <<up, result>>

(* An exchange goes down or comes back.                                   *)
SetUp(e) ==
    /\ up' = [up EXCEPT ![e] = ~@]
    /\ UNCHANGED <<breaker, result>>

Next == Tick \/ \E e \in Exchanges : FetchPriceRobust(e) \/ SetUp(e)

(* The fetcher calls every exchange each tick and time passes.            *)
Fairness == WF_cbVars(Tick) /\ \A e \in Exchanges : WF_cbVars(FetchPriceRobust(e))

Spec == Init /\ [][Next]_cbVars /\ Fairness

-----------------------------------------------------------------------------
(* The breaker as the spec describes it: HalfOpen and Open carry no       *)
(* consecutive-failure count, only HalfOpen a success count.              *)
Abstract == INSTANCE BreakerSpec WITH
    Keys <- Exchanges,
    brk <- [e \in Exchanges |->
              [mode |-> breaker[e].state,
               fails |-> IF breaker[e].state = "Closed"
                         THEN breaker[e].failure_count ELSE 0,
               oks |-> IF breaker[e].state = "HalfOpen"
                       THEN breaker[e].success_count ELSE 0,
               since |-> breaker[e].since]],
    res <- result

(* The breaker keeps to the spec's state machine: every fetch_price_robust *)
(* is a success, a failure or a refused call of the abstract breaker, and *)
(* the counters it keeps are the spec's consecutive counts.               *)
ImplementsBreakerSpec == Abstract!Spec

(* An exchange that comes back for good gets its breaker Closed for good: *)
(* an Open breaker is probed after the timeout and closes after three     *)
(* answered calls.                                                        *)
BreakerRecovers ==
    \A e \in Exchanges : (<>[]up[e]) => <>[](breaker[e].state = "Closed")
=============================================================================
