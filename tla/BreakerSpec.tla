---------------------------- MODULE BreakerSpec -----------------------------
(***************************************************************************)
(* What the fetcher's circuit breaker promises (spec section 4.1, "Retry   *)
(* + circuit breaker"): Closed -> Open when consecutive failed calls reach *)
(* threshold; Open -> HalfOpen once open_timeout has passed since the last *)
(* failure; HalfOpen -> Closed after 3 consecutive successes, and any      *)
(* failure in HalfOpen returns to Open and restarts the timer.  A call on  *)
(* an Open breaker before the timeout is rejected and changes nothing.     *)
(*                                                                         *)
(* One breaker per key.  since is the time since the last failure, held   *)
(* at Timeout + 1 once the timeout has passed, or NoFailure.  res is what  *)
(* the last call on the key returned.                                     *)
(***************************************************************************)
EXTENDS Naturals

CONSTANTS Keys, Threshold, Timeout, NoFailure

VARIABLES brk, res   \* brk[k] = [mode, fails, oks, since]

vars == <<brk, res>>

Modes == {"Closed", "Open", "HalfOpen"}

Init == /\ brk = [k \in Keys |-> [mode |-> "Closed", fails |-> 0, oks |-> 0,
                                since |-> NoFailure]]
        /\ res = [k \in Keys |-> "none"]

(* The mode a call meets: an Open breaker past its timeout is probed.     *)
Effective(b) ==
    IF b.mode = "Open" /\ b.since # NoFailure /\ b.since > Timeout
    THEN "HalfOpen" ELSE b.mode

Succeed(k) ==
    LET b == brk[k]
    IN  /\ Effective(b) # "Open"
        /\ brk' = [brk EXCEPT ![k] =
              IF Effective(b) = "Closed" THEN [b EXCEPT !.fails = 0]
              ELSE LET oks == (IF b.mode = "HalfOpen" THEN b.oks ELSE 0) + 1
                   IN  IF oks >= 3
                       THEN [b EXCEPT !.mode = "Closed", !.fails = 0, !.oks = 0]
                       ELSE [b EXCEPT !.mode = "HalfOpen", !.oks = oks]]
        /\ res' = [res EXCEPT ![k] = "ok"]

Fail(k) ==
    LET b == brk[k]
    IN  /\ Effective(b) # "Open"
        /\ brk' = [brk EXCEPT ![k] =
              IF Effective(b) = "Closed" /\ b.fails + 1 < Threshold
              THEN [b EXCEPT !.fails = @ + 1, !.since = 0]
              ELSE [mode |-> "Open", fails |-> 0, oks |-> 0, since |-> 0]]
        /\ res' = [res EXCEPT ![k] = "failed"]

Refuse(k) ==
    /\ Effective(brk[k]) = "Open"
    /\ res' = [res EXCEPT ![k] = "open"]
    /\ UNCHANGED brk

Tick ==
    /\ brk' = [k \in Keys |->
              [brk[k] EXCEPT !.since =
                  IF @ = NoFailure \/ @ > Timeout THEN @ ELSE @ + 1]]
        /\ UNCHANGED res

Next == Tick \/ \E k \in Keys : Succeed(k) \/ Fail(k) \/ Refuse(k)

Spec == Init /\ [][Next]_vars
=============================================================================
