------------------------------- MODULE Breaker -------------------------------
(***************************************************************************)
(* The circuit breaker of one database target, runlet_wire's               *)
(* CircuitBreaker, as fabricd uses and documents it (FabricdConfig's       *)
(* db_breaker_threshold and db_breaker_cooldown_ms): `threshold`           *)
(* consecutive failures open it, an open breaker refuses, and after the    *)
(* cool-down a half-open probe is let through, whose outcome closes or     *)
(* reopens it.                                                             *)
(*                                                                         *)
(* The library is outside the repository.  What its documentation there    *)
(* leaves open is left open here: each operation is the set of its         *)
(* possible results, so that what is shown of the daemon does not depend   *)
(* on them.                                                                *)
(***************************************************************************)
EXTENDS Integers

CONSTANT Threshold   \* db_breaker_threshold; 0 = no breaker

ASSUME ThresholdAssumption == Threshold \in Nat

BreakerOn == Threshold > 0

BreakerState ==
    [st : {"closed", "open", "cooled", "half_open"}, failures : 0..Threshold]

ClosedBreaker == [st |-> "closed", failures |-> 0]

OpenBreaker == [st |-> "open", failures |-> Threshold]

\* allow(target): the possible [admitted, next state] of the breaker b.
\* Whether a half-open breaker lets more than one probe through is not known.
allow(b) ==
    CASE b.st = "closed" -> {[admitted |-> TRUE, next |-> b]}
      [] b.st = "open" -> {[admitted |-> FALSE, next |-> b]}
      [] b.st = "cooled" ->
            {[admitted |-> TRUE, next |-> [b EXCEPT !.st = "half_open"]]}
      [] b.st = "half_open" -> [admitted : BOOLEAN, next : {b}]

\* record(target, ok): the possible next states of the breaker b.  What an
\* outcome that arrives after the trip does to an open breaker is not known.
record(b, ok) ==
    IF ok
    THEN CASE b.st \in {"closed", "half_open"} -> {ClosedBreaker}
           [] b.st \in {"open", "cooled"} -> {ClosedBreaker, b}
    ELSE CASE b.st = "closed" ->
                IF b.failures + 1 >= Threshold
                THEN {OpenBreaker}
                ELSE {[b EXCEPT !.failures = @ + 1]}
           [] b.st = "half_open" -> {OpenBreaker}
           [] b.st \in {"open", "cooled"} -> {OpenBreaker, b}
=============================================================================
