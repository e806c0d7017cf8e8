--------------------------- MODULE CircuitBreaker ---------------------------
(***************************************************************************)
(* The circuit breaker of a client (api/crates/common/src/                 *)
(* circuit_breaker.rs) and the calls it guards (polymarket/src/client.rs,  *)
(* create_order).                                                          *)
(*                                                                         *)
(* The count of the failures is an atomic beside the lock of the state:    *)
(* record_failure counts before it asks for the lock, so other calls come  *)
(* between the two.  The clock of the breaker, Instant::now().elapsed(),   *)
(* is the time since the same line: always zero seconds, so that an open   *)
(* breaker lets a call through only where its timeout is zero seconds.     *)
(*                                                                         *)
(* A caller runs to its end: the one client with a breaker belongs to the  *)
(* trading engine, whose tasks nothing aborts.  failure_window is read     *)
(* nowhere, and reset has no caller but is part of the component.          *)
(***************************************************************************)
EXTENDS Integers

CONSTANTS
    Callers,
    Threshold,   \* failure_threshold
    Timeouts,    \* values of reset_timeout, in seconds
    CbMaxCount   \* bound: how many failures are counted after a reset

ASSUME BreakerAssumption ==
    Threshold \in Nat \ {0} /\ CbMaxCount \in Nat /\ Timeouts \subseteq Nat

VARIABLES
    resetTimeout, \* reset_timeout of this breaker
    breaker,      \* state
    failures,     \* failures
    caller        \* where each call is, and the count its failure got

cbVars == <<resetTimeout, breaker, failures, caller>>

AtRest == [pc |-> "rest", count |-> 0]

CbInit ==
    /\ resetTimeout \in Timeouts
    /\ breaker = "closed" /\ failures = 0
    /\ caller = [c \in Callers |-> AtRest]

CbGoto(c, pc, n) == caller' = [caller EXCEPT ![c] = [pc |-> pc, count |-> n]]

Passed == 0 >= resetTimeout            \* now - last_change, both zero

\* check_circuit_breaker: through, perhaps half-open from now on, or refused.
AllowCall(c) ==
    /\ caller[c].pc = "rest"
    /\ IF breaker = "open" /\ ~Passed
       THEN UNCHANGED <<breaker, caller>>
       ELSE /\ breaker' = IF breaker = "open" THEN "half_open" ELSE breaker
            /\ CbGoto(c, "calling", 0)
    /\ UNCHANGED <<resetTimeout, failures>>

FailuresKept(n) == n                   \* mutant: the breaker closes with its count

\* The count of a breaker that closes.
FailuresCleared(n) == 0

\* The call succeeded: record_success, under the lock.
RecordSuccess(c) ==
    /\ caller[c].pc = "calling" /\ CbGoto(c, "rest", 0)
    /\ IF breaker = "half_open"
       THEN breaker' = "closed" /\ failures' = FailuresCleared(failures)
       ELSE UNCHANGED <<breaker, failures>>
    /\ UNCHANGED resetTimeout

\* The call failed: record_failure counts it ...
CountFailure(c) ==
    /\ caller[c].pc = "calling" /\ failures < CbMaxCount
    /\ failures' = failures + 1
    /\ CbGoto(c, "counted", failures + 1)
    /\ UNCHANGED <<resetTimeout, breaker>>

\* ... and judges by that count once it has the lock.
RecordFailure(c) ==
    /\ caller[c].pc = "counted" /\ CbGoto(c, "rest", 0)
    /\ breaker' = IF breaker = "half_open" \/ (breaker = "closed" /\ caller[c].count >= Threshold)
                  THEN "open" ELSE breaker
    /\ UNCHANGED <<resetTimeout, failures>>

ResetBreaker ==
    /\ breaker' = "closed" /\ failures' = 0
    /\ UNCHANGED <<resetTimeout, caller>>

CbNext ==
    \/ ResetBreaker
    \/ \E c \in Callers : AllowCall(c) \/ RecordSuccess(c) \/ CountFailure(c) \/ RecordFailure(c)

CbSpec == CbInit /\ [][CbNext]_cbVars

-----------------------------------------------------------------------------
(* Properties.                                                             *)

\* A breaker is in one of its states, and a call has a count while it records it.
CbTypeOK ==
    /\ resetTimeout \in Timeouts
    /\ breaker \in {"closed", "open", "half_open"}
    /\ failures \in 0 .. CbMaxCount
    /\ caller \in [Callers -> [pc : {"rest", "calling", "counted"}, count : 0 .. CbMaxCount]]

\* A breaker that has counted as many failures as its threshold is closed only while
\* the call that will open it waits for the lock: however counts, successes and
\* resets interleave, it does not stay closed over a service that keeps failing.
ClosedBelowThreshold ==
    breaker = "closed" /\ failures >= Threshold =>
        \E c \in Callers : caller[c].pc = "counted" /\ caller[c].count >= Threshold

=============================================================================
