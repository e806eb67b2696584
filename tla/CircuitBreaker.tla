---------------------------- MODULE CircuitBreaker ----------------------------
(***************************************************************************)
(* The lock-free circuit breaker of resilience/circuit_breaker.rs, one     *)
(* atomic access per step, as TcpConnectionPool::get and the active        *)
(* healthcheck loop of proxy/server.rs drive it.  The counters that only   *)
(* feed metrics (window, allowed, rejected, last change) are left out:     *)
(* nothing reads them back.                                                *)
(*                                                                         *)
(* Time is kept as ages, in seconds before now, which saturate once they   *)
(* can no longer change an outcome.                                        *)
(***************************************************************************)
EXTENDS Integers, FiniteSets

CONSTANTS
    Requests,           \* tasks inside TcpConnectionPool::get
    Probes,             \* the healthcheck task: one, or none if disabled
    FailureThreshold,   \* failure_threshold
    SuccessThreshold,   \* success_threshold
    OpenTimeout,        \* open_timeout_secs
    UseHealthMonitor,   \* use_health_monitor, with a monitor attached
    ProbeThreshold,     \* failure_threshold of the healthcheck
    MaxStall,           \* bound: seconds a task may be descheduled between
                        \* reading the clock and using what it read
    U64                 \* the modulus of u64 subtraction

ASSUME BreakerAssumption ==
    /\ IsFiniteSet(Requests) /\ IsFiniteSet(Probes) /\ Requests \cap Probes = {}
    /\ FailureThreshold \in Nat \ {0} /\ SuccessThreshold \in Nat \ {0}
    /\ OpenTimeout \in Nat /\ MaxStall \in Nat /\ ProbeThreshold \in Nat
    /\ UseHealthMonitor \in BOOLEAN
    /\ U64 \in Nat /\ U64 > 2 * (OpenTimeout + MaxStall)

VARIABLES
    state,      \* the AtomicU8
    failures,   \* consecutive_failures
    successes,  \* consecutive_successes
    tsAge,      \* age of open_timestamp
    pc,         \* per task, the next atomic access
    after,      \* per task, where a transition helper returns to
    nowAge,     \* per task, age of the `now` it has read and not yet used
    checks,     \* ActiveHealthcheck: consecutive_failures, up to the threshold
    healthy,    \* ActiveHealthcheck: is_healthy
    openedAge   \* ghost: age of the last change of state to Open

vars == <<state, failures, successes, tsAge, pc, after, nowAge, checks, healthy,
          openedAge>>

Tasks == Requests \cup Probes
States == {"Closed", "Open", "HalfOpen"}
MaxAge == OpenTimeout + MaxStall
Ages == 0..MaxAge

(* "idle" is outside the breaker; "using" is between allow_request and the *)
(* record_* call, while get() waits for, recycles or opens a connection.   *)
PCs == {"idle", "allow_now", "allow_ts", "allow_cas", "allow_half",
        "using", "success", "success_reset", "success_add",
        "failure", "failure_add", "probe_cas",
        "open_state", "open_now", "open_ts", "open_succ",
        "close_state", "close_fail", "close_succ", "half_succ"}

TypeOK ==
    /\ state \in States
    /\ failures \in Nat /\ successes \in Nat
    /\ tsAge \in Ages /\ openedAge \in Ages
    /\ pc \in [Tasks -> PCs]
    /\ after \in [Tasks -> {"idle", "using"}]
    /\ nowAge \in [Tasks -> 0..MaxStall]
    /\ checks \in 0..ProbeThreshold /\ healthy \in BOOLEAN

(* open_timestamp starts at 0, the epoch: as old as an age gets.           *)
Init ==
    /\ state = "Closed" /\ failures = 0 /\ successes = 0
    /\ tsAge = MaxAge /\ openedAge = MaxAge
    /\ pc = [t \in Tasks |-> "idle"]
    /\ after = [t \in Tasks |-> "idle"]
    /\ nowAge = [t \in Tasks |-> 0]
    /\ checks = 0 /\ healthy = TRUE

At(t, l) == pc[t] = l
GoTo(t, l) == pc' = [pc EXCEPT ![t] = l]

(* Call a transition helper that starts at l and returns to r.             *)
Call(t, l, r) == GoTo(t, l) /\ after' = [after EXCEPT ![t] = r]

counters == <<failures, successes>>
probe == <<checks, healthy>>
times == <<tsAge, nowAge, openedAge>>

-----------------------------------------------------------------------------
(* allow_request                                                           *)
AllowRequest(t) ==
    /\ t \in Requests /\ At(t, "idle")
    /\ \/ state = "Closed" /\ GoTo(t, "using")
       \/ state = "Open" /\ GoTo(t, "allow_now")
       \/ state = "HalfOpen" /\ GoTo(t, "allow_half")
    /\ UNCHANGED <<state, counters, times, after, probe>>

ReadNow(t) ==
    /\ At(t, "allow_now")
    /\ nowAge' = [nowAge EXCEPT ![t] = 0]
    /\ GoTo(t, "allow_ts")
    /\ UNCHANGED <<state, counters, tsAge, openedAge, after, probe>>

(* now - open_ts in u64: it wraps when the timestamp is the younger one.   *)
Elapsed(t) == (tsAge - nowAge[t]) % U64

(* A faulty ReadOpenTimestamp, which Recovers must notice.                 *)
ReadOpenTimestampShut(t) ==
    /\ At(t, "allow_ts")
    /\ \/ Elapsed(t) > MaxAge /\ GoTo(t, "allow_cas")
       \/ Elapsed(t) <= MaxAge /\ GoTo(t, "idle")
    /\ nowAge' = [nowAge EXCEPT ![t] = 0]
    /\ UNCHANGED <<state, counters, tsAge, openedAge, after, probe>>

ReadOpenTimestamp(t) ==
    /\ At(t, "allow_ts")
    /\ \/ Elapsed(t) >= OpenTimeout /\ GoTo(t, "allow_cas")
       \/ Elapsed(t) < OpenTimeout /\ GoTo(t, "idle")
    /\ nowAge' = [nowAge EXCEPT ![t] = 0]
    /\ UNCHANGED <<state, counters, tsAge, openedAge, after, probe>>

(* try_transition_to_half_open from allow_request: the loser of the race   *)
(* is rejected.                                                            *)
RequestCas(t) ==
    /\ At(t, "allow_cas")
    /\ IF state = "Open"
         THEN state' = "HalfOpen" /\ Call(t, "half_succ", "using")
         ELSE GoTo(t, "idle") /\ UNCHANGED <<state, after>>
    /\ UNCHANGED <<counters, times, probe>>

HalfOpenGate(t) ==
    /\ At(t, "allow_half")
    /\ IF successes < SuccessThreshold
         THEN GoTo(t, "using") /\ UNCHANGED after
         ELSE Call(t, "close_state", "using")
    /\ UNCHANGED <<state, counters, times, probe>>

-----------------------------------------------------------------------------
(* The get() of a request ends, or its task is dropped and records nothing.*)
GetEnds(t) ==
    /\ At(t, "using")
    /\ \E l \in {"success", "failure", "idle"} : GoTo(t, l)
    /\ UNCHANGED <<state, counters, times, after, probe>>

RecordSuccess(t) ==
    /\ At(t, "success")
    /\ \/ state = "Closed" /\ GoTo(t, "success_reset") /\ UNCHANGED after
       \/ state = "HalfOpen" /\ GoTo(t, "success_add") /\ UNCHANGED after
       \/ state = "Open" /\ Call(t, "close_state", "idle")
    /\ UNCHANGED <<state, counters, times, probe>>

ResetFailures(t) ==
    /\ At(t, "success_reset")
    /\ failures' = 0
    /\ GoTo(t, "idle")
    /\ UNCHANGED <<state, successes, times, after, probe>>

CountSuccess(t) ==
    /\ At(t, "success_add")
    /\ successes' = successes + 1
    /\ IF successes + 1 >= SuccessThreshold
         THEN Call(t, "close_state", "idle")
         ELSE GoTo(t, "idle") /\ UNCHANGED after
    /\ UNCHANGED <<state, failures, times, probe>>

RecordFailure(t) ==
    /\ At(t, "failure")
    /\ \/ state = "Closed" /\ GoTo(t, "failure_add") /\ UNCHANGED after
       \/ state = "HalfOpen" /\ Call(t, "open_state", "idle")
       \/ state = "Open" /\ GoTo(t, "idle") /\ UNCHANGED after
    /\ UNCHANGED <<state, counters, times, probe>>

(* Below the threshold the health monitor, if used, may report Unhealthy.  *)
CountFailure(t) ==
    /\ At(t, "failure_add")
    /\ failures' = failures + 1
    /\ \/ /\ failures + 1 >= FailureThreshold \/ UseHealthMonitor
          /\ Call(t, "open_state", "idle")
       \/ /\ failures + 1 < FailureThreshold
          /\ GoTo(t, "idle") /\ UNCHANGED after
    /\ UNCHANGED <<state, successes, times, probe>>

-----------------------------------------------------------------------------
(* One round of the healthcheck loop, which alone uses `checks` and        *)
(* `healthy`: check(), where a failure below the threshold keeps the last  *)
(* verdict, and report_health, whose match reads the state once.           *)
Check(passed) ==
    /\ checks' = IF passed THEN 0
                 ELSE IF checks < ProbeThreshold THEN checks + 1 ELSE checks
    /\ healthy' = (passed \/ (checks + 1 < ProbeThreshold /\ healthy))

ReportHealth(t) ==
    \/ ~healthy' /\ state # "Open" /\ Call(t, "open_state", "idle")
    \/ healthy' /\ state = "Open" /\ GoTo(t, "probe_cas") /\ UNCHANGED after
    \/ healthy' = (state # "Open") /\ UNCHANGED <<pc, after>>

Probe(t, passed) ==
    /\ t \in Probes /\ At(t, "idle")
    /\ Check(passed) /\ ReportHealth(t)
    /\ UNCHANGED <<state, counters, times>>

ProbeCas(t) ==
    /\ At(t, "probe_cas")
    /\ IF state = "Open"
         THEN state' = "HalfOpen" /\ Call(t, "half_succ", "idle")
         ELSE GoTo(t, "idle") /\ UNCHANGED <<state, after>>
    /\ UNCHANGED <<counters, times, probe>>

-----------------------------------------------------------------------------
(* transition_to_open: the state first, then the clock is read and stored  *)
(* as the timestamp, then the count.                                       *)
OpenState(t) ==
    /\ At(t, "open_state")
    /\ state' = "Open"
    /\ openedAge' = IF state = "Open" THEN openedAge ELSE 0
    /\ GoTo(t, "open_now")
    /\ UNCHANGED <<counters, tsAge, nowAge, after, probe>>

OpenNow(t) ==
    /\ At(t, "open_now")
    /\ nowAge' = [nowAge EXCEPT ![t] = 0]
    /\ GoTo(t, "open_ts")
    /\ UNCHANGED <<state, counters, tsAge, openedAge, after, probe>>

(* A faulty OpenTimestamp, which TimestampCovers must notice.              *)
OpenTimestampLost(t) ==
    /\ At(t, "open_ts")
    /\ GoTo(t, "open_succ")
    /\ UNCHANGED <<state, counters, times, after, probe>>

OpenTimestamp(t) ==
    /\ At(t, "open_ts")
    /\ tsAge' = nowAge[t] /\ nowAge' = [nowAge EXCEPT ![t] = 0]
    /\ GoTo(t, "open_succ")
    /\ UNCHANGED <<state, counters, openedAge, after, probe>>

(* transition_to_closed                                                    *)
CloseState(t) ==
    /\ At(t, "close_state")
    /\ state' = "Closed"
    /\ GoTo(t, "close_fail")
    /\ UNCHANGED <<counters, times, after, probe>>

(* A faulty CloseFailures, which NoMissedTrip must notice.                 *)
CloseFailuresLost(t) ==
    /\ At(t, "close_fail")
    /\ GoTo(t, "close_succ")
    /\ UNCHANGED <<state, counters, times, after, probe>>

CloseFailures(t) ==
    /\ At(t, "close_fail")
    /\ failures' = 0
    /\ GoTo(t, "close_succ")
    /\ UNCHANGED <<state, successes, times, after, probe>>

(* The store each of the three helpers ends with.                          *)
ClearSuccesses(t) ==
    /\ pc[t] \in {"open_succ", "close_succ", "half_succ"}
    /\ successes' = 0
    /\ GoTo(t, after[t]) /\ after' = [after EXCEPT ![t] = "idle"]
    /\ UNCHANGED <<state, failures, times, probe>>

Older(a, cap) == IF a < cap THEN a + 1 ELSE a

(* Tasks that hold a clock reading.                                        *)
HoldsNow(t) == pc[t] \in {"allow_ts", "open_ts"}

(* A second passes.                                                        *)
Tick ==
    /\ \A t \in Tasks : HoldsNow(t) => nowAge[t] < MaxStall
    /\ tsAge' = Older(tsAge, MaxAge)
    /\ openedAge' = Older(openedAge, MaxAge)
    /\ nowAge' = [t \in Tasks |->
                    IF HoldsNow(t) THEN nowAge[t] + 1 ELSE nowAge[t]]
    /\ UNCHANGED <<state, counters, pc, after, probe>>

Enter(t) ==
    \/ AllowRequest(t) \/ GetEnds(t)
    \/ \E passed \in BOOLEAN : Probe(t, passed)

(* What a task that is inside the breaker does next.                       *)
Inside(t) ==
    \/ ReadNow(t) \/ ReadOpenTimestamp(t) \/ RequestCas(t) \/ HalfOpenGate(t)
    \/ RecordSuccess(t) \/ ResetFailures(t) \/ CountSuccess(t)
    \/ RecordFailure(t) \/ CountFailure(t) \/ ProbeCas(t)
    \/ OpenState(t) \/ OpenNow(t) \/ OpenTimestamp(t) \/ CloseState(t) \/ CloseFailures(t)
    \/ ClearSuccesses(t)

Next == Tick \/ \E t \in Tasks : Enter(t) \/ Inside(t)

Spec == Init /\ [][Next]_vars

-----------------------------------------------------------------------------
(* Once no task is between the two stores of transition_to_open, the open  *)
(* timeout is measured from at most a stall before the circuit opened: an  *)
(* opener of an earlier episode that is stalled over its clock reading may *)
(* overwrite a newer timestamp, but only by as much.                       *)
TimestampCovers ==
    state = "Open" /\ (\A t \in Tasks : pc[t] \notin {"open_now", "open_ts"}) =>
      tsAge <= openedAge + MaxStall

(* No missed trip: a circuit is never at rest in Closed with its failure   *)
(* count at the threshold.  Some task is then about to open it, or about   *)
(* to clear the count of the episode it has just closed.                   *)
NoMissedTrip ==
    state = "Closed" /\ failures >= FailureThreshold =>
      \E t \in Tasks : pc[t] \in {"open_state", "close_fail"}

(* The runtime runs ready tasks, the clock advances, clients keep asking   *)
(* for connections and every get() ends.                                   *)
Fairness ==
    /\ SF_vars(Tick)
    /\ \A t \in Tasks : WF_vars(Inside(t))
    /\ \A t \in Requests : WF_vars(AllowRequest(t)) /\ WF_vars(GetEnds(t))

LiveSpec == Spec /\ Fairness

(* An open circuit does not stay open for ever: no race between the two    *)
(* transition helpers loses the way back.                                  *)
Recovers == []<>(state # "Open")
=============================================================================
