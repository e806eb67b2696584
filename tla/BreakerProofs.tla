---------------------------- MODULE BreakerProofs ----------------------------
(***************************************************************************)
(* Proofs about the circuit breaker, for any number of tasks, any          *)
(* thresholds and any timeouts.                                            *)
(***************************************************************************)
EXTENDS CircuitBreaker, TLAPS

(* The inductive invariant.  Both safety properties need only the types,   *)
(* which bound the age of a clock reading: each names, in the program      *)
(* counters, the task that is about to restore what a half-done transition *)
(* has disturbed.                                                          *)
IInv == TypeOK /\ TimestampCovers /\ NoMissedTrip

(* A new breaker satisfies the invariant.                                  *)
LEMMA InitInv == Init => IInv
  BY BreakerAssumption
  DEF Init, IInv, TypeOK, TimestampCovers, NoMissedTrip, States, Ages, MaxAge,
      PCs, Tasks

(* The places in the code that the two properties speak of.                *)
Marked == {"open_state", "open_now", "open_ts", "close_fail"}

(* The places between the two stores of transition_to_open.                *)
Opening == {"open_now", "open_ts"}

(* A step that leaves state, counts and times alone and takes one task to  *)
(* any place but those, from one the two properties do not speak of.       *)
LEMMA QuietStep ==
  ASSUME IInv, NEW t \in Tasks, NEW l \in PCs, GoTo(t, l),
         pc[t] \notin Marked, after' \in [Tasks -> {"idle", "using"}],
         nowAge' \in [Tasks -> 0..MaxStall], successes' \in Nat,
         UNCHANGED <<state, failures, tsAge, openedAge, probe>>,
         l \notin Opening
  PROVE  IInv'
<1>1. TypeOK'
  BY Zenon DEF IInv, TypeOK, GoTo, probe
<1>2. TimestampCovers'
  BY Zenon DEF IInv, TypeOK, TimestampCovers, GoTo, At, Marked, Opening
<1>3. NoMissedTrip'
  BY Zenon DEF IInv, TypeOK, NoMissedTrip, GoTo, At, Marked
<1> QED BY Zenon, <1>1, <1>2, <1>3 DEF IInv

(* A reading that is at most a stall old is so relative to any later       *)
(* moment.                                                                 *)
LEMMA Slack ==
  ASSUME NEW a \in Int, NEW b \in Nat, a <= MaxStall
  PROVE  a <= b + MaxStall
  BY BreakerAssumption

(* Every atomic step of a task keeps the invariant.                        *)
LEMMA NextInv == IInv /\ [Next]_vars => IInv'
<1> SUFFICES ASSUME IInv, [Next]_vars PROVE IInv'
  BY Zenon
<1> USE BreakerAssumption
<1>0. CASE UNCHANGED vars
  BY Zenon, <1>0 DEF vars, IInv, TypeOK, TimestampCovers, NoMissedTrip, At
<1>1. CASE Tick
  <2>1. TypeOK'
    BY <1>1 DEF Tick, IInv, TypeOK, Older, Ages, MaxAge, counters, probe, HoldsNow
  <2>2. TimestampCovers'
    BY <1>1 DEF Tick, IInv, TypeOK, TimestampCovers, Older, Ages, MaxAge,
                counters
  <2>3. NoMissedTrip'
    BY Zenon, <1>1 DEF Tick, IInv, NoMissedTrip, counters
  <2> QED BY Zenon, <2>1, <2>2, <2>3 DEF IInv
<1>2. ASSUME NEW t \in Tasks, AllowRequest(t)
      PROVE  IInv'
  <2>1. PICK l \in {"using", "allow_now", "allow_half"} : GoTo(t, l)
    BY Zenon, <1>2 DEF AllowRequest, IInv, TypeOK, States
  <2> QED BY Zenon, <1>2, <2>1, QuietStep
          DEF AllowRequest, At, Marked, Opening, PCs, counters, times, probe, IInv, TypeOK
<1>3. ASSUME NEW t \in Tasks, GetEnds(t)
      PROVE  IInv'
  BY Zenon, <1>3, QuietStep DEF GetEnds, At, Marked, Opening, PCs, counters, times, IInv, TypeOK
(* The probe's own variables are nobody else's; the rest of its step is    *)
(* quiet, or it leaves the breaker alone.                                  *)
<1>4. ASSUME NEW t \in Tasks, NEW passed \in BOOLEAN, Probe(t, passed)
      PROVE  IInv'
  <2>1. checks' \in 0..ProbeThreshold
    BY <1>4 DEF Probe, Check, IInv, TypeOK
  <2>2. healthy' \in BOOLEAN
    BY <1>4, Zenon DEF Probe, Check, IInv, TypeOK
  <2>3. pc' \in [Tasks -> PCs] /\ after' \in [Tasks -> {"idle", "using"}]
    BY <1>4 DEF Probe, ReportHealth, Call, GoTo, IInv, TypeOK, PCs
  <2>4. \A u \in Tasks : pc'[u] # pc[u] => pc[u] = "idle" /\ pc'[u] \notin Opening
    BY Zenon, <1>4 DEF Probe, ReportHealth, Call, GoTo, At, Opening, IInv, TypeOK
  <2>5. TypeOK'
    BY Zenon, <1>4, <2>1, <2>2, <2>3 DEF Probe, counters, times, IInv, TypeOK
  <2>6. TimestampCovers'
    BY Zenon, <1>4, <2>4 DEF Probe, counters, times, Opening, IInv, TimestampCovers
  <2>7. NoMissedTrip'
    BY Zenon, <1>4, <2>4 DEF Probe, counters, times, IInv, NoMissedTrip
  <2> QED BY Zenon, <2>5, <2>6, <2>7 DEF IInv
<1>5. ASSUME NEW t \in Tasks, ReadNow(t)
      PROVE  IInv'
  BY <1>5, QuietStep DEF ReadNow, At, Marked, Opening, PCs, counters, probe, IInv, TypeOK
<1>6. ASSUME NEW t \in Tasks, ReadOpenTimestamp(t)
      PROVE  IInv'
  <2>1. PICK l \in {"allow_cas", "idle"} : GoTo(t, l)
    BY Zenon, <1>6 DEF ReadOpenTimestamp
  <2> QED BY <1>6, <2>1, QuietStep
          DEF ReadOpenTimestamp, At, Marked, Opening, PCs, counters, probe, IInv, TypeOK
<1>7. ASSUME NEW t \in Tasks, RequestCas(t) \/ ProbeCas(t)
      PROVE  IInv'
  <2>1. TypeOK'
    BY <1>7 DEF RequestCas, ProbeCas, Call, GoTo, At, IInv, TypeOK, probe, PCs, States,
                counters, times
  <2>2. TimestampCovers'
    BY Zenon, <1>7 DEF RequestCas, ProbeCas, Call, GoTo, At, IInv, TypeOK,
                TimestampCovers, counters, times
  <2>3. NoMissedTrip'
    BY Zenon, <1>7 DEF RequestCas, ProbeCas, Call, GoTo, At, IInv, TypeOK,
                NoMissedTrip, counters, times
  <2> QED BY Zenon, <2>1, <2>2, <2>3 DEF IInv
<1>8. ASSUME NEW t \in Tasks, HalfOpenGate(t)
      PROVE  IInv'
  <2>1. PICK l \in {"using", "close_state"} : GoTo(t, l)
    BY Zenon, <1>8 DEF HalfOpenGate, Call
  <2>2. after' \in [Tasks -> {"idle", "using"}]
    BY Zenon, <1>8 DEF HalfOpenGate, Call, IInv, TypeOK
  <2> QED BY Zenon, <1>8, <2>1, <2>2, QuietStep
          DEF HalfOpenGate, At, Marked, Opening, PCs, counters, times, probe, IInv, TypeOK
<1>9. ASSUME NEW t \in Tasks, RecordSuccess(t)
      PROVE  IInv'
  <2>1. PICK l \in {"success_reset", "success_add", "close_state"} : GoTo(t, l)
    BY Zenon, <1>9 DEF RecordSuccess, Call, IInv, TypeOK, States
  <2>2. after' \in [Tasks -> {"idle", "using"}]
    BY Zenon, <1>9 DEF RecordSuccess, Call, IInv, TypeOK, States
  <2> QED BY Zenon, <1>9, <2>1, <2>2, QuietStep
          DEF RecordSuccess, At, Marked, Opening, PCs, counters, times, probe, IInv, TypeOK
<1>10. ASSUME NEW t \in Tasks, RecordFailure(t)
       PROVE  IInv'
  <2>1. PICK l \in {"failure_add", "open_state", "idle"} : GoTo(t, l)
    BY Zenon, <1>10 DEF RecordFailure, Call, IInv, TypeOK, States
  <2>2. after' \in [Tasks -> {"idle", "using"}]
    BY Zenon, <1>10 DEF RecordFailure, Call, IInv, TypeOK, States
  <2> QED BY <1>10, <2>1, <2>2, QuietStep
          DEF RecordFailure, At, Marked, Opening, PCs, counters, times, probe, IInv, TypeOK
<1>11. ASSUME NEW t \in Tasks, CountSuccess(t)
       PROVE  IInv'
  <2>1. PICK l \in {"close_state", "idle"} : GoTo(t, l)
    BY Zenon, <1>11 DEF CountSuccess, Call
  <2>2. after' \in [Tasks -> {"idle", "using"}]
    BY Zenon, <1>11 DEF CountSuccess, Call, IInv, TypeOK
  <2>3. successes' \in Nat
    BY <1>11 DEF CountSuccess, IInv, TypeOK
  <2> QED BY Zenon, <1>11, <2>1, <2>2, <2>3, QuietStep
          DEF CountSuccess, At, Marked, Opening, PCs, times, probe, IInv, TypeOK
<1>12. ASSUME NEW t \in Tasks, ResetFailures(t) \/ CloseFailures(t)
       PROVE  IInv'
  <2>1. TypeOK'
    BY <1>12 DEF ResetFailures, CloseFailures, GoTo, At, IInv, TypeOK, probe, PCs, times
  <2>2. TimestampCovers'
    BY Zenon, <1>12 DEF ResetFailures, CloseFailures, GoTo, At, IInv, TypeOK,
                 TimestampCovers, times
  <2>3. NoMissedTrip'
    BY <1>12 DEF ResetFailures, CloseFailures, GoTo, At, IInv, TypeOK,
                 NoMissedTrip, times
  <2> QED BY Zenon, <2>1, <2>2, <2>3 DEF IInv
(* The failure that brings the count to the threshold goes on to open.     *)
<1>13. ASSUME NEW t \in Tasks, CountFailure(t)
       PROVE  IInv'
  <2>1. TypeOK'
    BY <1>13 DEF CountFailure, Call, GoTo, At, IInv, TypeOK, probe, PCs, times
  <2>2. TimestampCovers'
    BY Zenon, <1>13 DEF CountFailure, Call, GoTo, At, IInv, TypeOK, TimestampCovers,
                 times
  <2>3. NoMissedTrip'
    BY <1>13 DEF CountFailure, Call, GoTo, At, IInv, TypeOK, NoMissedTrip, times
  <2> QED BY Zenon, <2>1, <2>2, <2>3 DEF IInv
<1>14. ASSUME NEW t \in Tasks, OpenState(t)
       PROVE  IInv'
  <2>1. TypeOK'
    BY <1>14 DEF OpenState, GoTo, At, IInv, TypeOK, probe, PCs, States, Ages, MaxAge,
                 counters
  <2>2. TimestampCovers'
    BY Zenon, <1>14 DEF OpenState, GoTo, At, IInv, TypeOK, TimestampCovers
  <2>3. NoMissedTrip'
    BY Zenon, <1>14 DEF OpenState, NoMissedTrip
  <2> QED BY Zenon, <2>1, <2>2, <2>3 DEF IInv
(* What an opener stores is at most a stall old.                           *)
<1>15. ASSUME NEW t \in Tasks, OpenTimestamp(t)
       PROVE  IInv'
  <2>1. TypeOK'
    BY <1>15 DEF OpenTimestamp, GoTo, At, IInv, TypeOK, probe, PCs, Ages, MaxAge,
                 counters
  <2>2. tsAge' <= MaxStall
    BY <1>15 DEF OpenTimestamp, IInv, TypeOK
  <2>3. tsAge' \in Int /\ openedAge' \in Nat
    BY <2>1 DEF TypeOK, Ages, MaxAge
  <2>4. tsAge' <= openedAge' + MaxStall
    BY Zenon, <2>2, <2>3, Slack
  <2>5. TimestampCovers'
    BY Zenon, <2>4 DEF TimestampCovers
  <2>6. NoMissedTrip'
    BY Zenon, <1>15 DEF OpenTimestamp, GoTo, At, IInv, TypeOK, NoMissedTrip, counters
  <2> QED BY Zenon, <2>1, <2>5, <2>6 DEF IInv
<1>18. ASSUME NEW t \in Tasks, OpenNow(t)
       PROVE  IInv'
  <2>1. TypeOK'
    BY <1>18 DEF OpenNow, GoTo, At, IInv, TypeOK, probe, PCs, counters
  <2>2. TimestampCovers'
    BY Zenon, <1>18 DEF OpenNow, GoTo, IInv, TypeOK, TimestampCovers
  <2>3. NoMissedTrip'
    BY Zenon, <1>18 DEF OpenNow, GoTo, At, IInv, TypeOK, NoMissedTrip, counters
  <2> QED BY Zenon, <2>1, <2>2, <2>3 DEF IInv
(* Whoever closes the circuit goes on to clear the count.                  *)
<1>16. ASSUME NEW t \in Tasks, CloseState(t)
       PROVE  IInv'
  <2>1. TypeOK'
    BY Zenon, <1>16 DEF CloseState, GoTo, At, IInv, TypeOK, probe, PCs, States, counters, times
  <2>2. TimestampCovers'
    BY Zenon, <1>16 DEF CloseState, TimestampCovers
  <2>3. NoMissedTrip'
    BY Zenon, <1>16 DEF CloseState, GoTo, At, IInv, TypeOK, NoMissedTrip
  <2> QED BY Zenon, <2>1, <2>2, <2>3 DEF IInv
<1>17. ASSUME NEW t \in Tasks, ClearSuccesses(t)
       PROVE  IInv'
  <2>1. after[t] \in {"idle", "using"}
    BY Zenon DEF IInv, TypeOK
  <2> QED BY <1>17, <2>1, QuietStep
          DEF ClearSuccesses, Marked, Opening, PCs, times, probe, IInv, TypeOK
<1> QED
  BY Zenon, <1>0, <1>1, <1>2, <1>3, <1>4, <1>5, <1>6, <1>7, <1>8, <1>9, <1>10, <1>11,
     <1>12, <1>13, <1>14, <1>15, <1>16, <1>17, <1>18
  DEF Next, Enter, Inside

(* The invariant holds in every reachable state.                           *)
LEMMA AlwaysIInv == Spec => []IInv
<1> QED BY InitInv, NextInv, PTL DEF Spec

-----------------------------------------------------------------------------
(* Type correctness of the breaker: in particular its ages stay in range,  *)
(* so that the u64 subtraction of allow_request is the one modelled.       *)
THEOREM BreakerTypes == Spec => []TypeOK
<1>1. IInv => TypeOK
  BY Zenon DEF IInv
<1> QED BY <1>1, AlwaysIInv, PTL

(* transition_to_open leaves no open circuit with a timestamp from more    *)
(* than a stall before its opening, once no task is between its two        *)
(* stores, although the clock is read in a step of its own.                *)
THEOREM Covered == Spec => []TimestampCovers
<1>1. IInv => TimestampCovers
  BY Zenon DEF IInv
<1> QED BY <1>1, AlwaysIInv, PTL

(* record_failure and transition_to_closed together miss no trip, however  *)
(* the tasks that run them interleave.                                     *)
THEOREM TripsAreTaken == Spec => []NoMissedTrip
<1>1. IInv => NoMissedTrip
  BY Zenon DEF IInv
<1> QED BY <1>1, AlwaysIInv, PTL
=============================================================================
