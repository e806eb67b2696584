----------------------------- MODULE Telemetry -----------------------------
(***************************************************************************)
(* What the proxy records of its queries and what it concludes from it:    *)
(* record_hot_data and record_query of observability/metrics.rs, called by *)
(* the connection handlers, and the background task of main.rs, which      *)
(* every ten seconds samples the counters, lets the health monitor of      *)
(* observability/health.rs compare the sample with its baseline, and       *)
(* decays the hot data.                                                    *)
(*                                                                         *)
(* The counters are relaxed atomics, read and written one at a time.       *)
(* Rates, latencies and their moving averages are rounded down to          *)
(* multiples of 1/Scale.                                                   *)
(***************************************************************************)
EXTENDS HotData, Sequences

CONSTANTS
    Kinds,          \* bound: the queries that occur, [fps, latency, success]
    MaxQueries,     \* bound
    MaxTicks,       \* bound
    Scale           \* resolution of what f64 holds

ASSUME TelemetryAssumption ==
    /\ Kinds \subseteq [fps : Seq(Fingerprints), latency : Nat, success : BOOLEAN]
    /\ Scale \in Nat \ {0}

VARIABLES
    task,           \* per recorder, the connection it serves and its query
    started,        \* history: the number of queries
    slowest,        \* the p99 of a histogram with less than a hundred values
    total_queries,
    total_errors,
    active_connections,
    check,          \* the background task: its stage and its snapshot
    baseline,
    warnings,
    shown           \* history: the last error rate, and its times in a row

queryVars == <<task, started, slowest, total_queries, total_errors, active_connections>>

healthVars == <<check, baseline, warnings, shown>>

vars == <<table, access, fingerprint_to_count, heap, accesses,
          task, started, slowest, total_queries, total_errors, active_connections,
          check, baseline, warnings, shown>>

NoTask == [stage |-> "gone", fps |-> <<>>, latency |-> 0, success |-> TRUE]

NoCheck == [stage |-> "sleep", total |-> 0, errors |-> 0, p99 |-> 0]

(* Baseline::new.                                                          *)
NoBaseline == [error_rate |-> 0, latency_p99 |-> 0, pool_utilization |-> 0, sample_count |-> 0]

Init ==
    /\ HotInit
    /\ task = [r \in Recorders |-> NoTask]
    /\ started = 0 /\ slowest = 0
    /\ total_queries = 0 /\ total_errors = 0 /\ active_connections = 0
    /\ check = NoCheck
    /\ baseline = NoBaseline
    /\ warnings = {}
    /\ shown = [error_rate |-> 0, times |-> 0]

Goes(r, stage) == task' = [task EXCEPT ![r].stage = stage]

-----------------------------------------------------------------------------
Connect(r) ==
    /\ task[r].stage = "gone" /\ started < MaxQueries
    /\ active_connections' = active_connections + 1
    /\ Goes(r, "idle")
    /\ UNCHANGED hotVars /\ UNCHANGED healthVars
    /\ UNCHANGED <<started, slowest, total_queries, total_errors>>

Disconnect(r) ==
    /\ task[r].stage = "idle"
    /\ active_connections' = active_connections - 1
    /\ Goes(r, "gone")
    /\ UNCHANGED hotVars /\ UNCHANGED healthVars
    /\ UNCHANGED <<started, slowest, total_queries, total_errors>>

(* A query has ended.  One that timed out has no fingerprints, and its     *)
(* timeline is QueryTimeline::new(): no time at all.                       *)
QueryEnds(r) ==
    /\ task[r].stage = "idle" /\ started < MaxQueries
    /\ \E q \in Kinds :
         task' = [task EXCEPT ![r] = [stage |-> "hot", fps |-> q.fps,
                                      latency |-> q.latency, success |-> q.success]]
    /\ started' = started + 1
    /\ UNCHANGED hotVars /\ UNCHANGED healthVars
    /\ UNCHANGED <<slowest, total_queries, total_errors, active_connections>>

(* record_hot_data: one fingerprint after the other.                       *)
RecordHotData(r) ==
    /\ task[r].stage = "hot"
    /\ \/ /\ task[r].fps # <<>>
          /\ RecordAccess(r, Head(task[r].fps))
          /\ task' = [task EXCEPT ![r].fps = Tail(@)]
       \/ /\ NextRow(r) \/ UpdateTopK(r)
          /\ UNCHANGED task
    /\ UNCHANGED <<started, slowest, total_queries, total_errors, active_connections>>
    /\ UNCHANGED healthVars

(* record_query, first record_latency.                                     *)
RecordLatency(r) ==
    /\ task[r].stage = "hot" /\ task[r].fps = <<>> /\ access[r] = NoAccess
    /\ slowest' = IF task[r].latency > slowest THEN task[r].latency ELSE slowest
    /\ Goes(r, "total")
    /\ UNCHANGED hotVars /\ UNCHANGED healthVars
    /\ UNCHANGED <<started, total_queries, total_errors, active_connections>>

CountQuery(r) ==
    /\ task[r].stage = "total"
    /\ total_queries' = total_queries + 1
    /\ Goes(r, IF task[r].success THEN "idle" ELSE "errors")
    /\ UNCHANGED hotVars /\ UNCHANGED healthVars
    /\ UNCHANGED <<started, slowest, total_errors, active_connections>>

CountError(r) ==
    /\ task[r].stage = "errors"
    /\ total_errors' = total_errors + 1
    /\ Goes(r, "idle")
    /\ UNCHANGED hotVars /\ UNCHANGED healthVars
    /\ UNCHANGED <<started, slowest, total_queries, active_connections>>

-----------------------------------------------------------------------------
(* The background task: create_health_snapshot loads one counter after the *)
(* other.                                                                  *)
Tick ==
    /\ check.stage = "sleep" /\ baseline.sample_count < MaxTicks
    /\ check' = [check EXCEPT !.stage = "errors", !.total = total_queries]
    /\ UNCHANGED hotVars /\ UNCHANGED queryVars /\ UNCHANGED <<baseline, warnings, shown>>

LoadErrors ==
    /\ check.stage = "errors"
    /\ check' = [check EXCEPT !.stage = "latency", !.errors = total_errors]
    /\ UNCHANGED hotVars /\ UNCHANGED queryVars /\ UNCHANGED <<baseline, warnings, shown>>

LoadLatency ==
    /\ check.stage = "latency"
    /\ check' = [check EXCEPT !.stage = "check", !.p99 = slowest]
    /\ UNCHANGED hotVars /\ UNCHANGED queryVars /\ UNCHANGED <<baseline, warnings, shown>>

(* PoolMetrics::get_status: nothing but tests calls update_pool_metrics.   *)
PoolStatus == [size |-> 0, available |-> 0, max_size |-> 0]

Snapshot ==
    [error_rate |-> IF check.total = 0 THEN 0 ELSE (Scale * check.errors) \div check.total,
     latency_p99 |-> Scale * check.p99,
     pool_utilization |->
       IF PoolStatus.max_size = 0 THEN 0
       ELSE (Scale * (PoolStatus.size - PoolStatus.available)) \div PoolStatus.max_size,
     pool_size |-> PoolStatus.size, pool_available |-> PoolStatus.available,
     active_connections |-> active_connections]

(* A current value at least factor times a baseline; zeros do not count.   *)
Spikes(current, average, factor) ==
    current > 0 /\ average > 0 /\ current >= factor * average

(* The warnings of check_and_update, with HealthConfig::default().  The    *)
(* ones that get_status calls critical say so.                             *)
Warnings(s) ==
    LET W(holds, kind, critical) ==
          IF holds THEN {[kind |-> kind, critical |-> critical]} ELSE {}
    IN
    W(Spikes(s.error_rate, baseline.error_rate, 3), "ErrorRateSpike",
      Spikes(s.error_rate, baseline.error_rate, 5))
      \cup W(Spikes(s.latency_p99, baseline.latency_p99, 2), "LatencySpike", FALSE)
      \cup W(100 * s.pool_utilization >= 95 * Scale, "PoolSaturation",
             100 * s.pool_utilization >= 99 * Scale)
      \cup W(s.pool_available = 0 /\ s.active_connections > s.pool_size, "PoolStarvation", TRUE)

GetStatus ==
    IF warnings = {} THEN "Healthy"
    ELSE IF \E w \in warnings : w.critical THEN "Unhealthy" ELSE "Degraded"

Ema(sample, average) == (sample + 9 * average) \div 10

(* A faulty Baseline::update, which AlarmsFade must notice: what stands    *)
(* out is kept from the averages.                                          *)
AveragedWithoutSpikes(b, s) ==
    [error_rate |-> IF Spikes(s.error_rate, b.error_rate, 3) THEN b.error_rate
                    ELSE Ema(s.error_rate, b.error_rate),
     latency_p99 |-> IF Spikes(s.latency_p99, b.latency_p99, 2) THEN b.latency_p99
                     ELSE Ema(s.latency_p99, b.latency_p99),
     pool_utilization |-> Ema(s.pool_utilization, b.pool_utilization),
     sample_count |-> b.sample_count + 1]

(* Baseline::update.                                                       *)
Averaged(b, s) ==
    IF b.sample_count = 0
    THEN [error_rate |-> s.error_rate, latency_p99 |-> s.latency_p99,
          pool_utilization |-> s.pool_utilization, sample_count |-> 1]
    ELSE [error_rate |-> Ema(s.error_rate, b.error_rate),
          latency_p99 |-> Ema(s.latency_p99, b.latency_p99),
          pool_utilization |-> Ema(s.pool_utilization, b.pool_utilization),
          sample_count |-> b.sample_count + 1]

(* check_and_update: the sample is compared with the baseline before it    *)
(* becomes part of it.                                                     *)
CheckAndUpdate ==
    /\ check.stage = "check"
    /\ warnings' = Warnings(Snapshot)
    /\ baseline' = Averaged(baseline, Snapshot)
    /\ shown' = [error_rate |-> Snapshot.error_rate,
                 times |-> IF Snapshot.error_rate = shown.error_rate THEN shown.times + 1 ELSE 1]
    /\ check' = [NoCheck EXCEPT !.stage = "decay"]
    /\ UNCHANGED hotVars /\ UNCHANGED queryVars

(* HotDataTracker::apply_decay.                                            *)
ApplyDecay ==
    /\ \/ /\ check.stage = "decay" /\ DecaySketch
          /\ check' = [check EXCEPT !.stage = "decay top"]
       \/ /\ check.stage = "decay top" /\ DecayTopK
          /\ check' = NoCheck
    /\ UNCHANGED queryVars /\ UNCHANGED <<baseline, warnings, shown>>

Next ==
    \/ \E r \in Recorders :
         \/ Connect(r) \/ Disconnect(r) \/ QueryEnds(r)
         \/ RecordHotData(r) \/ RecordLatency(r) \/ CountQuery(r) \/ CountError(r)
    \/ Tick \/ LoadErrors \/ LoadLatency \/ CheckAndUpdate \/ ApplyDecay

Spec == Init /\ [][Next]_vars

-----------------------------------------------------------------------------
(* Spikes fade.  Whatever the averages start from (the task's first sample *)
(* is taken before the proxy listens, so it is as a rule all zeros, and    *)
(* any traffic after it stands out), and however the counters were torn    *)
(* while they were loaded: an error rate that repeats itself has by its    *)
(* fourth time raised the average enough to be no longer critical, and by  *)
(* its fifth to be no spike.                                               *)
AlarmsFade ==
    \A w \in warnings :
      w.kind = "ErrorRateSpike" => shown.times < IF w.critical THEN 4 ELSE 5
=============================================================================
