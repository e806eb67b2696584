---------------------------- MODULE MCTelemetry ----------------------------
(* Telemetry with three fingerprints, of which the third shares a bucket   *)
(* with the first in one row and with the second in the other.             *)
EXTENDS Telemetry, TLC

CONSTANTS r1, r2, f1, f2, f3

MCHash == <<(f1 :> 1) @@ (f2 :> 2) @@ (f3 :> 1), (f1 :> 1) @@ (f2 :> 2) @@ (f3 :> 2)>>

MCKinds ==
    {[fps |-> <<f1, f2>>, latency |-> 1, success |-> TRUE],
     [fps |-> <<f1, f3>>, latency |-> 2, success |-> FALSE],
     [fps |-> <<>>, latency |-> 0, success |-> FALSE]}

Symmetry == Permutations(Recorders)
=============================================================================
