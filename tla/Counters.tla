------------------------------ MODULE Counters ------------------------------
(***************************************************************************)
(* Cumulative counters (backend/app/oee/counters.py): what was produced    *)
(* between two readings of a counter that wraps around.                    *)
(***************************************************************************)
EXTENDS Integers, FiniteSetsExt

CONSTANTS
    CounterRange,   \* UINT32_RANGE: a counter is a number below it
    RolloverWindow  \* rollover_window: how near the wrap both readings have to be

ASSUME CountersAssumption ==
    /\ CounterRange \in Nat \ {0}
    /\ RolloverWindow \in Nat

\* _delta
Delta(prev, cur) ==
    CASE cur >= prev -> cur - prev
      [] cur < prev /\ prev >= CounterRange - RolloverWindow /\ cur <= RolloverWindow ->
            cur + CounterRange - prev
      [] OTHER -> 0

\* counter_deltas, over samples ts -> [good, scrap]: what each sample reveals.
\* The first has no baseline.
CounterDeltas(samples) ==
    {LET earlier == {t \in DOMAIN samples : t < ts}
         prev == IF earlier = {} THEN 0 ELSE Max(earlier)
     IN  [ts    |-> ts,
          prev  |-> prev,
          good  |-> IF prev = 0 THEN 0 ELSE Delta(samples[prev].good, samples[ts].good),
          scrap |-> IF prev = 0 THEN 0 ELSE Delta(samples[prev].scrap, samples[ts].scrap)] :
     ts \in DOMAIN samples}
=============================================================================
