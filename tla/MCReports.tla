----------------------------- MODULE MCReports -----------------------------
(* Constants for TLC: see Reports.                                          *)
EXTENDS Reports

MCLossStates == <<4>>

\* Two shifts, the first of which crosses midnight.
MCShifts == <<[start |-> 3, end |-> 2], [start |-> 2, end |-> 3]>>

\* The counters are about to wrap.
MCFirstCounters == {[good |-> CounterRange - 1, scrap |-> 1]}
=============================================================================
