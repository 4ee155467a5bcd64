--------------------------- MODULE MCStopHistory ---------------------------
(* The cell with two of its three tags, one station and one series.        *)
EXTENDS StopHistory, TLC

MCScope == {"CELL", "OP20"}
MCSeries == {"weld"}
MCTagsOf ==
    [s \in {"CELL", "OP20", "weld"} |->
        CASE s = "CELL" -> {"State", "FaultCode"}
          [] s = "OP20" -> {"OP20/State"}
          [] s = "weld" -> {"WeldCurrent", "WeldOk"}]
MCTriggersOf == [s \in {"weld"} |-> {"WeldCurrent"}]

\* 1 is PRODUCING and 3 is FAULT, with the fault codes 0 and 101.  The state
\* and the fault code also change alone, as when notifications are torn apart.
MCGroupValues ==
    {[State |-> 1, FaultCode |-> 0, WeldCurrent |-> 5, WeldOk |-> 1] @@ ("OP20/State" :> 1),
     [State |-> 3, FaultCode |-> 101] @@ ("OP20/State" :> 3),
     [State |-> 3],
     [FaultCode |-> 0]}
=============================================================================
