---------------------------- MODULE MCDeployment ----------------------------
(* A cell that produces (1) or is in a fault (3), and counts good parts.   *)
EXTENDS Deployment

MCScope == {"CELL"}
MCSeries == {"counter"}
MCTagsOf == [s \in {"CELL", "counter"} |->
                IF s = "CELL" THEN {"State"} ELSE {"good", "scrap"}]
MCTriggersOf == [s \in {"counter"} |-> {"good", "scrap"}]
=============================================================================
