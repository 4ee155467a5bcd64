---------------------------- MODULE MCCollector ----------------------------
(* The cell with its state only: 1 is PRODUCING, 3 is FAULT.  And the cell *)
(* with the code of its fault too, for a planned stop (2) after a fault.   *)
EXTENDS Collector

MCScope == {"CELL"}
MCSeries == {}
MCTriggersOf == <<>>

MCTagsOf == [s \in {"CELL"} |-> {"State"}]
MCCellImage == [{"State"} -> {1, 3}]

MCTagsWithFault == [s \in {"CELL"} |-> {"State", "ActiveFault"}]
MCImageWithFault ==
    {[State |-> 3, ActiveFault |-> 101],
     [State |-> 1, ActiveFault |-> 0],
     [State |-> 2, ActiveFault |-> 0]}
=============================================================================
