---------------------------- MODULE MCAssembler ----------------------------
(* Three instants, two tags.  At the second instant the State changes      *)
(* twice, so that the last value must win.                                 *)
EXTENDS AssemblerHistory

MCTag == {"State", "FaultCode"}
MCValue == {1, 2}
MCChange ==
    [tag : {"State"}, value : {1}, ts : {1, 2, 3}]
        \cup [tag : {"FaultCode"}, value : {1}, ts : {2, 3}]
        \cup {[tag |-> "State", value |-> 2, ts |-> 2]}
=============================================================================
