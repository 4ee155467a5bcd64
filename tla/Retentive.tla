------------------------------ MODULE Retentive ------------------------------
(***************************************************************************)
(* The simulated PLC as its readers see it: its tags over time, and the    *)
(* retentive data from which a new process goes on (cell_sim/engine.py,    *)
(* persistence.py and the counters of cell.py).                            *)
(*                                                                         *)
(* One instant is one heartbeat.  What the cell does in it (Cell and Plc   *)
(* model that) is here any change of state and any part.  The engine is    *)
(* deterministic: a process that starts from the same retentive data as an *)
(* earlier one lives the same history again, as far as that one got.  (The *)
(* faults of the debug trigger file, which come when an operator likes, are*)
(* in Plc only: with them two such processes need not live the same.)      *)
(* past keeps, for each instant, what was lived last and by a process that *)
(* started from which data: [image, part, origin], the state shown before  *)
(* a new start at that instant, and whether the seed or a collector        *)
(* observed it.                                                            *)
(***************************************************************************)
EXTENDS Integers, FiniteSets

CONSTANTS
    MaxTs,          \* the last simulated instant of the model
    StartTs,        \* clock.start_ts
    CellStates,     \* the states the cell goes through
    StartStates,    \* those a process may begin with
    Working,        \* the states in which parts are made: CellState.PRODUCING
    PartKinds,      \* the counters of the model: "good", "scrap" or both
    MaxParts,       \* bound on the parts that a process may have counted
    MaxIdle,        \* bound on the instants that the cell spends without working
    CounterRange,   \* UINT32_MASK + 1
    Lookahead       \* lookahead_s, in instants

ASSUME RetentiveAssumption ==
    /\ {MaxTs, StartTs, MaxParts, MaxIdle, CounterRange, Lookahead} \subseteq Nat \ {0}
    /\ StartStates \cup Working \subseteq CellStates /\ StartStates # {}
    /\ PartKinds \subseteq {"good", "scrap"}

Tags == {"State", "good", "scrap"}

NoPart == "none"
Off    == [on |-> FALSE]

\* No state file: the counters and the clock are those of the configuration.  No
\* file says the same (highWater is never 0 in one): a process that starts from
\* a file draws other random numbers.
Fresh == [clean |-> TRUE, simTime |-> StartTs, highWater |-> 0, good |-> 0, scrap |-> 0]

\* Engine.snapshot and Cell.snapshot.
SnapshotAtOnce(sim, clean) ==
    [clean |-> clean, simTime |-> sim.now, highWater |-> sim.now,
     good |-> sim.image.good, scrap |-> sim.image.scrap]
Snapshot(sim, clean) ==
    [clean |-> clean, simTime |-> sim.now,
     highWater |-> sim.now + (IF clean THEN 0 ELSE Lookahead),
     good |-> sim.image.good, scrap |-> sim.image.scrap]

\* PersistedState.resume_ts
ResumeTsUnclean(file) == file.simTime
ResumeTs(file) == IF file.clean THEN file.simTime ELSE file.highWater

-----------------------------------------------------------------------------

\* Whether a process that started from this data lived this instant already.
Lived(past, origin, ts) == ts \in DOMAIN past /\ past[ts].origin = origin

\* _complete_part: & UINT32_MASK
CountedTwice(image, part) ==
    [image EXCEPT !.good  = IF part = "good"  THEN (@ + 2) % CounterRange ELSE @,
                  !.scrap = IF part = "scrap" THEN (@ + 2) % CounterRange ELSE @]
Counted(image, part) ==
    [image EXCEPT !.good  = IF part = "good"  THEN (@ + 1) % CounterRange ELSE @,
                  !.scrap = IF part = "scrap" THEN (@ + 1) % CounterRange ELSE @]

\* What the next instant may bring: a part only at the end of a producing one.
NextMoments(past, sim) ==
    LET ts == sim.now + 1
        idle == Cardinality({t \in DOMAIN past : past[t].image.State \notin Working})
    IN  IF Lived(past, sim.origin, ts) THEN {past[ts]}
        ELSE {[image |-> [Counted(sim.image, part) EXCEPT !.State = state],
               before |-> state, part |-> part, origin |-> sim.origin, observed |-> FALSE] :
              state \in IF idle < MaxIdle THEN CellStates ELSE Working,
              part \in {NoPart} \cup
                  IF sim.image.State \in Working /\ sim.image.good + sim.image.scrap < MaxParts
                  THEN PartKinds ELSE {}}

\* Engine.step, set_tag: a tag is stamped when its value changes.
Changed(sim, moment) == {tag \in Tags : moment.image[tag] # sim.image[tag]}

Advanced(sim, moment) ==
    [sim EXCEPT !.now = sim.now + 1,
                !.image = moment.image,
                !.since = [tag \in Tags |->
                    IF tag \in Changed(sim, moment) THEN sim.now + 1 ELSE sim.since[tag]]]

\* Simulation.start: the first image, of every tag, stamped with the start.
FirstMoments(past, file) ==
    LET ts == ResumeTs(file)
    IN  IF Lived(past, file, ts) THEN {past[ts]}
        ELSE {[image |-> [State |-> state, good |-> file.good, scrap |-> file.scrap],
               before |-> IF ts \in DOMAIN past THEN past[ts].image.State ELSE state,
               part |-> IF ts \in DOMAIN past THEN past[ts].part ELSE NoPart,
               origin |-> file, observed |-> FALSE] : state \in StartStates}

Started(file, moment) ==
    [on |-> TRUE, now |-> ResumeTs(file), image |-> moment.image,
     since |-> [tag \in Tags |-> ResumeTs(file)],
     origin |-> file, saved |-> FALSE]

\* past, with one more instant.
Extended(past, ts, moment) ==
    [t \in DOMAIN past \cup {ts} |-> IF t = ts THEN moment ELSE past[t]]
=============================================================================
