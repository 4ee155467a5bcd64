------------------------------ MODULE Tracker ------------------------------
(***************************************************************************)
(* StopTracker (backend/app/collector/tracker.py): a pure state machine    *)
(* from groups of changes to database operations.                          *)
(*                                                                         *)
(* A group is [ts, values]: the tags that changed at one SourceTimestamp.  *)
(* The tracker derives from it                                             *)
(*   - for every scope (the cell, each station) an event made of the       *)
(*     latest known value of all the scope's tags,                         *)
(*   - for the cell, the stop that the event closes and the one it opens,  *)
(*   - for every series (counters, weld points) a sample.                  *)
(* All the operations of one group carry the group's timestamp, so they    *)
(* are one record:                                                         *)
(*   [ts, events: scope -> values, closes: start of the stop it closes or  *)
(*    Never, opens: whether a stop opens at ts, samples: series -> values]. *)
(* The columns of a stop that are computed from its event (state, station, *)
(* suggested cause) are left out.                                          *)
(***************************************************************************)
EXTENDS Integers, FiniteSets, Sequences

CONSTANTS
    Scope,        \* "CELL" and the stations
    Series,       \* counter_samples and weld_samples
    TagsOf,       \* scope or series -> the tags an event or a sample is built from
    TriggersOf,   \* series -> the tags whose change makes a sample
    StateTag,     \* Cell/State
    Producing     \* CellState.PRODUCING

ASSUME TrackerAssumption ==
    /\ "CELL" \in Scope
    /\ Scope \cap Series = {}
    /\ DOMAIN TagsOf = Scope \cup Series
    /\ \A s \in Scope \cup Series : TagsOf[s] # {}
    /\ DOMAIN TriggersOf = Series
    /\ \A s \in Series : TriggersOf[s] \subseteq TagsOf[s]
    /\ StateTag \in TagsOf["CELL"]

Never == 0

\* No event stored yet.  Its timestamp is older than any other and its values
\* equal no image.
NoEvent == [ts |-> Never, values |-> <<>>]

\* TrackerState of an empty database, and no tag known.
EmptyTracker ==
    [latest     |-> <<>>,                       \* tag -> [ts, value]
     last       |-> [s \in Scope |-> NoEvent],  \* last_cell, last_station
     openStop   |-> Never,
     lastSample |-> [s \in Series |-> Never]]

-----------------------------------------------------------------------------

\* The latest known value of each tag: an older group does not replace it.
Observe(latest, g) ==
    [tag \in DOMAIN latest \cup DOMAIN g.values |->
        IF tag \in DOMAIN g.values /\ (tag \in DOMAIN latest => g.ts >= latest[tag].ts)
        THEN [ts |-> g.ts, value |-> g.values[tag]]
        ELSE latest[tag]]

\* What is known of a scope or a series, once every tag of it is.
Known(latest, s) == TagsOf[s] \subseteq DOMAIN latest

Image(latest, s) == [tag \in TagsOf[s] |-> latest[tag].value]

Stopped(values) == values[StateTag] # Producing

\* _cell_event and _station_events: a group that touches the scope makes an
\* event unless its image equals the last stored event (a replay) or it is not
\* newer than it (a conflict, or history that cannot be inserted anymore).
ChangesReplayed(trk, latest, g, s) ==
    /\ DOMAIN g.values \cap TagsOf[s] # {}
    /\ Known(latest, s)
    /\ g.ts > trk.last[s].ts
Changes(trk, latest, g, s) ==
    /\ DOMAIN g.values \cap TagsOf[s] # {}
    /\ Known(latest, s)
    /\ Image(latest, s) # trk.last[s].values
    /\ g.ts > trk.last[s].ts

\* _counter_sample and _weld_sample: only the trigger tags make a sample, and
\* only one newer than the last sample of the series.
Samples(trk, latest, g, s) ==
    /\ DOMAIN g.values \cap TriggersOf[s] # {}
    /\ Known(latest, s)
    /\ g.ts > trk.lastSample[s]

-----------------------------------------------------------------------------

\* The operations for one group.  Every cell event closes the open stop; it
\* opens one unless the cell produces (_transition).
OpsForNotClosing(trk, g) ==
    LET latest == Observe(trk.latest, g)
        changed == {s \in Scope : Changes(trk, latest, g, s)}
    IN  [ts      |-> g.ts,
         events  |-> [s \in changed |-> Image(latest, s)],
         closes  |-> IF "CELL" \in changed /\ ~Stopped(Image(latest, "CELL"))
                     THEN trk.openStop ELSE Never,
         opens   |-> "CELL" \in changed /\ Stopped(Image(latest, "CELL")),
         samples |-> [s \in {r \in Series : Samples(trk, latest, g, r)} |-> Image(latest, s)]]
OpsFor(trk, g) ==
    LET latest == Observe(trk.latest, g)
        changed == {s \in Scope : Changes(trk, latest, g, s)}
    IN  [ts      |-> g.ts,
         events  |-> [s \in changed |-> Image(latest, s)],
         closes  |-> IF "CELL" \in changed THEN trk.openStop ELSE Never,
         opens   |-> "CELL" \in changed /\ Stopped(Image(latest, "CELL")),
         samples |-> [s \in {r \in Series : Samples(trk, latest, g, r)} |-> Image(latest, s)]]

HasOps(ops) == DOMAIN ops.events \cup DOMAIN ops.samples # {}

\* The tracker once it has issued these operations: it counts them as stored.
After(trk, g, ops) ==
    [latest     |-> Observe(trk.latest, g),
     last       |-> [s \in Scope |->
                        IF s \in DOMAIN ops.events
                        THEN [ts |-> g.ts, values |-> ops.events[s]]
                        ELSE trk.last[s]],
     openStop   |-> IF "CELL" \notin DOMAIN ops.events THEN trk.openStop
                    ELSE IF ops.opens THEN g.ts ELSE Never,
     lastSample |-> [s \in Series |->
                        IF s \in DOMAIN ops.samples THEN g.ts ELSE trk.lastSample[s]]]

\* apply()
Track(trk, g) == After(trk, g, OpsFor(trk, g))

\* The memory before the first of some groups, after it, after the second, ...
MemoriesOf(trk, groups) ==
    LET memory[n \in 0..Len(groups)] ==
            IF n = 0 THEN trk ELSE Track(memory[n - 1], groups[n])
    IN  memory

\* apply() for one group after the other: what each of them needs.
TrackAll(trk, groups) ==
    LET memories == MemoriesOf(trk, groups)
    IN  [trk |-> memories[Len(groups)],
         ops |-> [n \in 1..Len(groups) |-> OpsFor(memories[n - 1], groups[n])]]

-----------------------------------------------------------------------------

\* The i-th of a set of numbers.
Nth(stamps, i) == CHOOSE ts \in stamps : Cardinality({u \in stamps : u < ts}) = i - 1

\* Groups of different instants, oldest first.
InOrder(groups) ==
    LET stamps == {g.ts : g \in groups}
    IN  [i \in 1..Cardinality(stamps) |-> CHOOSE g \in groups : g.ts = Nth(stamps, i)]
=============================================================================
