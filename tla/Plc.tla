-------------------------------- MODULE Plc --------------------------------
(***************************************************************************)
(* The PLC: the simulated cell, the pacer that releases its events on the  *)
(* wall clock, and the retentive data that it saves and starts from again  *)
(* (cell_sim/pacer.py, persistence.py, clock.py, __main__.py).             *)
(***************************************************************************)
EXTENDS Cell

CONSTANTS
    SlotLengths,    \* how long a weld point may take
    Durations,      \* how long a stop may last
    Delays,         \* how long production may go on until it is interrupted
    StartTs,        \* clock.start_ts
    Acceleration,   \* clock.acceleration: simulated time in one tick of the wall clock
    SaveInterval,   \* save_interval_s, in ticks
    Jitter,         \* how many ticks late a save may be
    Margin,         \* _LOOKAHEAD_MARGIN_S
    MaxTs,          \* the wall clock stops there
    MaxStarts,      \* how many restarts there may be
    MaxForced       \* how often a fault may be asked for

ASSUME PlcAssumption ==
    /\ {Acceleration, SaveInterval} \subseteq Nat \ {0}
    /\ {StartTs, Jitter, Margin, MaxTs, MaxStarts, MaxForced} \subseteq Nat
    /\ SlotLengths \cup Durations \cup Delays \subseteq Nat \ {0}

\* The lookahead covers what may pass between two saves: a save comes late by an
\* interval at most, which the loop waits no longer than (wait_s), and the margin
\* covers the time from one event to the next, which a heartbeat bounds.
ASSUME LookaheadAssumption ==
    Jitter * Acceleration + HeartbeatPeriod <= SaveInterval * Acceleration + Margin

VARIABLES
    cell,       \* the cell and its events
    clock,      \* SimClock: the wall clock, in simulated time
    unsaved,    \* ticks since the last save, or since the start
    file,       \* the state file
    starts,     \* how many restarts there were
    forced,     \* how often a fault was asked for
    saved,      \* auxiliary: whether there was a periodic save since the last start
    worked      \* auxiliary: time spent producing on the slot in progress

vars == <<cell, clock, unsaved, file, starts, forced, saved, worked>>

NoFile == [clean |-> TRUE, simTime |-> StartTs, highWater |-> StartTs,
           wear |-> [cap |-> 0, dressing |-> 0], next |-> [cap |-> 0, dressing |-> 0]]

Thresholds == [cap : CapThresholds, dressing : DressingThresholds]

-----------------------------------------------------------------------------

\* What production draws: the length of a slot and the next interruption.
ProductionDraws ==
    [slot : SlotLengths, interrupt : Interrupted, delay : Delays]
      \cup [slot : SlotLengths, interrupt : {None}, delay : {0}]

\* All the draws of one step, and those that the handler of an event may make
\* (the others do not matter).
Draw(production, duration, ok, manual, next) ==
    [slot |-> production.slot, interrupt |-> production.interrupt, delay |-> production.delay,
     duration |-> duration, ok |-> ok, manual |-> manual, next |-> next]

DrawsFor(kind) ==
    LET among(kinds, set) == IF kind \in kinds THEN set ELSE {CHOOSE x \in set : TRUE}
    IN  {Draw(production, duration, ok, manual, next) :
            production \in among({"slot_end", "stop_end", "break_start", "break_end"}, ProductionDraws),
            duration   \in among({"slot_end", "stop_end", "interrupt"}, Durations),
            ok         \in among({"slot_end"}, BOOLEAN),
            manual     \in among({"stop_end"}, BOOLEAN),
            next       \in among({"stop_end"}, Thresholds)}

\* Engine.snapshot.  What may be published before the next save lies ahead of
\* an unclean save.
Lookahead == 2 * SaveInterval * Acceleration + Margin

SnapshotWithoutLookahead(clean) ==
    [clean |-> clean, simTime |-> cell.now, highWater |-> cell.now,
     wear |-> cell.wear, next |-> cell.next]
Snapshot(clean) ==
    [clean |-> clean, simTime |-> cell.now,
     highWater |-> cell.now + (IF clean THEN 0 ELSE Lookahead),
     wear |-> cell.wear, next |-> cell.next]

ResumeTs(f) == IF f.clean THEN f.simTime ELSE f.highWater

-----------------------------------------------------------------------------

\* A tick of the wall clock.  The pacer keeps up with it: what is due has been
\* released, and a save is late by Jitter at most.
Tick ==
    /\ clock < MaxTs
    /\ unsaved < SaveInterval + Jitter
    /\ NextEventTime(cell) > clock
    /\ clock' = clock + Acceleration
    /\ unsaved' = unsaved + 1
    /\ UNCHANGED <<cell, file, starts, forced, saved, worked>>

\* The events that are due are released, one by one.
Release ==
    LET e == cell.heap[NextEvent(cell)]
        slotDone == e.kind = "slot_end" /\ e.current
    IN  /\ e.at <= clock
        /\ \E draw \in DrawsFor(e.kind) : cell' = StepCell(cell, draw)
        /\ worked' = CASE slotDone -> 0
                       [] ~slotDone /\ cell.state = "producing" -> worked + e.at - cell.now
                       [] ~slotDone /\ cell.state # "producing" -> worked
        /\ UNCHANGED <<clock, unsaved, file, starts, forced, saved>>

\* The debug trigger file, with the code of a fault, known or not.
Trigger ==
    /\ forced < MaxForced
    /\ MayForce(cell, clock)
    /\ \E duration \in Durations, known \in BOOLEAN :
          cell' = ForceFault(cell, clock, [duration |-> duration, known |-> known])
    /\ worked' = IF cell.state = "producing" THEN worked + cell'.now - cell.now ELSE worked
    /\ forced' = forced + 1
    /\ UNCHANGED <<clock, unsaved, file, starts, saved>>

\* The periodic save.
Save ==
    /\ NextEventTime(cell) > clock
    /\ unsaved >= SaveInterval
    /\ file' = Snapshot(FALSE)
    /\ unsaved' = 0
    /\ saved' = TRUE
    /\ UNCHANGED <<cell, clock, starts, forced, worked>>

\* serve: load, start, run.
StartFrom(f) ==
    /\ clock' = ResumeTs(f)
    /\ unsaved' = 0
    /\ saved' = FALSE
    /\ worked' = 0
    /\ \E production \in ProductionDraws, next \in Thresholds :
          cell' = StartCell(ResumeTs(f), f.wear,
                            IF f = NoFile THEN next ELSE f.next, production)

CleanRestart ==
    /\ starts < MaxStarts
    /\ file' = Snapshot(TRUE)
    /\ StartFrom(file')
    /\ starts' = starts + 1
    /\ UNCHANGED forced

Crash ==
    /\ starts < MaxStarts
    /\ StartFrom(file)
    /\ starts' = starts + 1
    /\ UNCHANGED <<file, forced>>

Init ==
    /\ file = NoFile
    /\ clock = StartTs /\ unsaved = 0 /\ starts = 0 /\ forced = 0
    /\ saved = FALSE /\ worked = 0
    /\ \E production \in ProductionDraws, next \in Thresholds :
          cell = StartCell(StartTs, NoFile.wear, next, production)

Next == Tick \/ Release \/ Trigger \/ Save \/ CleanRestart \/ Crash

Spec == Init /\ [][Next]_vars

-----------------------------------------------------------------------------

CellStates == {"producing", "planned", "fault", "setup", "starved", "manual"}

TypeOK ==
    /\ cell.state \in CellStates
    /\ {cell.breakActive, cell.dressingDue, cell.capDue} \subseteq BOOLEAN
    /\ cell.part \in [active : BOOLEAN, idx : 0..PointsPerPart, ok : BOOLEAN,
                      slot : SlotLengths \cup {0}]
    /\ cell.slotEnd \in Nat \cup {Never} /\ cell.slotRemaining \in Nat
    /\ cell.nok \in 0..(ConsecutiveNok - 1)
    /\ cell.wear \in [cap : Nat, dressing : Nat] /\ cell.next \in Thresholds
    /\ cell.now >= StartTs /\ clock >= cell.now
    /\ unsaved \in 0..(SaveInterval + Jitter)

\* The events that will still be heeded, of some kinds.
Awaited(kinds) == {i \in DOMAIN cell.heap : cell.heap[i].current /\ cell.heap[i].kind \in kinds}

One(kinds) == Cardinality(Awaited(kinds)) = 1

\* Whatever happened before, there is one way out of the present state, and it
\* is no event of a state the cell has left (cell.py, "every state change bumps
\* the epoch, which silently invalidates stale callbacks").
OneWayOut ==
    /\ One({"heartbeat"}) /\ One({"break_start", "break_end"})
    /\ cell.breakActive <=> Awaited({"break_end"}) # {}
    /\ CASE cell.state = "producing" ->
               /\ One({"slot_end"}) /\ Awaited({"stop_end"}) = {}
               /\ Cardinality(Awaited({"interrupt"})) <= 1
               /\ cell.slotEnd = cell.heap[CHOOSE i \in Awaited({"slot_end"}) : TRUE].at
         [] cell.state = "planned" -> Awaited(OfAState) = {} /\ cell.breakActive
         [] OTHER -> One({"stop_end"}) /\ Awaited({"slot_end", "interrupt"}) = {}

\* Whether an instant is in a planned break, by the calendar alone.
InBreak(ts) == (ts - BreakOffset) % ShiftLength < BreakLength

\* The cell knows when it is break time, over breaks it spent in a fault and
\* restarts in the middle of one too (cell.py, "A planned break is fixed in
\* time"), and no break outlives its end.
BreakOnSchedule ==
    NextEventTime(cell) > cell.now => (cell.breakActive <=> InBreak(cell.now))

\* While a break lasts the cell may finish the part in progress and what had
\* begun, and begins nothing else: no part, no setup (cell.py, "at the end of
\* the current part ... carries on and the break is shortened").
NothingBeginsInABreak ==
    [][cell.breakActive /\ cell'.breakActive /\ starts' = starts =>
          /\ <<cell.state, cell'.state>> \in
                {<<s, s>> : s \in CellStates} \cup (CellStates \X {"planned"})
                  \cup ({"producing"} \X Interrupted) \cup {<<"producing", "fault">>, <<"fault", "manual">>}
          /\ cell'.part.active => cell.part.active /\ cell'.part.idx >= cell.part.idx]_vars

\* A weld point takes its time of production, however often a stop, a recovery
\* or a break interrupts it (cell.py, "leaving PRODUCING mid-slot: freeze the
\* slot").
SlotTakesItsTime ==
    cell.part.active =>
        worked + (IF cell.state = "producing" THEN cell.slotEnd - cell.now ELSE cell.slotRemaining)
            = cell.part.slot

\* Maintenance comes before the next part, and no later than one part after its
\* threshold (a weld fault may come first), or one more for each restart, which
\* forgets what was due.  It never comes in the middle of a part.
MaintenanceIsDone ==
    /\ cell.state = "producing" => ~cell.dressingDue /\ ~cell.capDue
    /\ cell.state = "setup" => ~cell.part.active
    /\ ConsecutiveNok > 1 =>
          /\ cell.wear.cap <= cell.next.cap + 1 + starts
          /\ cell.wear.dressing <= cell.next.dressing + 1 + starts

\* Simulated time never goes back, not even over a crash, once the run that
\* crashes has saved (persistence.py, "ahead of anything that may have been
\* published since the last save, so simulated time never goes backwards").  A
\* crash before its first save starts from where that run had started.
TimeNeverGoesBack ==
    [][cell'.now >= cell.now \/ (starts' > starts /\ ~saved)]_vars
=============================================================================
