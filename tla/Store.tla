------------------------------- MODULE Store -------------------------------
(***************************************************************************)
(* CollectorStore (backend/app/collector/store.py) on the tables of        *)
(* migration 0001: what a write does to the database, and what the         *)
(* collector resumes from.                                                 *)
(*                                                                         *)
(* A table keyed by timestamps is a function from its keys to the rest of  *)
(* the row; an interval (stops, comm_gaps) maps its start_ts to its end_ts,*)
(* which is Never while it is NULL.                                        *)
(***************************************************************************)
EXTENDS Tracker, FiniteSetsExt

EmptyDb ==
    [events   |-> [s \in Scope |-> <<>>],    \* state_events: scope -> (ts -> values)
     stops    |-> <<>>,                      \* start_ts -> end_ts
     samples  |-> [s \in Series |-> <<>>],   \* counter_samples, weld_samples: series -> (ts -> values)
     gaps     |-> <<>>,                      \* comm_gaps: start_ts -> end_ts
     lastSeen |-> Never]                     \* collector_state.last_seen_ts

-----------------------------------------------------------------------------

\* INSERT ... ON CONFLICT (key) DO NOTHING
Insert(table, key, row) ==
    [k \in DOMAIN table \cup {key} |-> IF k \in DOMAIN table THEN table[k] ELSE row]

\* UPDATE ... SET end_ts = :end WHERE start_ts = :start AND end_ts IS NULL
\* AND start_ts < :end
CloseIntervalUpserting(table, start, end) ==
    [k \in DOMAIN table \cup {start} |->
        IF k = start THEN end ELSE table[k]]
CloseInterval(table, start, end) ==
    [k \in DOMAIN table |->
        IF k = start /\ table[k] = Never /\ start < end THEN end ELSE table[k]]

\* The start of the open interval, None if there is none.
OpenIn(table) ==
    LET open == {k \in DOMAIN table : table[k] = Never}
    IN  IF open = {} THEN Never ELSE Max(open)

\* The tracker's operations for one group.
Write(db, ops) ==
    [db EXCEPT
        !.events = [s \in Scope |->
            IF s \in DOMAIN ops.events
            THEN Insert(db.events[s], ops.ts, ops.events[s])
            ELSE db.events[s]],
        !.stops =
            LET closed == CloseInterval(db.stops, ops.closes, ops.ts)
            IN  IF ops.opens THEN Insert(closed, ops.ts, Never) ELSE closed,
        !.samples = [s \in Series |->
            IF s \in DOMAIN ops.samples
            THEN Insert(db.samples[s], ops.ts, ops.samples[s])
            ELSE db.samples[s]]]

\* A database, then with the first of some operations, the first two, and so on.
StagesOf(base, operations) ==
    LET stage[n \in 0..Len(operations)] ==
            IF n = 0 THEN base ELSE Write(stage[n - 1], operations[n])
    IN  stage

\* The watchdog's operations.  comm_gaps has a unique key start_ts, which ON
\* CONFLICT names, and a partial unique index that admits one open gap, which
\* it does not: a second open gap is an error that aborts the transaction.
WriteGap(gaps, op) ==
    CASE op.op = "open"   -> Insert(gaps, op.start, Never)
      [] op.op = "close"  -> CloseInterval(gaps, op.start, op.end)
      [] op.op = "closed" -> Insert(gaps, op.start, op.end)

WriteGaps(gaps, ops) ==
    LET after[n \in 0..Len(ops)] ==
            IF n = 0 THEN gaps ELSE WriteGap(after[n - 1], ops[n])
    IN  after[Len(ops)]

SingleOpen(table) == Cardinality({k \in DOMAIN table : table[k] = Never}) <= 1

\* By the partial unique indexes.
Accepted(db) == SingleOpen(db.stops) /\ SingleOpen(db.gaps)

\* GREATEST(last_seen_ts, :ts)
Seen(old, new) == IF new > old THEN new ELSE old

\* One transaction: of the operations of groups and of the watchdog.
Transaction(base, ops, gapOps, seen) ==
    [StagesOf(base, ops)[Len(ops)] EXCEPT
        !.gaps = WriteGaps(base.gaps, gapOps),
        !.lastSeen = Seen(base.lastSeen, seen)]

-----------------------------------------------------------------------------

\* ORDER BY ts DESC LIMIT 1
LastEvent(events) ==
    IF DOMAIN events = {} THEN NoEvent
    ELSE [ts |-> Max(DOMAIN events), values |-> events[Max(DOMAIN events)]]

\* _repair_open_stop: make the open stop agree with the latest cell event.
Repair(db) ==
    LET event == LastEvent(db.events["CELL"])
        open == OpenIn(db.stops)
        wrong == open # Never /\ (~Stopped(event.values) \/ open # event.ts)
        closed ==
            IF wrong
            THEN CloseInterval(db.stops, open, Max({event.ts, open}))
            ELSE db.stops
        stillOpen == open # Never /\ ~(wrong /\ event.ts > open)
    IN  IF event = NoEvent THEN db
        ELSE [db EXCEPT !.stops =
                 IF Stopped(event.values) /\ ~stillOpen
                 THEN Insert(closed, event.ts, Never)
                 ELSE closed]

\* resume(), after the repair: the tracker that the stored rows describe.
ResumeWithoutOpenStop(db) ==
    [EmptyTracker EXCEPT
        !.last = [s \in Scope |-> LastEvent(db.events[s])],
        !.lastSample = [s \in Series |->
            IF DOMAIN db.samples[s] = {} THEN Never ELSE Max(DOMAIN db.samples[s])]]
Resume(db) ==
    [EmptyTracker EXCEPT
        !.last = [s \in Scope |-> LastEvent(db.events[s])],
        !.openStop = OpenIn(db.stops),
        !.lastSample = [s \in Series |->
            IF DOMAIN db.samples[s] = {} THEN Never ELSE Max(DOMAIN db.samples[s])]]

-----------------------------------------------------------------------------

\* One stop per event that is not PRODUCING, ended by the very next event, and
\* open while there is none.
StopsFollow(events, stops) ==
    /\ DOMAIN stops = {t \in DOMAIN events : Stopped(events[t])}
    /\ \A t \in DOMAIN stops :
           LET later == {u \in DOMAIN events : t < u}
           IN  stops[t] = IF later = {} THEN Never ELSE Min(later)
=============================================================================
