------------------------------- MODULE Views -------------------------------
(***************************************************************************)
(* What the API computes from the tables: the OEE of a range, the Pareto   *)
(* of its stops, the timeline, the weld curve's part counts and markers,   *)
(* the list of stops to qualify, and what the live page shows (service.py, *)
(* db/repo.py, oee/pareto.py, timeline.py and weld.py, api/routes).        *)
(*                                                                         *)
(* db is a record of tables: events (ts -> state of the cell), stops       *)
(* (start_ts -> [end, state, cause]), samples (ts -> [good, scrap]), gaps  *)
(* (start_ts -> end_ts), and lastSeen.                                     *)
(***************************************************************************)
EXTENDS Oee

CONSTANTS
    TargetBuckets,  \* weld_target_buckets
    BucketFloor,    \* floor_s of a bucket's width
    ShiftLookback   \* _MAX_SHIFT_LOOKBACK

ASSUME ViewsAssumption == {TargetBuckets, BucketFloor, ShiftLookback} \subseteq Nat \ {0}

Unqualified == "unqualified"
Setup == 4

Rows(stops) ==
    {[start |-> s, end |-> stops[s].end, state |-> stops[s].state, cause |-> stops[s].cause] :
        s \in DOMAIN stops}

GapRows(gaps) == {[start |-> s, end |-> gaps[s]] : s \in DOMAIN gaps}

\* WHERE start_ts < :to AND (end_ts IS NULL OR end_ts > :frm)
Overlapping(rows, frm, to) ==
    {row \in rows : row.start < to /\ (row.end = Never \/ row.end > frm)}

\* The latest key before an instant.
LeadIn(table, frm) ==
    LET earlier == {t \in DOMAIN table : t < frm}
    IN  IF earlier = {} THEN {} ELSE {Max(earlier)}

\* fetch_oee_inputs: with the sample before the range, and the gaps since it.
FetchOeeInputs(db, frm, to) ==
    LET lead == LeadIn(db.samples, frm)
        keys == lead \cup {t \in DOMAIN db.samples : frm <= t /\ t < to}
    IN  [stops   |-> Overlapping(Rows(db.stops), frm, to),
         samples |-> [t \in keys |-> db.samples[t]],
         gaps    |-> Overlapping(GapRows(db.gaps), Min(lead \cup {frm}), to)]

\* oee_over_range: of what is known of a range (data_bounds), in the windows
\* asked for: the whole of it, its shifts or its production days.
Known(db, frm, to) ==
    LET lo == Larger(frm, Min(DOMAIN db.events))
    IN  [start |-> lo, end |-> Larger(Smaller(to, db.lastSeen), lo)]

OeeOverRange(db, known, windows) ==
    LET inputs == FetchOeeInputs(db, known.start, known.end)
    IN  ComputeOeeWindows(windows, inputs.stops, inputs.samples, inputs.gaps, db.lastSeen)

OeeOf(db, frm, to) ==
    CHOOSE r \in OeeOverRange(db, Known(db, frm, to), {Known(db, frm, to)}) : TRUE

-----------------------------------------------------------------------------

\* compute_pareto by cause: for each key the time lost, the stops begun in the
\* window, and what no operator has qualified yet.
Pareto(facts, window, gaps, until) ==
    LET observed == Observed(window, gaps)
        end(f) == StopEnd(f, until)
        overlap(f) == Total(Intersect(Clip({<<f.start, end(f)>>}, window.start, window.end),
                                      observed))
        time(fs) == MapThenSumSet(overlap, fs)
        begun(fs) == Cardinality({f \in fs : window.start <= f.start /\ f.start < window.end})
        here == {f \in facts : /\ f.state # Planned
                               /\ end(f) > window.start /\ f.start < window.end}
        micro == {f \in here : end(f) - f.start < MicroStop}
        lost == here \ micro
    IN  [causes |-> [cause \in {f.cause : f \in lost} |->
                       LET mine == {f \in lost : f.cause = cause}
                       IN  [duration |-> time(mine), count |-> begun(mine)]],
         micro  |-> [count |-> begun(micro),
                     duration |-> time({f \in micro : window.start <= f.start})]]

\* GET /api/stops/pareto
ParetoOf(db, frm, to) ==
    Pareto(Overlapping(Rows(db.stops), frm, to), [start |-> frm, end |-> to],
           Overlapping(GapRows(db.gaps), frm, to), Smaller(to, db.lastSeen))

LossTime(pareto) == LET time(c) == pareto.causes[c].duration
                    IN  MapThenSumSet(time, DOMAIN pareto.causes)

\* build_timeline, over fetch_cell_state_events: the state of each instant.
Timeline(db, frm, to) ==
    LET keys == LeadIn(db.events, frm) \cup {t \in DOMAIN db.events : frm <= t /\ t < to}
        next(t) == Min({u \in keys : u > t} \cup {to})
    IN  {seg \in {[start |-> Larger(t, frm), end |-> next(t), state |-> db.events[t]] :
                    t \in keys} : seg.end > seg.start}

\* choose_bucket_s: as many times the floor as it takes for the buckets of a
\* range to be few, rounded up.
ChooseBucket(length) ==
    LET floors == -((-length) \div (TargetBuckets * BucketFloor))
    IN  Larger(BucketFloor, floors * BucketFloor)

\* compute_weld_buckets: the parts of each bucket, on a grid that starts at the
\* production day.
BucketStart(ts, bucket) == DayStart + ((ts - DayStart) \div bucket) * bucket

WeldParts(db, frm, to) ==
    LET bucket == ChooseBucket(to - frm)
        inputs == FetchOeeInputs(db, frm, Smaller(to, db.lastSeen))
        starts == {BucketStart(t, bucket) : t \in frm..(to - 1)}
        shown == {d \in CounterDeltas(inputs.samples) :
                    /\ frm <= d.ts /\ d.ts < to
                    /\ ~OverlapsGap(d, inputs.gaps)}
        of(start) == {d \in shown : BucketStart(d.ts, bucket) = start}
    IN  [start \in starts |-> [good  |-> SumOf(of(start), LAMBDA d : d.good),
                               scrap |-> SumOf(of(start), LAMBDA d : d.scrap)]]

\* get_weld: the setups of a range, told apart by how long they last.
WeldMarkers(db, frm, to) ==
    LET bound == Smaller(to, db.lastSeen)
        setups == {row \in Overlapping(Rows(db.stops), frm, to) : row.state = Setup}
        lasted(row) == (IF row.end # Never THEN row.end ELSE bound) - row.start
    IN  {[ts |-> row.start,
          kind |-> IF lasted(row) < MicroStop THEN "dressing" ELSE "cap_change"] : row \in setups}

-----------------------------------------------------------------------------

(* The live page.                                                          *)

\* current_shift_start: the last of the shifts of the last hours, which now
\* belongs to if it is the very start of it.
CurrentShiftStartExclusive(now) ==
    Max({w.start : w \in ShiftWindows(now - ShiftLookback, now)})
CurrentShiftStart(now) ==
    Max({w.start : w \in ShiftWindows(now - ShiftLookback, now + 1)})

\* live_oee: of the shift until now, whatever the database has seen.
LiveOee(db, now) ==
    LET shift == [start |-> CurrentShiftStart(now), end |-> now]
        inputs == FetchOeeInputs(db, shift.start, now)
    IN  CHOOSE r \in ComputeOeeWindows({shift}, inputs.stops, inputs.samples, inputs.gaps, now) :
            TRUE

\* shift_timeline
ShiftTimeline(db, now) == Timeline(db, CurrentShiftStart(now), now)

\* fetch_live_snapshot and live_out: a set of one stop, or of none.
LiveSnapshot(db) ==
    LET last == Max(DOMAIN db.samples)
        lost == {s \in DOMAIN db.gaps : db.gaps[s] = Never}
    IN  [now       |-> db.lastSeen,
         state     |-> db.events[Max(DOMAIN db.events)],
         good      |-> db.samples[last].good,
         scrap     |-> db.samples[last].scrap,
         openStop  |-> {row \in Rows(db.stops) : row.end = Never},
         lostSince |-> IF lost = {} THEN Never ELSE CHOOSE s \in lost : TRUE]

-----------------------------------------------------------------------------

\* How long a stop has lasted, the open one included.
Lasted(row, now) == (IF row.end # Never THEN row.end ELSE now) - row.start

\* fetch_qualifiable_stops: what GET /api/stops lists.
Qualifiable(db, frm, to) ==
    {row \in Overlapping(Rows(db.stops), frm, to) :
        /\ row.state # Planned
        /\ row.cause = Unqualified
        /\ Lasted(row, db.lastSeen) >= MicroStop}

\* PATCH /api/stops/{id}: refused for a planned stop and for a micro-stop; a
\* qualified stop may be qualified again.
MayQualify(db, row) == row.state # Planned /\ Lasted(row, db.lastSeen) >= MicroStop
=============================================================================
