------------------------------ MODULE Reports ------------------------------
(***************************************************************************)
(* The reports of the API over a database that fills up as the cell works: *)
(* the cell changes state and makes parts, the collector records it one    *)
(* heartbeat late at most, contact is lost and comes back, the PLC loses   *)
(* its counters, an operator qualifies stops.  After every step, every     *)
(* report about every range must say what happened.                        *)
(*                                                                         *)
(* What the collector writes is here a summary of what the module          *)
(* Collector checks of it.                                                 *)
(***************************************************************************)
EXTENDS Views

CONSTANTS
    MaxTs,          \* the last instant
    CellStates,     \* the states the cell goes through
    FirstCounters,  \* what the counters may show first: [good, scrap]
    Causes,         \* what an operator may answer
    MaxNews,        \* how many changes of state and parts there may be
    MaxGaps,        \* how many times contact may be lost
    MaxResets,      \* how many times the PLC may lose its counters
    MaxAnswers      \* how many times an operator may answer

ASSUME ReportsAssumption ==
    /\ {MaxTs, MaxNews, MaxGaps, MaxResets, MaxAnswers} \subseteq Nat
    /\ CellStates \subseteq States
    /\ FirstCounters \subseteq [good : 0..(CounterRange - 1), scrap : 0..(CounterRange - 1)]
    /\ Unqualified \notin Causes

VARIABLES
    now,        \* simulated time
    cell,       \* the cell's state, and when it was entered: [state, since]
    counters,   \* its counters and when they last changed: [good, scrap, since]
    late,       \* whether the changes of this instant are still on their way
    news,       \* how many changes of state and parts there were
    made,       \* auxiliary: what was made, ts -> "good" or "scrap"
    resets,     \* auxiliary: when the PLC lost its counters
    answers,    \* how many answers an operator gave
    db          \* the database

plc  == <<now, cell, counters, news, made, resets>>
vars == <<plc, late, answers, db>>

Instant == 1..MaxTs

InContact == \A s \in DOMAIN db.gaps : db.gaps[s] # Never

Put(table, key, row) ==
    [k \in DOMAIN table \cup {key} |-> IF k = key THEN row ELSE table[k]]

-----------------------------------------------------------------------------

\* The state the database knows, and the counters.
LastState == db.events[Max(DOMAIN db.events)]

\* The open stop ends.
EndEveryStop(stops, ts) == [s \in DOMAIN stops |-> [stops[s] EXCEPT !.end = ts]]
EndStop(stops, ts) ==
    [s \in DOMAIN stops |->
        IF stops[s].end = Never THEN [stops[s] EXCEPT !.end = ts] ELSE stops[s]]

BeginStop(stops, ts, state) ==
    IF state = Producing THEN stops
    ELSE Put(stops, ts, [end |-> Never, state |-> state, cause |-> Unqualified])

\* Store the cell's state, as of the instant it was entered: an event if it is
\* news, which ends a stop and may begin another one.
StoreCell(base) ==
    IF cell.state = LastState THEN base
    ELSE [base EXCEPT
            !.events = Put(base.events, cell.since, cell.state),
            !.stops = BeginStop(EndStop(base.stops, cell.since), cell.since, cell.state)]

StoreCounters(base) ==
    IF counters.since <= Max(DOMAIN base.samples) THEN base
    ELSE [base EXCEPT !.samples =
            Put(base.samples, counters.since, [good |-> counters.good, scrap |-> counters.scrap])]

-----------------------------------------------------------------------------

Bump(c, part) ==
    [c EXCEPT !.good  = IF part = "good"  THEN (c.good + 1) % CounterRange ELSE c.good,
              !.scrap = IF part = "scrap" THEN (c.scrap + 1) % CounterRange ELSE c.scrap,
              !.since = IF part = "none" THEN c.since ELSE now + 1]

\* A second passes; a part may be completed at its end, if the cell produced,
\* and the cell may change.  The heartbeat tells the collector.
Second ==
    /\ now < MaxTs /\ ~late
    /\ \E state \in CellStates :
       \E part \in {"none"} \cup IF cell.state = Producing THEN {"good", "scrap"} ELSE {} :
          /\ now' = now + 1
          /\ news' = news + Cardinality({i \in 1..2 : <<state # cell.state, part # "none">>[i]})
          /\ news' <= MaxNews
          /\ cell' = IF state = cell.state THEN cell ELSE [state |-> state, since |-> now + 1]
          /\ counters' = Bump(counters, part)
          /\ made' = IF part = "none" THEN made ELSE Put(made, now + 1, part)
          /\ late' = (InContact /\ (state # cell.state \/ part # "none"))
    /\ db' = IF InContact THEN [db EXCEPT !.lastSeen = now + 1] ELSE db
    /\ UNCHANGED <<resets, answers>>

\* Their new values reach the database.
Arrive ==
    /\ late
    /\ late' = FALSE
    /\ db' = StoreCounters(StoreCell(db))
    /\ UNCHANGED <<plc, answers>>

\* reset_plc: the counters restart from zero.  Not near the wrap: the reader
\* could not tell it from a wrap there, by design of _delta.
Reset ==
    /\ Cardinality(resets) < MaxResets /\ ~late
    /\ now < MaxTs /\ now \notin DOMAIN made \cup {1}
    /\ {counters.good, counters.scrap} # {0}
    /\ counters.good < CounterRange - RolloverWindow
    /\ counters.scrap < CounterRange - RolloverWindow
    /\ counters' = [good |-> 0, scrap |-> 0, since |-> now]
    /\ resets' = resets \cup {now}
    /\ late' = InContact
    /\ UNCHANGED <<now, cell, news, made, answers, db>>

\* Contact is lost, and what was on its way with it.  The gap starts at the
\* last heartbeat, or before it where a restart resumed from an older
\* last_seen_ts: gaps may overlap.
LoseContact ==
    /\ InContact /\ Cardinality(DOMAIN db.gaps) < MaxGaps
    /\ \E start \in ({db.lastSeen - 1, db.lastSeen} \cap Instant) \ DOMAIN db.gaps :
          db' = [db EXCEPT !.gaps = Put(db.gaps, start, Never)]
    /\ late' = FALSE
    /\ UNCHANGED <<plc, answers>>

\* It comes back with a heartbeat, which ends the gap, and present values.
Reconnect ==
    /\ ~InContact /\ now > db.lastSeen
    /\ db' = StoreCounters(StoreCell(
                [db EXCEPT !.lastSeen = now,
                           !.gaps = [s \in DOMAIN db.gaps |->
                                        IF db.gaps[s] = Never THEN now ELSE db.gaps[s]]]))
    /\ UNCHANGED <<plc, late, answers>>

\* An operator qualifies a stop of the list.
Qualify ==
    /\ answers < MaxAnswers
    /\ \E row \in Rows(db.stops), cause \in Causes :
          /\ MayQualify(db, row)
          /\ db' = [db EXCEPT !.stops[row.start].cause = cause]
    /\ answers' = answers + 1
    /\ UNCHANGED <<plc, late>>

Init ==
    /\ now = 1
    /\ \E state \in CellStates, first \in FirstCounters :
          /\ cell = [state |-> state, since |-> 1]
          /\ counters = [good |-> first.good, scrap |-> first.scrap, since |-> 1]
          /\ db = [events   |-> [t \in {1} |-> state],
                   stops    |-> BeginStop(<<>>, 1, state),
                   samples  |-> [t \in {1} |-> first],
                   gaps     |-> <<>>,
                   lastSeen |-> 1]
    /\ late = FALSE
    /\ news = 0 /\ made = <<>> /\ resets = {} /\ answers = 0

Next == Second \/ Arrive \/ Reset \/ LoseContact \/ Reconnect \/ Qualify

Spec == Init /\ [][Next]_vars

-----------------------------------------------------------------------------

\* Ranges a user may ask for: from before the first event or from any later
\* instant, to after now or to an instant in the past.  (What ends in between
\* was asked for when that was now.  While changes are on their way, the
\* database is as if there were none, which is another behaviour; and while
\* contact is lost, it is what it was.)
NothingNew == late \/ (~InContact /\ now > db.lastSeen)

Ranges ==
    IF NothingNew THEN {}
    ELSE {r \in ((0..(now - 1)) \ {1}) \X {now - 1, now + 1} : r[1] < r[2]}

\* The reference: seconds one by one.  Second t lasts from t to t + 1.
Unobserved(t) == \E s \in DOMAIN db.gaps : s <= t /\ (db.gaps[s] = Never \/ t < db.gaps[s])

StateAt(t) == db.events[Max({u \in DOMAIN db.events : u <= t})]

\* The seconds around t, as far as known, in which the state was the same.
Stretch(t) ==
    {u \in Min(DOMAIN db.events)..(Larger(db.lastSeen, t + 1) - 1) :
        \A v \in Smaller(u, t)..Larger(u, t) : StateAt(v) = StateAt(t)}

KindOf(t) ==
    CASE Unobserved(t) -> "gap"
      [] ~Unobserved(t) /\ StateAt(t) = Producing -> "producing"
      [] ~Unobserved(t) /\ StateAt(t) = Planned -> "planned"
      [] ~Unobserved(t) /\ StateAt(t) \notin {Producing, Planned} ->
            IF Cardinality(Stretch(t)) >= MicroStop THEN "loss" ELSE "micro"

SecondBySecond(known) ==
    LET kind == [t \in known.start..(known.end - 1) |-> KindOf(t)]
        count(kinds) == Cardinality({t \in DOMAIN kind : kind[t] \in kinds})
    IN  [gap       |-> count({"gap"}),
         planned   |-> count({"planned"}),
         losses    |-> [i \in DOMAIN LossStates |->
                          Cardinality({t \in DOMAIN kind :
                              kind[t] = "loss" /\ StateAt(t) = LossStates[i]})],
         micro     |-> count({"micro"}),
         operating |-> count({"producing", "micro"})]

\* Each second of a range is counted once and as what it was: in a gap, in a
\* planned stop, in a loss by its state if the whole stop was long enough, else
\* in operating time (compute.py, "Each second is claimed once").
EachSecondIsCountedOnce ==
    \A r \in Ranges :
        LET oee == OeeOf(db, r[1], r[2])
            reference == SecondBySecond(Known(db, r[1], r[2]))
        IN  reference = [field \in DOMAIN reference |-> oee[field]]

\* The good or scrap parts made in a range that the samples show: since the
\* sample before, nothing was unobserved.
Shown(window, part) ==
    {t \in DOMAIN made \cap DOMAIN db.samples :
        /\ made[t] = part /\ window.start <= t /\ t < window.end
        /\ \A u \in Max({s \in DOMAIN db.samples : s < t})..(t - 1) : ~Unobserved(u)}

\* Parts are counted as they were made, across wraps and resets of the counters
\* and in any range; those near a gap are left out (counters.py, "production
\* deltas, without ever going negative"; repo.py, "a part revealed by a sample
\* that follows a gap is not observable and must be dropped").
PartsAreCountedAsMade ==
    \A r \in Ranges :
        LET known == Known(db, r[1], r[2])
            oee == OeeOf(db, r[1], r[2])
        IN  /\ oee.good = Cardinality(Shown(known, "good"))
            /\ oee.scrap = Cardinality(Shown(known, "scrap"))

\* The shifts, the production days, or two parts of all that is known, asked
\* for one after the other, add up to it (compute.py, combine: "keeps the
\* reference invariant true for any grouping").
WindowsAddUp ==
    LET known == Known(db, 0, MaxTs)
        mid == db.lastSeen - 1
        grouped == {OeeOverRange(db, known, windows) :
                      windows \in {ShiftWindows(known.start, known.end),
                                   DayWindows(known.start, known.end)}}
        halves == {OeeOf(db, h[1], h[2]) : h \in {<<0, mid>>, <<mid, MaxTs>>}}
    IN  ~NothingNew /\ known.start < mid =>
          \A results \in grouped \cup {halves} : Combine(results) = OeeOf(db, 0, MaxTs)

LossesOf(oee) == SumFunction(oee.losses)

\* The views of a range agree: the Pareto with the OEE, and its unqualified bar
\* with the list an operator works through, unless a stop is open that lasted on
\* after the end of the range; the markers of the weld curve with the Pareto, its
\* parts with the OEE, in no more buckets than asked for and one; and the timeline
\* with the states second by second.
RangeViewsAgree ==
    \A r \in Ranges :
        LET frm == r[1]
            to == r[2]
            oee == OeeOf(db, frm, to)
            pareto == ParetoOf(db, frm, to)
            weld == WeldParts(db, frm, to)
            dressings == {m \in WeldMarkers(db, frm, to) : m.kind = "dressing" /\ frm <= m.ts}
            listed == {row \in Qualifiable(db, frm, to) : frm <= row.start}
            segments == Timeline(db, frm, Smaller(to, db.lastSeen))
        IN  /\ (to >= db.lastSeen \/ \A s \in DOMAIN db.stops : db.stops[s].end # Never) =>
                 /\ LossTime(pareto) = LossesOf(oee)
                 /\ Cardinality(listed) =
                       IF Unqualified \in DOMAIN pareto.causes
                       THEN pareto.causes[Unqualified].count ELSE 0
            /\ CellStates \subseteq {Producing, Planned, Setup} =>
                 Cardinality(dressings) = pareto.micro.count
            /\ MapThenSumSet(LAMBDA b : weld[b].good, DOMAIN weld) = oee.good
            /\ MapThenSumSet(LAMBDA b : weld[b].scrap, DOMAIN weld) = oee.scrap
            /\ Cardinality(DOMAIN weld) <= TargetBuckets + 1
            /\ \A t \in Larger(frm, 1)..(Smaller(to, db.lastSeen) - 1) :
                  Cardinality({g \in segments :
                      g.start <= t /\ t < g.end /\ g.state = StateAt(t)}) = 1
            /\ \A g, h \in segments : g = h \/ g.end <= h.start \/ h.end <= g.start

\* The live page agrees with itself and with the reports: the shift is the one
\* now is in, however near its start; its OEE is that of the same range (what
\* came before the first event, which live_oee does not leave out, is operating
\* time); its timeline begins with the shift; a stop is shown open exactly while
\* the state is one; and contact is shown lost since an instant from which on the
\* OEE counts nothing.
LivePageAgrees ==
    LET live == LiveSnapshot(db)
        begun == CurrentShiftStart(live.now)
        shift == {w \in ShiftWindows(-DayLength, live.now + DayLength) :
                      w.start <= live.now /\ live.now < w.end}
        before == Larger(Min(DOMAIN db.events) - begun, 0)
        oee == LiveOee(db, live.now)
        segments == ShiftTimeline(db, live.now)
    IN  /\ {begun} = {w.start : w \in shift}
        /\ [oee EXCEPT !.start = begun + before, !.operating = @ - before] =
              OeeOf(db, begun, live.now)
        /\ begun + before < live.now =>
              begun + before = Min({g.start : g \in segments})
        /\ \A row \in live.openStop : row.state = live.state
        /\ live.openStop = {} <=> live.state = Producing
        /\ live.lostSince # Never =>
              oee.gap >= live.now - Larger(live.lostSince, begun)

ViewsAgree == RangeViewsAgree /\ LivePageAgrees

\* What was reported of a past range does not change any more, once its last
\* stop is over: whatever still arrives, and whatever the cell, the network and
\* the operators do next, unless a gap is recorded that reaches back into it.
PastIsSettled ==
    [][\A r \in {0, 2} \X (2..db.lastSeen) :
          /\ r[1] < r[2]
          /\ \A s \in DOMAIN db.stops : db.stops[s].end # Never \/ s >= r[2]
          /\ \A s \in DOMAIN db'.gaps : s \in DOMAIN db.gaps \/ s >= r[2]
          => OeeOf(db', r[1], r[2]) = OeeOf(db, r[1], r[2])]_vars
=============================================================================
