----------------------------- MODULE Deployment -----------------------------
(***************************************************************************)
(* docker compose up: the seed step (backend/app/collector/seed.py) writes *)
(* a first history and the simulator's state file; the simulator goes on   *)
(* from that file and the collector from the database.  Then any of them   *)
(* stops, cleanly or not, and starts again from what the other two left.   *)
(*                                                                         *)
(* What is checked here is the seam between processes that only share the  *)
(* database and the file.  What happens within a collector (the order of   *)
(* notifications, tasks that wait for the database) is checked in the      *)
(* module Collector: here a session delivers an instant and the collector  *)
(* writes it in one step.  What happens within a cell is checked in Plc.   *)
(***************************************************************************)
EXTENDS Store, Retentive, Sequences, SequencesExt

CONSTANTS
    SeedUntil,      \* end_ts
    Batch,          \* _GROUP_BATCH
    SaveEvery,      \* save_interval_s x acceleration, in instants
    Jump,           \* heartbeat_sim_s, in instants
    Timeout,        \* heartbeat_timeout_s, in ticks
    RolloverWindow, \* rollover_window of the counter deltas
    MayFail,        \* what may stop: members of Failures
    MaxFailures     \* how many of them, besides "seed"; each at most once

Failures == {"seed", "plc stops", "plc crashes", "collector", "all"}

ASSUME DeploymentAssumption ==
    /\ SeedUntil \in StartTs..MaxTs
    /\ {Batch, SaveEvery} \subseteq Nat \ {0} /\ {Jump, MaxFailures, RolloverWindow} \subseteq Nat
    /\ Lookahead > SaveEvery + Jump     \* it is twice the interval, and _LOOKAHEAD_MARGIN_S
    /\ MayFail \subseteq Failures
    /\ \A s \in Scope \cup Series : TagsOf[s] \subseteq Tags

VARIABLES
    phase,      \* docker compose: "down", "seeding", or "up" once the seed exited with 0
    sim,        \* the simulation, of the seed or of the simulator
    seeder,     \* the seed's tracker and the groups not yet flushed: [trk, groups]
    col,        \* the collector: [on, linked, trk, wd]
    file,       \* the state file
    db,         \* the database
    failures,   \* which there were
    past,       \* auxiliary: the history as lived
    live,       \* auxiliary: whether a simulator ever ran
    excused     \* auxiliary: what has happened of Excuses

vars == <<phase, sim, seeder, col, file, db, failures, past, live, excused>>

Wd    == INSTANCE Watchdog
Count == INSTANCE Counters

\* Four things after which less is required.
\*   "seed interrupted": it died with a part of the history committed;
\*   "never saved": the simulator died before its first save;
\*   "same instant": it started again at the very instant of the last change,
\*     and the tracker ignores a second cell event of one instant;
\*   "lives anew": behind the database after one of the first two, it stopped
\*     and started again before it had caught up, and draws another future.
Excuses == {"seed interrupted", "never saved", "same instant", "lives anew"}
Behind  == {"seed interrupted", "never saved"}

NoSeeder == [trk |-> EmptyTracker, groups |-> <<>>]
NoCol    == [on |-> FALSE, linked |-> FALSE, trk |-> EmptyTracker,
             wd |-> Wd!NewWatchdog(Never, Never)]

MayStop(what) == what \in MayFail \ failures /\ Cardinality(failures \ {"seed"}) < MaxFailures

CellEvents == db.events["CELL"]

-----------------------------------------------------------------------------

Observed(moment) == [moment EXCEPT !.observed = TRUE]

\* What the tags of a set were last changed to, as groups, oldest first.
GroupsOf(s, tags) ==
    LET stamps == {s.since[tag] : tag \in tags}
        group(ts) == [ts |-> ts,
                      values |-> [tag \in {u \in tags : s.since[u] = ts} |-> s.image[tag]]]
    IN  [i \in 1..Cardinality(stamps) |-> group(Nth(stamps, i))]

-----------------------------------------------------------------------------

(* The seed step.                                                          *)

\* already_seeded
NeverSeeded == FALSE
AlreadySeeded == DOMAIN CellEvents # {}

\* seed_history up to its loop, or the simulator at once where the seed has
\* nothing to do.  An operator may force it, as long as no simulator ran.
Up ==
    /\ phase = "down"
    /\ \E force \in {FALSE} \cup {~live} :
          IF AlreadySeeded /\ ~force
          THEN phase' = "up" /\ UNCHANGED <<sim, seeder, past>>
          ELSE /\ phase' = "seeding"
               /\ \E moment \in FirstMoments(past, Fresh) :
                     /\ sim' = Started(Fresh, moment)
                     /\ past' = Extended(past, StartTs, Observed(moment))
               /\ seeder' = [NoSeeder EXCEPT !.groups = GroupsOf(sim', Tags)]
    /\ UNCHANGED <<col, file, db, failures, live, excused>>

\* _flush, once there are enough groups or no more steps.
DueToFlush ==
    \/ Len(seeder.groups) >= Batch
    \/ sim.now = SeedUntil /\ seeder.groups # <<>>

\* sim.step() and _as_groups: heartbeats make no group.  The code makes a group of
\* each step of the engine, so that two events at the very same instant would
\* give two of one timestamp; here all that happens in an instant is one step.
SeedStep ==
    /\ phase = "seeding" /\ sim.now < SeedUntil /\ ~DueToFlush
    /\ \E moment \in NextMoments(past, sim) :
          /\ sim' = Advanced(sim, moment)
          /\ past' = Extended(past, sim.now + 1, Observed(moment))
          /\ seeder' = [seeder EXCEPT !.groups = @ \o GroupsOf(sim', Changed(sim, moment))]
    /\ UNCHANGED <<phase, col, file, db, failures, live, excused>>

\* Refused by the schema, it ends with an error.
MayFlush == phase = "seeding" /\ DueToFlush
SeedFlush ==
    /\ MayFlush
    /\ \E tracked \in {TrackAll(seeder.trk, seeder.groups)} :
       \E tables \in {Transaction(db, tracked.ops, <<>>, Last(seeder.groups).ts)} :
          IF Accepted(tables)
          THEN db' = tables /\ seeder' = [trk |-> tracked.trk, groups |-> <<>>] /\ UNCHANGED <<phase, sim>>
          ELSE phase' = "down" /\ sim' = Off /\ seeder' = NoSeeder /\ UNCHANGED db
    /\ UNCHANGED <<col, file, failures, past, live, excused>>

\* The state file, from which the simulator is to go on; the seed exits.
HandOver ==
    /\ phase = "seeding" /\ sim.now = SeedUntil /\ ~DueToFlush
    /\ file' = Snapshot(sim, TRUE)
    /\ phase' = "up" /\ sim' = Off /\ seeder' = NoSeeder
    /\ excused' = excused \ {"seed interrupted"}
    /\ UNCHANGED <<col, db, failures, past, live>>

SeedDies ==
    /\ "seed" \in MayFail \ failures
    /\ phase = "seeding"
    /\ phase' = "down" /\ sim' = Off /\ seeder' = NoSeeder
    /\ failures' = failures \cup {"seed"}
    /\ excused' = excused \cup IF AlreadySeeded THEN {"seed interrupted"} ELSE {}
    /\ UNCHANGED <<col, file, db, past, live>>

-----------------------------------------------------------------------------

(* The collector, at the other end of a session.                           *)

\* What it makes of the heartbeat of an instant and of groups of changes.  A
\* transaction that the schema refuses ends the process.
Receive(c, beat, groups) ==
    \E tracked \in {TrackAll(c.trk, groups)} :
    \E tables \in {Transaction(db, tracked.ops, Wd!HeartbeatOps(c.wd, beat), beat)} :
        IF Accepted(tables)
        THEN /\ db' = tables
             /\ col' = [on |-> TRUE, linked |-> TRUE, trk |-> tracked.trk,
                        wd |-> Wd!AfterHeartbeat(c.wd, beat)]
        ELSE col' = NoCol /\ UNCHANGED db

\* run().  docker compose waits for a first simulator to be healthy.
CollectorStarts ==
    /\ phase = "up" /\ ~col.on /\ live
    /\ db' = Repair(db)
    /\ col' = [on |-> TRUE, linked |-> FALSE, trk |-> Resume(db'),
               wd |-> Wd!NewWatchdog(db.lastSeen, OpenIn(db.gaps))]
    /\ UNCHANGED <<phase, sim, seeder, file, failures, past, live, excused>>

\* A session: the present values, each with the instant of its last change.
MayConnect == phase = "up" /\ col.on /\ ~col.linked /\ sim.on
Connect ==
    /\ MayConnect
    /\ Receive([col EXCEPT !.wd = Wd!Connected(@)], sim.now, GroupsOf(sim, Tags))
    /\ past' = Extended(past, sim.now, Observed(past[sim.now]))
    /\ UNCHANGED <<phase, sim, seeder, file, failures, live, excused>>

\* The watchdog after a long silence: no simulator, no session, or heartbeats
\* that are not newer than the last one.
Silence ==
    /\ phase = "up" /\ col.on
    /\ col.linked => sim.now < col.wd.lastHb
    /\ LET silent == [col.wd EXCEPT !.silence = Timeout + 1]
           tables == Transaction(db, <<>>, Wd!PollOps(silent), Never)
       IN  /\ Wd!Silent(silent)
           /\ IF Accepted(tables)
              THEN db' = tables /\ col' = [col EXCEPT !.wd = Wd!AfterPoll(silent)]
              ELSE col' = NoCol /\ UNCHANGED db
    /\ UNCHANGED <<phase, sim, seeder, file, failures, past, live, excused>>

CollectorDies ==
    /\ MayStop("collector")
    /\ phase = "up" /\ col.on
    /\ col' = NoCol
    /\ failures' = failures \cup {"collector"}
    /\ UNCHANGED <<phase, sim, seeder, file, db, past, live, excused>>

-----------------------------------------------------------------------------

(* The simulator.                                                          *)

Unlinked == [col EXCEPT !.linked = FALSE]

\* serve(): from the state file.
MayRestart == phase = "up" /\ ~sim.on
PlcStarts ==
    /\ MayRestart
    /\ \E moment \in FirstMoments(past, file) :
          LET ts == ResumeTs(file)
              taken == ts \in DOMAIN CellEvents /\ CellEvents[ts].State # moment.image.State
          IN  /\ sim' = Started(file, moment)
              /\ past' = Extended(past, ts, moment)
              /\ excused' = excused
                    \cup (IF taken THEN {"same instant"} ELSE {})
                    \cup (IF excused \cap Behind # {} /\ ts < db.lastSeen
                                /\ ~Lived(past, file, ts)
                          THEN {"lives anew"} ELSE {})
    /\ live' = TRUE
    /\ UNCHANGED <<phase, seeder, col, file, db, failures>>

\* next_save
SaveIsDue == sim.now >= SaveEvery + (IF sim.saved THEN file.simTime ELSE ResumeTs(sim.origin))

\* The pacer publishes the next instant.  It saves in time (Plc has late saves).
MayStep == phase = "up" /\ sim.on /\ sim.now < MaxTs /\ ~SaveIsDue
PlcStep ==
    /\ MayStep
    /\ \E moment \in NextMoments(past, sim) :
          /\ sim' = Advanced(sim, moment)
          /\ past' = Extended(past, sim.now + 1,
                               IF col.linked THEN Observed(moment) ELSE moment)
          /\ IF col.linked
             THEN Receive(col, sim.now + 1, GroupsOf(sim', Changed(sim, moment)))
             ELSE UNCHANGED <<col, db>>
    /\ UNCHANGED <<phase, seeder, file, failures, live, excused>>

PlcSaves ==
    /\ phase = "up" /\ sim.on
    /\ SaveIsDue
    /\ file' = Snapshot(sim, FALSE)
    /\ sim' = [sim EXCEPT !.saved = TRUE]
    /\ UNCHANGED <<phase, seeder, col, db, failures, past, live, excused>>

PlcStops ==
    /\ MayStop("plc stops")
    /\ phase = "up" /\ sim.on
    /\ file' = Snapshot(sim, TRUE)
    /\ sim' = Off /\ col' = Unlinked
    /\ failures' = failures \cup {"plc stops"}
    /\ UNCHANGED <<phase, seeder, db, past, live, excused>>

PlcDies ==
    /\ MayStop("plc crashes")
    /\ ResumeTs(file) <= MaxTs      \* bound: it starts again within the model's time
    /\ phase = "up" /\ sim.on
    /\ sim' = Off /\ col' = Unlinked
    /\ failures' = failures \cup {"plc crashes"}
    /\ excused' = excused \cup IF ~sim.saved /\ sim.now > ResumeTs(file) THEN {"never saved"} ELSE {}
    /\ UNCHANGED <<phase, seeder, file, db, past, live>>

\* docker compose down: everything stops, cleanly.
Down ==
    /\ MayStop("all")
    /\ phase = "up"
    /\ phase' = "down"
    /\ file' = IF sim.on THEN Snapshot(sim, TRUE) ELSE file
    /\ sim' = Off /\ col' = NoCol
    /\ failures' = failures \cup {"all"}
    /\ UNCHANGED <<seeder, db, past, live, excused>>

Init ==
    /\ phase = "down" /\ sim = Off /\ seeder = NoSeeder /\ col = NoCol
    /\ file = Fresh /\ db = EmptyDb
    /\ failures = {} /\ past = <<>> /\ live = FALSE /\ excused = {}

Next ==
    \/ Up \/ SeedStep \/ SeedFlush \/ HandOver \/ SeedDies
    \/ CollectorStarts \/ Connect \/ Silence \/ CollectorDies
    \/ PlcStarts \/ PlcStep \/ PlcSaves \/ PlcStops \/ PlcDies \/ Down

\* WF_vars of actions that are enabled, and no stutter, exactly when their guard
\* holds, which takes TLC long to find out.
WritersAreFair ==
    /\ []<>~MayFlush \/ []<><<SeedFlush>>_vars
    /\ []<>~MayConnect \/ []<><<Connect>>_vars
    /\ []<>~MayStep \/ []<><<PlcStep>>_vars
    /\ []<>~MayRestart \/ []<><<PlcStarts>>_vars

\* Whatever stopped is started again (restart: unless-stopped, and the operator
\* who calls up again), and what runs goes on.
Spec ==
    /\ Init /\ [][Next]_vars
    /\ WF_vars(Up) /\ WF_vars(SeedStep) /\ WF_vars(HandOver)
    /\ WF_vars(CollectorStarts) /\ WF_vars(PlcSaves)
    /\ WritersAreFair

-----------------------------------------------------------------------------

TypeOK ==
    /\ phase \in {"down", "seeding", "up"}
    /\ phase = "down" => ~sim.on /\ ~col.on
    /\ phase = "seeding" => sim.on /\ sim.now \in StartTs..SeedUntil
    /\ col.linked => col.on /\ sim.on
    /\ DOMAIN past \subseteq StartTs..MaxTs
    /\ sim.on => /\ sim.image = past[sim.now].image
                 /\ \A tag \in Tags : sim.since[tag] \in StartTs..sim.now
    /\ file.simTime \in StartTs..MaxTs
    /\ file.good + file.scrap \in 0..MaxParts
    /\ Accepted(db) /\ failures \subseteq MayFail
    /\ excused \subseteq Excuses

\* The stops are those of the events.
StopsFollowEvents == StopsFollow(CellEvents, db.stops)

InGap(t) ==
    \E start \in DOMAIN db.gaps :
        start <= t /\ (db.gaps[start] = Never \/ t <= db.gaps[start])

\* The last cell event at or before an instant.
EventAt(t) == CellEvents[Max({u \in DOMAIN CellEvents : u <= t})]

\* A process that starts where the one before stopped shows a second state at
\* that instant.
StatesAt(t) == {past[t].before, past[t].image.State}

\* What nobody observed and had passed at the next instant: the jump that the
\* watchdog allows.
Flicker(t) == ~past[t].observed /\ StatesAt(t + 1) # {past[t].image.State}

\* The history is the one that was lived, whoever wrote it and whatever died in
\* between: at every instant before last_seen_ts, outside the gaps, the cell ran
\* and was in the state that the events say (seed.py: "the seeded history is
\* indistinguishable from one collected live"), and the stops follow the events
\* across batches, a seed that was forced after one that died, and collectors
\* that resume.
HistoryIsTrue ==
    /\ StopsFollowEvents
    /\ excused \cap {"same instant", "lives anew"} = {} =>
           \A t \in StartTs..(db.lastSeen - 1) :
               \/ InGap(t)
               \/ t \in DOMAIN past /\ (EventAt(t).State \in StatesAt(t) \/ Flicker(t))

\* The parts that a sample reveals, where no gap touches its interval, are those
\* made since the sample before: no counter that was saved too early is read as
\* production, and no part is counted a second time (persistence.py, counters.py).
PartsAreCountedOnce ==
    "lives anew" \notin excused =>
    \A delta \in Count!CounterDeltas(db.samples["counter"]) :
        LET touched(start) == start < delta.ts /\ (db.gaps[start] = Never \/ db.gaps[start] > delta.prev)
            made(kind) == Cardinality({t \in (delta.prev + 1)..delta.ts \cap DOMAIN past :
                                          past[t].part = kind})
        IN  delta.prev # 0 /\ (\A start \in DOMAIN db.gaps : ~touched(start)) =>
                delta.good = made("good") /\ delta.scrap = made("scrap")

\* A simulator that runs is never behind what the database has seen, or nothing
\* of it would be recorded until it has caught up (seed.py: "the live stream
\* continues seamlessly where the seed left off"; config.yaml: "simulated time
\* never goes backwards across restarts").
PlcIsNotBehind == phase = "up" /\ sim.on => db.lastSeen <= sim.now

\* ... as long as nothing excuses it.
TimeGoesOn == excused \cap Behind = {} => PlcIsNotBehind

\* Once nothing stops any more, the collector is connected and the database is
\* up to date, even after a seed or a simulator that had to begin again.
Current ==
    /\ phase = "up" /\ sim.on /\ col.linked
    /\ EventAt(MaxTs).State = sim.image.State
    /\ OpenIn(db.stops) = IF sim.image.State = Producing THEN Never ELSE Max(DOMAIN CellEvents)

CatchesUp == <>[](excused \cap {"same instant", "lives anew"} = {} => Current)
=============================================================================
