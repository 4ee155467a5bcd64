# Cell OEE demo: TLA+ models, checks and proofs

The program watches one production cell. A PLC (here a simulator) publishes
tags over OPC UA; a collector turns their changes into a history in PostgreSQL;
an API and a web client show that history live and compute the OEE from it. This
directory holds the TLA+ modules that model it, the TLC configurations that
check them, and the proofs.

    tlc -workers 2 -config Collector.cfg MCCollector      model checking
    tlapm StopHistoryProofs.tla                           proofs

## 1. Inventory

| part | state it keeps | operations | talks to |
|---|---|---|---|
| assembler (`collector/assembler.py`) | pending groups, arrival times, last released instant | feed, poll, flush | called by the pipeline |
| tracker (`collector/tracker.py`) | latest value of each tag, last stored event of each scope, open stop, last samples | apply | called by the pipeline |
| watchdog (`collector/watchdog.py`) | last heartbeat, start of the open gap, whether to check for a jump | seed, on_connected, on_heartbeat, poll | pipeline, OPC UA client |
| store (`collector/store.py`) and schema (`db/migrations`) | the tables | apply (one transaction), resume, repair | PostgreSQL |
| pipeline (`collector/pipeline.py`) | queue, lock, latest and written timestamps | consume, tick, write, drain, run | all of the above |
| OPC UA client (`collector/opcua_source.py`) | one session | subscribe, reconnect with backoff | PLC, queue of the pipeline |
| OEE (`oee/`) | none (pure functions) | interval algebra, counter deltas, time accounting, Pareto, weld buckets | read queries |
| live hub (`api/live_hub.py`) | latest message, its own `now`, one queue per client | listen, refresh, publish, subscribe | NOTIFY, WebSocket |
| routes (`api/routes`) | none | read queries; qualify a stop | PostgreSQL |
| live client (`frontend/src/lib/live/useLive.ts`) | data shown, its own `now`, stream status | connect, message, stall check | WebSocket, REST |
| cell (`simulator/cell_sim/cell.py`, `engine.py`) | state machine, event heap, counters, wear | one handler per event | pacer |
| pacer and retentive data (`pacer.py`, `persistence.py`) | saved state | run, save, load | PLC server, disk |
| seed (`collector/seed.py`) | a simulation, a tracker, groups not yet written | seed_history, flush, write the state file | database, state file |
| docker compose (`docker-compose.yml`) | which services run | up, down, restarts, order of starts | all processes |

What is hard here: three tasks share the collector's memory and suspend while
their transaction waits; the PLC replays present values with old timestamps at
every (re)connection; the collector, the session, the PLC or the network can die
between any two steps; and two notions of time (simulated, for everything stored;
wall-clock, for waiting) meet in the same code. Four processes that start and stop
by themselves (seed, simulator, collector, API) share nothing but a database and a
file. `PROJECT.json` lists the hazards
line by line with the properties that would catch each.

What makes each part correct:

* assembler: history in order, nothing lost or made up, nothing kept for ever;
* tracker and store: the stops are those of the events, at every moment a reader
  can look; no event twice; append-only; a crash costs nothing that was committed;
* watchdog and pipeline: an unobserved change is always inside a recorded gap;
* OEE: each second of a window is counted once, counters never go backwards;
* live hub and client: the newest snapshot wins, `now` never goes back, a live
  feed that dies is noticed;
* cell: one state at a time, events of a left state are void, counters and
  simulated time survive a restart;
* seed and deployment: whoever wrote it and whatever died in between, the history
  is the one that was lived, each part is counted once, and it goes on.

## 2. Modules

| module | what it is | code |
|---|---|---|
| `Assembler` | state and operations of the assembler | assembler.py |
| `AssemblerHistory` | the assembler alone, against any arrival; its properties | assembler.py |
| `AssemblerProofs` | theorems about it | |
| `Extremes` | lemmas: a set of naturals has a least element, a bounded one a greatest | |
| `Tracker` | groups to operations, one and several, as operators on a record | tracker.py |
| `Store` | what a write and a transaction do to the tables; repair and resume | store.py, schema |
| `StoreProofs` | lemmas about both, for the proofs of whatever writes or resumes | |
| `Watchdog` | the watchdog, as operators on a record | watchdog.py |
| `StopLedger` | abstract specification: a ledger of states and its stops | |
| `StopHistory` | tracker and store with crashes; implements `StopLedger` | tracker.py, store.py, pipeline.py |
| `StopHistoryProofs` | theorems about it, and that it implements `StopLedger` | |
| `Collector` | the whole collector between a PLC and the database | pipeline.py, opcua_source.py and all of the above |
| `CollectorProofs` | theorems about it | |
| `Intervals`, `Counters` | interval arithmetic; counter deltas | oee/intervals.py, counters.py |
| `Oee` | OEE of a window, windows of a range | oee/compute.py, stops.py, windows.py |
| `Views` | what the API reads and computes for each report | service.py, db/repo.py, oee/pareto.py, timeline.py, weld.py, api/routes |
| `Reports` | a database that fills up, and every report about it | the above, and the parts that write |
| `Cell` | the cell's event machine, as operators on a record | cell.py, engine.py, shifts.py, wear.py, faults.py |
| `Plc` | the cell with its pacer and retentive data | pacer.py, persistence.py, clock.py, `__main__`.py |
| `PlcProofs` | theorems about it | |
| `LiveHub` | the live hub: listener, refreshes, queue of a client | live_hub.py |
| `LiveClient` | a page: request, socket, what it shows | useLive.ts, routes/cell.py |
| `Live` | the live view from commit to screen | the above, app.py, store.py |
| `LiveProofs` | theorems about it | |
| `Retentive` | the simulated PLC as its readers see it, and its retentive data | engine.py, persistence.py, cell.py |
| `Deployment` | seed, simulator and collector over their database and file | seed.py, docker-compose.yml, pacer.py, pipeline.py, store.py |
| `DeploymentProofs` | theorems about it, and about the counter deltas it counts with | |
| `MC*` | constants for TLC | |

`Collector` uses `Assembler` and `Watchdog` by INSTANCE and extends `Store`,
which extends `Tracker`: the operators checked alone are the ones composed.
`Reports` extends `Views`, which extends `Oee`, `Intervals` and `Counters`.
`Plc` extends `Cell`. `Live` extends `LiveClient`, which extends `LiveHub`.
`Deployment` extends `Store` and `Retentive`, and uses `Watchdog` and `Counters` by
INSTANCE. `StopHistoryProofs`, `CollectorProofs` and `DeploymentProofs` rest on
`StoreProofs`.

Conventions. Timestamps are numbers and `Never` stands for None. A dict is a
function, a table keyed by timestamps is a function from its keys. A tag value is
a number of a small set. Some definitions are preceded by a variant of the same
name and a suffix, with a plausible bug in it (`JoinedByReplacing`,
`ClassifyStopsInclusive`, ...): nothing uses it, but put in the place of the
definition it makes one of the properties fail, which shows that the property
can.

### Correspondence with the code: collector

* `Feed`, `Poll`, `Flush` are the three methods of `ChangeAssembler`, and
  `FeedReturns`, `PollReturns`, `FlushReturns` are the groups they return. `now -
  arrived` is kept as ticks waited, which stop at `SettleTime` because the code
  only compares with it.
* `OpsFor` computes the operations of `StopTracker.apply` for one group and
  `After` the tracker's new state, which the code assigns as it goes. All the
  operations of a group carry its timestamp, so they are one record.
* `TrackAll` tracks the groups of a call one after the other: `MemoriesOf` are the
  tracker's states in between.
* `Write`, `WriteGap`, `Seen` are the SQL of `_SQL` and `_LAST_SEEN`, conflict
  clauses and WHERE guards included; `Transaction` is one transaction of them, and
  `StagesOf` the tables after each operation of it. `Accepted` is the two partial
  unique indexes that no conflict clause names: a transaction that leaves other
  tables is rolled back.
* `Process` is `_consume` and `_process`, `Tick` is `_tick`, up to the first
  await of `_write`: the transaction is queued in lock order in `writes`, and
  `Commit` is its commit. A task with a transaction in `writes` is suspended;
  the other two go on, as under asyncio.
* `SubscribeFast`, `SubscribeEvents`, `OnConnected` are the three steps of
  `_session`, between which notifications can be processed; `Disconnect` ends a
  session at any point, with the notifications not delivered yet.
* `Crash` drops the process; `CleanStop` cancels the tasks and drains;
  `Start` is `run` up to the creation of the tasks.
* `PlcStep`: one instant of simulated time, a heartbeat, and possibly a change
  of the cell, stamped as `engine.set_tag` does.

### Correspondence with the code: reports

* `Merge`, `Clip`, `Complement`, `Subtract`, `Intersect` are the functions of
  intervals.py, with their cursors and pointers: the sweep is what could be
  wrong. What they should mean, second by second, is in `SecondBySecond`, which
  uses none of them.
* `ComputeOee` is `compute_oee` without the ratios; `ClassifyStops`,
  `CounterDeltas`, `Combine`, `ShiftWindows`, `DayWindows` are the functions of
  the same names. The five loss states are a parameter; the run has one, because
  stops never overlap in a history that `StopHistory` allows, and their order only
  matters where they do.
* `FetchOeeInputs` is the query of that name, with the sample before the range
  and the gaps since that sample; `Known` is the clipping by `data_bounds`.
* In `Reports` the database is written by a summary of what `Collector` checks:
  `Second` lets the cell change and heartbeats arrive, `Arrive` stores the changes
  up to one heartbeat later, `LoseContact` and `Reconnect` record a gap, which may
  begin before the last heartbeat and overlap another one, as after a restart from
  an older `last_seen_ts`. `Qualify` is the PATCH of a stop.
* `CurrentShiftStart`, `LiveOee`, `ShiftTimeline` and `LiveSnapshot` are what the live
  page shows of the same tables. The first looks for the shift in a window before
  now, as the code does, and is compared with the shift that contains now.

### Correspondence with the code: PLC

* Each handler of `cell.py` is an operator of `Cell` with its name; what it draws
  at random is a parameter, and `Plc` allows every draw of small sets. An epoch is
  only compared with the current one, so `Enter` marks the events of the state it
  leaves as no longer `current` in place of counting; they stay in the heap and
  are popped, as in the code.
* Shifts are equally long and longer than a break, as in `config.yaml`
  (`CellAssumption`); the configuration only requires that they cover the day, so
  what is said of breaks is not said of unequal shifts.
* The heap keeps events in the order they were scheduled; `NextEvent` takes the
  earliest, and of those the one scheduled first, as `(ts, seq)` orders them.
* `Plc` has one action for each thing the loop of `run` may do: `Release` an event
  that is due, `Trigger` a fault from the trigger file (refused if the cell does not
  know its code or is not producing, but only after its time has been set), `Save`; `Tick` is the wall
  clock, `CleanRestart` and `Crash` the two ways to stop and start again.

### Correspondence with the code: deployment

* `phase` is what `docker compose up` has come to: nothing runs, the seed runs, or the
  seed exited with 0 and the others may start (and restart). `Up` is the seed up to
  its loop, `SeedStep` and `SeedFlush` the loop, `HandOver` the state file it leaves;
  `SeedDies` ends it anywhere, and a transaction the schema refuses ends it too.
* One instant is one heartbeat. What the cell does in it is any change of state and
  any part: `Cell` and `Plc` model how it comes about. The engine is deterministic, so
  a process that starts from the same retentive data lives the same instants again:
  `past` keeps what was lived, and `Lived` when it must be lived again. A process that
  starts from a file draws other random numbers than one without (`salt`). Faults
  that an operator forces through the trigger file would break that; they are in
  `Plc` only.
* An instant of the seed makes one group. The code makes one for each step of the
  engine: of two events at the very same instant, the second would be taken for a
  conflict by the tracker. Two that change tags at one instant take a coincidence of
  random delays, or a reset of the counters (`chaos`) configured for the instant at which
  a break begins or ends.
* `Snapshot` and `ResumeTs` are the state file: its clock, how far ahead an unclean one
  resumes, and the counters, which are those of the moment it was saved.
* A session delivers an instant, and the collector makes of it (`Receive`) what the
  assembler, tracker, watchdog and store do, in one transaction: their interleavings
  are the subject of `Collector`. `Connect` is the replay of present values, each
  with the instant of its last change. The watchdog after a timeout is `Silence`.
* `PlcStops`, `PlcDies`, `CollectorDies`, `Down` are the other ways to stop. A clean stop
  of a collector has nothing to drain here, and is a death.

### Correspondence with the code: live view

* A coroutine is cut where it awaits. `WakeUp`, `Read`, `Publish` are one round of
  `_fast_loop`: clearing `dirty` and the first SELECT, the next SELECTs, and
  everything after the last of them, which runs without an await. Clearing and the
  first SELECT are one step because a commit between the two is the same as one
  before both: its notification comes later either way. The initial refresh of
  `run` and that of a REST request take the same steps.
* The database is known by how many transactions it has (`rev`). A snapshot that
  mixes two of them counts as the older; the SELECTs of one refresh only ever see
  more, so a snapshot that counts as the newest is the newest throughout.
* `Listen` and `Listening` are the LISTEN statement taking effect on the server and
  its execute returning; in between notifications pile up.
* A socket is open as long as the server has a queue for it (`Connected`). What
  the page received before a socket closed is received before `SocketLost`, so the
  two ends may close in one step; messages go straight from the queue to the page,
  since a slow connection is a queue that waits.
* `live` is the status of the page, "live" or any other.
* `TextAfter` is what comparing the texts of `iso_z` does: `05:00:00Z` sorts after
  `05:00:00.250000Z`.

## 3. Runs

| run | question |
|---|---|
| `assembler` | order, conservation, lateness and eventual release over every arrival of notifications at three instants, in batches of two |
| `stop_history` | do the stops follow the events through replays, late groups and crashes; does the database implement `StopLedger` |
| `collector` | with one crash, clean stop or lost session at any point: no silent loss, gaps known on both sides, stops that follow the events, no refused transaction, in sync when idle |
| `collector_torn` | two tags whose notifications come in any number of pieces, with a crash: true events only |
| `reports` | is every report about every range right second by second, at every moment, and do the reports and the live page agree |
| `plc` | is there always one way on for the cell; does it keep its breaks, its parts and its maintenance; does its time only grow |
| `live` | with one failure or restart at any point: is no notification lost, does the newest snapshot win and reach the page, does its now not go back, is it up to date in the end or does not claim to be live |
| `deployment` | from an empty database, with one process stopping at any point, and the seed dying at any other: is the history the one that was lived, each part counted once, time never back, and the database current in the end |
| `reconnect_race`, `stop_cancels_write`, `phantom_stop`, `seed_interrupted` | one disagreement each between the code and what it says of itself, see section 4 |

### Bounds, and why they are enough

* `Assembler.cfg`: three instants make every relation between a released, a
  pending and an arriving group possible; two tags with two values distinguish
  joining from replacing; `SettleTime = 1` already separates "may be released"
  from "must wait".
* `StopHistory.cfg`: three instants and two unwritten groups let a late, a
  conflicting and a replayed group meet an open and a closed stop; the groups
  include torn ones (state without fault code).
* `Collector.cfg`: instants are even numbers up to 8, four heartbeats, with a
  change of the cell before, during and after an outage. `Jump = 1` is below one
  heartbeat period: every missed heartbeat counts. The code tolerates jumps up to
  5 simulated seconds on purpose; changes made and undone within one are lost by
  design, and the model does not claim otherwise.
* `CollectorTorn.cfg`: three instants, two tags, notifications split in every
  way, one crash. It has no clean stop: a clean stop flushes a group of which only
  a part has arrived, and stores a torn event; the comment at pipeline.py:135
  accepts that.
* `MaxCrashes`, `MaxStops`, `MaxDrops`, `MaxFailures` bound the failures.
* `Deployment.cfg`: six instants, of which the seed writes two, in batches of one (a
  death between the batches leaves one of them); the cell runs or is in a fault, for
  two instants at most (`MaxIdle`: enough for a stop to begin and end within any one
  process, or to be open over the change from one to the next), and makes one part
  (`MaxParts`: a counter saved before or after it). `SaveEvery = 1`, with a lookahead of
  3, is the shortest that lets a crash lose something; `Jump = 1` excuses one instant
  between two heartbeats, as the code's 5 s do. Each kind of stop happens once at
  most, and one of them besides the seed's death (`MaxFailures`); a PLC may only die
  when it would resume within the model's time. All four of `Excuses` happen. The same
  checks passed by hand on a larger instance (a seed of three instants in batches of
  two, seven instants, no bound on idle ones: 1.7 million states), which
  takes too long to be repeated every time.
* `Reports.cfg`: five seconds, a day of four, a shift that crosses midnight, stops
  of less than, exactly and more than `MicroStop = 2`, two gaps, a counter one step
  before its wrap, one reset. The one loss state is the setup, so that the markers of the
  weld curve can be compared with the Pareto's micro-stops; the longest shift is within
  `ShiftLookback`, as the comment in service.py:21 says (the configuration does not
  enforce it). Ranges begin before the first event, and end now or
  in the past. A reset within the rollover window of the wrap is left out: no
  reader of the counter could tell it from a wrap.
* `Plc.cfg`: slots of two ticks so that one can be cut in the middle, two slots in
  a part, interruptions before, at and after the end of a slot, stops shorter and
  longer than a break, a dressing after every part and a cap change after one or
  two, two breaks, one fault asked for (known or not, in any state), one restart. `Lookahead` is computed as in
  the code; `Jitter` bounds how late a save may be, and the pacer keeps up with its
  clock: those are the assumptions `TimeNeverGoesBack` rests on. `LookaheadAssumption`
  relates them: the loop waits no longer than `save_interval_s`, so a save is at most
  that late, the lookahead is twice the interval and a margin of 60 s, and events are
  no further apart than the heartbeat of 1 s.

* `Live.cfg`: two transactions, so that one can overtake the other; three instants,
  two of one second (the later sorts before the earlier) and one of the next;
  one failure of any kind, a restart of the API included; one page, whose request
  is the only one. `last_seen_ts` advances to the next instant or not at all, and
  is known when the API starts.

`Excuses` of `Deployment` names the four things after which less is required, each
recorded at the step where it happens: a seed that died after a batch and a
simulator that died before its first save start behind the database (`TimeGoesOn`
requires nothing then; the other properties go on to hold); one that starts at the very
instant of the last event in another state has that state dropped as a conflict until
the next change; and one that was behind and is stopped again before it has caught up
draws another future for instants already recorded.

`Calm` restricts the environment, so that each run looks at one thing: for
instance `"consumer"` keeps the consumer from running while the client connects,
which is exactly the race the run `reconnect_race` allows. The values and what
they mean are listed in `Collector.tla`. The properties of `collector` excuse
what the other runs show to be wrong (`excused`): after a transaction was
cancelled by a clean stop, or a gap operation was ignored by its WHERE or
conflict clause, the invariants about gaps promise nothing. That is recorded at
the very step where it happens, so a loss for another reason is still found.

### Fairness

`AssemblerHistory` (`EventuallyReleased`) assumes weak fairness of `PollGroups` (the
ticker polls every 0.25 s) and of `Elapse` (time passes); nothing has to arrive,
and arrivals may go on for ever. `Live` (`PageCatchesUp`) assumes weak fairness of
each task by itself: the listener, the fast loop (whose wait ends after 5 s at the
latest), the request, the socket and the stall check, because the event loops of
the API and of the browser run what is ready. It assumes nothing of commits and
failures. `Deployment` (`CatchesUp`) assumes that whatever stopped is started again
(`restart: unless-stopped`; an operator who calls up again after a seed that failed)
and that what runs goes on: the engine steps, the seed flushes, the client connects,
the pacer saves. Weak fairness of the four actions that write to the database is
spelled out in `WritersAreFair`, with the guard in the place of ENABLED, because they
never stutter and TLC takes long to enable them. Failures need not happen, and there
are finitely many. `Collector`, `Reports` and `Plc` state no fairness: their behaviours end where
the bounded clock does. `InSyncWhenIdle` takes the place of "the database catches
up": whenever nothing is left to process, it has; and `OneWayOut` that of "the
cell goes on": in every state exactly one event is awaited that leaves it.

## 4. What the checks found

1. `reconnect_race`. `on_connected()` is called after both subscriptions; the
   first heartbeat of the new session can be processed before it, and then
   escapes the jump check. A short outage leaves no gap.
2. `stop_cancels_write`. A clean stop cancels the transaction in progress; its
   groups have left the assembler, so the drain does not write them, but writes a
   `last_seen_ts` past them.
3. `phantom_stop`. A collector that reconnects still knows the tag values of
   before the outage and completes the replayed ones with them: an event, and
   possibly a stop, is stored that the cell never showed.
4. `seed_interrupted`. The seed commits batch by batch and writes the simulator's state
   file last; one that dies in between is taken for a complete one at the next `up`,
   because it looks for any event at all. The simulator then begins at `clock.start`,
   behind what the database has seen, and nothing it shows is recorded until it has
   lived the seeded time again.

Met while modelling and not shown by a run of its own (the first three are excepted
by name in a property):

* The gap of an outage starts at the last heartbeat processed. It can be stored while
  `last_seen_ts` is held back by an older change still in the assembler; after a crash
  the next gap starts there again and `ON CONFLICT (start_ts) DO NOTHING` discards it:
  changes of the second outage are lost outside any gap (`"gap left out"` in the
  `excused` of `Collector`, `NoSilentLoss`).
* The OEE takes an open stop to last until the latest instant known, the Pareto only
  until the end of the range asked for: a stop still open that began shortly before
  that end is a loss for one and a micro-stop for the other (`ViewsAgree`).
* The live OEE counts the part of the first shift that came before the first event as
  operating time, GET /api/oee leaves it out (`LivePageAgrees`).
* live_hub.py:10-16 says that the hub's `now` is fed by notifications alone, never by
  `last_seen_ts` read again, but for the very first refresh. The code (lines 135-136)
  takes `last_seen_ts` at every refresh that finds it later: when the first refresh has
  set `now`, and an instant is committed before the hub listens, the next refresh sets
  `now` to it without any notification. The model follows the code. No property
  depends on which of the two is meant: `WakeUpNotLost` asks of `now` only that no
  message stays behind a notification that came, and `PageCatchesUp` that the page comes
  to show the hub's own `now`; what the database has is compared by transactions. (All
  properties of `Live.cfg` also hold, checked by hand, with a refresh that sets `now`
  only the first time.)

Also met: a shift of more than nine hours, which the configuration allows, would
begin nine hours ago on the live page (service.py:21); a PLC that crashes before its
first save since it started resumes a second time from the same instant, and its
time goes back; with `consecutive_nok_parts = 1` worn caps are never changed,
because every part ends in a weld fault before the threshold is looked at; and an
interruption of the part that a break lets finish leaves the cell starved in the
break. With a settle time longer than the heartbeat timeout (not the configured
values), a restart from before the start of an open gap leaves that gap open for
ever (`"gap left open"` in `Excuses`). On the live side, a REST request that
overlaps the hub's first refresh may publish an older snapshot after a newer one
(`overlapped`), its answer may put an older state on the screen until the next
message, and the page's now may stand still or go back within a second, because it
compares texts; an error in the hub's refresh ends the live feed until the API is
restarted, and all the page can tell is that it has stalled.

## 5. Proofs

`AssemblerProofs` proves of `AssemblerHistory`, for any tags, values, changes and
bounds (under `BoundsAssumption` and `ChangeAssumption`):

* `TypeCorrect`: the type invariant;
* `HistoryIsInOrder`: a group handed over in time is newer than everything handed
  over before;
* `OrderInvariant`: the inductive invariant both follow from, `OrderInv`. The
  type invariant is not inductive towards order: it has to be known that
  `releasedUpTo` is not older than anything handed over (`handed`) and older than
  everything pending (`PendingIsNewer`). Then a call releases a set of the oldest
  pending groups (`ReadyIsClosed`), all newer than `releasedUpTo`, which becomes
  the newest of them (`ReleaseInOrder`), and whatever is flagged late is not newer
  than it. There is one lemma per operation (`FeedOrder`, `PollOrder` for poll and
  flush, `ElapseOrder`), and below them the lemmas on batches and groups.
* `NothingIsLost`, `NothingIsInvented`, `LateIsOvertaken`: conservation. They need
  one fact more, in the inductive `HandOverInv`: the line between released and
  pending is itself an instant that was handed over in time. A late group then has
  that one to point to.

`StoreProofs` holds what the next three rest on: what one write inserts and closes
(`EventsWritten`, `StopsWritten`), that the stops still follow the events after it
(`StopsStillFollow`, `WriteKeepsConsistent`), that the tracker issues exactly what the
tables it remembers admit (`TrackerIssues`), that all the groups of a call and all the
writes of a transaction do so one by one (`TrackedAndWritten`, `TransactionTracked`),
and what a start finds (`ResumeRemembers`, `RepairChangesNothing`). The operators that
go through a sequence are recursive functions over its length, not folds: the stages
in between are then values that a lemma can speak of.

`StopHistoryProofs` proves of `StopHistory`, for any values, instants and number of
uncommitted groups (under `HistoryAssumption` and `TrackerAssumption`):

* `StopsAreThoseOfTheEvents`: the stops are those of the events in every database a
  reader can see;
* `MemoryIsSound`: the tracker knows what the database will say once it has caught
  up, and the repair at start has nothing to do;
* `HistoryOnlyGrows`: an action property; a step inserts behind the last event of a
  scope and alters nothing;
* `CollectorImplementsLedger`: the refinement of `StopLedger`;
* `TypeCorrect`, and `HistoryInvariant`, from which the others follow.

  The difficulty is that the tracker runs ahead of the database: what it issues now
  was computed for a database that does not exist yet. `HistoryInv` therefore speaks
  of all the stages between the two (`Stages`): each is `Consistent` (the stops follow
  the events, the one open stop is that of the last event), each waiting transaction
  is `Issued` for exactly the stage it will find (newer than all of its scopes, a
  change, it closes the stop that is open there), and the memory is what the last
  stage says (`Remembers`). A commit drops the first stage; a group appends one
  (`ApplyKeepsHistoryInv`); a crash drops all but the first, and resuming from a
  consistent database remembers it.

`LiveProofs` proves of `Live`, for any instants, number of transactions and failures
(under `LiveAssumption` and `NoneAssumption`, which says that None is not a number, a
message or the absence of a queue):

* `NoWakeUpIsLost`: a hub that waits with nothing to wake it has all that was
  notified. Inductive only together with what a refresh under way will bring
  (`WakeInv`) and with nobody being ahead of the database (`SeenInv`);
* `TheNewestWins`: the messages between the hub and the screen are in order
  (`OrderInv`, which orders what a refresh has read as well: a message is as old as
  its oldest SELECT), as long as no REST refresh overlapped the hub's (`OverlapInv`:
  until then a request only refreshes while the hub's own loop is over);
* `NowOnlyAdvances`: an action property; the page's now never goes back to an earlier
  second, although the texts it compares are not ordered within one;
* `TypeCorrect`, and `LiveInvariant`, the inductive invariant of all.

`CollectorProofs` proves of `Collector`, for any tags and images, settle time, timeout
and jump, any failures, and an environment that may do anything (any `Calm`), under
`CollectorAssumption` and `TrackerAssumption`:

* `StopsAreRight`: the stops are those of the events, whichever task overtakes the
  other, unless a clean stop cancelled a transaction;
* `GapsAreKnown`: between transactions the watchdog knows the gap that `comm_gaps`
  holds open, and only that one;
* `NothingIsRefused`: no transaction meets a second open stop or gap;
* `TypeCorrect`, and `CollectorInvariant`, from which the others follow.

  The three tasks share the tracker and the watchdog, which run ahead of the
  database by the transactions that wait for the lock. `TypeInv` says that these are
  never more than two, because each task waits for its own (`AtMostTwo`). `StoreInv`
  speaks of the tables that each of them will leave (`Ahead`): every one is
  `Consistent`, and the tracker remembers the last (`Agree`). `GapInv` does the same
  for the watchdog: each transaction will find the gap open that the watchdog knew
  when it queued it (`Legal`, `Moved`), and the last leaves the one it knows now
  (`KnowsGap`). Both end where the code's own promise ends: `StoreInv` with a
  transaction cancelled by a clean stop, `GapInv` with anything in `excused`. There
  is one lemma per action (`ProcessKeeps`, `TickKeeps`, `CommitKeeps`, ...).
  `IssuedKeeps` is what the consumer and the ticker have in common, a new transaction
  behind those that wait; `CommitAgrees` and `CommitKnowsGap` drop the first; after a
  crash `ResumeFits` starts again from the tables alone. A watchdog that processes a
  batch goes through its notifications one by one (`BeatByBeat`, `BeatsFit`), and
  `GapsWritten` says what its operations do to the gaps.

`DeploymentProofs` proves of `Deployment`, for any states, tags, counters, intervals of
save, lookahead and bounds that `DeploymentAssumption` and `RetentiveAssumption` allow:

* `TimeNeverGoesBack`: a simulator that runs is not behind what the database has seen,
  through the seed, the hand-over, and every stop, crash and restart, unless the seed
  was interrupted or the simulator died before its first save;
* `TypeCorrect`, which includes that no transaction of any process leaves two open
  stops or two open gaps;
* `DeploymentInvariant`, the inductive invariant.

  `DeploymentInv` says what each process may find when it starts. Until a simulator
  has run, the seed was the only writer (`SeedInv`). A first seed that nothing
  interrupted finds the tables that its own tracker remembers (`FirstSeedInv`), so the
  schema never refuses what it flushes, and it cannot end without its file. What a
  crashed simulator resumes from is ahead of everything it published, because the
  lookahead covers an interval between saves and what the collector takes for no jump
  (`FileInv`). Then `TimeInv`: nothing recorded is later than the simulator, or than
  the one that will start from the file.

It also proves of `_delta`, for any width of the counter and any rollover
window (under `CountersAssumption`): the difference of two readings is a number
of parts the counter can hold (`NeverNegative`); it is exactly the parts made, over
a wrap too, as long as they are no more than the window (`DeltaIsExact`, by
`WrapsOnce`); and a restart from zero away from the wrap counts as nothing
(`ResetCountsNothing`).

`PlcProofs` proves of `Plc`, for any parts, shifts and breaks, thresholds, draws,
forced faults and number of restarts (under `CellAssumption`, `PlcAssumption` and
`LookaheadAssumption`), every property of the run `plc`:

* `OneWayOutAlways`, `BreaksAreOnSchedule`, `SlotsTakeTheirTime`,
  `MaintenanceIsAlwaysDone`, and two action properties, `NothingBegins` and
  `TimeOnlyAdvances`; `StateIsWellFormed`, and `PlcInvariant`, from which they follow.

  What the handlers of the cell rely on, and nothing in the code says in one place, is
  which events the heap holds. `PlcInv` says it: nothing is scheduled in the past
  (`Ahead`), a heartbeat is due within its period (`Beats`), exactly one event of the
  breaks is awaited and it is the start of the next break or the end of this one
  (`Armed`), and of the events of a state there is exactly the one that ends it, at
  `slotEnd` for a slot, which one interruption may come before (`WayOut`). `SlotKept` adds that work done and work left
  make up the slot, and `Worn` which maintenance the wear still allows to be missing.
  A handler runs in the middle of this: the event it was called for has been popped,
  and until it has entered the next state no way out is left. The lemmas on heaps
  (`AppendedEvent`, `VoidedEvents`, `RemovedEvent`) say what scheduling, entering a
  state and popping do to "exactly one", the lemmas on operators (`Stops`, `Resumes`,
  `ProductionStarts`, `SetupStarts`, `PartIsCompleted`, `ArmBreakArms`, ...) that each
  one leads from `Ready` back to `Going`, and `StepGoes` puts the handlers of all the
  events together. `ForceGoes` is a fault asked for, granted or not, `StartGoes` a start from any state file that
  a save can have left. For time, `AheadOfClock` says that once saved, the file is ahead of the clock
  by what may still pass until the next save, which is where `LookaheadAssumption`
  comes in.

The inductive invariants `HistoryInv`, `LiveInv`, `PlcInv`, `CollectorInv` and
`DeploymentInv` were also checked by TLC, on the instances of `StopHistory.cfg` (two
instants), `Live.cfg`, `Plc.cfg`, `Collector.cfg` and `Deployment.cfg`.

A function update names each component once, and an inner one names what it updates:
`[f EXCEPT !.a = [f.a EXCEPT !.b = @ + 1, !.c = y]]` rather than
`!.a.b = @ + 1, !.a.c = y`, which means the same but which the SMT encoding of tlapm
1.4.5 gets wrong, as it does an `@` within an `@`.

Only model-checked:

* liveness (`EventuallyReleased`, `PageCatchesUp`, `CatchesUp`): fairness and ENABLED
  are out of the prover's reach;
* `Reports`: the interval functions and the sums are folds over sequences and sets,
  and what they compute for every input would need induction over data, which the
  provers at hand do not do;
* of `Collector`, `NoSilentLoss`, `InSyncWhenIdle` and `EventsAreTrue`. They relate
  every image the cell ever showed to where it is now: on the wire, in the assembler,
  in a waiting transaction, in the tables, or inside a gap. They also hold only in an
  environment that `Calm` restricts (section 4 says what happens otherwise), so
  the invariant would have to carry the session, the wire and the three tasks
  through each of those restrictions;
* of `Deployment`, `HistoryIsTrue` and `PartsAreCountedOnce`. They compare the
  database with everything that was lived, over a seed that is forced again and
  simulators that live the same instants twice; the second is also a sum over the samples.

## 6. Not modelled

The health files, logging, configuration, the migrations runner, the web pages and
what docker compose does besides starting processes in order have no protocol worth
a model. The overflow of a subscription queue drops values without ending the
session; the code only counts it, and a model of it would show just that. Columns
of a stop that are functions of its event (station, suggested cause), the ratios
of the OEE, the weld currents and their wear are computations without control and
are left out. So is the OEE that the hub recomputes every second for its messages:
it depends on `now` and the database only, and rides along.

## 7. Plan

What can be modelled faithfully and says something is modelled; the assembler, the
tracker with its store, the collector, the processes of a deployment, the counters,
the live view and the simulated PLC are proved, each as far as section 5 says. Next:

1. `InSyncWhenIdle` for every value of the constants, in the environment of
   `Collector.cfg`: what the tracker holds as the newest value of a tag is the cell's
   own, except for tags still on the wire or in the assembler. `CollectorInv`
   already relates the tracker to the tables.
2. `NoSilentLoss` from the same invariant, with the instants before the oldest
   waiting heartbeat split into seen, pending and inside a gap.
3. `HistoryIsTrue` of `Deployment`, from `DeploymentInv` and a relation between the
   retentive data and the instants that will be lived again.
