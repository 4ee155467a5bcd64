----------------------------- MODULE Collector -----------------------------
(***************************************************************************)
(* The collector process (backend/app/collector/pipeline.py) between a PLC *)
(* and the database: OPC UA session, assembler, tracker, watchdog, store.  *)
(*                                                                         *)
(* Three asyncio tasks share its memory: the OPC UA client, the consumer   *)
(* (_consume, _process) and the ticker (_tick).  A task computes its       *)
(* operations without awaiting, then queues for the lock and waits for its *)
(* transaction; meanwhile the other two run.                               *)
(*                                                                         *)
(* The PLC lives in simulated time.  It has one heartbeat per instant; the *)
(* instants are the even numbers, so that the microsecond that             *)
(* _safe_last_seen takes off has a number of its own.                      *)
(***************************************************************************)
EXTENDS Store, SequencesExt

CONSTANTS
    MaxTs,          \* the last simulated instant of the model (even)
    SettleTime,     \* assembler_settle_s, in ticks of wall-clock time
    Timeout,        \* heartbeat_timeout_s, in ticks of wall-clock time
    Jump,           \* heartbeat_sim_s, in simulated time
    CellImage,      \* the images [tag -> value] the cell goes through
    Calm,           \* which of the five below behave calmly
    MaxCrashes,     \* bounds on the crashes of a behaviour,
    MaxStops,       \*   on its clean stops,
    MaxDrops,       \*   on its lost sessions,
    MaxFailures     \*   and on all these together

ASSUME CollectorAssumption ==
    /\ MaxTs \in Nat \ {0, 1} /\ SettleTime \in Nat /\ Timeout \in Nat /\ Jump \in Nat
    /\ IsFiniteSet(TagsOf["CELL"])
    /\ CellImage \subseteq [TagsOf["CELL"] -> Int]
    /\ Calm \subseteq {"plc", "server", "consumer", "session", "clock"}
    /\ MaxCrashes \in Nat /\ MaxStops \in Nat /\ MaxDrops \in Nat
    /\ MaxFailures \in Nat

VARIABLES
    plc,            \* the cell's image at each instant so far (index i: instant 2i)
    link,           \* the OPC UA session, see below
    wire,           \* notifications sent and not yet processed, oldest first
    up,             \* whether the process runs
    pending, waited, releasedUpTo,   \* its assembler
    trk,            \* its tracker
    wd,             \* its watchdog
    maxTs,          \* _max_ts
    writtenTs,      \* _written_ts
    firstRun,       \* _first_run
    writes,         \* transactions waiting for the lock or running, in lock order
    db,             \* the database
    crashes, stops, drops,           \* how many there have been
    watchedFrom,    \* auxiliary: the instant from which this database observes the cell
    excused         \* auxiliary: what has happened of Excuses

plcVars == <<plc>>
netVars == <<link, wire>>
asmVars == <<pending, waited, releasedUpTo>>
memVars == <<trk, wd, maxTs, writtenTs, firstRun>>
counts  == <<crashes, stops, drops>>
aux     == <<watchedFrom, excused>>
vars    == <<plcVars, netVars, up, asmVars, memVars, writes, db, counts, aux>>

failures == crashes + stops + drops

Asm == INSTANCE Assembler
Wd  == INSTANCE Watchdog

Heartbeat == "Heartbeat"
Instant == 1..MaxTs

\* The session: "down"; "fast" once the heartbeat is subscribed; "all" once the
\* event tags are; "up" once on_connected was called.
Links == {"down", "fast", "all", "up"}

\* Three things that this code is known to do wrong: nothing is required after
\* them.
\*   "gap left out": a gap starts where a stored one does, and ON CONFLICT
\*     discards it;
\*   "gap left open": a restart resumed from before the start of the open gap,
\*     and the heartbeat that should have closed it is not newer than its start;
\*   "write cancelled": a clean stop cancels a transaction, and records
\*     last_seen_ts without what was in it.
Excuses == {"gap left out", "gap left open", "write cancelled"}

(* What calm means, for the constant Calm:                                 *)
(*   "plc": the cell does not change while the client connects;            *)
(*   "server": what is on the wire arrives together, or is lost together;  *)
(*   "consumer": it takes no notification before on_connected is called;   *)
(*   "session": a connection, once begun, succeeds, and a session starts    *)
(*     with no notification of the last one waiting;                       *)
(*   "clock": wall-clock time does not pass while notifications wait (they *)
(*     do as long as the consumer's transaction is slow).                  *)
Connecting == link \in {"fast", "all"}

-----------------------------------------------------------------------------

(* The PLC and the OPC UA server (simulator/cell_sim).                     *)

Clock == 2 * Len(plc)

Now == plc[Len(plc)]

\* When a tag last changed: its SourceTimestamp.
ChangedAt(tag) ==
    2 * Max({i \in 1..Len(plc) : i = 1 \/ plc[i][tag] # plc[i - 1][tag]})

Notice(tag, value, ts) == [tag |-> tag, value |-> value, ts |-> ts]

Beat(ts) == Notice(Heartbeat, 0, ts)

\* The notifications of a set of tags in some order.
InSomeOrder(notices) == SetToSeqs(notices)

\* The first k notifications can arrive without the next ones.
Deliverable(k) == "server" \in Calm => k \in {0, Len(wire)}

\* Simulated time advances to the next instant; the cell may change.  What
\* changed is sent if it is subscribed (the server writes tag after tag).
PlcStep ==
    /\ Clock + 2 <= MaxTs
    /\ "plc" \in Calm => ~Connecting
    /\ \E image \in CellImage :
          LET ts == Clock + 2
              changed == {tag \in DOMAIN image : image[tag] # Now[tag]}
              sent == (IF link = "down" THEN {} ELSE {Beat(ts)})
                        \cup (IF link \in {"down", "fast"} THEN {}
                              ELSE {Notice(tag, image[tag], ts) : tag \in changed})
          IN  /\ plc' = Append(plc, image)
              /\ \E seq \in InSomeOrder(sent) : wire' = wire \o seq
    /\ UNCHANGED <<link, up, asmVars, memVars, writes, db, counts, aux>>

-----------------------------------------------------------------------------

(* The OPC UA client (opcua_source.py, _session).                          *)

\* subscribe_data_change of the fast tags: their current values are sent.
SubscribeFast ==
    /\ up /\ link = "down"
    /\ "session" \in Calm => wire = <<>>
    /\ link' = "fast"
    /\ wire' = Append(wire, Beat(Clock))
    /\ UNCHANGED <<plcVars, up, asmVars, memVars, writes, db, counts, aux>>

\* ... and of the event tags, each with the timestamp of its last change.
SubscribeEvents ==
    /\ up /\ link = "fast"
    /\ link' = "all"
    /\ \E seq \in InSomeOrder({Notice(tag, Now[tag], ChangedAt(tag)) : tag \in DOMAIN Now}) :
          wire' = wire \o seq
    /\ UNCHANGED <<plcVars, up, asmVars, memVars, writes, db, counts, aux>>

OnConnected ==
    /\ up /\ link = "all"
    /\ link' = "up"
    /\ wd' = Wd!Connected(wd)
    /\ UNCHANGED <<plcVars, wire, up, asmVars, trk, maxTs, writtenTs, firstRun,
                   writes, db, counts, aux>>

\* The session is lost, and with it what the server had not delivered yet.
Disconnect ==
    /\ up /\ link # "down" /\ drops < MaxDrops /\ failures < MaxFailures
    /\ "session" \in Calm => ~Connecting
    /\ link' = "down"
    /\ \E k \in 0..Len(wire) :
          /\ Deliverable(k)
          /\ wire' = SubSeq(wire, 1, k)
    /\ drops' = drops + 1
    /\ UNCHANGED <<plcVars, up, asmVars, memVars, writes, db, crashes, stops, aux>>

-----------------------------------------------------------------------------

(* Consumer and ticker.                                                    *)

\* The notifications of a batch at some of its places.
At(batch, places) == [i \in 1..Cardinality(places) |-> batch[Nth(places, i)]]

\* watchdog.on_heartbeat over the heartbeats of a batch, oldest first.
BeatAll(watchdog, beats) ==
    LET after[n \in 0..Cardinality(beats)] ==
            IF n = 0 THEN [wd |-> watchdog, ops |-> <<>>]
            ELSE [wd  |-> Wd!AfterHeartbeat(after[n - 1].wd, Nth(beats, n)),
                  ops |-> after[n - 1].ops \o Wd!HeartbeatOps(after[n - 1].wd, Nth(beats, n))]
    IN  after[Cardinality(beats)]

\* _safe_last_seen: not past the oldest change still in the assembler.
MaxSeen(max, groups) == max
SafeLastSeen(max, groups) ==
    IF DOMAIN groups = {} \/ max = Never THEN max
    ELSE IF Min(DOMAIN groups) - 1 < max THEN Min(DOMAIN groups) - 1 ELSE max

\* _write: what the transaction carries, and whether it is worth one.  How
\* long ago the progress was last flushed is left open (due).
Queue(by, gapOps, groupOps, force) ==
    LET seen == SafeLastSeen(maxTs', pending')
        someOps == gapOps # <<>> \/ \E i \in DOMAIN groupOps : HasOps(groupOps[i])
    IN  \E due \in BOOLEAN :
          LET fresh == seen > writtenTs
              write == IF fresh /\ (someOps \/ due \/ force) THEN seen ELSE Never
          IN  writes' = IF ~someOps /\ write = Never THEN writes
                        ELSE Append(writes, [by |-> by, gaps |-> gapOps,
                                             groups |-> groupOps, seen |-> write])

Waiting(by) == \E i \in DOMAIN writes : writes[i].by = by

\* _process: everything that was queued, n notifications.
Process ==
    /\ up /\ wire # <<>> /\ ~Waiting("consumer")
    /\ "consumer" \in Calm => ~Connecting
    /\ \E n \in {k \in 1..Len(wire) : Deliverable(k)} :
          LET batch == SubSeq(wire, 1, n)
              stamps == {batch[i].ts : i \in 1..n}
              heartbeats == {i \in 1..n : batch[i].tag = Heartbeat}
              beats == {batch[i].ts : i \in heartbeats}
              rest == At(batch, (1..n) \ heartbeats)
              seeded == IF firstRun THEN Wd!Seeded(wd, Min(stamps)) ELSE wd
              beaten == BeatAll(seeded, beats)
              tracked == TrackAll(trk, InOrder(Asm!FeedReturns(rest)))
          IN  /\ Asm!Feed(rest)
              /\ wd' = beaten.wd
              /\ trk' = tracked.trk
              /\ watchedFrom' = IF firstRun THEN Min(stamps) ELSE watchedFrom
              /\ maxTs' = Max(stamps \cup {maxTs})
              /\ Queue("consumer", beaten.ops, tracked.ops, FALSE)
              /\ wire' = SubSeq(wire, n + 1, Len(wire))
    /\ firstRun' = FALSE
    /\ UNCHANGED <<plcVars, link, up, writtenTs, db, counts, excused>>

\* _tick
Tick ==
    /\ up /\ ~Waiting("ticker")
    /\ LET tracked == TrackAll(trk, InOrder(Asm!PollReturns))
       IN  /\ Asm!Poll
           /\ trk' = tracked.trk
           /\ wd' = Wd!AfterPoll(wd)
           /\ UNCHANGED maxTs
           /\ Queue("ticker", Wd!PollOps(wd), tracked.ops, FALSE)
    /\ UNCHANGED <<plcVars, netVars, up, writtenTs, firstRun, db, counts, aux>>

\* Wall-clock time passes for the process.
Elapse ==
    /\ up
    /\ "clock" \in Calm => wire = <<>>
    /\ "session" \in Calm => ~Connecting
    /\ Asm!AssemblerWaits
    /\ wd' = Wd!Quiet(wd)
    /\ UNCHANGED <<plcVars, netVars, up, pending, releasedUpTo, trk, maxTs, writtenTs,
                   firstRun, writes, db, counts, aux>>

-----------------------------------------------------------------------------

(* The database, and the life of the process.                              *)

\* CollectorStore.apply
Applied(base, write) == Transaction(base, write.groups, write.gaps, write.seen)

\* Refused by a partial unique index: a second open stop or gap.
Rejected(base, write) == ~Accepted(Applied(base, write))

\* What goes wrong when the operations on gaps are applied.
Ignored(base, write) ==
    {IF write.gaps[i].op = "close" THEN "gap left open" ELSE "gap left out" :
        i \in {j \in DOMAIN write.gaps :
                 LET op == write.gaps[j]
                 IN  IF op.op = "close" THEN op.end <= op.start
                     ELSE op.start \in DOMAIN base.gaps}}

Forget ==
    /\ up' = FALSE
    /\ link' = "down" /\ wire' = <<>>
    /\ pending' = <<>> /\ waited' = <<>> /\ releasedUpTo' = Never
    /\ trk' = EmptyTracker /\ wd' = Wd!NewWatchdog(Never, Never)
    /\ maxTs' = Never /\ writtenTs' = Never /\ firstRun' = TRUE
    /\ writes' = <<>>

\* The transaction that holds the lock commits.
Commit ==
    /\ up /\ writes # <<>>
    /\ ~Rejected(db, Head(writes))
    /\ db' = Applied(db, Head(writes))
    /\ writtenTs' = IF Head(writes).seen # Never THEN Head(writes).seen ELSE writtenTs
    /\ writes' = Tail(writes)
    /\ excused' = excused \cup Ignored(db, Head(writes))
    /\ UNCHANGED <<plcVars, netVars, up, asmVars, trk, wd, maxTs, firstRun, counts,
                   watchedFrom>>

\* It is refused: the worker dies, and the collector with it (run).
Refuse ==
    /\ up /\ writes # <<>>
    /\ Rejected(db, Head(writes))
    /\ Forget
    /\ UNCHANGED <<plcVars, db, counts, aux>>

\* The process dies: its memory, its session and its open transactions go.  As
\* long as nothing is recorded, the next process is a first run.
Crash ==
    /\ up /\ crashes < MaxCrashes /\ failures < MaxFailures
    /\ crashes' = crashes + 1
    /\ Forget
    /\ watchedFrom' = IF db.lastSeen = Never THEN Never ELSE watchedFrom
    /\ UNCHANGED <<plcVars, db, stops, drops, excused>>

\* A clean stop: the tasks are cancelled, with the transactions they wait for
\* (one whose COMMIT was already sent may still go through); then
\* _drain_on_shutdown writes what the assembler holds, if the database takes it.
CleanStop ==
    /\ up /\ stops < MaxStops /\ failures < MaxFailures
    /\ stops' = stops + 1
    /\ \E sent \in {FALSE} \cup {writes # <<>> /\ ~Rejected(db, Head(writes))} :
          LET base == IF sent THEN Applied(db, Head(writes)) ELSE db
              seen == SafeLastSeen(maxTs, <<>>)
              write == [gaps |-> <<>>, groups |-> TrackAll(trk, InOrder(Asm!FlushReturns)).ops,
                        seen |-> IF seen > writtenTs THEN seen ELSE Never]
          IN  db' = IF Rejected(base, write) THEN base ELSE Applied(base, write)
    /\ Forget
    /\ watchedFrom' = IF db'.lastSeen = Never THEN Never ELSE watchedFrom
    /\ excused' = IF writes = <<>> THEN excused ELSE excused \cup {"write cancelled"}
    /\ UNCHANGED <<plcVars, crashes, drops>>

\* run(): the next process resumes from the database.
Start ==
    /\ ~up
    /\ up' = TRUE
    /\ db' = Repair(db)
    /\ trk' = Resume(db')
    /\ wd' = Wd!NewWatchdog(db.lastSeen, OpenIn(db.gaps))
    /\ maxTs' = db.lastSeen /\ writtenTs' = db.lastSeen
    /\ firstRun' = (db.lastSeen = Never)
    /\ UNCHANGED <<plcVars, netVars, asmVars, writes, counts, aux>>

Init ==
    /\ \E image \in CellImage : plc = <<image>>
    /\ link = "down" /\ wire = <<>>
    /\ up = FALSE
    /\ Asm!AssemblerInit
    /\ trk = EmptyTracker /\ wd = Wd!NewWatchdog(Never, Never)
    /\ maxTs = Never /\ writtenTs = Never /\ firstRun = TRUE
    /\ writes = <<>>
    /\ db = EmptyDb
    /\ crashes = 0 /\ stops = 0 /\ drops = 0
    /\ watchedFrom = Never /\ excused = {}

Next ==
    \/ PlcStep
    \/ SubscribeFast \/ SubscribeEvents \/ OnConnected \/ Disconnect
    \/ Process \/ Tick \/ Elapse
    \/ Commit \/ Refuse \/ Crash \/ CleanStop \/ Start

Spec == Init /\ [][Next]_vars

-----------------------------------------------------------------------------

CellEvents == db.events["CELL"]

Readings == {image[tag] : image \in CellImage, tag \in TagsOf["CELL"]}

TypeOK ==
    /\ plc \in Seq(CellImage) /\ Clock <= MaxTs
    /\ link \in Links
    /\ \A i \in DOMAIN wire : wire[i].ts \in Instant
    /\ Asm!AssemblerTypeOK(UNION {[S -> Readings] : S \in SUBSET TagsOf["CELL"]})
    /\ {trk.openStop, trk.last["CELL"].ts, wd.lastHb, wd.gapStart, maxTs, writtenTs,
        db.lastSeen, watchedFrom} \subseteq Instant \cup {Never}
    /\ excused \subseteq Excuses
    /\ wd.silence \in 0..(Timeout + 1)
    /\ Len(writes) <= 2
    /\ ~up => link = "down" /\ writes = <<>>

\* The cell changed at this instant, after this database began to watch it.
Watched(t) ==
    \E i \in 2..Len(plc) : t = 2 * i /\ plc[i] # plc[i - 1] /\ watchedFrom \in 1..(t - 1)

InGap(t) ==
    \E start \in DOMAIN db.gaps :
        start <= t /\ (db.gaps[start] = Never \/ t <= db.gaps[start])

\* Waiting in the queue, the assembler or a transaction, or a present value
\* that the next subscription will send.
OnItsWay(t) ==
    \/ link \in {"down", "fast"} /\ \E tag \in DOMAIN Now : ChangedAt(tag) = t
    \/ \E i \in DOMAIN wire : wire[i].ts = t /\ wire[i].tag # Heartbeat
    \/ t \in DOMAIN pending
    \/ \E i \in DOMAIN writes :
          \E ops \in Range(writes[i].groups) : ops.ts = t /\ HasOps(ops)

\* No change of the cell is lost in silence: once the database says that it has
\* seen past that instant, the change is stored, still on its way to the
\* database, or inside a gap (pipeline.py, _safe_last_seen: "everything after
\* last_seen_ts is treated as unobserved (a gap), so it must not include
\* unwritten events").
LossIsAlwaysAGap ==
    \A t \in 1..(db.lastSeen - 1) :
        Watched(t) => t \in DOMAIN CellEvents \/ OnItsWay(t) \/ InGap(t)

\* ... as long as nothing excuses it.
NoSilentLoss == excused = {} => LossIsAlwaysAGap

\* The watchdog and the database agree on the open gap, once the waiting
\* transactions have committed and as long as nothing excuses it.
GapIsKnown == up /\ writes = <<>> /\ excused = {} => OpenIn(db.gaps) = wd.gapStart

\* No transaction is refused by a constraint of the schema, unless something
\* excuses it.
NeverRefused == writes # <<>> /\ excused = {} => ~Rejected(db, Head(writes))

\* The stops are those of the events, whichever tasks overtake one another and
\* whenever the process ends, unless a clean stop cancels a transaction and
\* writes what was computed after it.
StopsFollowEvents == "write cancelled" \notin excused => StopsFollow(CellEvents, db.stops)

\* Every stored event is the image the cell had at that instant.
EventsAreTrue == \A t \in DOMAIN CellEvents : t % 2 = 0 /\ CellEvents[t] = plc[t \div 2]

\* A session with nothing left to do has brought the database up to date: the
\* last event is the cell's present image, and the cell has an open stop,
\* begun by that event, exactly when it does not produce.  Whatever sessions
\* and processes were lost before.
InSyncWhenIdle ==
    link = "up" /\ wire = <<>> /\ pending = <<>> /\ writes = <<>> =>
        /\ LastEvent(CellEvents).values = Now
        /\ OpenIn(db.stops) = IF Stopped(Now) THEN LastEvent(CellEvents).ts ELSE Never
=============================================================================
