---------------------------- MODULE StopHistory ----------------------------
(***************************************************************************)
(* The tracker and the database it writes to, with the process that holds  *)
(* the tracker's memory crashing at any point.                             *)
(*                                                                         *)
(* The environment is any group of changes, in any order: new ones, late   *)
(* ones, and after a restart the old ones that the server replays.  What   *)
(* the tracker has issued and the database has not committed yet waits in  *)
(* unwritten; here each group's operations are a transaction of their own  *)
(* (the collector writes one or several groups per transaction, so its     *)
(* database only passes through some of the states reached here).          *)
(***************************************************************************)
EXTENDS Store, Sequences

CONSTANTS
    MaxTs,        \* the last simulated instant of the model
    GroupValues,  \* the values that a group can carry
    MaxUnwritten  \* bound on the groups waiting to be committed

Instant == 1..MaxTs

Value == UNION {{v[tag] : tag \in DOMAIN v} : v \in GroupValues}
AllTags == UNION {TagsOf[s] : s \in Scope \cup Series}

ASSUME HistoryAssumption ==
    /\ MaxTs \in Nat
    /\ MaxUnwritten \in Nat
    /\ \A v \in GroupValues : DOMAIN v \subseteq AllTags

VARIABLES
    trk,          \* the tracker's memory
    unwritten,    \* operations issued and not yet committed, oldest first
    db            \* the database

vars == <<trk, unwritten, db>>

Group == [ts : Instant, values : GroupValues]

Init ==
    /\ db = EmptyDb
    /\ trk = Resume(EmptyDb)
    /\ unwritten = <<>>

\* StopTracker.apply(group)
Apply(g) ==
    LET ops == OpsFor(trk, g)
    IN  /\ Len(unwritten) < MaxUnwritten
        /\ trk' = After(trk, g, ops)
        /\ unwritten' = IF HasOps(ops) THEN Append(unwritten, ops) ELSE unwritten
        /\ UNCHANGED db

\* CollectorStore.apply: one transaction, all of it or nothing.
Commit ==
    /\ unwritten # <<>>
    /\ db' = Write(db, Head(unwritten))
    /\ unwritten' = Tail(unwritten)
    /\ UNCHANGED trk

\* The process dies, at any moment, and the next one resumes.  Whatever was
\* not committed is gone, as is what the tracker knew of the tags.
Restart ==
    /\ unwritten' = <<>>
    /\ db' = Repair(db)
    /\ trk' = Resume(db')

Next ==
    \/ \E g \in Group : Apply(g)
    \/ Commit
    \/ Restart

Spec == Init /\ [][Next]_vars

-----------------------------------------------------------------------------

CellEvents == db.events["CELL"]

ImagesOf(s) == [TagsOf[s] -> Value]

AllImages == UNION {ImagesOf(s) : s \in Scope \cup Series}

Operations ==
    [ts      : Instant,
     events  : UNION {[S -> AllImages] : S \in SUBSET Scope},
     closes  : Instant \cup {Never},
     opens   : BOOLEAN,
     samples : UNION {[S -> AllImages] : S \in SUBSET Series}]

TypeOK ==
    /\ DOMAIN trk.latest \subseteq AllTags
    /\ \A s \in Scope :
           /\ trk.last[s].ts \in Instant \cup {Never}
           /\ trk.last[s].ts # Never => trk.last[s].values \in ImagesOf(s)
           /\ DOMAIN db.events[s] \subseteq Instant
           /\ \A t \in DOMAIN db.events[s] : db.events[s][t] \in ImagesOf(s)
    /\ trk.openStop \in Instant \cup {Never}
    /\ unwritten \in Seq(Operations)
    /\ DOMAIN db.stops \subseteq Instant
    /\ \A t \in DOMAIN db.stops : db.stops[t] \in Instant \cup {Never}
    /\ \A s \in Series : DOMAIN db.samples[s] \subseteq Instant

\* The stops table is what the cell events say, at every moment a reader can
\* look (store.py: "an event and the stop it opens or closes never get
\* separated").
StopsFollowEvents == StopsFollow(CellEvents, db.stops)

\* The database with everything the tracker has issued.
Stages == StagesOf(db, unwritten)
Caught == Stages[Len(unwritten)]

\* A crash changes nothing but what is known of the tags: the repair at start
\* is a safety net that never has anything to do, and the tracker's memory is
\* what the database will say once it has caught up.
RepairIsIdle == Repair(db) = db
MemoryIsWhatIsStored ==
    /\ RepairIsIdle
    /\ [trk EXCEPT !.latest = <<>>] = Resume(Caught)

\* History only grows, by changes: a step neither alters nor removes a stored
\* event, and what it inserts is behind the last one of the scope and differs
\* from it, across crashes and replays (tracker.py: "a real change produces
\* exactly one event, however many times it is delivered", "an event older than
\* the last stored one is never inserted").
HistoryGrowsByChanges ==
    [][\A s \in Scope :
          LET old == db.events[s]
              new == db.events'[s]
          IN  /\ \A t \in DOMAIN old : t \in DOMAIN new /\ new[t] = old[t]
              /\ \A t \in DOMAIN new \ DOMAIN old :
                     /\ \A u \in DOMAIN old : u < t
                     /\ old # <<>> => new[t] # old[Max(DOMAIN old)]]_vars

\* The collector implements the ledger.
Ledger ==
    INSTANCE StopLedger WITH
        Times <- Instant,
        Images <- ImagesOf("CELL"),
        Stopped <- Stopped,
        history <- CellEvents,
        stops <- db.stops

ImplementsLedger == Ledger!Spec
=============================================================================
