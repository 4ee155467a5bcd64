------------------------- MODULE StopHistoryProofs -------------------------
(***************************************************************************)
(* The tracker and its database, for any scopes, series, tags, groups and  *)
(* number of groups waiting to be committed: the stops are always those of *)
(* the events, what the tracker remembers is always what the database will *)
(* say, and the collector implements the ledger of StopLedger.             *)
(***************************************************************************)
EXTENDS StopHistory, StoreProofs

USE DEF Instant, Never

\* The operations and the images are those that the lemmas are about.
LEMMA SameTypes ==
    /\ Operations = OperationsIn(MaxTs, Value)
    /\ \A s : ImagesOf(s) = Images(Value, s)
BY DEF Operations, OperationsIn, AllImages, AnyImage, ImagesOf, Images

\* The groups of the model are groups of its instants and values.
LEMMA GroupsFit ==
    ASSUME NEW g \in Group
    PROVE  IsGroup(MaxTs, Value, g) /\ DOMAIN g.values \subseteq AllTags
BY HistoryAssumption DEF Group, IsGroup, Value

-----------------------------------------------------------------------------

(* The inductive invariant: from what is stored to what has been issued,   *)
(* every stage is a consistent database, every transaction still to come   *)
(* fits the stage it will find, and the memory is what the last one says.  *)

HistoryInv ==
    /\ unwritten \in Seq(OperationsIn(MaxTs, Value))
    /\ DOMAIN trk.latest \subseteq AllTags
    /\ KnownTags(Value, trk.latest)
    /\ \A n \in 0..Len(unwritten) : Consistent(MaxTs, Value, Stages[n])
    /\ \A n \in 1..Len(unwritten) : Issued(Value, Stages[n - 1], unwritten[n])
    /\ Remembers(trk, Caught)

\* The database is where the stages begin.
LEMMA StoredIsTheFirstStage ==
    ASSUME unwritten \in Seq(OperationsIn(MaxTs, Value))
    PROVE  Stages[0] = db /\ StageByStage(Stages, db, unwritten)
<1>1. Len(unwritten) \in Nat
    OBVIOUS
<1>2. IsStages(Stages, db, unwritten)
    BY <1>1, StagesExist DEF Stages
<1>3. StageByStage(Stages, db, unwritten)
    BY <1>1, <1>2, StagesStep
<1>4. QED
    BY <1>3 DEF StageByStage

\* Nothing waits: the only stage is the database.
LEMMA NothingWaits ==
    ASSUME unwritten = <<>>, trk.latest = <<>>, Consistent(MaxTs, Value, db), Remembers(trk, db)
    PROVE  HistoryInv
<1>1. unwritten \in Seq(OperationsIn(MaxTs, Value)) /\ Len(unwritten) = 0
    OBVIOUS
<1>2. Stages[0] = db
    BY <1>1, StoredIsTheFirstStage
<1>3. Caught = db
    BY <1>1, <1>2 DEF Caught
<1>4. QED
    BY <1>1, <1>2, <1>3 DEF HistoryInv, KnownTags

\* The invariant holds of an empty database.
LEMMA HistoryInvInit == Init => HistoryInv
<1> SUFFICES ASSUME Init
             PROVE  HistoryInv
    OBVIOUS
<1>1. db = EmptyDb /\ trk = Resume(EmptyDb) /\ unwritten = <<>>
    BY DEF Init
<1>2. Remembers(trk, db) /\ trk.latest = <<>>
    BY <1>1, ResumeRemembers
<1>3. Consistent(MaxTs, Value, db)
    BY <1>1, HistoryAssumption, EmptyDbConsistent
<1>4. QED
    BY <1>1, <1>2, <1>3, NothingWaits

\* A group is applied: its operations fit what the database will be by then.
LEMMA ApplyKeepsHistoryInv ==
    ASSUME HistoryInv, NEW g \in Group, Apply(g)
    PROVE  HistoryInv'
<1> DEFINE ops == OpsFor(trk, g)
           n == Len(unwritten)
<1>1. /\ unwritten \in Seq(OperationsIn(MaxTs, Value))
      /\ n \in Nat
      /\ KnownTags(Value, trk.latest)
      /\ Consistent(MaxTs, Value, Caught)
      /\ Remembers(trk, Caught)
      /\ Caught = Stages[n]
  <2>1. unwritten \in Seq(OperationsIn(MaxTs, Value)) /\ n \in Nat
      BY DEF HistoryInv
  <2>2. n \in 0..n
      BY <2>1
  <2>3. QED
      BY <2>1, <2>2 DEF HistoryInv, Caught
<1>2. /\ trk' = After(trk, g, ops)
      /\ unwritten' = IF HasOps(ops) THEN Append(unwritten, ops) ELSE unwritten
      /\ db' = db
    BY DEF Apply
<1>3. /\ ops \in OperationsIn(MaxTs, Value)
      /\ Issued(Value, Caught, ops)
      /\ KnownTags(Value, trk'.latest)
      /\ Remembers(trk', Write(Caught, ops))
      /\ ~HasOps(ops) => Remembers(trk', Caught)
  <2> HIDE DEF n
  <2>1. MaxTs \in Nat /\ IsGroup(MaxTs, Value, g)
      BY HistoryAssumption, GroupsFit
  <2>2. QED
      BY <1>1, <1>2, <2>1, TrackerIssues
<1>known. DOMAIN trk'.latest \subseteq AllTags
  <2>1. DOMAIN trk'.latest = DOMAIN trk.latest \cup DOMAIN g.values
      BY <1>2 DEF After, Observe
  <2>2. QED
      BY <2>1, GroupsFit DEF HistoryInv
<1> HIDE DEF ops
<1>4. CASE ~HasOps(ops)
  <2>1. unwritten' = unwritten /\ Stages' = Stages /\ Caught' = Caught
      BY <1>2, <1>4 DEF Stages, Caught
  <2>2. QED
      BY <1>3, <1>known, <1>4, <2>1 DEF HistoryInv
<1>5. CASE HasOps(ops)
  <2>1. unwritten' = Append(unwritten, ops)
      BY <1>2, <1>5
  <2>2. /\ unwritten' \in Seq(OperationsIn(MaxTs, Value))
        /\ Len(unwritten') = n + 1
        /\ \A i \in 1..n : unwritten'[i] = unwritten[i]
        /\ unwritten'[n + 1] = ops
      BY <1>1, <1>3, <2>1
  <2>3. /\ \A i \in 0..n : Stages'[i] = Stages[i]
        /\ Stages'[n + 1] = Write(Caught, ops)
    <3>1. Stages' = StagesOf(db, Append(unwritten, ops))
        BY <1>2, <2>1 DEF Stages
    <3>2. Stages = StagesOf(db, unwritten)
        BY DEF Stages
    <3>3. QED
        BY <1>1, <1>3, <3>1, <3>2, StagesAppend
  <2> HIDE DEF n
  <2>4. Caught' = Write(Caught, ops)
      BY <2>2, <2>3 DEF Caught
  <2>5. Consistent(MaxTs, Value, Write(Caught, ops))
      BY <1>1, <1>3, HistoryAssumption, WriteKeepsConsistent
  <2>6. ASSUME NEW i \in 0..Len(unwritten')
        PROVE  Consistent(MaxTs, Value, Stages'[i])
    <3>1. CASE i \in 0..n
        BY <2>3, <3>1 DEF HistoryInv, n
    <3>2. CASE i = n + 1
        BY <2>3, <2>5, <3>2
    <3>3. QED
        BY <1>1, <2>2, <3>1, <3>2
  <2>7. ASSUME NEW i \in 1..Len(unwritten')
        PROVE  Issued(Value, Stages'[i - 1], unwritten'[i])
    <3>1. CASE i \in 1..n
      <4>1. i - 1 \in 0..n
          BY <1>1, <3>1
      <4>2. Stages'[i - 1] = Stages[i - 1] /\ unwritten'[i] = unwritten[i]
          BY <2>2, <2>3, <3>1, <4>1
      <4>3. Issued(Value, Stages[i - 1], unwritten[i])
          BY <3>1 DEF HistoryInv, n
      <4>4. QED
          BY <4>2, <4>3
    <3>2. CASE i = n + 1
      <4>1. i - 1 = n /\ n \in 0..n
          BY <1>1, <3>2
      <4>2. Stages'[i - 1] = Caught /\ unwritten'[i] = ops
          BY <1>1, <2>2, <2>3, <3>2, <4>1
      <4>3. QED
          BY <1>3, <4>2
    <3>3. QED
        BY <1>1, <2>2, <3>1, <3>2
  <2>8. QED
      BY <1>3, <1>known, <2>2, <2>4, <2>6, <2>7 DEF HistoryInv
<1>6. QED
    BY <1>4, <1>5

\* Every stage is consistent, the first and the last among them.
LEMMA StoredIsConsistent ==
    ASSUME HistoryInv
    PROVE  Consistent(MaxTs, Value, db)
<1>1. unwritten \in Seq(OperationsIn(MaxTs, Value)) /\ 0 \in 0..Len(unwritten)
    BY DEF HistoryInv
<1>2. Stages[0] = db
    BY <1>1, StoredIsTheFirstStage
<1>3. QED
    BY <1>1, <1>2 DEF HistoryInv

\* With everything written, the database is consistent.
LEMMA CaughtIsConsistent ==
    ASSUME HistoryInv
    PROVE  Consistent(MaxTs, Value, Caught)
<1>1. unwritten \in Seq(OperationsIn(MaxTs, Value)) /\ Len(unwritten) \in 0..Len(unwritten)
    BY DEF HistoryInv
<1>2. QED
    BY <1>1 DEF HistoryInv, Caught

\* What the oldest transaction waiting does to the database.
LEMMA FirstCommits ==
    ASSUME HistoryInv, Commit
    PROVE  /\ unwritten # <<>> /\ Head(unwritten) \in OperationsIn(MaxTs, Value)
           /\ Consistent(MaxTs, Value, db)
           /\ Issued(Value, db, Head(unwritten))
           /\ db' = Write(db, Head(unwritten))
<1>1. unwritten \in Seq(OperationsIn(MaxTs, Value)) /\ unwritten # <<>>
    BY DEF HistoryInv, Commit
<1>2. /\ Len(unwritten) \in Nat /\ 0 \in 0..Len(unwritten) /\ 1 \in 1..Len(unwritten)
      /\ Head(unwritten) = unwritten[1]
      /\ Head(unwritten) \in OperationsIn(MaxTs, Value)
    BY <1>1
<1>3. Stages[0] = db
    BY <1>1, StoredIsTheFirstStage
<1>4. Issued(Value, Stages[1 - 1], unwritten[1]) /\ Consistent(MaxTs, Value, Stages[0])
    BY <1>2 DEF HistoryInv
<1>5. QED
    BY <1>1, <1>2, <1>3, <1>4 DEF Commit

\* A commit takes the database to the next stage.
LEMMA CommitKeepsHistoryInv ==
    ASSUME HistoryInv, Commit
    PROVE  HistoryInv'
<1> DEFINE n == Len(unwritten)
           m == Len(unwritten')
<1>1. /\ unwritten \in Seq(OperationsIn(MaxTs, Value)) /\ unwritten # <<>>
      /\ unwritten' = Tail(unwritten)
      /\ db' = Write(db, Head(unwritten))
      /\ trk' = trk
    BY DEF HistoryInv, Commit
<1>2. /\ n \in Nat \ {0} /\ m \in Nat /\ n = m + 1
      /\ unwritten' \in Seq(OperationsIn(MaxTs, Value))
      /\ \A i \in 1..m : unwritten'[i] = unwritten[i + 1]
    BY <1>1
<1>3. \A i \in 0..m : Stages'[i] = Stages[i + 1]
  <2>1. Stages' = StagesOf(Write(db, Head(unwritten)), Tail(unwritten))
      BY <1>1 DEF Stages
  <2>2. Stages = StagesOf(db, unwritten)
      BY DEF Stages
  <2>3. QED
      BY <1>1, <2>1, <2>2, StagesTail
<1>4. KnownTags(Value, trk'.latest) /\ DOMAIN trk'.latest \subseteq AllTags
    BY <1>1 DEF HistoryInv
<1>5. ASSUME NEW i \in 0..m
      PROVE  Consistent(MaxTs, Value, Stages'[i])
  <2>1. i + 1 \in 0..n
      BY <1>2
  <2>2. Consistent(MaxTs, Value, Stages[i + 1])
      BY <2>1 DEF HistoryInv
  <2>3. QED
      BY <1>3, <2>2
<1>6. ASSUME NEW i \in 1..m
      PROVE  Issued(Value, Stages'[i - 1], unwritten'[i])
  <2>1. i - 1 \in 0..m /\ (i - 1) + 1 = i /\ i + 1 \in 1..n /\ (i + 1) - 1 = i
      BY <1>2
  <2>2. Stages'[i - 1] = Stages[i]
      BY <1>3, <2>1
  <2>3. Issued(Value, Stages[(i + 1) - 1], unwritten[i + 1])
      BY <2>1 DEF HistoryInv
  <2>4. QED
      BY <1>2, <2>1, <2>2, <2>3
<1>7. Remembers(trk', Caught')
  <2>1. Stages'[m] = Stages[n]
      BY <1>2, <1>3
  <2>2. Caught' = Caught
      BY <2>1 DEF Caught
  <2>3. QED
      BY <1>1, <2>2 DEF HistoryInv
<1>8. QED
    BY <1>2, <1>4, <1>5, <1>6, <1>7 DEF HistoryInv

\* A restart forgets what is not written, and resumes from what is.
LEMMA RestartKeepsHistoryInv ==
    ASSUME HistoryInv, Restart
    PROVE  HistoryInv' /\ db' = db
<1>1. Consistent(MaxTs, Value, db)
    BY StoredIsConsistent
<1>2. unwritten' = <<>> /\ db' = Repair(db) /\ trk' = Resume(db')
    BY DEF Restart
<1>3. db' = db
    BY <1>1, <1>2, HistoryAssumption, RepairChangesNothing
<1>4. Consistent(MaxTs, Value, db') /\ Remembers(trk', db') /\ trk'.latest = <<>>
    BY <1>1, <1>2, <1>3, ResumeRemembers
<1>5. KnownTags(Value, trk'.latest) /\ DOMAIN trk'.latest \subseteq AllTags
    BY <1>4 DEF KnownTags
<1>6. /\ unwritten' \in Seq(OperationsIn(MaxTs, Value)) /\ Len(unwritten') = 0
    BY <1>2
<1>7. Stages'[0] = db'
  <2>1. Stages' = StagesOf(db', unwritten') /\ Len(unwritten') \in Nat
      BY <1>6 DEF Stages
  <2>2. IsStages(Stages', db', unwritten')
      BY <2>1, StagesExist
  <2>3. StageByStage(Stages', db', unwritten')
      BY <2>1, <2>2, StagesStep
  <2>4. QED
      BY <2>3 DEF StageByStage
<1>8. Caught' = db'
    BY <1>6, <1>7 DEF Caught
<1>9. QED
    BY <1>3, <1>4, <1>5, <1>6, <1>7, <1>8 DEF HistoryInv

\* The inductive invariant holds: a transaction of the collector always finds
\* the database it was computed for, whatever crashed before.
THEOREM HistoryInvariant == Spec => []HistoryInv
<1>1. Init => HistoryInv
    BY HistoryInvInit
<1>2. HistoryInv /\ [Next]_vars => HistoryInv'
  <2> SUFFICES ASSUME HistoryInv, [Next]_vars
               PROVE  HistoryInv'
      OBVIOUS
  <2>1. ASSUME NEW g \in Group, Apply(g)
        PROVE  HistoryInv'
      BY <2>1, ApplyKeepsHistoryInv
  <2>2. CASE Commit
      BY <2>2, CommitKeepsHistoryInv
  <2>3. CASE Restart
      BY <2>3, RestartKeepsHistoryInv
  <2>4. CASE UNCHANGED vars
    <3>1. trk' = trk /\ unwritten' = unwritten /\ db' = db
        BY <2>4 DEF vars
    <3>2. Stages' = Stages
        BY <3>1 DEF Stages
    <3>3. Caught' = Caught
        BY <3>1, <3>2 DEF Caught
    <3>4. QED
        BY <3>1, <3>2, <3>3 DEF HistoryInv
  <2>5. QED
      BY <2>1, <2>2, <2>3, <2>4 DEF Next
<1>3. QED
    BY <1>1, <1>2, PTL DEF Spec

-----------------------------------------------------------------------------

(* What it says of the collector.                                          *)

\* The state has its types, what waits to be committed included.
THEOREM TypeCorrect == Spec => []TypeOK
<1>1. HistoryInv => TypeOK
  <2> SUFFICES ASSUME HistoryInv
               PROVE  TypeOK
      OBVIOUS
  <2>1. Consistent(MaxTs, Value, db) /\ Consistent(MaxTs, Value, Caught) /\ Remembers(trk, Caught)
      BY StoredIsConsistent, CaughtIsConsistent DEF HistoryInv
  <2>2. ASSUME NEW s \in Scope
        PROVE  /\ trk.last[s].ts \in Instant \cup {Never}
               /\ trk.last[s].ts # Never => trk.last[s].values \in ImagesOf(s)
               /\ DOMAIN db.events[s] \subseteq Instant
               /\ \A t \in DOMAIN db.events[s] : db.events[s][t] \in ImagesOf(s)
    <3>0. ImagesOf(s) = Images(Value, s) /\ MaxTs \in Nat
        BY SameTypes, HistoryAssumption
    <3>1. /\ db.events[s] \in Tables(MaxTs, Images(Value, s))
          /\ Caught.events[s] \in Tables(MaxTs, Images(Value, s))
          /\ trk.last[s] = LastEvent(Caught.events[s])
        BY <2>1 DEF Consistent, Remembers
    <3>stored. /\ DOMAIN db.events[s] \subseteq Instant
          /\ \A t \in DOMAIN db.events[s] : db.events[s][t] \in ImagesOf(s)
      <4>1. /\ DOMAIN db.events[s] \subseteq Instant
            /\ \A t \in DOMAIN db.events[s] : db.events[s][t] \in Images(Value, s)
          BY <3>1 DEF Tables
      <4>2. QED
          BY <3>0, <4>1
    <3>2. CASE DOMAIN Caught.events[s] = {}
      <4>1. trk.last[s] = NoEvent
          BY <3>1, <3>2 DEF LastEvent
      <4>2. QED
          BY <3>stored, <4>1 DEF NoEvent
    <3>3. CASE DOMAIN Caught.events[s] # {}
      <4>1. trk.last[s].ts \in Instant /\ trk.last[s].values \in Images(Value, s)
          BY <3>0, <3>1, <3>3, LastEventOf
      <4>2. QED
          BY <3>0, <3>stored, <4>1
    <3>4. QED
        BY <3>2, <3>3
  <2>3. trk.openStop \in Instant \cup {Never}
    <3>1. /\ Caught.events["CELL"] \in Tables(MaxTs, Images(Value, "CELL"))
          /\ StopsFollow(Caught.events["CELL"], Caught.stops)
          /\ trk.openStop = OpenIn(Caught.stops)
        BY <2>1, TrackerAssumption DEF Consistent, Remembers
    <3>2. DOMAIN Caught.events["CELL"] # {} => LastEvent(Caught.events["CELL"]).ts \in Instant
        BY <3>1, HistoryAssumption, LastEventOf
    <3>3. QED
        BY <3>1, <3>2, HistoryAssumption, OpenStop
  <2>4. /\ DOMAIN db.stops \subseteq Instant
        /\ \A t \in DOMAIN db.stops : db.stops[t] \in Instant \cup {Never}
        /\ \A s \in Series : DOMAIN db.samples[s] \subseteq Instant
      BY <2>1 DEF Consistent, Tables
  <2>5. unwritten \in Seq(Operations) /\ DOMAIN trk.latest \subseteq AllTags
      BY SameTypes DEF HistoryInv
  <2>6. QED
      BY <2>2, <2>3, <2>4, <2>5 DEF TypeOK
<1>2. QED
    BY <1>1, HistoryInvariant, PTL

\* The stops are those of the cell events, in every database a reader can see
\* and across any crash: one per event that is not PRODUCING, ended by the next.
THEOREM StopsAreThoseOfTheEvents == Spec => []StopsFollowEvents
<1>1. HistoryInv => StopsFollowEvents
    BY StoredIsConsistent DEF Consistent, StopsFollowEvents, CellEvents
<1>2. QED
    BY <1>1, HistoryInvariant, PTL

\* The repair at start never has anything to do, and a tracker that would
\* resume once everything is committed would be the one that is running.
THEOREM MemoryIsSound == Spec => []MemoryIsWhatIsStored
<1>1. HistoryInv => MemoryIsWhatIsStored
  <2> SUFFICES ASSUME HistoryInv
               PROVE  MemoryIsWhatIsStored
      OBVIOUS
  <2>1. Repair(db) = db
      BY StoredIsConsistent, HistoryAssumption, RepairChangesNothing
  <2>2. Remembers(trk, Caught)
      BY DEF HistoryInv
  <2>3. Remembers(Resume(Caught), Caught) /\ Resume(Caught).latest = <<>>
      BY ResumeRemembers
  <2> DEFINE told == [trk EXCEPT !.latest = <<>>]
  <2>4. /\ told.latest = <<>>
        /\ told.last = trk.last
        /\ told.openStop = trk.openStop
        /\ told.lastSample = trk.lastSample
        /\ told = [latest |-> told.latest, last |-> told.last, openStop |-> told.openStop,
                   lastSample |-> told.lastSample]
      BY <2>2 DEF Remembers
  <2> HIDE DEF told
  <2>5. told = Resume(Caught)
      BY <2>2, <2>3, <2>4 DEF Remembers
  <2>6. QED
      BY <2>1, <2>5 DEF MemoryIsWhatIsStored, RepairIsIdle, told
<1>2. QED
    BY <1>1, HistoryInvariant, PTL

-----------------------------------------------------------------------------

(* What a step may do to the history.                                      *)

\* A later table of a scope, made by changes only.
Grown(old, new) ==
    /\ \A t \in DOMAIN old : t \in DOMAIN new /\ new[t] = old[t]
    /\ \A t \in DOMAIN new \ DOMAIN old :
           /\ \A u \in DOMAIN old : u < t
           /\ old # <<>> => new[t] # old[Max(DOMAIN old)]

GrowsByChanges == \A s \in Scope : Grown(db.events[s], db.events'[s])

\* A transaction neither alters nor removes an event.
LEMMA TransactionGrows ==
    ASSUME NEW d, Consistent(MaxTs, Value, d),
           NEW ops \in OperationsIn(MaxTs, Value), Issued(Value, d, ops), NEW s \in Scope
    PROVE  Grown(d.events[s], Write(d, ops).events[s])
<1> DEFINE old == d.events[s]
           new == Write(d, ops).events[s]
<1>1. CASE s \notin DOMAIN ops.events
  <2>1. new = old
      BY <1>1 DEF Write, Consistent, EmptyDb
  <2>2. QED
      BY <2>1 DEF Grown
<1>2. CASE s \in DOMAIN ops.events
  <2>1. \A t \in DOMAIN old : t < ops.ts
      BY <1>2, HistoryAssumption, EventsWritten
  <2>2. new = Insert(old, ops.ts, ops.events[s])
      BY <1>2 DEF Write, Consistent, EmptyDb
  <2>3. /\ old \in Tables(MaxTs, Images(Value, s)) /\ DOMAIN old \subseteq Instant
        /\ ops.ts \in Instant
      BY OperationTypes, HistoryAssumption DEF Consistent, Tables
  <2>4. ops.events[s] # LastEvent(old).values
      BY <1>2 DEF Issued
  <2> HIDE DEF old, new
  <2>5. old # <<>> => ops.events[s] # old[Max(DOMAIN old)]
    <3>1. DOMAIN old = {} => old = <<>>
        BY <2>3 DEF Tables
    <3>2. DOMAIN old # {} => LastEvent(old).values = old[Max(DOMAIN old)]
        BY DEF LastEvent
    <3>3. QED
        BY <2>4, <3>1, <3>2
  <2>6. ops.ts \notin DOMAIN old
      BY <2>1, <2>3, HistoryAssumption
  <2>7. Grown(old, new)
      BY <2>1, <2>2, <2>5, <2>6 DEF Insert, Grown
  <2>8. QED
      BY <2>7 DEF old, new
<1>3. QED
    BY <1>1, <1>2

\* So does a commit, which writes the oldest transaction.
LEMMA CommitGrowsByChanges ==
    ASSUME HistoryInv, Commit
    PROVE  GrowsByChanges
<1> DEFINE ops == Head(unwritten)
<1>1. /\ ops \in OperationsIn(MaxTs, Value)
      /\ Consistent(MaxTs, Value, db)
      /\ Issued(Value, db, ops)
      /\ db' = Write(db, ops)
    BY FirstCommits
<1> HIDE DEF ops
<1>2. \A s \in Scope : Grown(db.events[s], Write(db, ops).events[s])
    BY <1>1, TransactionGrows
<1>3. QED
    BY <1>1, <1>2 DEF GrowsByChanges

\* Stored history is never altered: what is inserted is newer than all of its
\* scope and differs from the last of it, across crashes and replays.
THEOREM HistoryOnlyGrows == Spec => HistoryGrowsByChanges
<1>1. HistoryInv /\ [Next]_vars => GrowsByChanges \/ UNCHANGED vars
  <2> SUFFICES ASSUME HistoryInv, Next
               PROVE  GrowsByChanges
      OBVIOUS
  <2>1. ASSUME db' = db
        PROVE  GrowsByChanges
      BY <2>1 DEF GrowsByChanges, Grown
  <2>2. ASSUME NEW g \in Group, Apply(g)
        PROVE  GrowsByChanges
      BY <2>1, <2>2 DEF Apply
  <2>3. CASE Commit
      BY <2>3, CommitGrowsByChanges
  <2>4. CASE Restart
      BY <2>1, <2>4, RestartKeepsHistoryInv
  <2>5. QED
      BY <2>2, <2>3, <2>4 DEF Next
<1>2. [][GrowsByChanges]_vars => HistoryGrowsByChanges
    BY DEF GrowsByChanges, Grown, HistoryGrowsByChanges
<1>3. QED
    BY <1>1, <1>2, HistoryInvariant, PTL DEF Spec

-----------------------------------------------------------------------------

(* The collector implements the ledger.                                    *)

\* There is one way for stops to follow the events.
LEMMA StopsOfTheLedger ==
    ASSUME NEW Rows, NEW events \in Tables(MaxTs, Rows),
           NEW stops \in Tables(MaxTs, Instant \cup {Never}), StopsFollow(events, stops)
    PROVE  stops = Ledger!StopsOf(events)
<1> DEFINE later(t) == {u \in DOMAIN events : t < u}
           following(t) == CHOOSE v \in DOMAIN events : Ledger!Follows(events, v, t)
<1>1. DOMAIN events \in SUBSET Instant
    BY DEF Tables
<1>2. /\ DOMAIN stops = {t \in DOMAIN events : Stopped(events[t])}
      /\ stops = [t \in DOMAIN stops |-> stops[t]]
    BY DEF StopsFollow, Tables
<1>3. ASSUME NEW t \in DOMAIN stops
      PROVE  stops[t] = IF \E v \in DOMAIN events : t < v THEN following(t) ELSE 0
  <2>1. CASE later(t) = {}
      BY <2>1 DEF StopsFollow
  <2>2. CASE later(t) # {}
    <3>1. later(t) \in SUBSET Nat
        BY <1>1, HistoryAssumption
    <3>2. Min(later(t)) \in later(t) /\ \A v \in later(t) : Min(later(t)) <= v
      <4> HIDE DEF later
      <4>1. QED
          BY <2>2, <3>1, MinOfNaturals
    <3>3. stops[t] = Min(later(t))
        BY <2>2 DEF StopsFollow
    <3> DEFINE m == Min(later(t))
    <3> HIDE DEF m
    <3>4. /\ m \in DOMAIN events /\ t < m
          /\ \A v \in DOMAIN events : t < v => m <= v
        BY <3>2 DEF m
    <3>5. Ledger!Follows(events, m, t)
        BY <3>4 DEF Ledger!Follows
    <3>6. \A v \in DOMAIN events : Ledger!Follows(events, v, t) => v = m
        BY <1>1, <3>4, HistoryAssumption DEF Ledger!Follows
    <3>7. following(t) = m
        BY <3>4, <3>5, <3>6
    <3>8. \E v \in DOMAIN events : t < v
        BY <3>4
    <3> HIDE DEF following
    <3>9. QED
        BY <3>3, <3>7, <3>8 DEF m
  <2>3. QED
      BY <2>1, <2>2
<1>4. Ledger!StopsOf(events) =
          [t \in DOMAIN stops |-> IF \E v \in DOMAIN events : t < v THEN following(t) ELSE 0]
    BY <1>2 DEF Ledger!StopsOf
<1> HIDE DEF following
<1>5. QED
    BY <1>2, <1>3, <1>4

\* A transaction with an event of the cell enters it in the ledger.
LEMMA TransactionEnters ==
    ASSUME NEW d, Consistent(MaxTs, Value, d),
           NEW ops \in OperationsIn(MaxTs, Value), Issued(Value, d, ops),
           "CELL" \in DOMAIN ops.events
    PROVE  LET old == d.events["CELL"]
               e == Write(d, ops)
               image == ops.events["CELL"]
           IN  /\ ops.ts \in Instant /\ image \in Images(Value, "CELL")
               /\ \A u \in DOMAIN old : u < ops.ts
               /\ \A u \in DOMAIN old : (\A v \in DOMAIN old : v <= u) => old[u] # image
               /\ e.events["CELL"] = [u \in DOMAIN old \cup {ops.ts} |->
                                         IF u = ops.ts THEN image ELSE old[u]]
               /\ e.stops = Ledger!StopsOf(e.events["CELL"])
<1> DEFINE old == d.events["CELL"]
           e == Write(d, ops)
           image == ops.events["CELL"]
<1>1. /\ "CELL" \in Scope /\ ops.ts \in Instant /\ image \in Images(Value, "CELL")
      /\ image # LastEvent(old).values
      /\ old \in Tables(MaxTs, Images(Value, "CELL")) /\ DOMAIN old \subseteq Instant
  <2>1. "CELL" \in Scope /\ ops.ts \in Instant
      BY TrackerAssumption, HistoryAssumption, OperationTypes
  <2>2. image \in Images(Value, "CELL") /\ image # LastEvent(old).values
      BY DEF Issued
  <2>3. old \in Tables(MaxTs, Images(Value, "CELL"))
      BY <2>1 DEF Consistent
  <2>4. DOMAIN old \subseteq Instant
      BY <2>3 DEF Tables
  <2>5. QED
      BY <2>1, <2>2, <2>3, <2>4
<1>2. \A u \in DOMAIN old : u < ops.ts
    BY <1>1, HistoryAssumption, EventsWritten
<1>3. e.events["CELL"] = Insert(old, ops.ts, image)
    BY <1>1 DEF Write, Consistent, EmptyDb
<1>4. Consistent(MaxTs, Value, e)
    BY HistoryAssumption, WriteKeepsConsistent
<1>5. e.stops = Ledger!StopsOf(e.events["CELL"])
  <2> HIDE DEF e
  <2>1. /\ e.events["CELL"] \in Tables(MaxTs, Images(Value, "CELL"))
        /\ e.stops \in Tables(MaxTs, Instant \cup {Never})
        /\ StopsFollow(e.events["CELL"], e.stops)
      BY <1>1, <1>4 DEF Consistent
  <2>2. QED
      BY <2>1, StopsOfTheLedger
<1> HIDE DEF old, e, image
<1>6. ASSUME NEW u \in DOMAIN old, \A v \in DOMAIN old : v <= u
      PROVE  old[u] # image
  <2>1. /\ LastEvent(old).ts \in DOMAIN old /\ u <= LastEvent(old).ts
        /\ LastEvent(old).values = old[LastEvent(old).ts]
      BY <1>1, HistoryAssumption, LastEventOf
  <2>2. u = LastEvent(old).ts
      BY <1>1, <1>6, <2>1, HistoryAssumption
  <2>3. QED
      BY <1>1, <2>1, <2>2
<1>7. e.events["CELL"] = [u \in DOMAIN old \cup {ops.ts} |->
                            IF u = ops.ts THEN image ELSE old[u]]
  <2>1. ops.ts \notin DOMAIN old
      BY <1>1, <1>2, HistoryAssumption
  <2>2. QED
      BY <1>3, <2>1 DEF Insert
<1>8. QED
    BY <1>1, <1>2, <1>5, <1>6, <1>7 DEF old, e, image

\* A commit is one entry of the ledger, or none.
LEMMA CommitEnters ==
    ASSUME HistoryInv, Commit
    PROVE  Ledger!Next \/ UNCHANGED Ledger!ledgerVars
<1> DEFINE ops == Head(unwritten)
<1>1. /\ ops \in OperationsIn(MaxTs, Value)
      /\ Consistent(MaxTs, Value, db)
      /\ Issued(Value, db, ops)
      /\ db' = Write(db, ops)
    BY FirstCommits
<1> HIDE DEF ops
<1>2. CASE "CELL" \notin DOMAIN ops.events
  <2>1. Write(db, ops).events["CELL"] = db.events["CELL"]
      BY <1>1, <1>2, TrackerAssumption DEF Write, Consistent, EmptyDb
  <2>2. Write(db, ops).stops = db.stops
    <3>1. MaxTs \in Nat
        BY HistoryAssumption
    <3>2. QED
        BY <1>1, <1>2, <3>1, StopsWritten
  <2>3. QED
      BY <1>1, <2>1, <2>2 DEF Ledger!ledgerVars, CellEvents
<1>3. CASE "CELL" \in DOMAIN ops.events
  <2> DEFINE old == db.events["CELL"]
             e == Write(db, ops)
             image == ops.events["CELL"]
  <2>1. /\ ops.ts \in Instant /\ image \in Images(Value, "CELL")
        /\ \A u \in DOMAIN old : u < ops.ts
        /\ \A u \in DOMAIN old : (\A v \in DOMAIN old : v <= u) => old[u] # image
        /\ e.events["CELL"] = [u \in DOMAIN old \cup {ops.ts} |->
                                  IF u = ops.ts THEN image ELSE old[u]]
        /\ e.stops = Ledger!StopsOf(e.events["CELL"])
      BY <1>1, <1>3, TransactionEnters
  <2> HIDE DEF e, image
  <2>2. Ledger!Enter(ops.ts, image)
      BY <1>1, <2>1 DEF Ledger!Enter, CellEvents, e
  <2>3. image \in ImagesOf("CELL")
      BY <2>1, SameTypes
  <2>4. QED
      BY <2>1, <2>2, <2>3 DEF Ledger!Next
<1>4. QED
    BY <1>2, <1>3

\* The collector implements the ledger, for any sequence of groups, whatever
\* waits in memory, and across crashes: a reader of the database can reason
\* with StopLedger alone.
THEOREM CollectorImplementsLedger == Spec => ImplementsLedger
<1>1. Init => Ledger!Init
    BY TrackerAssumption DEF Init, Ledger!Init, CellEvents, EmptyDb
<1>2. HistoryInv /\ [Next]_vars => [Ledger!Next]_(Ledger!ledgerVars)
  <2> SUFFICES ASSUME HistoryInv, [Next]_vars
               PROVE  Ledger!Next \/ UNCHANGED Ledger!ledgerVars
      OBVIOUS
  <2>1. ASSUME db' = db
        PROVE  UNCHANGED Ledger!ledgerVars
      BY <2>1 DEF Ledger!ledgerVars, CellEvents
  <2>2. ASSUME NEW g \in Group, Apply(g)
        PROVE  UNCHANGED Ledger!ledgerVars
      BY <2>1, <2>2 DEF Apply
  <2>3. CASE Commit
      BY <2>3, CommitEnters
  <2>4. CASE Restart
      BY <2>1, <2>4, RestartKeepsHistoryInv
  <2>5. CASE UNCHANGED vars
      BY <2>1, <2>5 DEF vars
  <2>6. QED
      BY <2>2, <2>3, <2>4, <2>5 DEF Next
<1>3. QED
    BY <1>1, <1>2, HistoryInvariant, PTL DEF Spec, ImplementsLedger, Ledger!Spec
=============================================================================
