-------------------------- MODULE AssemblerProofs --------------------------
(***************************************************************************)
(* Type correctness of the assembler, and the promise of its docstring:    *)
(* history is never reordered and nothing is lost, for any set of changes, *)
(* any batches and any settle time.                                        *)
(***************************************************************************)
EXTENDS AssemblerHistory, Extremes

USE DEF Instant, Never

-----------------------------------------------------------------------------

(* What one call of feed() sees of a batch: its instants, and for each of  *)
(* them a value for every tag that the batch names at that instant.        *)
LEMMA BatchValues ==
    ASSUME NEW batch \in Batches, NEW t \in StampsOf(batch)
    PROVE  /\ t \in Instant
           /\ ValuesAt(batch, t) \in Readings
           /\ \A tag \in DOMAIN ValuesAt(batch, t) :
                 \E i \in DOMAIN batch :
                    /\ batch[i].ts = t /\ batch[i].tag = tag
                    /\ batch[i].value = ValuesAt(batch, t)[tag]
           /\ \A i \in DOMAIN batch :
                 batch[i].ts = t => batch[i].tag \in DOMAIN ValuesAt(batch, t)
<1>1. PICK n \in 1..MaxBatch : batch \in [1..n -> Change]
    BY DEF Batches
<1>2. \A i \in DOMAIN batch : /\ batch[i] \in Change
                              /\ batch[i].tag \in Tag
                              /\ batch[i].value \in Value
                              /\ batch[i].ts \in Instant
    BY <1>1, ChangeAssumption
<1> DEFINE at(tag) == {i \in DOMAIN batch : batch[i].ts = t /\ batch[i].tag = tag}
           named == {batch[i].tag : i \in {j \in DOMAIN batch : batch[j].ts = t}}
<1>3. ValuesAt(batch, t) = [tag \in named |-> batch[Max(at(tag))].value]
    BY DEF ValuesAt
<1>4. ASSUME NEW tag \in named
      PROVE  Max(at(tag)) \in at(tag)
  <2>1. at(tag) \in SUBSET (1..n) /\ at(tag) # {}
    BY <1>1
  <2>2. n \in Nat
    BY <1>1, ChangeAssumption
  <2> HIDE DEF at
  <2>3. QED
    BY <2>1, <2>2, MaxOfBounded
<1>5. t \in Instant
    BY <1>2 DEF StampsOf
<1>6. named \in SUBSET Tag
    BY <1>2
<1>7. \A tag \in named : batch[Max(at(tag))].value \in Value
    BY <1>2, <1>4
<1>8. ValuesAt(batch, t) \in [named -> Value]
    BY <1>3, <1>7
<1>9. ValuesAt(batch, t) \in Readings
    BY <1>6, <1>8 DEF Readings
<1>10. ASSUME NEW tag \in DOMAIN ValuesAt(batch, t)
       PROVE  \E i \in DOMAIN batch :
                 /\ batch[i].ts = t /\ batch[i].tag = tag
                 /\ batch[i].value = ValuesAt(batch, t)[tag]
  <2>1. tag \in named /\ ValuesAt(batch, t)[tag] = batch[Max(at(tag))].value
    BY <1>3
  <2>2. QED
    BY <2>1, <1>4
<1>11. \A i \in DOMAIN batch :
           batch[i].ts = t => batch[i].tag \in DOMAIN ValuesAt(batch, t)
    BY <1>3
<1>12. QED
    BY <1>5, <1>9, <1>10, <1>11

(* What the pending groups become when a batch joins them: the groups of   *)
(* the instants that are in time, each with all the tags it had before.    *)
LEMMA JoinedGroups ==
    ASSUME TypeOK, NEW batch \in Batches
    PROVE  /\ DOMAIN Joined(batch) =
                DOMAIN pending \cup {u \in StampsOf(batch) : ~TooLate(u)}
           /\ DOMAIN Joined(batch) \subseteq Instant
           /\ \A t \in DOMAIN Joined(batch) : Joined(batch)[t] \in Readings
           /\ \A t \in DOMAIN pending :
                 DOMAIN pending[t] \subseteq DOMAIN Joined(batch)[t]
           /\ \A i \in DOMAIN batch :
                 ~TooLate(batch[i].ts) =>
                    /\ batch[i].ts \in DOMAIN Joined(batch)
                    /\ batch[i].tag \in DOMAIN Joined(batch)[batch[i].ts]
           /\ JoinedWait(batch) \in [DOMAIN Joined(batch) -> 0..SettleTime]
<1> DEFINE inTime == {u \in StampsOf(batch) : ~TooLate(u)}
<1>1. DOMAIN pending \subseteq Instant
    BY DEF TypeOK, AssemblerTypeOK
<1>2. \A t \in DOMAIN pending : pending[t] \in Readings
    BY DEF TypeOK, AssemblerTypeOK
<1>3. \A t \in inTime : t \in Instant /\ ValuesAt(batch, t) \in Readings
    BY BatchValues
<1>4. DOMAIN Joined(batch) = DOMAIN pending \cup inTime
    BY DEF Joined
<1>5. ASSUME NEW t \in DOMAIN Joined(batch)
      PROVE  /\ Joined(batch)[t] \in Readings
             /\ t \in DOMAIN pending =>
                   DOMAIN pending[t] \subseteq DOMAIN Joined(batch)[t]
             /\ t \in inTime =>
                   DOMAIN ValuesAt(batch, t) \subseteq DOMAIN Joined(batch)[t]
  <2>1. CASE t \notin inTime
    <3>1. Joined(batch)[t] = pending[t] /\ t \in DOMAIN pending
        BY <1>4, <2>1 DEF Joined
    <3>2. QED
        BY <1>2, <2>1, <3>1
  <2>2. CASE t \in inTime /\ t \notin DOMAIN pending
    <3>1. Joined(batch)[t] = ValuesAt(batch, t)
        BY <1>4, <2>2 DEF Joined
    <3>2. QED
        BY <1>3, <2>2, <3>1
  <2>3. CASE t \in inTime /\ t \in DOMAIN pending
    <3>1. Joined(batch)[t] = Updated(pending[t], ValuesAt(batch, t))
        BY <1>4, <2>3 DEF Joined
    <3>2. PICK A \in SUBSET Tag : ValuesAt(batch, t) \in [A -> Value]
        BY <1>3, <2>3 DEF Readings
    <3>3. PICK B \in SUBSET Tag : pending[t] \in [B -> Value]
        BY <1>2, <2>3 DEF Readings
    <3>4. Updated(pending[t], ValuesAt(batch, t)) \in [A \cup B -> Value]
        BY <3>2, <3>3 DEF Updated
    <3>5. A \cup B \in SUBSET Tag
        OBVIOUS
    <3>6. QED
        BY <3>1, <3>2, <3>3, <3>4, <3>5 DEF Readings
  <2>4. QED
      BY <1>4, <2>1, <2>2, <2>3
<1>6. ASSUME NEW i \in DOMAIN batch, ~TooLate(batch[i].ts)
      PROVE  /\ batch[i].ts \in DOMAIN Joined(batch)
             /\ batch[i].tag \in DOMAIN Joined(batch)[batch[i].ts]
  <2>1. batch[i].ts \in StampsOf(batch)
      BY DEF StampsOf
  <2>2. batch[i].ts \in inTime
      BY <1>6, <2>1
  <2>3. batch[i].tag \in DOMAIN ValuesAt(batch, batch[i].ts)
      BY <2>1, BatchValues
  <2>4. QED
      BY <1>4, <1>5, <2>2, <2>3
<1>7. JoinedWait(batch) \in [DOMAIN Joined(batch) -> 0..SettleTime]
  <2>1. waited \in [DOMAIN pending -> 0..SettleTime] /\ 0 \in 0..SettleTime
      BY BoundsAssumption DEF TypeOK, AssemblerTypeOK
  <2>2. QED
      BY <2>1 DEF JoinedWait
<1>8. QED
    BY <1>1, <1>3, <1>4, <1>5, <1>6, <1>7

-----------------------------------------------------------------------------

(* Releasing a set S of pending instants that leaves no older one behind   *)
(* keeps everything that is still pending newer than what was released.    *)
LEMMA ReleaseInOrder ==
    ASSUME NEW groups, NEW wait, NEW S \in SUBSET DOMAIN groups,
           releasedUpTo \in Instant \cup {Never},
           DOMAIN groups \subseteq Instant,
           \A t \in DOMAIN groups : t > releasedUpTo,
           \A t \in S : \A u \in DOMAIN groups : u <= t => u \in S,
           Release(groups, wait, S)
    PROVE  /\ releasedUpTo' \in Instant \cup {Never}
           /\ releasedUpTo <= releasedUpTo'
           /\ \A t \in S : t <= releasedUpTo'
           /\ \A t \in DOMAIN pending' : t > releasedUpTo'
<1>1. DOMAIN pending' = DOMAIN groups \ S
    BY DEF Release
<1>2. CASE S = {}
  <2>1. releasedUpTo' = releasedUpTo
      BY <1>2 DEF Release
  <2>2. QED
      BY <1>1, <1>2, <2>1, BoundsAssumption
<1>3. CASE S # {}
  <2>1. releasedUpTo' = Max(S)
      BY <1>3 DEF Release
  <2>2. /\ Max(S) \in S
        /\ \A t \in S : t <= Max(S)
      BY <1>3, MaxOfBounded, BoundsAssumption
  <2>3. QED
      BY <1>1, <2>1, <2>2, BoundsAssumption
<1>4. QED
    BY <1>2, <1>3

(* What poll() releases leaves no older group behind.                      *)
LEMMA ReadyIsClosed ==
    ASSUME NEW groups, NEW wait, DOMAIN groups \subseteq Instant
    PROVE  /\ Ready(groups, wait) \in SUBSET DOMAIN groups
           /\ \A t \in Ready(groups, wait) : \A u \in DOMAIN groups :
                 u <= t => u \in Ready(groups, wait)
BY BoundsAssumption DEF Ready

-----------------------------------------------------------------------------

\* What a call returns for instants released in time are groups of theirs, not
\* flagged late.
LEMMA GroupsAreGroups ==
    ASSUME NEW groups, NEW S \in SUBSET DOMAIN groups,
           DOMAIN groups \subseteq Instant,
           \A t \in DOMAIN groups : groups[t] \in Readings
    PROVE  \A g \in GroupsOf(groups, S) : g \in Group /\ ~g.late /\ g.ts \in S
<1>1. SUFFICES ASSUME NEW g \in GroupsOf(groups, S)
               PROVE  g \in Group /\ ~g.late /\ g.ts \in S
    OBVIOUS
<1>2. PICK t \in S : g = [ts |-> t, values |-> groups[t], late |-> FALSE]
    BY DEF GroupsOf
<1>3. t \in Instant /\ groups[t] \in Readings
    OBVIOUS
<1>4. QED
    BY <1>2, <1>3 DEF Group

(* The inductive invariant.  Order needs to know where the line between    *)
(* released and pending runs: released_up_to is not older than anything    *)
(* handed over and is older than everything pending.                       *)
OrderInv ==
    /\ TypeOK
    /\ PendingIsNewer
    /\ \A g \in handed : g.ts <= releasedUpTo

\* feed() keeps the invariant, never moves releasedUpTo back, and what it
\* returns in time is newer than what releasedUpTo was.
LEMMA FeedOrder ==
    ASSUME OrderInv, NEW batch \in Batches, FeedBatch(batch)
    PROVE  /\ OrderInv'
           /\ releasedUpTo <= releasedUpTo'
           /\ \A g \in handed' \ handed : ~g.late => g.ts > releasedUpTo
<1> DEFINE groups == Joined(batch)
           wait == JoinedWait(batch)
           S == Ready(groups, wait)
<1>1. TypeOK /\ releasedUpTo \in Instant \cup {Never}
    BY DEF OrderInv, TypeOK, AssemblerTypeOK
<1>2. /\ DOMAIN groups \subseteq Instant
      /\ \A t \in DOMAIN groups : groups[t] \in Readings
      /\ wait \in [DOMAIN groups -> 0..SettleTime]
    BY <1>1, JoinedGroups
<1>3. \A t \in DOMAIN groups : t > releasedUpTo
  <2>1. DOMAIN groups = DOMAIN pending \cup {u \in StampsOf(batch) : ~TooLate(u)}
      BY <1>1, JoinedGroups
  <2>2. \A t \in DOMAIN pending : t > releasedUpTo
      BY DEF OrderInv, PendingIsNewer
  <2>3. \A t \in StampsOf(batch) : t \in Int
      BY BatchValues, BoundsAssumption
  <2>4. QED
      BY <1>1, <2>1, <2>2, <2>3, BoundsAssumption DEF TooLate
<1>4. /\ S \in SUBSET DOMAIN groups
      /\ \A t \in S : \A u \in DOMAIN groups : u <= t => u \in S
    BY <1>2, ReadyIsClosed
<1>5. Release(groups, wait, S)
    BY DEF FeedBatch, Feed
<1> HIDE DEF groups, wait, S
<1>6. /\ releasedUpTo' \in Instant \cup {Never}
      /\ releasedUpTo <= releasedUpTo'
      /\ \A t \in S : t <= releasedUpTo'
      /\ \A t \in DOMAIN pending' : t > releasedUpTo'
    BY <1>1, <1>2, <1>3, <1>4, <1>5, ReleaseInOrder
<1>7. handed' = handed \cup LateGroups(batch) \cup GroupsOf(groups, S)
    BY DEF FeedBatch, FeedReturns, groups, wait, S
<1>8. \A g \in LateGroups(batch) : g \in Group /\ g.late /\ g.ts <= releasedUpTo
  <2>1. SUFFICES ASSUME NEW g \in LateGroups(batch)
                 PROVE  g \in Group /\ g.late /\ g.ts <= releasedUpTo
      OBVIOUS
  <2>2. PICK t \in StampsOf(batch) :
            /\ TooLate(t)
            /\ g = [ts |-> t, values |-> ValuesAt(batch, t), late |-> TRUE]
      BY DEF LateGroups
  <2>3. t \in Instant /\ ValuesAt(batch, t) \in Readings
      BY BatchValues
  <2>4. QED
      BY <2>2, <2>3 DEF TooLate, Group
<1>9. \A g \in GroupsOf(groups, S) : g \in Group /\ g.ts \in S
    BY <1>2, <1>4, GroupsAreGroups
<1>10. AssemblerTypeOK(Readings)'
  <2>1. /\ DOMAIN pending' = DOMAIN groups \ S
        /\ \A t \in DOMAIN pending' : pending'[t] = groups[t]
        /\ waited' = [t \in DOMAIN pending' |-> wait[t]]
      BY <1>5 DEF Release
  <2>2. waited' \in [DOMAIN pending' -> 0..SettleTime]
      BY <1>2, <2>1
  <2>3. QED
      BY <1>2, <1>6, <2>1, <2>2 DEF AssemblerTypeOK, Readings
<1>11. received' \subseteq Change
  <2>1. \A i \in DOMAIN batch : batch[i] \in Change
      BY DEF Batches
  <2>2. QED
      BY <1>1, <2>1 DEF FeedBatch, TypeOK
<1>12. handed' \subseteq Group
    BY <1>1, <1>7, <1>8, <1>9 DEF TypeOK
<1>13. TypeOK'
    BY <1>10, <1>11, <1>12 DEF TypeOK, Group, Readings
<1>14. \A g \in handed' : g.ts <= releasedUpTo'
  <2>1. \A g \in handed : g.ts <= releasedUpTo /\ g.ts \in Int
      BY <1>1, BoundsAssumption DEF OrderInv, TypeOK, Group
  <2>2. \A g \in LateGroups(batch) : g.ts \in Int
      BY <1>8, BoundsAssumption DEF Group
  <2>3. QED
      BY <1>1, <1>6, <1>7, <1>8, <1>9, <2>1, <2>2, BoundsAssumption
<1>15. \A g \in handed' \ handed : ~g.late => g.ts > releasedUpTo
    BY <1>3, <1>4, <1>7, <1>8, <1>9
<1>16. QED
    BY <1>6, <1>13, <1>14, <1>15 DEF OrderInv, PendingIsNewer

\* So does the release of any set of the oldest pending groups: poll() and
\* flush() are two such sets.
LEMMA PollOrder ==
    ASSUME OrderInv, NEW S \in SUBSET DOMAIN pending,
           \A t \in S : \A u \in DOMAIN pending : u <= t => u \in S,
           Release(pending, waited, S),
           handed' = handed \cup GroupsOf(pending, S),
           UNCHANGED received
    PROVE  /\ OrderInv'
           /\ releasedUpTo <= releasedUpTo'
           /\ \A g \in handed' \ handed : ~g.late => g.ts > releasedUpTo
<1>1. /\ TypeOK
      /\ releasedUpTo \in Instant \cup {Never}
      /\ DOMAIN pending \subseteq Instant
      /\ \A t \in DOMAIN pending : pending[t] \in Readings
      /\ \A t \in DOMAIN pending : t > releasedUpTo
    BY DEF OrderInv, TypeOK, AssemblerTypeOK, PendingIsNewer
<1>2. /\ releasedUpTo' \in Instant \cup {Never}
      /\ releasedUpTo <= releasedUpTo'
      /\ \A t \in S : t <= releasedUpTo'
      /\ \A t \in DOMAIN pending' : t > releasedUpTo'
    BY <1>1, ReleaseInOrder
<1>3. \A g \in GroupsOf(pending, S) : g \in Group /\ g.ts \in S
    BY <1>1, GroupsAreGroups
<1>4. AssemblerTypeOK(Readings)'
  <2>1. /\ DOMAIN pending' = DOMAIN pending \ S
        /\ \A t \in DOMAIN pending' : pending'[t] = pending[t]
        /\ waited' = [t \in DOMAIN pending' |-> waited[t]]
      BY DEF Release
  <2>2. waited' \in [DOMAIN pending' -> 0..SettleTime]
      BY <1>1, <2>1 DEF TypeOK, AssemblerTypeOK
  <2>3. QED
      BY <1>1, <1>2, <2>1, <2>2 DEF AssemblerTypeOK, Readings
<1>5. TypeOK'
    BY <1>1, <1>3, <1>4 DEF TypeOK, Group, Readings
<1>6. \A g \in handed' : g.ts <= releasedUpTo'
  <2>1. \A g \in handed : g.ts <= releasedUpTo /\ g.ts \in Int
      BY <1>1, BoundsAssumption DEF OrderInv, TypeOK, Group
  <2>2. QED
      BY <1>1, <1>2, <1>3, <2>1, BoundsAssumption
<1>7. QED
    BY <1>1, <1>2, <1>3, <1>5, <1>6 DEF OrderInv, PendingIsNewer

\* Waiting disturbs nothing.
LEMMA ElapseOrder ==
    ASSUME OrderInv, Elapse
    PROVE  OrderInv' /\ handed' = handed
<1>1. /\ DOMAIN waited = DOMAIN pending
      /\ \A t \in DOMAIN pending : waited[t] \in 0..SettleTime
    BY DEF OrderInv, TypeOK, AssemblerTypeOK
<1>2. waited' \in [DOMAIN pending -> 0..SettleTime]
    BY <1>1, BoundsAssumption DEF Elapse, AssemblerWaits
<1>3. QED
    BY <1>2 DEF Elapse, OrderInv, TypeOK, AssemblerTypeOK, PendingIsNewer, Group, Readings

-----------------------------------------------------------------------------

(* Every step keeps the invariant, and hands over in time only groups that *)
(* are newer than released_up_to.                                          *)
LEMMA NextOrder ==
    ASSUME OrderInv, [Next]_vars
    PROVE  /\ OrderInv'
           /\ \A g \in handed' \ handed : ~g.late => g.ts > releasedUpTo
<1>1. ASSUME NEW batch \in Batches, FeedBatch(batch)
      PROVE  /\ OrderInv'
             /\ \A g \in handed' \ handed : ~g.late => g.ts > releasedUpTo
    BY <1>1, FeedOrder
<1>2. DOMAIN pending \subseteq Instant
    BY DEF OrderInv, TypeOK, AssemblerTypeOK
<1>3. CASE PollGroups
  <2> DEFINE S == Ready(pending, waited)
  <2>1. /\ S \in SUBSET DOMAIN pending
        /\ \A t \in S : \A u \in DOMAIN pending : u <= t => u \in S
      BY <1>2, ReadyIsClosed
  <2>2. /\ Release(pending, waited, S)
        /\ handed' = handed \cup GroupsOf(pending, S)
        /\ UNCHANGED received
      BY <1>3 DEF PollGroups, Poll, PollReturns
  <2> HIDE DEF S
  <2>3. QED
      BY <2>1, <2>2, PollOrder
<1>4. CASE FlushGroups
  <2>1. /\ Release(pending, waited, DOMAIN pending)
        /\ handed' = handed \cup GroupsOf(pending, DOMAIN pending)
        /\ UNCHANGED received
      BY <1>4 DEF FlushGroups, Flush, FlushReturns
  <2>2. QED
      BY <2>1, PollOrder
<1>5. CASE Elapse
    BY <1>5, ElapseOrder
<1>6. CASE UNCHANGED vars
    BY <1>6 DEF vars, OrderInv, TypeOK, AssemblerTypeOK, PendingIsNewer, Group, Readings
<1>7. QED
    BY <1>1, <1>3, <1>4, <1>5, <1>6 DEF Next

\* The new assembler is in order.
LEMMA InitOrder == Init => OrderInv
<1>1. ASSUME Init
      PROVE  OrderInv
  <2>1. DOMAIN pending = {} /\ waited \in [DOMAIN pending -> 0..SettleTime]
      BY <1>1 DEF Init, AssemblerInit
  <2>2. QED
      BY <1>1, <2>1 DEF Init, AssemblerInit, OrderInv, TypeOK, AssemblerTypeOK,
                        PendingIsNewer
<1>2. QED
    BY <1>1

\* The inductive invariant: the state has its shape, what is pending is newer
\* than releasedUpTo, and nothing newer than releasedUpTo was handed over.
THEOREM OrderInvariant == Spec => []OrderInv
<1>1. OrderInv /\ [Next]_vars => OrderInv'
    BY NextOrder
<1>2. QED
    BY InitOrder, <1>1, PTL DEF Spec

\* The assembler's state always has the shape the code gives it.
THEOREM TypeCorrect == Spec => []TypeOK
<1>1. OrderInv => TypeOK
    BY DEF OrderInv
<1>2. QED
    BY <1>1, OrderInvariant, PTL

\* History is never reordered, whatever arrives and whenever: a group that is
\* not flagged late is newer than everything handed over before it.
THEOREM HistoryIsInOrder == Spec => HistoryInOrder
<1>1. OrderInv /\ [Next]_vars =>
          [\A g \in handed' \ handed : ~g.late => \A h \in handed : h.ts < g.ts]_vars
  <2>1. SUFFICES ASSUME OrderInv, [Next]_vars,
                        NEW g \in handed' \ handed, ~g.late, NEW h \in handed
                 PROVE  h.ts < g.ts
      OBVIOUS
  <2>2. g.ts > releasedUpTo /\ OrderInv'
      BY <2>1, NextOrder
  <2>3. h.ts <= releasedUpTo
      BY <2>1 DEF OrderInv
  <2>4. h.ts \in Int /\ g.ts \in Int /\ releasedUpTo \in Int
      BY <2>1, <2>2, BoundsAssumption DEF OrderInv, TypeOK, AssemblerTypeOK, Group
  <2>5. QED
      BY <2>2, <2>3, <2>4
<1>2. QED
    BY <1>1, OrderInvariant, PTL DEF Spec, HistoryInOrder

-----------------------------------------------------------------------------

(* Nothing is lost, made up, or flagged late without a reason.  The        *)
(* invariant of the order says where the line between released and pending *)
(* runs; what is missing is that the line is an instant handed over.       *)
HandOverInv ==
    /\ OrderInv
    /\ NothingLost
    /\ NothingInvented
    /\ LateMeansOvertaken
    /\ releasedUpTo # Never => \E h \in handed : ~h.late /\ h.ts = releasedUpTo

\* Every value of a joined group was in the pending group or is in the batch.
LEMMA JoinedValues ==
    ASSUME TypeOK, NEW batch \in Batches, NEW t \in DOMAIN Joined(batch),
           NEW tag \in DOMAIN Joined(batch)[t]
    PROVE  \/ /\ t \in DOMAIN pending /\ tag \in DOMAIN pending[t]
              /\ Joined(batch)[t][tag] = pending[t][tag]
           \/ \E i \in DOMAIN batch :
                 batch[i] = [tag |-> tag, value |-> Joined(batch)[t][tag], ts |-> t]
<1> DEFINE inTime == {u \in StampsOf(batch) : ~TooLate(u)}
           new == ValuesAt(batch, t)
<1>1. DOMAIN Joined(batch) = DOMAIN pending \cup inTime
    BY DEF Joined
<1>2. ASSUME t \in inTime, tag \in DOMAIN new, Joined(batch)[t][tag] = new[tag]
      PROVE  \E i \in DOMAIN batch :
                 batch[i] = [tag |-> tag, value |-> Joined(batch)[t][tag], ts |-> t]
  <2>1. PICK i \in DOMAIN batch :
            batch[i].ts = t /\ batch[i].tag = tag /\ batch[i].value = new[tag]
      BY <1>2, BatchValues
  <2>2. batch[i] \in [tag : Tag, value : Value, ts : Instant]
      BY ChangeAssumption DEF Batches
  <2>3. QED
      BY <1>2, <2>1, <2>2
<1>3. CASE t \notin inTime
  <2>1. Joined(batch)[t] = pending[t] /\ t \in DOMAIN pending
      BY <1>1, <1>3 DEF Joined
  <2>2. QED
      BY <2>1
<1>4. CASE t \in inTime /\ t \notin DOMAIN pending
  <2>1. Joined(batch)[t] = new
      BY <1>1, <1>4 DEF Joined
  <2>2. QED
      BY <1>2, <1>4, <2>1
<1>5. CASE t \in inTime /\ t \in DOMAIN pending
  <2>1. Joined(batch)[t] = Updated(pending[t], new)
      BY <1>1, <1>5 DEF Joined
  <2>2. /\ tag \in DOMAIN pending[t] \cup DOMAIN new
        /\ Joined(batch)[t][tag] = IF tag \in DOMAIN new THEN new[tag] ELSE pending[t][tag]
      BY <2>1 DEF Updated
  <2>3. CASE tag \in DOMAIN new
      BY <1>2, <1>5, <2>2, <2>3
  <2>4. CASE tag \notin DOMAIN new
      BY <1>5, <2>2, <2>4
  <2>5. QED
      BY <2>3, <2>4
<1>6. QED
    BY <1>3, <1>4, <1>5

\* A release hands over what it takes away from pending, and the new line is
\* one of the instants handed over.
LEMMA ReleaseHandsOver ==
    ASSUME NEW groups, NEW wait, NEW S \in SUBSET DOMAIN groups,
           DOMAIN groups \subseteq Instant,
           Release(groups, wait, S)
    PROVE  /\ \A t \in DOMAIN groups :
                 \/ t \in DOMAIN pending' /\ pending'[t] = groups[t]
                 \/ [ts |-> t, values |-> groups[t], late |-> FALSE] \in GroupsOf(groups, S)
           /\ \A t \in DOMAIN pending' : t \in DOMAIN groups /\ pending'[t] = groups[t]
           /\ \A g \in GroupsOf(groups, S) :
                 ~g.late /\ g.ts \in DOMAIN groups /\ g.values = groups[g.ts]
           /\ releasedUpTo' # releasedUpTo =>
                 \E g \in GroupsOf(groups, S) : ~g.late /\ g.ts = releasedUpTo'
<1>1. pending' = [t \in DOMAIN groups \ S |-> groups[t]]
    BY DEF Release
<1>2. \A t \in S : [ts |-> t, values |-> groups[t], late |-> FALSE] \in GroupsOf(groups, S)
    BY DEF GroupsOf
<1>3. \A g \in GroupsOf(groups, S) :
          ~g.late /\ g.ts \in DOMAIN groups /\ g.values = groups[g.ts]
    BY DEF GroupsOf
<1>4. ASSUME releasedUpTo' # releasedUpTo
      PROVE  \E g \in GroupsOf(groups, S) : ~g.late /\ g.ts = releasedUpTo'
  <2>1. S # {} /\ releasedUpTo' = Max(S)
      BY <1>4 DEF Release
  <2>2. Max(S) \in S
      BY <2>1, MaxOfBounded, BoundsAssumption
  <2>3. QED
      BY <1>2, <2>1, <2>2
<1>5. QED
    BY <1>1, <1>2, <1>3, <1>4

\* feed(): each change of the batch joins a group in time or is returned late.
LEMMA FeedHandsOver ==
    ASSUME HandOverInv, NEW batch \in Batches, FeedBatch(batch)
    PROVE  HandOverInv'
<1> DEFINE groups == Joined(batch)
           wait == JoinedWait(batch)
           S == Ready(groups, wait)
<1>1. OrderInv /\ TypeOK
    BY DEF HandOverInv, OrderInv
<1>2. OrderInv'
    BY <1>1, FeedOrder
<1>3. DOMAIN groups \subseteq Instant
    BY <1>1, JoinedGroups
<1>4. S \in SUBSET DOMAIN groups
    BY <1>3, ReadyIsClosed
<1>5. /\ handed' = handed \cup LateGroups(batch) \cup GroupsOf(groups, S)
      /\ received' = received \cup {batch[i] : i \in DOMAIN batch}
      /\ Release(groups, wait, S)
    BY DEF FeedBatch, Feed, FeedReturns
<1>6. /\ \A t \in DOMAIN pending :
            t \in DOMAIN groups /\ DOMAIN pending[t] \subseteq DOMAIN groups[t]
      /\ \A i \in DOMAIN batch :
            ~TooLate(batch[i].ts) =>
               batch[i].ts \in DOMAIN groups /\ batch[i].tag \in DOMAIN groups[batch[i].ts]
    BY <1>1, JoinedGroups
<1>7. \A t \in DOMAIN groups : \A tag \in DOMAIN groups[t] :
          [tag |-> tag, value |-> groups[t][tag], ts |-> t] \in received'
  <2>1. SUFFICES ASSUME NEW t \in DOMAIN groups, NEW tag \in DOMAIN groups[t]
                 PROVE  [tag |-> tag, value |-> groups[t][tag], ts |-> t] \in received'
      OBVIOUS
  <2>2. CASE t \in DOMAIN pending /\ tag \in DOMAIN pending[t]
                /\ groups[t][tag] = pending[t][tag]
      BY <1>5, <2>2 DEF HandOverInv, NothingInvented
  <2>3. CASE \E i \in DOMAIN batch :
                 batch[i] = [tag |-> tag, value |-> groups[t][tag], ts |-> t]
      BY <1>5, <2>3
  <2>4. QED
      BY <1>1, <2>2, <2>3, JoinedValues
<1>8. \A t \in StampsOf(batch) : \A tag \in DOMAIN ValuesAt(batch, t) :
          [tag |-> tag, value |-> ValuesAt(batch, t)[tag], ts |-> t] \in received'
  <2>1. SUFFICES ASSUME NEW t \in StampsOf(batch), NEW tag \in DOMAIN ValuesAt(batch, t)
                 PROVE  [tag |-> tag, value |-> ValuesAt(batch, t)[tag], ts |-> t] \in received'
      OBVIOUS
  <2>2. PICK i \in DOMAIN batch :
            /\ batch[i].ts = t /\ batch[i].tag = tag
            /\ batch[i].value = ValuesAt(batch, t)[tag]
      BY BatchValues
  <2>3. batch[i] \in [tag : Tag, value : Value, ts : Instant]
      BY ChangeAssumption DEF Batches
  <2>4. batch[i] = [tag |-> tag, value |-> ValuesAt(batch, t)[tag], ts |-> t]
      BY <2>2, <2>3
  <2>5. QED
      BY <1>5, <2>4
<1> HIDE DEF groups, wait, S
<1>9. /\ \A t \in DOMAIN groups :
            \/ t \in DOMAIN pending' /\ pending'[t] = groups[t]
            \/ [ts |-> t, values |-> groups[t], late |-> FALSE] \in handed'
      /\ \A t \in DOMAIN pending' : t \in DOMAIN groups /\ pending'[t] = groups[t]
      /\ \A g \in GroupsOf(groups, S) :
            ~g.late /\ g.ts \in DOMAIN groups /\ g.values = groups[g.ts]
      /\ releasedUpTo' # releasedUpTo => \E g \in handed' : ~g.late /\ g.ts = releasedUpTo'
    BY <1>3, <1>4, <1>5, ReleaseHandsOver
<1>10. \A g \in LateGroups(batch) : /\ g.late /\ TooLate(g.ts) /\ g.ts \in StampsOf(batch)
                                    /\ g.values = ValuesAt(batch, g.ts)
    BY DEF LateGroups
<1>11. NothingLost'
  <2>1. SUFFICES ASSUME NEW c \in received'
                 PROVE  \/ c.ts \in DOMAIN pending' /\ c.tag \in DOMAIN pending'[c.ts]
                        \/ \E g \in handed' : g.ts = c.ts /\ c.tag \in DOMAIN g.values
      BY DEF NothingLost
  <2>2. ASSUME c.ts \in DOMAIN groups, c.tag \in DOMAIN groups[c.ts]
        PROVE  \/ c.ts \in DOMAIN pending' /\ c.tag \in DOMAIN pending'[c.ts]
               \/ \E g \in handed' : g.ts = c.ts /\ c.tag \in DOMAIN g.values
      BY <1>9, <2>2
  <2>3. CASE c \in received
      BY <1>5, <1>6, <2>2, <2>3 DEF HandOverInv, NothingLost
  <2>4. ASSUME NEW i \in DOMAIN batch, c = batch[i], TooLate(c.ts)
        PROVE  \E g \in handed' : g.ts = c.ts /\ c.tag \in DOMAIN g.values
    <3>1. c.ts \in StampsOf(batch)
        BY <2>4 DEF StampsOf
    <3>2. c.tag \in DOMAIN ValuesAt(batch, c.ts)
        BY <2>4, <3>1, BatchValues
    <3>3. [ts |-> c.ts, values |-> ValuesAt(batch, c.ts), late |-> TRUE] \in LateGroups(batch)
        BY <2>4, <3>1 DEF LateGroups
    <3>4. QED
        BY <1>5, <3>2, <3>3
  <2>5. QED
      BY <1>5, <1>6, <2>2, <2>3, <2>4
<1>12. NothingInvented'
  <2>1. \A g \in handed : \A tag \in DOMAIN g.values :
            [tag |-> tag, value |-> g.values[tag], ts |-> g.ts] \in received'
      BY <1>5 DEF HandOverInv, NothingInvented
  <2>2. \A g \in LateGroups(batch) : \A tag \in DOMAIN g.values :
            [tag |-> tag, value |-> g.values[tag], ts |-> g.ts] \in received'
      BY <1>8, <1>10
  <2>3. \A g \in GroupsOf(groups, S) : \A tag \in DOMAIN g.values :
            [tag |-> tag, value |-> g.values[tag], ts |-> g.ts] \in received'
      BY <1>7, <1>9 DEF groups
  <2>4. \A t \in DOMAIN pending' : \A tag \in DOMAIN pending'[t] :
            [tag |-> tag, value |-> pending'[t][tag], ts |-> t] \in received'
      BY <1>7, <1>9 DEF groups
  <2>5. QED
      BY <1>5, <2>1, <2>2, <2>3, <2>4 DEF NothingInvented
<1>13. LateMeansOvertaken'
  <2>1. SUFFICES ASSUME NEW g \in handed', g.late
                 PROVE  \E h \in handed' : ~h.late /\ h.ts >= g.ts
      BY DEF LateMeansOvertaken
  <2>2. CASE g \in handed
      BY <1>5, <2>1, <2>2 DEF HandOverInv, LateMeansOvertaken
  <2>3. CASE g \in LateGroups(batch)
    <3>1. g.ts <= releasedUpTo /\ g.ts \in Instant
        BY <1>10, <2>3, BatchValues DEF TooLate
    <3>2. releasedUpTo \in Instant \cup {Never}
        BY <1>1 DEF TypeOK, AssemblerTypeOK
    <3>3. PICK h \in handed : ~h.late /\ h.ts = releasedUpTo
        BY <3>1, <3>2, BoundsAssumption DEF HandOverInv
    <3>4. QED
        BY <1>5, <3>1, <3>2, <3>3, BoundsAssumption
  <2>4. QED
      BY <1>5, <1>9, <2>1, <2>2, <2>3
<1>14. releasedUpTo' # Never => \E h \in handed' : ~h.late /\ h.ts = releasedUpTo'
    BY <1>5, <1>9 DEF HandOverInv
<1>15. QED
    BY <1>2, <1>11, <1>12, <1>13, <1>14 DEF HandOverInv

\* poll() and flush(): they only move groups from pending to handed over.
LEMMA PollHandsOver ==
    ASSUME HandOverInv, OrderInv', NEW S \in SUBSET DOMAIN pending,
           Release(pending, waited, S),
           handed' = handed \cup GroupsOf(pending, S),
           UNCHANGED received
    PROVE  HandOverInv'
<1>1. DOMAIN pending \subseteq Instant
    BY DEF HandOverInv, OrderInv, TypeOK, AssemblerTypeOK
<1>2. /\ \A t \in DOMAIN pending :
            \/ t \in DOMAIN pending' /\ pending'[t] = pending[t]
            \/ [ts |-> t, values |-> pending[t], late |-> FALSE] \in handed'
      /\ \A t \in DOMAIN pending' : t \in DOMAIN pending /\ pending'[t] = pending[t]
      /\ \A g \in GroupsOf(pending, S) :
            ~g.late /\ g.ts \in DOMAIN pending /\ g.values = pending[g.ts]
      /\ releasedUpTo' # releasedUpTo => \E g \in handed' : ~g.late /\ g.ts = releasedUpTo'
    BY <1>1, ReleaseHandsOver
<1>3. NothingLost'
  <2>1. SUFFICES ASSUME NEW c \in received
                 PROVE  \/ c.ts \in DOMAIN pending' /\ c.tag \in DOMAIN pending'[c.ts]
                        \/ \E g \in handed' : g.ts = c.ts /\ c.tag \in DOMAIN g.values
      BY DEF NothingLost
  <2>2. CASE c.ts \in DOMAIN pending /\ c.tag \in DOMAIN pending[c.ts]
      BY <1>2, <2>2
  <2>3. CASE \E g \in handed : g.ts = c.ts /\ c.tag \in DOMAIN g.values
      BY <2>3
  <2>4. QED
      BY <2>2, <2>3 DEF HandOverInv, NothingLost
<1>4. NothingInvented'
    BY <1>2 DEF HandOverInv, NothingInvented
<1>5. LateMeansOvertaken'
    BY <1>2 DEF HandOverInv, LateMeansOvertaken
<1>6. releasedUpTo' # Never => \E h \in handed' : ~h.late /\ h.ts = releasedUpTo'
    BY <1>2 DEF HandOverInv
<1>7. QED
    BY <1>3, <1>4, <1>5, <1>6 DEF HandOverInv

\* The inductive invariant of what is handed over.
THEOREM HandOverInvariant == Spec => []HandOverInv
<1>1. Init => HandOverInv
  <2>1. Init => OrderInv
      BY InitOrder
  <2>2. QED
      BY <2>1 DEF Init, AssemblerInit, HandOverInv, NothingLost, NothingInvented,
                  LateMeansOvertaken
<1>2. HandOverInv /\ [Next]_vars => HandOverInv'
  <2>1. SUFFICES ASSUME HandOverInv, [Next]_vars
                 PROVE  HandOverInv'
      OBVIOUS
  <2>2. OrderInv /\ OrderInv'
      BY <2>1, NextOrder DEF HandOverInv
  <2>3. ASSUME NEW batch \in Batches, FeedBatch(batch)
        PROVE  HandOverInv'
      BY <2>1, <2>3, FeedHandsOver
  <2>4. CASE PollGroups
    <3>1. Ready(pending, waited) \in SUBSET DOMAIN pending
        BY DEF Ready
    <3>2. QED
        BY <2>1, <2>2, <2>4, <3>1, PollHandsOver DEF PollGroups, Poll, PollReturns
  <2>5. CASE FlushGroups
      BY <2>1, <2>2, <2>5, PollHandsOver DEF FlushGroups, Flush, FlushReturns
  <2>6. CASE UNCHANGED <<pending, releasedUpTo, received, handed>>
      BY <2>1, <2>2, <2>6 DEF HandOverInv, NothingLost, NothingInvented, LateMeansOvertaken
  <2>7. QED
      BY <2>1, <2>3, <2>4, <2>5, <2>6 DEF Next, Elapse, vars
<1>3. QED
    BY <1>1, <1>2, PTL DEF Spec

\* Every change ever fed is pending at its instant or was handed over in a
\* group of its instant.
THEOREM NothingIsLost == Spec => []NothingLost
<1>1. HandOverInv => NothingLost
    BY DEF HandOverInv
<1>2. QED
    BY <1>1, HandOverInvariant, PTL

\* Every value pending or handed over was received for that tag and instant.
THEOREM NothingIsInvented == Spec => []NothingInvented
<1>1. HandOverInv => NothingInvented
    BY DEF HandOverInv
<1>2. QED
    BY <1>1, HandOverInvariant, PTL

\* A group is flagged late only if a group that is not was handed over at its
\* instant or a later one.
THEOREM LateIsOvertaken == Spec => []LateMeansOvertaken
<1>1. HandOverInv => LateMeansOvertaken
    BY DEF HandOverInv
<1>2. QED
    BY <1>1, HandOverInvariant, PTL
=============================================================================
