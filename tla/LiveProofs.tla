----------------------------- MODULE LiveProofs -----------------------------
(***************************************************************************)
(* The live view, for any instants, any number of transactions and of      *)
(* failures: no notification is lost, the newest message wins, and the     *)
(* page never goes back.                                                   *)
(***************************************************************************)
EXTENDS Live, TLAPS

\* A step is one of these.
Step ==
    \/ Commit
    \/ Qualify
    \/ HubDoes(Listen)
    \/ HubDoes(Listening)
    \/ HubDoes(OnNotify)
    \/ HubDoes(WakeUp)
    \/ HubDoes(Read("hub"))
    \/ HubDoes(Publish("hub"))
    \/ HubDoes(Read("request"))
    \/ PageDoes(AskSnapshot)
    \/ PageDoes(AnswerSnapshot)
    \/ PageDoes(OnSnapshot)
    \/ PageDoes(Connect)
    \/ PageDoes(OnMessage)
    \/ PageDoes(Stall)
    \/ RefreshFails /\ UNCHANGED <<pageVars, aux>>
    \/ ListenerLost /\ UNCHANGED <<pageVars, aux>>
    \/ SnapshotFails /\ UNCHANGED aux
    \/ SocketLost /\ UNCHANGED aux
    \/ ConnectFails /\ UNCHANGED aux
    \/ Restart

LEMMA StepCases ==
    ASSUME Next
    PROVE  Step
<1>1. CASE Commit \/ Qualify
    BY <1>1 DEF Step
<1>2. CASE ListenTask
  <2>1. HubDoes(Listen) \/ HubDoes(Listening) \/ HubDoes(OnNotify)
      BY <1>2, Zenon DEF ListenTask, HubDoes
  <2>2. QED
      BY <2>1 DEF Step
<1>3. CASE FastTask
  <2>1. HubDoes(WakeUp) \/ HubDoes(Read("hub")) \/ HubDoes(Publish("hub"))
      BY <1>3, Zenon DEF FastTask, HubDoes
  <2>2. QED
      BY <2>1 DEF Step
<1>4. CASE RestTask
  <2>1. \/ HubDoes(Read("request"))
        \/ PageDoes(AskSnapshot) \/ PageDoes(AnswerSnapshot) \/ PageDoes(OnSnapshot)
      BY <1>4, Zenon DEF RestTask, PageDoes
  <2>2. QED
      BY <2>1 DEF Step
<1>5. CASE SocketTask \/ StallTask
  <2>1. PageDoes(Connect) \/ PageDoes(OnMessage) \/ PageDoes(Stall)
      BY <1>5, Zenon DEF SocketTask, StallTask, PageDoes
  <2>2. QED
      BY <2>1 DEF Step
<1>6. CASE Failure
    BY <1>6 DEF Step, Failure
<1>7. QED
    BY <1>1, <1>2, <1>3, <1>4, <1>5, <1>6 DEF Next

-----------------------------------------------------------------------------

(* Types.                                                                  *)

\* With what TypeOK leaves out: an answer that is on its way is a message, and
\* the fast loop waits only once there is one.
TypeInv ==
    /\ TypeOK
    /\ rest.at = "answered" => rest.answer # None
    /\ hub.fast = "waiting" => hub.latest # None

LEMMA LaterType ==
    ASSUME NEW a \in Timestamps, NEW b \in Timestamps
    PROVE  Later(a, b) \in Timestamps
BY DEF Later

LEMMA MessageType ==
    ASSUME TypeOK, NEW who \in Readers
    PROVE  MessageOf(who) \in Message
<1>1. hub.now \in Timestamps /\ reader[who].seen \in Timestamps /\ reader[who].rev \in 0..MaxRev
    BY DEF TypeOK
<1>2. Later(hub.now, reader[who].seen) \in Timestamps
    BY <1>1, LaterType
<1>3. QED
    BY <1>1, <1>2 DEF MessageOf, Message

LEMMA TypeInvInit == Init => TypeInv
<1> SUFFICES ASSUME Init
             PROVE  TypeInv
    OBVIOUS
<1>1. db \in [seen : Timestamps, rev : 0..MaxRev]
    BY LiveAssumption DEF Init, HubInit, Timestamps
<1>2. /\ listener = "down" /\ channel \in Seq(Timestamps) /\ channel = <<>>
      /\ queue = NotSubscribed
    BY DEF Init, HubInit
<1>3. /\ hub = [now |-> None, dirty |-> TRUE, latest |-> None, tasks |-> "starting",
                fast |-> "refreshing"]
      /\ reader["hub"].at = "rev" /\ reader["request"].at = "idle"
    BY DEF Init, HubInit, HubAtStart, Readers, Reading, Idle
<1>4. reader \in [Readers -> [at : {"idle", "rev", "out"},
                              seen : Timestamps, rev : 0..MaxRev]]
  <2>1. Reading \in [at : {"idle", "rev", "out"}, seen : Timestamps, rev : 0..MaxRev]
      BY <1>1, LiveAssumption DEF Reading
  <2>2. Idle \in [at : {"idle", "rev", "out"}, seen : Timestamps, rev : 0..MaxRev]
      BY LiveAssumption DEF Idle, Timestamps
  <2>3. reader = [who \in Readers |-> IF who = "hub" THEN Reading ELSE Idle]
      BY DEF Init, HubInit
  <2>4. QED
      BY <2>1, <2>2, <2>3
<1>5. /\ page = [now |-> None, rev |-> None, live |-> FALSE]
      /\ rest = [at |-> "asked", answer |-> None]
      /\ failures = 0 /\ notified = 0 /\ overlapped = FALSE
    BY DEF Init, PageInit, Request
<1>6. TypeOK
  <2>1. hub \in [now : Timestamps, dirty : BOOLEAN, latest : Message \cup {None},
                 tasks : {"starting", "running", "over"},
                 fast : {"waiting", "refreshing", "over"}]
      BY <1>3 DEF Timestamps
  <2>2. /\ page \in [now : Timestamps, rev : 0..MaxRev \cup {None}, live : BOOLEAN]
        /\ rest \in [at : Requests, answer : Message \cup {None}]
      BY <1>5 DEF Timestamps, Requests
  <2>3. failures \in 0..MaxFailures /\ notified \in 0..MaxRev /\ overlapped \in BOOLEAN
    <3>1. failures \in 0..MaxFailures
        BY <1>5, LiveAssumption
    <3>2. notified \in 0..MaxRev
        BY <1>5, LiveAssumption
    <3>3. overlapped \in BOOLEAN
        BY <1>5
    <3>4. QED
        BY <3>1, <3>2, <3>3
  <2>4. /\ (reader["hub"].at = "idle") = (hub.fast # "refreshing")
        /\ (reader["request"].at = "idle") = (rest.at # "refreshing")
      BY <1>3, <1>5
  <2>5. QED
      BY <1>1, <1>2, <1>4, <2>1, <2>2, <2>3, <2>4 DEF TypeOK
<1>7. QED
    BY <1>3, <1>5, <1>6 DEF TypeInv

\* What a refresh under way may be.
Refresh == [at : {"idle", "rev", "out"}, seen : Timestamps, rev : 0..MaxRev]

LEMMA RefreshType ==
    ASSUME TypeOK
    PROVE  Reading \in Refresh /\ Idle \in Refresh /\ reader \in [Readers -> Refresh]
BY LiveAssumption DEF TypeOK, Refresh, Reading, Idle, Timestamps

LEMMA TypeInvStep ==
    ASSUME TypeInv, Step, failures' \in 0..MaxFailures
    PROVE  TypeInv'
<1> USE DEF TypeInv, TypeOK
<1>1. CASE Commit
  <2>1. PICK ts \in Progress :
            /\ db' = [seen |-> Later(db.seen, ts), rev |-> db.rev + 1]
            /\ channel' = IF listener = "down" THEN channel ELSE Append(channel, ts)
      BY <1>1 DEF Commit
  <2>2. ts \in Timestamps
      BY DEF Progress, Timestamps
  <2>3. db' \in [seen : Timestamps, rev : 0..MaxRev]
      BY <1>1, <2>1, <2>2, LaterType, LiveAssumption DEF Commit
  <2>4. channel' \in Seq(Timestamps) /\ (listener = "down" => channel' = <<>>)
      BY <2>1, <2>2
  <2>5. notified' \in 0..MaxRev
      BY <1>1, <2>3 DEF Commit
  <2>6. UNCHANGED <<listener, hub, reader, queue, page, rest, failures, overlapped>>
      BY <1>1 DEF Commit, hubVars, pageVars
  <2>7. QED
      BY <2>3, <2>4, <2>5, <2>6
<1>2. CASE Qualify
  <2>1. db' \in [seen : Timestamps, rev : 0..MaxRev]
    <3>1. db.rev < MaxRev /\ db' = [db EXCEPT !.rev = db.rev + 1]
        BY <1>2 DEF Qualify
    <3>2. db.rev + 1 \in 0..MaxRev
        BY <3>1, LiveAssumption
    <3>3. QED
        BY <3>1, <3>2
  <2>2. UNCHANGED <<listener, channel, hub, reader, queue, page, rest, failures,
                    notified, overlapped>>
      BY <1>2 DEF Qualify, listenVars, hubVars, pageVars, aux
  <2>3. QED
      BY <2>1, <2>2
<1>3. CASE HubDoes(Listen)
    BY <1>3 DEF HubDoes, Listen, Overlap, hubVars, pageVars
<1>4. CASE HubDoes(Listening)
    BY <1>4 DEF HubDoes, Listening, Overlap, pageVars
<1>5. CASE HubDoes(OnNotify)
  <2>1. channel # <<>> /\ channel' = Tail(channel)
        /\ hub' = [hub EXCEPT !.now = Later(@, Head(channel)), !.dirty = TRUE]
        /\ listener = "on"
      BY <1>5 DEF HubDoes, OnNotify
  <2>2. Head(channel) \in Timestamps /\ Tail(channel) \in Seq(Timestamps)
      BY <2>1
  <2>3. Later(hub.now, Head(channel)) \in Timestamps
      BY <2>2, LaterType
  <2>4. UNCHANGED <<db, listener, reader, queue, page, rest, failures, notified>>
        /\ overlapped' \in BOOLEAN
      BY <1>5 DEF HubDoes, OnNotify, pageVars, Overlap
  <2>5. QED
      BY <2>1, <2>2, <2>3, <2>4
<1>6. CASE HubDoes(WakeUp)
  <2>1. /\ hub.fast = "waiting"
        /\ hub' = [hub EXCEPT !.dirty = FALSE, !.fast = "refreshing"]
        /\ reader' = [reader EXCEPT !["hub"] = Reading]
      BY <1>6 DEF HubDoes, WakeUp
  <2>2. reader' \in [Readers -> Refresh] /\ reader'["hub"].at = "rev"
        /\ reader'["request"] = reader["request"]
      BY <2>1, RefreshType DEF Readers, Reading
  <2>3. UNCHANGED <<db, listener, channel, queue, page, rest, failures, notified>>
        /\ overlapped' \in BOOLEAN
      BY <1>6 DEF HubDoes, WakeUp, pageVars, listenVars, Overlap
  <2>4. QED
      BY <2>1, <2>2, <2>3 DEF Refresh
<1>7. CASE HubDoes(Read("hub"))
  <2>1. /\ reader["hub"].at = "rev"
        /\ reader' = [reader EXCEPT !["hub"] = [@ EXCEPT !.rev = db.rev, !.at = "out"]]
      BY <1>7 DEF HubDoes, Read
  <2>2. [reader["hub"] EXCEPT !.rev = db.rev, !.at = "out"] \in Refresh
    <3>1. reader["hub"] \in Refresh
        BY RefreshType DEF Readers
    <3>2. db.rev \in 0..MaxRev
        OBVIOUS
    <3>3. QED
        BY <3>1, <3>2 DEF Refresh
  <2>3. reader' \in [Readers -> Refresh] /\ reader'["hub"].at = "out"
        /\ reader'["request"] = reader["request"]
      BY <2>1, <2>2, RefreshType DEF Readers, Refresh
  <2>4. UNCHANGED <<db, listener, channel, hub, queue, page, rest, failures, notified>>
        /\ overlapped' \in BOOLEAN
      BY <1>7 DEF HubDoes, Read, pageVars, listenVars, Overlap
  <2>5. QED
      BY <2>1, <2>3, <2>4 DEF Refresh
<1>8. CASE HubDoes(Publish("hub"))
  <2>1. /\ reader["hub"].at = "out"
        /\ hub' = [hub EXCEPT !.now = MessageOf("hub").now, !.latest = MessageOf("hub"),
                              !.fast = "waiting", !.tasks = "running"]
        /\ queue' = IF queue = NotSubscribed THEN queue ELSE MessageOf("hub")
        /\ reader' = [reader EXCEPT !["hub"] = Idle]
      BY <1>8 DEF HubDoes, Publish, HubAfter, Queued
  <2>2. MessageOf("hub") \in Message /\ MessageOf("hub").now \in Timestamps
        /\ MessageOf("hub") # None
      BY MessageType, NoneAssumption DEF Readers, Message
  <2>3. reader' \in [Readers -> Refresh] /\ reader'["hub"].at = "idle"
        /\ reader'["request"] = reader["request"]
      BY <2>1, RefreshType DEF Readers, Idle
  <2>4. UNCHANGED <<db, listener, channel, page, rest, failures, notified>>
        /\ overlapped' \in BOOLEAN
      BY <1>8 DEF HubDoes, Publish, pageVars, listenVars, Overlap
  <2>5. QED
      BY <2>1, <2>2, <2>3, <2>4 DEF Refresh
<1>9. CASE HubDoes(Read("request"))
  <2>1. /\ reader["request"].at = "rev"
        /\ reader' = [reader EXCEPT !["request"] = [@ EXCEPT !.rev = db.rev, !.at = "out"]]
      BY <1>9 DEF HubDoes, Read
  <2>2. [reader["request"] EXCEPT !.rev = db.rev, !.at = "out"] \in Refresh
    <3>1. reader["request"] \in Refresh
        BY RefreshType DEF Readers
    <3>2. db.rev \in 0..MaxRev
        OBVIOUS
    <3>3. QED
        BY <3>1, <3>2 DEF Refresh
  <2>3. reader' \in [Readers -> Refresh] /\ reader'["request"].at = "out"
        /\ reader'["hub"] = reader["hub"]
      BY <2>1, <2>2, RefreshType DEF Readers, Refresh
  <2>4. UNCHANGED <<db, listener, channel, hub, queue, page, rest, failures, notified>>
        /\ overlapped' \in BOOLEAN
      BY <1>9 DEF HubDoes, Read, pageVars, listenVars, Overlap
  <2>5. QED
      BY <2>1, <2>3, <2>4 DEF Refresh
<1>10. CASE PageDoes(AskSnapshot)
  <2>1. /\ rest.at = "asked"
        /\ \/ /\ hub.latest # None
              /\ rest' = [at |-> "answered", answer |-> hub.latest]
              /\ reader' = reader
           \/ /\ rest' = [rest EXCEPT !.at = "refreshing"]
              /\ reader' = [reader EXCEPT !["request"] = Reading]
      BY <1>10 DEF PageDoes, AskSnapshot
  <2>2. UNCHANGED <<db, listener, channel, hub, queue, page, failures, notified>>
        /\ overlapped' \in BOOLEAN
      BY <1>10 DEF PageDoes, AskSnapshot, dbVars, listenVars, Overlap
  <2>3. CASE hub.latest # None /\ rest' = [at |-> "answered", answer |-> hub.latest]
             /\ reader' = reader
      BY <2>1, <2>2, <2>3 DEF Requests
  <2>4. CASE rest' = [rest EXCEPT !.at = "refreshing"]
             /\ reader' = [reader EXCEPT !["request"] = Reading]
    <3>1. reader' \in [Readers -> Refresh] /\ reader'["request"].at = "rev"
          /\ reader'["hub"] = reader["hub"]
        BY <2>4, RefreshType DEF Readers, Reading
    <3>2. /\ rest' \in [at : Requests, answer : Message \cup {None}]
          /\ rest'.at = "refreshing"
        BY <2>4 DEF Requests
    <3>3. QED
        BY <2>2, <3>1, <3>2 DEF Refresh
  <2>5. QED
      BY <2>1, <2>3, <2>4
<1>11. CASE PageDoes(AnswerSnapshot)
  <2>1. /\ reader["request"].at = "out"
        /\ hub' = [hub EXCEPT !.now = MessageOf("request").now, !.latest = MessageOf("request")]
        /\ queue' = IF queue = NotSubscribed THEN queue ELSE MessageOf("request")
        /\ reader' = [reader EXCEPT !["request"] = Idle]
        /\ rest' = [at |-> "answered", answer |-> hub'.latest]
      BY <1>11 DEF PageDoes, AnswerSnapshot, Publish, HubAfter, Queued
  <2>2. MessageOf("request") \in Message /\ MessageOf("request").now \in Timestamps
        /\ MessageOf("request") # None
      BY MessageType, NoneAssumption DEF Readers, Message
  <2>3. reader' \in [Readers -> Refresh] /\ reader'["request"].at = "idle"
        /\ reader'["hub"] = reader["hub"]
      BY <2>1, RefreshType DEF Readers, Idle
  <2>4. UNCHANGED <<db, listener, channel, page, failures, notified>>
        /\ overlapped' \in BOOLEAN
      BY <1>11 DEF PageDoes, AnswerSnapshot, Publish, listenVars, Overlap
  <2>5. hub'.latest = MessageOf("request")
      BY <2>1
  <2>6. QED
      BY <2>1, <2>2, <2>3, <2>4, <2>5 DEF Refresh, Requests
<1>12. CASE PageDoes(OnSnapshot)
    BY <1>12 DEF PageDoes, OnSnapshot, Overlap, listenVars, dbVars, hubVars, Shown, NewNow,
                 Request, Requests, Message
<1>13. CASE PageDoes(Connect)
    BY <1>13 DEF PageDoes, Connect, Overlap, listenVars, dbVars, NewQueue
<1>14. CASE PageDoes(OnMessage)
    BY <1>14 DEF PageDoes, OnMessage, Connected, Overlap, listenVars, dbVars, Shown, NewNow,
                 Message
<1>15. CASE PageDoes(Stall)
  <2>1. page' = [page EXCEPT !.live = FALSE]
      BY <1>15 DEF PageDoes, Stall
  <2>2. page' \in [now : Timestamps, rev : 0..MaxRev \cup {None}, live : BOOLEAN]
      BY <2>1
  <2>3. UNCHANGED <<db, listener, channel, hub, reader, queue, rest, failures, notified>>
        /\ overlapped' \in BOOLEAN
      BY <1>15 DEF PageDoes, Stall, Overlap, listenVars, dbVars, hubVars
  <2>4. QED
      BY <2>2, <2>3
<1>16. CASE RefreshFails /\ UNCHANGED <<pageVars, aux>>
  <2>1. /\ reader["hub"].at = "rev"
        /\ reader' = [reader EXCEPT !["hub"] = Idle]
        /\ hub' = [hub EXCEPT !.fast = "over", !.tasks = IF @ = "starting" THEN "over" ELSE @]
      BY <1>16 DEF RefreshFails
  <2>2. reader' \in [Readers -> Refresh] /\ reader'["hub"].at = "idle"
        /\ reader'["request"] = reader["request"]
      BY <2>1, RefreshType DEF Readers, Idle
  <2>3. UNCHANGED <<db, listener, channel, queue, page, rest, notified, overlapped>>
      BY <1>16 DEF RefreshFails, pageVars, listenVars, aux
  <2>4. QED
      BY <2>1, <2>2, <2>3, ZenonT(40) DEF Refresh
<1>17. CASE ListenerLost /\ UNCHANGED <<pageVars, aux>>
    BY <1>17 DEF ListenerLost, pageVars, aux, hubVars
<1>18. CASE SnapshotFails /\ UNCHANGED aux
  <2>1. /\ reader["request"].at = "rev"
        /\ reader' = [reader EXCEPT !["request"] = Idle]
        /\ rest' = [at |-> "over", answer |-> None]
      BY <1>18 DEF SnapshotFails, Request
  <2>2. reader' \in [Readers -> Refresh] /\ reader'["request"].at = "idle"
        /\ reader'["hub"] = reader["hub"]
      BY <2>1, RefreshType DEF Readers, Idle
  <2>3. UNCHANGED <<db, listener, channel, hub, queue, page, notified, overlapped>>
      BY <1>18 DEF SnapshotFails, dbVars, listenVars, aux
  <2>4. QED
      BY <2>1, <2>2, <2>3 DEF Refresh, Requests
<1>19. CASE SocketLost /\ UNCHANGED aux
    BY <1>19, ZenonT(40) DEF SocketLost, Hangup, aux, dbVars, listenVars
<1>20. CASE ConnectFails /\ UNCHANGED aux
  <2>1. page' = [page EXCEPT !.live = FALSE]
      BY <1>20 DEF ConnectFails
  <2>2. page' \in [now : Timestamps, rev : 0..MaxRev \cup {None}, live : BOOLEAN]
      BY <2>1
  <2>3. UNCHANGED <<db, listener, channel, hub, reader, queue, rest, notified, overlapped>>
      BY <1>20 DEF ConnectFails, aux, dbVars, listenVars, hubVars
  <2>4. QED
      BY <2>2, <2>3
<1>21. CASE Restart
  <2>1. /\ listener' = "down" /\ channel' = <<>>
        /\ hub' = [now |-> None, dirty |-> TRUE, latest |-> None, tasks |-> "starting",
                   fast |-> "refreshing"]
        /\ reader' = [who \in Readers |-> IF who = "hub" THEN Reading ELSE Idle]
        /\ queue' = NotSubscribed
        /\ page' = IF queue # NotSubscribed THEN [page EXCEPT !.live = FALSE] ELSE page
        /\ rest' = IF rest.at \in {"asked", "refreshing"}
                   THEN [at |-> "over", answer |-> None] ELSE rest
      BY <1>21 DEF Restart, HubAtStart, Hangup, Connected, Request
  <2>2. reader' \in [Readers -> Refresh] /\ reader'["hub"].at = "rev"
        /\ reader'["request"].at = "idle"
      BY <2>1, RefreshType DEF Readers, Reading, Idle
  <2>3. UNCHANGED <<db, notified, overlapped>>
      BY <1>21 DEF Restart, aux
  <2>4. page' \in [now : Timestamps, rev : 0..MaxRev \cup {None}, live : BOOLEAN]
      BY <2>1
  <2>5. /\ rest' \in [at : Requests, answer : Message \cup {None}]
        /\ rest'.at # "refreshing" /\ (rest'.at = "answered" => rest'.answer # None)
      BY <2>1 DEF Requests
  <2>6. hub' \in [now : Timestamps, dirty : BOOLEAN, latest : Message \cup {None},
                  tasks : {"starting", "running", "over"},
                  fast : {"waiting", "refreshing", "over"}]
      BY <2>1 DEF Timestamps
  <2>7. channel' \in Seq(Timestamps)
      BY <2>1
  <2>8. QED
      BY <2>1, <2>2, <2>3, <2>4, <2>5, <2>6, <2>7 DEF Refresh
<1>22. QED
    BY <1>1, <1>2, <1>3, <1>4, <1>5, <1>6, <1>7, <1>8, <1>9, <1>10, <1>11, <1>12, <1>13,
       <1>14, <1>15, <1>16, <1>17, <1>18, <1>19, <1>20, <1>21 DEF Step

\* The failures are counted, and bounded.
LEMMA FailuresBounded ==
    ASSUME TypeOK, Next
    PROVE  failures' \in 0..MaxFailures
<1>1. CASE Failure
    BY <1>1, LiveAssumption DEF Failure, TypeOK
<1>2. ASSUME failures' = failures
      PROVE  failures' \in 0..MaxFailures
    BY <1>2 DEF TypeOK
<1>3. CASE Commit \/ Qualify
    BY <1>2, <1>3 DEF Commit, Qualify
<1>4. CASE ListenTask \/ FastTask
    BY <1>2, <1>4 DEF ListenTask, FastTask, HubDoes
<1>5. CASE RestTask \/ SocketTask \/ StallTask
    BY <1>2, <1>5 DEF RestTask, SocketTask, StallTask, HubDoes, PageDoes
<1>6. QED
    BY <1>1, <1>3, <1>4, <1>5 DEF Next

LEMMA TypeInvariant == Spec => []TypeInv
<1>1. TypeInv /\ [Next]_vars => TypeInv'
  <2> SUFFICES ASSUME TypeInv, [Next]_vars
               PROVE  TypeInv'
      OBVIOUS
  <2>1. CASE Next
      BY <2>1, StepCases, FailuresBounded, TypeInvStep DEF TypeInv
  <2>2. CASE UNCHANGED vars
      BY <2>2 DEF vars, dbVars, listenVars, hubVars, pageVars, aux, TypeInv, TypeOK
  <2>3. QED
      BY <2>1, <2>2
<1>2. QED
    BY <1>1, TypeInvInit, PTL DEF Spec

\* The state has its types: a refresh is under way exactly when the loop or the
\* request that waits for it says so, and a connection that is down has nothing
\* on it, across failures and restarts.
THEOREM TypeCorrect == Spec => []TypeOK
<1>1. TypeInv => TypeOK
    BY DEF TypeInv
<1>2. QED
    BY <1>1, TypeInvariant, PTL

-----------------------------------------------------------------------------

(* Refreshes that overlap.  A request refreshes only while there is no      *)
(* message yet: unless the initial refresh is still under way beside it, the *)
(* hub's loop is over.                                                      *)

OverlapInv ==
    /\ (\A who \in Readers : reader[who].at # "idle") => overlapped
    /\ ~overlapped /\ reader["request"].at # "idle" => hub.fast = "over"

(* Notifications.                                                          *)

\* A timestamp that last_seen_ts has reached.
Reached(seen, ts) == ts = None \/ (seen # None /\ ts <= seen)

SeenInv ==
    /\ Reached(db.seen, hub.now)
    /\ \A who \in Readers : Reached(db.seen, reader[who].seen)
    /\ \A i \in 1..Len(channel) : Reached(db.seen, channel[i])
    /\ notified <= db.rev

\* With nothing to wake it up, the hub has all that was notified, or will have
\* it when the refresh under way is over.
WakeInv ==
    listener = "on" /\ channel = <<>> /\ ~hub.dirty /\ ~overlapped =>
        /\ hub.fast = "waiting" =>
               hub.latest.now = db.seen /\ hub.latest.rev >= notified
        /\ hub.fast = "refreshing" =>
               /\ Later(hub.now, reader["hub"].seen) = db.seen
               /\ reader["hub"].at = "out" => reader["hub"].rev >= notified

(* The order of messages.                                                  *)

\* What the page shows came by its socket.
ShowsMessage == page.rev # None /\ rest.at # "over"

OrderInv ==
    /\ queue \in {NotSubscribed, None, hub.latest}
    /\ queue = None /\ rest.at # "over" /\ hub.latest # None => page.rev = hub.latest.rev
    /\ ShowsMessage => page.rev <= db.rev
    /\ hub.latest # None => hub.latest.rev <= db.rev
    /\ \A who \in Readers : reader[who].at = "out" => reader[who].rev <= db.rev
    /\ ~overlapped =>
           /\ ShowsMessage /\ hub.latest # None => page.rev <= hub.latest.rev
           /\ \A who \in Readers : reader[who].at = "out" =>
                  /\ ShowsMessage => page.rev <= reader[who].rev
                  /\ hub.latest # None => hub.latest.rev <= reader[who].rev

LEMMA OverlapInvStep ==
    ASSUME TypeInv, OverlapInv, Step
    PROVE  OverlapInv'
<1> USE DEF TypeInv, TypeOK, OverlapInv, Readers
<1>1. CASE Commit
    BY <1>1 DEF Commit, hubVars, pageVars
<1>2. CASE Qualify
    BY <1>2 DEF Qualify, listenVars, hubVars, pageVars, aux
<1>3. CASE HubDoes(Listen)
    BY <1>3 DEF HubDoes, Listen, Overlap, hubVars, pageVars
<1>4. CASE HubDoes(Listening)
    BY <1>4 DEF HubDoes, Listening, Overlap, pageVars
<1>5. CASE HubDoes(OnNotify)
    BY <1>5 DEF HubDoes, OnNotify, Overlap, pageVars
<1>6. CASE HubDoes(WakeUp)
    BY <1>6 DEF HubDoes, WakeUp, Overlap, pageVars, listenVars, Reading
<1>7. CASE HubDoes(Read("hub"))
    BY <1>7 DEF HubDoes, Read, Overlap, pageVars, listenVars
<1>8. CASE HubDoes(Publish("hub"))
    BY <1>8 DEF HubDoes, Publish, HubAfter, MessageOf, Queued, Overlap, pageVars, listenVars, Idle
<1>9. CASE HubDoes(Read("request"))
    BY <1>9 DEF HubDoes, Read, Overlap, pageVars, listenVars
<1>10. CASE PageDoes(AskSnapshot)
  <2>1. hub' = hub /\ overlapped' = (overlapped \/ \A who \in Readers : reader'[who].at # "idle")
      BY <1>10 DEF PageDoes, AskSnapshot, Overlap
  <2>2. CASE reader' = reader
      BY <2>1, <2>2
  <2>3. CASE hub.latest = None /\ reader' = [reader EXCEPT !["request"] = Reading]
    <3>1. reader'["hub"] = reader["hub"]
        BY <2>3
    <3>2. hub.fast # "waiting"
        BY <2>3
    <3>3. QED
        BY <2>1, <3>1, <3>2
  <2>4. QED
      BY <1>10, <2>2, <2>3 DEF PageDoes, AskSnapshot
<1>11. CASE PageDoes(AnswerSnapshot)
    BY <1>11 DEF PageDoes, AnswerSnapshot, Publish, HubAfter, MessageOf, Queued, Overlap, listenVars, Idle
<1>12. CASE PageDoes(OnSnapshot)
    BY <1>12 DEF PageDoes, OnSnapshot, Overlap, listenVars, dbVars, hubVars, Shown, Request
<1>13. CASE PageDoes(Connect)
    BY <1>13 DEF PageDoes, Connect, Connected, Overlap, listenVars, dbVars, NewQueue
<1>14. CASE PageDoes(OnMessage)
    BY <1>14 DEF PageDoes, OnMessage, Connected, Overlap, listenVars, dbVars, Shown
<1>15. CASE PageDoes(Stall)
    BY <1>15 DEF PageDoes, Stall, Overlap, listenVars, dbVars, hubVars
<1>16. CASE RefreshFails /\ UNCHANGED <<pageVars, aux>>
    BY <1>16 DEF RefreshFails, pageVars, aux, listenVars, Idle
<1>17. CASE ListenerLost /\ UNCHANGED <<pageVars, aux>>
    BY <1>17 DEF ListenerLost, pageVars, aux, hubVars
<1>18. CASE SnapshotFails /\ UNCHANGED aux
    BY <1>18 DEF SnapshotFails, aux, dbVars, listenVars, Idle, Request
<1>19. CASE SocketLost /\ UNCHANGED aux
    BY <1>19 DEF SocketLost, Hangup, aux, dbVars, listenVars
<1>20. CASE ConnectFails /\ UNCHANGED aux
    BY <1>20 DEF ConnectFails, aux, dbVars, listenVars, hubVars
<1>21. CASE Restart
    BY <1>21 DEF Restart, Hangup, HubAtStart, aux, Reading, Idle, Request
<1>22. QED
    BY <1>1, <1>2, <1>3, <1>4, <1>5, <1>6, <1>7, <1>8, <1>9, <1>10, <1>11, <1>12, <1>13,
       <1>14, <1>15, <1>16, <1>17, <1>18, <1>19, <1>20, <1>21 DEF Step

LEMMA ReachedByLater ==
    ASSUME NEW seen \in Timestamps, NEW ts \in Timestamps, NEW other \in Timestamps
    PROVE  /\ Reached(seen, ts) /\ Reached(seen, other) => Reached(seen, Later(ts, other))
           /\ Reached(seen, ts) => Reached(Later(seen, other), ts)
           /\ Reached(Later(seen, other), other)
           /\ Reached(seen, ts) => Later(ts, seen) = seen
BY LiveAssumption, NoneAssumption DEF Reached, Later, Timestamps

LEMMA ReachedAlways ==
    ASSUME NEW seen \in Timestamps
    PROVE  Reached(seen, seen) /\ Reached(seen, None)
BY LiveAssumption DEF Reached, Timestamps


LEMMA SeenInvStep ==
    ASSUME TypeInv, SeenInv, Step
    PROVE  SeenInv'
<1> USE DEF TypeInv, TypeOK, SeenInv
<1>1. CASE Commit
  <2>1. PICK ts \in Progress :
            /\ db' = [seen |-> Later(db.seen, ts), rev |-> db.rev + 1]
            /\ channel' = IF listener = "down" THEN channel ELSE Append(channel, ts)
      BY <1>1 DEF Commit
  <2>2. ts \in Timestamps
      BY DEF Progress, Timestamps
  <2>3. db'.seen = Later(db.seen, ts)
      BY <2>1
  <2>4. UNCHANGED <<hub, reader>> /\ notified' = db'.rev /\ db'.rev \in Int
      BY <1>1, <2>1 DEF Commit, hubVars
  <2>5. Reached(db'.seen, hub'.now)
      BY <2>2, <2>3, <2>4, ReachedByLater
  <2>6. \A who \in Readers : Reached(db'.seen, reader'[who].seen)
    <3>1. \A who \in Readers : reader[who].seen \in Timestamps
        OBVIOUS
    <3>2. QED
        BY <2>2, <2>3, <2>4, <3>1, ReachedByLater
  <2>7. \A i \in 1..Len(channel) : Reached(db'.seen, channel[i])
    <3>1. \A i \in 1..Len(channel) : channel[i] \in Timestamps
        OBVIOUS
    <3>2. QED
        BY <2>2, <2>3, <3>1, ReachedByLater
  <2>8. Reached(db'.seen, ts)
      BY <2>2, <2>3, ReachedByLater
  <2>9. \A i \in 1..Len(channel') : Reached(db'.seen, channel'[i])
    <3>1. CASE listener = "down"
        BY <2>1, <2>7, <3>1
    <3>2. CASE listener # "down"
      <4>1. channel' = Append(channel, ts)
          BY <2>1, <3>2
      <4>2. /\ Len(channel') = Len(channel) + 1
            /\ \A i \in 1..Len(channel) : channel'[i] = channel[i]
            /\ channel'[Len(channel) + 1] = ts
            /\ Len(channel) \in Nat
          BY <2>2, <4>1
      <4>3. ASSUME NEW i \in 1..Len(channel')
            PROVE  Reached(db'.seen, channel'[i])
        <5>1. CASE i \in 1..Len(channel)
            BY <2>7, <4>2, <5>1
        <5>2. CASE i = Len(channel) + 1
            BY <2>8, <4>2, <5>2
        <5>3. QED
            BY <4>2, <5>1, <5>2
      <4>4. QED
          BY <4>3
    <3>3. QED
        BY <3>1, <3>2
  <2>10. QED
      BY <2>4, <2>5, <2>6, <2>9
<1>2. CASE Qualify
    BY <1>2 DEF Qualify, listenVars, hubVars, pageVars, aux
<1>3. CASE HubDoes(Listen)
    BY <1>3 DEF HubDoes, Listen, Overlap, hubVars, pageVars
<1>4. CASE HubDoes(Listening)
    BY <1>4 DEF HubDoes, Listening, Overlap, pageVars
<1>5. CASE HubDoes(OnNotify)
  <2>1. channel # <<>> /\ channel' = Tail(channel)
        /\ hub' = [hub EXCEPT !.now = Later(@, Head(channel)), !.dirty = TRUE]
      BY <1>5 DEF HubDoes, OnNotify
  <2>2. UNCHANGED <<db, reader, notified>>
      BY <1>5 DEF HubDoes, OnNotify
  <2>3. /\ Head(channel) \in Timestamps /\ Head(channel) = channel[1] /\ 1 \in 1..Len(channel)
        /\ \A i \in 1..Len(channel') : channel'[i] = channel[i + 1] /\ i + 1 \in 1..Len(channel)
      BY <2>1
  <2>4. Reached(db.seen, hub'.now)
      BY <2>1, <2>3, ReachedByLater
  <2>5. QED
      BY <2>2, <2>3, <2>4
<1>6. CASE HubDoes(WakeUp)
  <2>1. /\ reader' = [reader EXCEPT !["hub"] = Reading]
        /\ UNCHANGED <<db, channel, notified>> /\ hub'.now = hub.now
      BY <1>6 DEF HubDoes, WakeUp, listenVars
  <2>2. \A who \in Readers : reader'[who].seen \in {reader[who].seen, db.seen, None}
      BY <2>1 DEF Readers, Reading, Idle
  <2>3. QED
      BY <2>1, <2>2, ReachedAlways
<1>7. CASE HubDoes(Read("hub"))
    BY <1>7 DEF HubDoes, Read, Overlap, pageVars, listenVars
<1>8. CASE HubDoes(Publish("hub"))
  <2>1. /\ reader' = [reader EXCEPT !["hub"] = Idle]
        /\ UNCHANGED <<db, channel, notified>>
        /\ hub'.now = Later(hub.now, reader["hub"].seen)
      BY <1>8 DEF HubDoes, Publish, HubAfter, MessageOf, listenVars
  <2>2. \A who \in Readers : reader'[who].seen \in {reader[who].seen, None}
      BY <2>1 DEF Readers, Idle
  <2>3. /\ reader["hub"].seen \in Timestamps
        /\ Reached(db.seen, reader["hub"].seen)
      BY DEF Readers
  <2>4. Reached(db.seen, hub'.now)
      BY <2>1, <2>3, ReachedByLater
  <2>5. QED
      BY <2>1, <2>2, <2>4, ReachedAlways
<1>9. CASE HubDoes(Read("request"))
    BY <1>9 DEF HubDoes, Read, Overlap, pageVars, listenVars
<1>10. CASE PageDoes(AskSnapshot)
  <2>1. /\ reader' = reader \/ reader' = [reader EXCEPT !["request"] = Reading]
        /\ UNCHANGED <<db, channel, notified, hub>>
      BY <1>10 DEF PageDoes, AskSnapshot, dbVars, listenVars
  <2>2. \A who \in Readers : reader'[who].seen \in {reader[who].seen, db.seen}
      BY <2>1 DEF Readers, Reading
  <2>3. QED
      BY <2>1, <2>2, ReachedAlways
<1>11. CASE PageDoes(AnswerSnapshot)
  <2>1. /\ reader' = [reader EXCEPT !["request"] = Idle]
        /\ UNCHANGED <<db, channel, notified>>
        /\ hub'.now = Later(hub.now, reader["request"].seen)
      BY <1>11 DEF PageDoes, AnswerSnapshot, Publish, HubAfter, MessageOf, listenVars
  <2>2. \A who \in Readers : reader'[who].seen \in {reader[who].seen, None}
      BY <2>1 DEF Readers, Idle
  <2>3. /\ reader["request"].seen \in Timestamps
        /\ Reached(db.seen, reader["request"].seen)
      BY DEF Readers
  <2>4. Reached(db.seen, hub'.now)
      BY <2>1, <2>3, ReachedByLater
  <2>5. QED
      BY <2>1, <2>2, <2>4, ReachedAlways
<1>12. CASE PageDoes(OnSnapshot)
    BY <1>12 DEF PageDoes, OnSnapshot, Overlap, listenVars, dbVars, hubVars, Shown, Request
<1>13. CASE PageDoes(Connect)
    BY <1>13 DEF PageDoes, Connect, Connected, Overlap, listenVars, dbVars, NewQueue
<1>14. CASE PageDoes(OnMessage)
    BY <1>14 DEF PageDoes, OnMessage, Connected, Overlap, listenVars, dbVars, Shown
<1>15. CASE PageDoes(Stall)
    BY <1>15 DEF PageDoes, Stall, Overlap, listenVars, dbVars, hubVars
<1>16. CASE RefreshFails /\ UNCHANGED <<pageVars, aux>>
  <2>1. /\ reader' = [reader EXCEPT !["hub"] = Idle]
        /\ UNCHANGED <<db, channel, notified>> /\ hub'.now = hub.now
      BY <1>16 DEF RefreshFails, aux, listenVars
  <2>2. \A who \in Readers : reader'[who].seen \in {reader[who].seen, None}
      BY <2>1 DEF Readers, Idle
  <2>3. QED
      BY <2>1, <2>2, ReachedAlways
<1>17. CASE ListenerLost /\ UNCHANGED <<pageVars, aux>>
    BY <1>17 DEF ListenerLost, pageVars, aux, hubVars
<1>18. CASE SnapshotFails /\ UNCHANGED aux
  <2>1. /\ reader' = [reader EXCEPT !["request"] = Idle]
        /\ UNCHANGED <<db, channel, notified>> /\ hub'.now = hub.now
      BY <1>18 DEF SnapshotFails, aux, dbVars, listenVars
  <2>2. \A who \in Readers : reader'[who].seen \in {reader[who].seen, None}
      BY <2>1 DEF Readers, Idle
  <2>3. QED
      BY <2>1, <2>2, ReachedAlways
<1>19. CASE SocketLost /\ UNCHANGED aux
    BY <1>19 DEF SocketLost, Hangup, aux, dbVars, listenVars
<1>20. CASE ConnectFails /\ UNCHANGED aux
    BY <1>20 DEF ConnectFails, aux, dbVars, listenVars, hubVars
<1>21. CASE Restart
  <2>1. /\ reader' = [who \in Readers |-> IF who = "hub" THEN Reading ELSE Idle]
        /\ channel' = <<>> /\ hub'.now = None
        /\ UNCHANGED <<db, notified>>
      BY <1>21 DEF Restart, HubAtStart, aux
  <2>2. \A who \in Readers : reader'[who].seen \in {db.seen, None}
      BY <2>1 DEF Readers, Reading, Idle
  <2>3. \A who \in Readers : Reached(db.seen, reader'[who].seen)
      BY <2>2, ReachedAlways
  <2>4. 1..Len(channel') = {} /\ Reached(db.seen, hub'.now)
      BY <2>1, ReachedAlways
  <2>5. QED
      BY <2>1, <2>3, <2>4
<1>22. QED
    BY <1>1, <1>2, <1>3, <1>4, <1>5, <1>6, <1>7, <1>8, <1>9, <1>10, <1>11, <1>12, <1>13,
       <1>14, <1>15, <1>16, <1>17, <1>18, <1>19, <1>20, <1>21 DEF Step

LEMMA WakeInvStep ==
    ASSUME TypeInv, WakeInv, OverlapInv, SeenInv, Step
    PROVE  WakeInv'
<1> USE DEF TypeInv, TypeOK, WakeInv, OverlapInv, Readers
<1>1. CASE Commit
    BY <1>1 DEF Commit, hubVars, pageVars
<1>2. CASE Qualify
    BY <1>2 DEF Qualify, listenVars, hubVars, pageVars, aux
<1>3. CASE HubDoes(Listen)
    BY <1>3 DEF HubDoes, Listen, Overlap, hubVars, pageVars
<1>4. CASE HubDoes(Listening)
    BY <1>4 DEF HubDoes, Listening, Overlap, pageVars
<1>5. CASE HubDoes(OnNotify)
    BY <1>5 DEF HubDoes, OnNotify, Overlap, pageVars
<1>6. CASE HubDoes(WakeUp)
  <2>1. /\ hub' = [hub EXCEPT !.dirty = FALSE, !.fast = "refreshing"]
        /\ reader' = [reader EXCEPT !["hub"] = Reading]
        /\ UNCHANGED db
      BY <1>6 DEF HubDoes, WakeUp
  <2>2. Later(hub.now, db.seen) = db.seen
      BY ReachedByLater DEF SeenInv
  <2>3. hub'.fast = "refreshing" /\ hub'.now = hub.now
        /\ reader'["hub"].seen = db.seen /\ reader'["hub"].at = "rev"
      BY <2>1 DEF Reading
  <2>4. QED
      BY <2>1, <2>2, <2>3
<1>7. CASE HubDoes(Read("hub"))
  <2>1. /\ reader' = [reader EXCEPT !["hub"] = [@ EXCEPT !.rev = db.rev, !.at = "out"]]
        /\ UNCHANGED <<db, listener, channel, hub, notified>>
        /\ (overlapped => overlapped') /\ reader["hub"].at = "rev"
      BY <1>7 DEF HubDoes, Read, listenVars, Overlap
  <2>2. /\ reader'["hub"].rev = db.rev /\ reader'["hub"].at = "out"
        /\ reader'["hub"].seen = reader["hub"].seen
      BY <2>1
  <2>3. notified <= db.rev
      BY DEF SeenInv
  <2>4. hub.fast = "refreshing"
      BY <2>1
  <2>5. QED
      BY <2>1, <2>2, <2>3, <2>4
<1>8. CASE HubDoes(Publish("hub"))
    BY <1>8 DEF HubDoes, Publish, HubAfter, MessageOf, Queued, Overlap, pageVars, listenVars, Idle
<1>9. CASE HubDoes(Read("request"))
    BY <1>9 DEF HubDoes, Read, Overlap, pageVars, listenVars
<1>10. CASE PageDoes(AskSnapshot)
    BY <1>10 DEF PageDoes, AskSnapshot, Overlap, listenVars, dbVars, Reading
<1>11. CASE PageDoes(AnswerSnapshot)
    BY <1>11 DEF PageDoes, AnswerSnapshot, Publish, HubAfter, MessageOf, Queued, Overlap, listenVars, Idle
<1>12. CASE PageDoes(OnSnapshot)
    BY <1>12 DEF PageDoes, OnSnapshot, Overlap, listenVars, dbVars, hubVars, Shown, Request
<1>13. CASE PageDoes(Connect)
    BY <1>13 DEF PageDoes, Connect, Connected, Overlap, listenVars, dbVars, NewQueue
<1>14. CASE PageDoes(OnMessage)
    BY <1>14 DEF PageDoes, OnMessage, Connected, Overlap, listenVars, dbVars, Shown
<1>15. CASE PageDoes(Stall)
    BY <1>15 DEF PageDoes, Stall, Overlap, listenVars, dbVars, hubVars
<1>16. CASE RefreshFails /\ UNCHANGED <<pageVars, aux>>
    BY <1>16 DEF RefreshFails, pageVars, aux, listenVars, Idle
<1>17. CASE ListenerLost /\ UNCHANGED <<pageVars, aux>>
    BY <1>17 DEF ListenerLost, pageVars, aux, hubVars
<1>18. CASE SnapshotFails /\ UNCHANGED aux
    BY <1>18 DEF SnapshotFails, aux, dbVars, listenVars, Idle, Request
<1>19. CASE SocketLost /\ UNCHANGED aux
    BY <1>19 DEF SocketLost, Hangup, aux, dbVars, listenVars
<1>20. CASE ConnectFails /\ UNCHANGED aux
    BY <1>20 DEF ConnectFails, aux, dbVars, listenVars, hubVars
<1>21. CASE Restart
    BY <1>21 DEF Restart, Hangup, HubAtStart, aux, Reading, Idle, Request
<1>22. QED
    BY <1>1, <1>2, <1>3, <1>4, <1>5, <1>6, <1>7, <1>8, <1>9, <1>10, <1>11, <1>12, <1>13,
       <1>14, <1>15, <1>16, <1>17, <1>18, <1>19, <1>20, <1>21 DEF Step

LEMMA OrderInvStep ==
    ASSUME TypeInv, OrderInv, OverlapInv, Step
    PROVE  OrderInv'
<1> USE DEF TypeInv, TypeOK, OrderInv, OverlapInv, ShowsMessage, Readers
<1>1. CASE Commit
  <2>1. UNCHANGED <<hub, reader, queue, page, rest, overlapped>> /\ db'.rev = db.rev + 1
      BY <1>1 DEF Commit, hubVars, pageVars
  <2>2. db.rev \in Int /\ (page.rev # None => page.rev \in Int)
        /\ (hub.latest # None => hub.latest.rev \in Int)
        /\ \A who \in Readers : reader[who].rev \in Int
    <3>1. hub.latest # None => hub.latest \in Message
        OBVIOUS
    <3>2. QED
        BY <3>1 DEF Message
  <2>3. QED
      BY <2>1, <2>2
<1>2. CASE Qualify
  <2>1. UNCHANGED <<hub, reader, queue, page, rest, overlapped>> /\ db'.rev = db.rev + 1
      BY <1>2 DEF Qualify, hubVars, pageVars, aux
  <2>2. db.rev \in Int /\ (page.rev # None => page.rev \in Int)
        /\ (hub.latest # None => hub.latest.rev \in Int)
        /\ \A who \in Readers : reader[who].rev \in Int
    <3>1. hub.latest # None => hub.latest \in Message
        OBVIOUS
    <3>2. QED
        BY <3>1 DEF Message
  <2>3. QED
      BY <2>1, <2>2
<1>3. CASE HubDoes(Listen)
    BY <1>3 DEF HubDoes, Listen, Overlap, hubVars, pageVars
<1>4. CASE HubDoes(Listening)
    BY <1>4 DEF HubDoes, Listening, Overlap, pageVars
<1>5. CASE HubDoes(OnNotify)
    BY <1>5 DEF HubDoes, OnNotify, Overlap, pageVars
<1>6. CASE HubDoes(WakeUp)
    BY <1>6 DEF HubDoes, WakeUp, Overlap, pageVars, listenVars, Reading
<1>7. CASE HubDoes(Read("hub"))
    BY <1>7 DEF HubDoes, Read, Overlap, pageVars, listenVars
<1>8. CASE HubDoes(Publish("hub"))
  <2> DEFINE message == MessageOf("hub")
  <2>1. /\ hub'.latest = message
        /\ queue' = IF queue = NotSubscribed THEN queue ELSE message
        /\ reader' = [reader EXCEPT !["hub"] = Idle]
        /\ reader["hub"].at = "out"
        /\ UNCHANGED <<db, page>> /\ (overlapped => overlapped')
        /\ UNCHANGED rest
      BY <1>8 DEF HubDoes, Publish, HubAfter, Queued, Overlap, pageVars, listenVars
  <2>2. message \in Message /\ message.rev = reader["hub"].rev /\ message # None
        /\ message # NotSubscribed
      BY MessageType, NoneAssumption DEF MessageOf
  <2>3. reader'["hub"].at = "idle" /\ reader'["request"] = reader["request"]
      BY <2>1 DEF Idle
  <2>4. ~overlapped => reader["request"].at = "idle"
      BY <2>1
  <2> HIDE DEF message
  <2>5. queue' \in {NotSubscribed, None, hub'.latest}
        /\ (queue' = None => FALSE)
      BY <2>1, <2>2, NoneAssumption
  <2>6. ShowsMessage' => ShowsMessage
      BY <2>1
  <2>7. reader["hub"].rev <= db.rev
      BY <2>1
  <2>8. ~overlapped' =>
           /\ ShowsMessage' => page'.rev <= hub'.latest.rev
           /\ \A r \in Readers : reader'[r].at = "idle"
      BY <2>1, <2>2, <2>3, <2>4, <2>6
  <2>9. ShowsMessage' => page'.rev <= db'.rev
      BY <2>1, <2>6
  <2>10. hub'.latest # None => hub'.latest.rev <= db'.rev
      BY <2>1, <2>2, <2>7
  <2>11. \A r \in Readers : reader'[r].at = "out" => reader'[r].rev <= db'.rev
      BY <2>1, <2>3
  <2>12. QED
      BY <2>5, <2>8, <2>9, <2>10, <2>11
<1>9. CASE HubDoes(Read("request"))
    BY <1>9 DEF HubDoes, Read, Overlap, pageVars, listenVars
<1>10. CASE PageDoes(AskSnapshot)
    BY <1>10 DEF PageDoes, AskSnapshot, Overlap, listenVars, dbVars, Reading
<1>11. CASE PageDoes(AnswerSnapshot)
  <2> DEFINE message == MessageOf("request")
  <2>1. /\ hub'.latest = message
        /\ queue' = IF queue = NotSubscribed THEN queue ELSE message
        /\ reader' = [reader EXCEPT !["request"] = Idle]
        /\ reader["request"].at = "out"
        /\ UNCHANGED <<db, page>> /\ (overlapped => overlapped')
        /\ rest.at # "over"
      BY <1>11 DEF PageDoes, AnswerSnapshot, Publish, HubAfter, Queued, Overlap, listenVars
  <2>2. message \in Message /\ message.rev = reader["request"].rev /\ message # None
        /\ message # NotSubscribed
      BY MessageType, NoneAssumption DEF MessageOf
  <2>3. reader'["request"].at = "idle" /\ reader'["hub"] = reader["hub"]
      BY <2>1 DEF Idle
  <2>4. ~overlapped => reader["hub"].at = "idle"
      BY <2>1
  <2> HIDE DEF message
  <2>5. queue' \in {NotSubscribed, None, hub'.latest}
        /\ (queue' = None => FALSE)
      BY <2>1, <2>2, NoneAssumption
  <2>6. ShowsMessage' => ShowsMessage
      BY <2>1
  <2>7. reader["request"].rev <= db.rev
      BY <2>1
  <2>8. ~overlapped' =>
           /\ ShowsMessage' => page'.rev <= hub'.latest.rev
           /\ \A r \in Readers : reader'[r].at = "idle"
      BY <2>1, <2>2, <2>3, <2>4, <2>6
  <2>9. ShowsMessage' => page'.rev <= db'.rev
      BY <2>1, <2>6
  <2>10. hub'.latest # None => hub'.latest.rev <= db'.rev
      BY <2>1, <2>2, <2>7
  <2>11. \A r \in Readers : reader'[r].at = "out" => reader'[r].rev <= db'.rev
      BY <2>1, <2>3
  <2>12. QED
      BY <2>5, <2>8, <2>9, <2>10, <2>11
<1>12. CASE PageDoes(OnSnapshot)
    BY <1>12 DEF PageDoes, OnSnapshot, Overlap, listenVars, dbVars, hubVars, Shown, Request
<1>13. CASE PageDoes(Connect)
    BY <1>13 DEF PageDoes, Connect, Connected, Overlap, listenVars, dbVars, NewQueue
<1>14. CASE PageDoes(OnMessage)
  <2>1. /\ queue # NotSubscribed /\ queue # None
        /\ page'.rev = queue.rev /\ queue' = None
        /\ UNCHANGED <<db, hub, reader, rest>> /\ (overlapped => overlapped')
      BY <1>14 DEF PageDoes, OnMessage, Connected, Shown, Overlap, dbVars
  <2>2. queue = hub.latest /\ hub.latest # None /\ hub.latest.rev \in Int
    <3>1. queue = hub.latest /\ hub.latest \in Message
        BY <2>1
    <3>2. QED
        BY <2>1, <3>1 DEF Message
  <2>3. QED
      BY <2>1, <2>2
<1>15. CASE PageDoes(Stall)
    BY <1>15 DEF PageDoes, Stall, Overlap, listenVars, dbVars, hubVars
<1>16. CASE RefreshFails /\ UNCHANGED <<pageVars, aux>>
    BY <1>16 DEF RefreshFails, pageVars, aux, listenVars, Idle
<1>17. CASE ListenerLost /\ UNCHANGED <<pageVars, aux>>
    BY <1>17 DEF ListenerLost, pageVars, aux, hubVars
<1>18. CASE SnapshotFails /\ UNCHANGED aux
    BY <1>18 DEF SnapshotFails, aux, dbVars, listenVars, Idle, Request
<1>19. CASE SocketLost /\ UNCHANGED aux
  <2>1. /\ queue' = NotSubscribed /\ queue' # None
        /\ page'.rev = page.rev
        /\ UNCHANGED <<db, hub, reader, rest, overlapped>>
      BY <1>19, NoneAssumption DEF SocketLost, Hangup, aux, dbVars
  <2>2. QED
      BY <2>1
<1>20. CASE ConnectFails /\ UNCHANGED aux
    BY <1>20 DEF ConnectFails, aux, dbVars, listenVars, hubVars
<1>21. CASE Restart
    BY <1>21 DEF Restart, Hangup, HubAtStart, aux, Reading, Idle, Request
<1>22. QED
    BY <1>1, <1>2, <1>3, <1>4, <1>5, <1>6, <1>7, <1>8, <1>9, <1>10, <1>11, <1>12, <1>13,
       <1>14, <1>15, <1>16, <1>17, <1>18, <1>19, <1>20, <1>21 DEF Step

-----------------------------------------------------------------------------

(* The inductive invariant.                                                *)

LiveInv == TypeInv /\ OverlapInv /\ SeenInv /\ WakeInv /\ OrderInv

LEMMA LiveInvInit == Init => LiveInv
<1> SUFFICES ASSUME Init
             PROVE  LiveInv
    OBVIOUS
<1>1. TypeInv
    BY TypeInvInit
<1>2. /\ reader["hub"] = Reading /\ reader["request"] = Idle
      /\ listener = "down" /\ channel = <<>> /\ queue = NotSubscribed
      /\ hub.now = None /\ hub.latest = None
      /\ notified = 0 /\ page.rev = None /\ db.rev = 0
    BY DEF Init, HubInit, PageInit, HubAtStart, Readers
<1>3. OverlapInv
    BY <1>2 DEF OverlapInv, Readers, Idle
<1>4. SeenInv
  <2>1. db.seen \in Timestamps
      BY <1>1 DEF TypeInv, TypeOK
  <2>2. \A who \in Readers : Reached(db.seen, reader[who].seen)
      BY <1>2, <2>1, ReachedAlways DEF Readers, Reading, Idle
  <2>3. 1..Len(channel) = {} /\ Reached(db.seen, hub.now)
      BY <1>2, <2>1, ReachedAlways
  <2>4. QED
      BY <1>2, <2>2, <2>3 DEF SeenInv
<1>5. WakeInv
    BY <1>2 DEF WakeInv
<1>6. OrderInv
    BY <1>2 DEF OrderInv, ShowsMessage, Readers, Reading, Idle
<1>7. QED
    BY <1>1, <1>3, <1>4, <1>5, <1>6 DEF LiveInv

\* Every message that is on its way, or is a refresh's to be, has all that the
\* one before it had, and the hub that waits has all that was notified.
THEOREM LiveInvariant == Spec => []LiveInv
<1>1. LiveInv /\ [Next]_vars => LiveInv'
  <2> SUFFICES ASSUME LiveInv, [Next]_vars
               PROVE  LiveInv'
      OBVIOUS
  <2>1. CASE Next
    <3>1. Step /\ failures' \in 0..MaxFailures
        BY <2>1, StepCases, FailuresBounded DEF LiveInv, TypeInv
    <3>2. TypeInv'
        BY <3>1, TypeInvStep DEF LiveInv
    <3>3. OverlapInv'
        BY <3>1, OverlapInvStep DEF LiveInv
    <3>4. SeenInv'
        BY <3>1, SeenInvStep DEF LiveInv
    <3>5. WakeInv'
        BY <3>1, WakeInvStep DEF LiveInv
    <3>6. OrderInv'
        BY <3>1, OrderInvStep DEF LiveInv
    <3>7. QED
        BY <3>2, <3>3, <3>4, <3>5, <3>6 DEF LiveInv
  <2>2. CASE UNCHANGED vars
      BY <2>2 DEF vars, dbVars, listenVars, hubVars, pageVars, aux, LiveInv, TypeInv, TypeOK,
                  OverlapInv, SeenInv, WakeInv, OrderInv, ShowsMessage
  <2>3. QED
      BY <2>1, <2>2
<1>2. QED
    BY <1>1, LiveInvInit, PTL DEF Spec

-----------------------------------------------------------------------------

(* What it says of the live view.                                          *)

\* No notification is lost, whatever was committed during a refresh or while
\* LISTEN was (re)issued, and whatever failed in between.
THEOREM NoWakeUpIsLost == Spec => []WakeUpNotLost
<1>1. LiveInv => WakeUpNotLost
  <2>1. SUFFICES ASSUME LiveInv, hub.fast = "waiting", ~hub.dirty, listener = "on",
                        channel = <<>>, ~overlapped
                 PROVE  /\ hub.now # None => hub.latest.now # None /\ hub.latest.now >= hub.now
                        /\ hub.latest.rev >= notified
      BY DEF WakeUpNotLost
  <2>2. hub.latest.now = db.seen /\ hub.latest.rev >= notified
      BY <2>1 DEF LiveInv, WakeInv
  <2>3. Reached(db.seen, hub.now)
      BY <2>1 DEF LiveInv, SeenInv
  <2>4. QED
      BY <2>2, <2>3, LiveAssumption, NoneAssumption DEF Reached
<1>2. QED
    BY <1>1, LiveInvariant, PTL

\* A sequence of at most one number.
LEMMA AtMostOne ==
    ASSUME NEW x, NEW s, s = <<>> \/ (x \in Int /\ s = <<x>>)
    PROVE  s \in Seq(Int) /\ Len(s) \in {0, 1} /\ (Len(s) = 1 => s # <<>> /\ s[1] = x)
<1>1. CASE s = <<>>
    BY <1>1
<1>2. CASE x \in Int /\ s = <<x>>
    BY <1>2
<1>3. QED
    BY <1>1, <1>2

\* Three sequences of at most one number, one after the other.
LEMMA InOrderOfThree ==
    ASSUME NEW p \in Seq(Int), NEW q \in Seq(Int), NEW r \in Seq(Int),
           Len(p) \in {0, 1}, Len(q) \in {0, 1}, Len(r) \in {0, 1},
           Len(p) = 1 /\ Len(q) = 1 => p[1] <= q[1],
           Len(p) = 1 /\ Len(r) = 1 => p[1] <= r[1],
           Len(q) = 1 /\ Len(r) = 1 => q[1] <= r[1]
    PROVE  \A i \in 1..(Len(p \o q \o r) - 1) : (p \o q \o r)[i] <= (p \o q \o r)[i + 1]
<1> DEFINE v == p \o q
           w == v \o r
<1>1. /\ v \in Seq(Int) /\ Len(v) = Len(p) + Len(q)
      /\ \A i \in 1..Len(v) : v[i] = IF i <= Len(p) THEN p[i] ELSE q[i - Len(p)]
    OBVIOUS
<1> HIDE DEF v
<1>2. /\ Len(w) = Len(v) + Len(r)
      /\ \A i \in 1..Len(w) : w[i] = IF i <= Len(v) THEN v[i] ELSE r[i - Len(v)]
  <2>1. v \in Seq(Int)
      BY <1>1
  <2>2. QED
      BY <2>1
<1> HIDE DEF w
<1>3. ASSUME NEW i \in 1..(Len(w) - 1)
      PROVE  w[i] <= w[i + 1]
  <2>1. PICK a \in {0, 1}, b \in {0, 1}, c \in {0, 1} :
            Len(p) = a /\ Len(q) = b /\ Len(r) = c
      OBVIOUS
  <2>2. Len(v) = a + b /\ Len(w) = a + b + c
      BY <1>1, <1>2, <2>1
  <2>3. i \in {1, 2} /\ i < a + b + c
      BY <2>2
  <2>4. /\ a = 1 /\ b = 1 => w[1] = p[1] /\ w[2] = q[1]
        /\ a = 1 /\ b = 1 /\ c = 1 => w[3] = r[1]
        /\ a = 1 /\ b = 0 /\ c = 1 => w[1] = p[1] /\ w[2] = r[1]
        /\ a = 0 /\ b = 1 /\ c = 1 => w[1] = q[1] /\ w[2] = r[1]
    <3>1. \A k \in 1..(a + b) : v[k] = IF k <= a THEN p[k] ELSE q[k - a]
        BY <1>1, <2>1, <2>2
    <3>2. \A k \in 1..(a + b + c) : w[k] = IF k <= a + b THEN v[k] ELSE r[k - (a + b)]
        BY <1>2, <2>2
    <3>3. CASE a = 1 /\ b = 1
      <4>1. /\ v[1] = p[1] /\ v[2] = q[1]
            /\ w[1] = v[1] /\ w[2] = v[2]
          BY <3>1, <3>2, <3>3
      <4>2. c = 1 => w[3] = r[1]
          BY <3>2, <3>3
      <4>3. QED
          BY <3>3, <4>1, <4>2
    <3>4. CASE a = 1 /\ b = 0
      <4>1. v[1] = p[1] /\ w[1] = v[1]
          BY <3>1, <3>2, <3>4
      <4>2. c = 1 => w[2] = r[1]
          BY <3>2, <3>4
      <4>3. QED
          BY <3>4, <4>1, <4>2
    <3>5. CASE a = 0 /\ b = 1
      <4>1. v[1] = q[1] /\ w[1] = v[1]
          BY <3>1, <3>2, <3>5
      <4>2. c = 1 => w[2] = r[1]
          BY <3>2, <3>5
      <4>3. QED
          BY <3>5, <4>1, <4>2
    <3>6. QED
        BY <3>3, <3>4, <3>5
  <2>5. QED
      BY <2>1, <2>3, <2>4
<1>4. QED
    BY <1>3 DEF v, w

\* The newest message wins: what the page shows, what is on its way to it and
\* the hub's latest message are in order, and a connected page to which nothing
\* is on its way shows the latest, across reconnections and restarts.
THEOREM TheNewestWins == Spec => []NewestWins
<1>1. LiveInv => NewestWins
  <2> SUFFICES ASSUME LiveInv
               PROVE  NewestWins
      OBVIOUS
  <2> DEFINE known(x) == IF x \in {None, NotSubscribed} THEN <<>> ELSE <<x.rev>>
             shown == IF page.rev = None \/ rest.at = "over" THEN <<>> ELSE <<page.rev>>
  <2>1. /\ page.rev # None => page.rev \in Int
        /\ hub.latest # None => hub.latest \in Message
        /\ hub.latest # None => hub.latest.rev \in Int
    <3>1. TypeOK
        BY DEF LiveInv, TypeInv
    <3>2. (page.rev # None => page.rev \in Int) /\ (hub.latest # None => hub.latest \in Message)
        BY <3>1 DEF TypeOK
    <3>3. QED
        BY <3>2 DEF Message
  <2>2. InOrder
    <3> SUFFICES ASSUME ~overlapped
                 PROVE  \A i \in 1..(Len(OnTheirWay) - 1) : OnTheirWay[i] <= OnTheirWay[i + 1]
        BY DEF InOrder
    <3>1. \/ hub.latest = None /\ known(hub.latest) = <<>>
          \/ hub.latest # None /\ known(hub.latest) = <<hub.latest.rev>>
        BY <2>1, NoneAssumption
    <3>2. known(queue) = <<>> \/ (hub.latest # None /\ known(queue) = <<hub.latest.rev>>)
        BY <3>1 DEF LiveInv, OrderInv
    <3>3. shown = <<>> \/ (ShowsMessage /\ shown = <<page.rev>>)
        BY DEF ShowsMessage
    <3>4. ShowsMessage /\ hub.latest # None => page.rev <= hub.latest.rev
        BY DEF LiveInv, OrderInv
    <3>5. OnTheirWay = shown \o known(queue) \o known(hub.latest)
        BY DEF OnTheirWay
    <3> HIDE DEF known, shown
    <3>6. /\ shown \in Seq(Int) /\ Len(shown) \in {0, 1}
          /\ Len(shown) = 1 => ShowsMessage /\ shown[1] = page.rev
      <4>1. shown = <<>> \/ (page.rev \in Int /\ shown = <<page.rev>>)
          BY <2>1, <3>3 DEF ShowsMessage
      <4>2. QED
          BY <3>3, <4>1, AtMostOne
    <3>7. /\ known(queue) \in Seq(Int) /\ Len(known(queue)) \in {0, 1}
          /\ Len(known(queue)) = 1 => hub.latest # None /\ known(queue)[1] = hub.latest.rev
      <4>1. known(queue) = <<>> \/ (hub.latest.rev \in Int /\ known(queue) = <<hub.latest.rev>>)
          BY <2>1, <3>2
      <4>2. QED
          BY <3>2, <4>1, AtMostOne
    <3>8. /\ known(hub.latest) \in Seq(Int) /\ Len(known(hub.latest)) \in {0, 1}
          /\ Len(known(hub.latest)) = 1 =>
                hub.latest # None /\ known(hub.latest)[1] = hub.latest.rev
      <4>1. \/ known(hub.latest) = <<>>
            \/ hub.latest.rev \in Int /\ known(hub.latest) = <<hub.latest.rev>>
          BY <2>1, <3>1
      <4>2. QED
          BY <3>1, <4>1, AtMostOne
    <3>9. /\ Len(shown) = 1 /\ Len(known(queue)) = 1 => shown[1] <= known(queue)[1]
          /\ Len(shown) = 1 /\ Len(known(hub.latest)) = 1 => shown[1] <= known(hub.latest)[1]
          /\ Len(known(queue)) = 1 /\ Len(known(hub.latest)) = 1 =>
                known(queue)[1] <= known(hub.latest)[1]
        BY <2>1, <3>4, <3>6, <3>7, <3>8
    <3> DEFINE q == known(queue)
               r == known(hub.latest)
    <3> HIDE DEF q, r
    <3>10. \A i \in 1..(Len(shown \o q \o r) - 1) :
               (shown \o q \o r)[i] <= (shown \o q \o r)[i + 1]
        BY <3>6, <3>7, <3>8, <3>9, InOrderOfThree DEF q, r
    <3>11. QED
        BY <3>5, <3>10 DEF q, r
  <2>3. queue = None /\ rest.at # "over" /\ hub.latest # None => page.rev = hub.latest.rev
      BY DEF LiveInv, OrderInv
  <2>4. QED
      BY <2>2, <2>3 DEF NewestWins
<1>2. QED
    BY <1>1, LiveInvariant, PTL

LEMMA SecondType ==
    ASSUME NEW ts \in Nat
    PROVE  Second(ts) \in Int
<1>1. Fractions \in Nat /\ Fractions > 0
    BY FractionsAssumption
<1>2. QED
    BY <1>1 DEF Second

\* The page's now never goes back to an earlier second, whatever comes late.
THEOREM NowOnlyAdvances == Spec => NowNeverGoesBack
<1> DEFINE Advances == page.now # None =>
                          page'.now # None /\ Second(page'.now) >= Second(page.now)
<1>1. TypeInv /\ [Next]_vars => Advances
  <2> SUFFICES ASSUME TypeInv, [Next]_vars
               PROVE  Advances
      OBVIOUS
  <2>1. page.now # None => page.now \in Nat /\ Second(page.now) \in Int
    <3>1. page.now # None => page.now \in Nat
        BY LiveAssumption DEF TypeInv, TypeOK, Timestamps
    <3>2. QED
        BY <3>1, SecondType
  <2>2. ASSUME page'.now = page.now
        PROVE  Advances
      BY <2>1, <2>2
  <2>3. ASSUME NEW message \in Message, page' = Shown(message)
        PROVE  Advances
    <3>1. page'.now = NewNow(page.now, message)
        BY <2>3 DEF Shown
    <3>2. CASE message.now # None /\ page.now # None /\ TextAfter(message.now, page.now)
      <4>1. message.now \in Nat
          BY <3>2, LiveAssumption DEF Message, Timestamps
      <4>2. Second(message.now) \in Int
          BY <4>1, SecondType
      <4>3. Second(message.now) >= Second(page.now)
          BY <2>1, <3>2, <4>2 DEF TextAfter
      <4>4. page'.now = message.now
          BY <3>1, <3>2 DEF NewNow
      <4>5. QED
          BY <3>2, <4>3, <4>4
    <3>3. CASE page.now # None /\ ~(message.now # None /\ TextAfter(message.now, page.now))
      <4>1. page'.now = page.now
          BY <3>1, <3>3 DEF NewNow
      <4>2. QED
          BY <2>2, <4>1
    <3>4. QED
        BY <3>2, <3>3
  <2>4. CASE PageDoes(OnSnapshot)
    <3>1. rest.answer \in Message /\ page' = Shown(rest.answer)
        BY <2>4 DEF PageDoes, OnSnapshot, TypeInv, TypeOK
    <3>2. QED
        BY <2>3, <3>1
  <2>5. CASE PageDoes(OnMessage)
    <3>1. queue \in Message /\ page' = Shown(queue)
        BY <2>5 DEF PageDoes, OnMessage, Connected, TypeInv, TypeOK
    <3>2. QED
        BY <2>3, <3>1
  <2>6. CASE \/ PageDoes(Stall) \/ ConnectFails \/ SocketLost \/ Restart
    <3>1. page' \in {page, [page EXCEPT !.live = FALSE]}
        BY <2>6 DEF PageDoes, Stall, ConnectFails, SocketLost, Restart, Hangup
    <3>2. page'.now = page.now
        BY <3>1 DEF TypeInv, TypeOK
    <3>3. QED
        BY <2>2, <3>2
  <2>7. CASE UNCHANGED page
      BY <2>2, <2>7
  <2>8. [Step]_vars => \/ PageDoes(OnSnapshot) \/ PageDoes(OnMessage) \/ PageDoes(Stall)
                       \/ ConnectFails \/ SocketLost \/ Restart \/ UNCHANGED page
      BY DEF Step, vars, pageVars, HubDoes, Commit, Qualify, PageDoes, AskSnapshot,
             AnswerSnapshot, Connect, SnapshotFails
  <2>9. QED
      BY <2>4, <2>5, <2>6, <2>7, <2>8, StepCases
<1>2. QED
    BY <1>1, TypeInvariant, PTL DEF Spec, NowNeverGoesBack
=============================================================================
