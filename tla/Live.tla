-------------------------------- MODULE Live --------------------------------
(***************************************************************************)
(* The live view end to end: the collector commits and notifies, the hub   *)
(* refreshes and publishes, a page shows.  The API may restart; the        *)
(* database, the LISTEN connection and the socket may fail.                *)
(***************************************************************************)
EXTENDS LiveClient

CONSTANTS
    Instants,     \* the timestamps that last_seen_ts may have
    MaxRev,       \* bound on the transactions committed
    MaxFailures   \* bound on the failures, restarts included

ASSUME LiveAssumption ==
    /\ Instants \subseteq Nat /\ FirstSeen \in Instants \cup {None} /\ MaxRev \in Nat
    /\ MaxFailures \in Nat

VARIABLES
    failures,     \* how many there have been
    notified,     \* auxiliary: the last change that was notified
    overlapped    \* auxiliary: two refreshes have been under way together

aux == <<notified, overlapped>>
vars == <<dbVars, listenVars, hubVars, pageVars, failures, aux>>

-----------------------------------------------------------------------------

\* The progress that a transaction may record: none, or the next instant.
Progress ==
    LET ahead == {ts \in Instants : db.seen = None \/ ts > db.seen}
    IN  {None} \cup {ts \in ahead : \A other \in ahead : ts <= other}

\* CollectorStore.apply: a transaction and its notification, delivered when it
\* commits.
Commit ==
    /\ db.rev < MaxRev
    /\ \E ts \in Progress :
          /\ db' = [seen |-> Later(db.seen, ts), rev |-> db.rev + 1]
          /\ channel' = IF listener = "down" THEN channel ELSE Append(channel, ts)
    /\ notified' = db'.rev
    /\ UNCHANGED <<listener, hubVars, pageVars, failures, overlapped>>

\* The cause of a stop is given (PATCH): a change that notifies nobody.
Qualify ==
    /\ db.rev < MaxRev /\ db.seen # None
    /\ db' = [db EXCEPT !.rev = @ + 1]
    /\ UNCHANGED <<listenVars, hubVars, pageVars, failures, aux>>

\* The API dies and starts again: a new hub; requests and sockets are lost.
Restart ==
    /\ listener' = "down" /\ channel' = <<>>
    /\ hub' = HubAtStart
    /\ reader' = [who \in Readers |-> IF who = "hub" THEN Reading ELSE Idle]
    /\ Hangup
    /\ rest' = IF rest.at \in {"asked", "refreshing"} THEN Request("over") ELSE rest
    /\ UNCHANGED <<db, aux>>

Failure ==
    /\ failures < MaxFailures
    /\ failures' = failures + 1
    /\ \/ RefreshFails /\ UNCHANGED <<pageVars, aux>>
       \/ ListenerLost /\ UNCHANGED <<pageVars, aux>>
       \/ (SnapshotFails \/ SocketLost \/ ConnectFails) /\ UNCHANGED aux
       \/ Restart

Overlap == overlapped' = (overlapped \/ \A who \in Readers : reader'[who].at # "idle")

\* The tasks of the hub, those that serve the page, and the page.
HubDoes(step) == step /\ Overlap /\ UNCHANGED <<pageVars, failures, notified>>
PageDoes(step) == step /\ Overlap /\ UNCHANGED <<failures, notified>>

ListenTask == HubDoes(Listen \/ Listening \/ OnNotify)
FastTask == HubDoes(WakeUp \/ Read("hub") \/ Publish("hub"))
RestTask == HubDoes(Read("request")) \/ PageDoes(AskSnapshot \/ AnswerSnapshot \/ OnSnapshot)
SocketTask == PageDoes(Connect \/ OnMessage)
StallTask == PageDoes(Stall)

Next ==
    \/ Commit \/ Qualify
    \/ ListenTask \/ FastTask
    \/ RestTask \/ SocketTask \/ StallTask
    \/ Failure

Init ==
    /\ HubInit /\ PageInit
    /\ failures = 0
    /\ notified = 0 /\ overlapped = FALSE

Spec == Init /\ [][Next]_vars

\* Every task that can go on does: the event loops of the API and of the page
\* run, the network delivers.  Nothing is committed or fails for it.
Fairness ==
    /\ WF_vars(ListenTask) /\ WF_vars(FastTask)
    /\ WF_vars(RestTask) /\ WF_vars(SocketTask) /\ WF_vars(StallTask)

FairSpec == Spec /\ Fairness

-----------------------------------------------------------------------------

Timestamps == Instants \cup {None}

Message == [now : Timestamps, rev : 0..MaxRev]

ASSUME NoneAssumption ==
    /\ None \notin Nat
    /\ None # NotSubscribed
    /\ None \notin Message /\ NotSubscribed \notin Message

TypeOK ==
    /\ db \in [seen : Timestamps, rev : 0..MaxRev]
    /\ listener \in {"down", "sent", "on"} /\ channel \in Seq(Timestamps)
    /\ hub \in [now : Timestamps, dirty : BOOLEAN, latest : Message \cup {None},
                tasks : {"starting", "running", "over"},
                fast : {"waiting", "refreshing", "over"}]
    /\ reader \in [Readers -> [at : {"idle", "rev", "out"},
                               seen : Timestamps, rev : 0..MaxRev]]
    /\ queue \in Message \cup {None, NotSubscribed}
    /\ listener = "down" => channel = <<>>
    /\ (reader["hub"].at = "idle") = (hub.fast # "refreshing")
    /\ (reader["request"].at = "idle") = (rest.at # "refreshing")
    /\ page \in [now : Timestamps, rev : 0..MaxRev \cup {None},
                 live : BOOLEAN]
    /\ rest \in [at : Requests, answer : Message \cup {None}]
    /\ failures \in 0..MaxFailures /\ notified \in 0..MaxRev /\ overlapped \in BOOLEAN

\* No notification is lost while the hub listens: when the fast loop waits with
\* nothing to wake it up, the latest message has every change notified and is not
\* behind any payload that came, whatever was committed during a refresh or while
\* LISTEN was (re)issued (live_hub.py, _listen: "catch up on anything missed while
\* (re)connecting").  Two refreshes that overlap may publish in the wrong order.
\* Whether now also follows last_seen_ts is left open: by the description of the
\* module (live_hub.py:10-16) it does only at first, by the code (135-136) always.
WakeUpNotLost ==
    hub.fast = "waiting" /\ ~hub.dirty /\ listener = "on" /\ channel = <<>> /\ ~overlapped =>
        /\ hub.now # None => hub.latest.now # None /\ hub.latest.now >= hub.now
        /\ hub.latest.rev >= notified

\* What the page shows (unless it was the answer of its request), what is on
\* its way to it and the hub's latest message are each at least as recent as
\* the one before, across reconnections and restarts of the API: the screen
\* never goes back to an older state of the cell (_publish: "the newest snapshot
\* always wins over a stale one").
OnTheirWay ==
    LET known(x) == IF x \in {None, NotSubscribed} THEN <<>> ELSE <<x.rev>>
    IN  (IF page.rev = None \/ rest.at = "over" THEN <<>> ELSE <<page.rev>>)
            \o known(queue) \o known(hub.latest)

InOrder ==
    ~overlapped => \A i \in 1..(Len(OnTheirWay) - 1) : OnTheirWay[i] <= OnTheirWay[i + 1]

\* ... and a connected page to which nothing is on its way shows the latest
\* message, however slow its connection was: what it missed in between is not
\* the newest.
NewestWins ==
    /\ InOrder
    /\ queue = None /\ rest.at # "over" /\ hub.latest # None => page.rev = hub.latest.rev

\* The page's now never goes back to an earlier second, whatever comes late
\* (useLive.ts: "kept monotonic across the initial REST snapshot and every
\* WebSocket message").  Within a second it may: the texts it compares are not
\* ordered as the instants they stand for.
NowNeverGoesBack ==
    [][page.now # None => page'.now # None /\ Second(page'.now) >= Second(page.now)]_vars

\* The page shows all that the database has, and the hub's now.
UpToDate ==
    /\ page.rev = db.rev
    /\ (page.now = None) = (hub.now = None)
    /\ page.now # None => Second(page.now) = Second(hub.now)

\* Once nothing changes or fails any more, the page comes to show all that the
\* database has, a change that notified nobody and one that was notified while
\* nobody listened included; or the feed is dead, and the page does not claim
\* to be live.
PageCatchesUp == <>[](UpToDate \/ (hub.fast = "over" /\ ~page.live))
=============================================================================
