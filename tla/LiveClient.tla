---------------------------- MODULE LiveClient ----------------------------
(***************************************************************************)
(* A page that shows the live view (frontend/src/lib/live/useLive.ts): one *)
(* REST request when it opens, a WebSocket that it reopens whenever it     *)
(* closes, and the check for a feed that has gone quiet.                   *)
(*                                                                         *)
(* Timestamps are numbers, Fractions to a second: the multiples of         *)
(* Fractions are whole seconds.  The page compares them as text.           *)
(***************************************************************************)
EXTENDS LiveHub

CONSTANT Fractions

ASSUME FractionsAssumption == Fractions \in Nat \ {0}

VARIABLES
    page,         \* what the page shows: [now, rev: None or of what message, live]
    rest          \* the REST request: [at: see Requests, answer: None or a message]

pageVars == <<page, rest>>

\* The page's socket is open: the server has a queue for it.
Connected == queue # NotSubscribed

Requests == {"asked", "refreshing", "answered", "over"}
Request(at) == [at |-> at, answer |-> None]

Second(ts) == ts \div Fractions

\* The comparison of iso_z's texts: a whole second has no fraction in its text,
\* and the Z that follows it sorts after the point of a fraction.
TextAfter(a, b) ==
    \/ Second(a) > Second(b)
    \/ /\ Second(a) = Second(b)
       /\ b % Fractions # 0
       /\ a % Fractions = 0 \/ a > b

-----------------------------------------------------------------------------

\* nowRef after a message.
NewNowAsSent(now, message) == IF message.now # None THEN message.now ELSE now
NewNow(now, message) ==
    IF message.now # None /\ (now = None \/ TextAfter(message.now, now))
    THEN message.now ELSE now

\* applyMessage
Shown(message) ==
    [now |-> NewNow(page.now, message),
     rev |-> message.rev,
     live |-> TRUE]

\* connect, when the page opens or by the timer of onclose; the server accepts
\* and subscribes the socket.
Connect ==
    /\ ~Connected
    /\ queue' = NewQueue
    /\ UNCHANGED <<dbVars, listenVars, hub, reader, page, rest>>

\* It does not (onerror, then onclose).
ConnectFails ==
    /\ ~Connected
    /\ page' = [page EXCEPT !.live = FALSE]
    /\ UNCHANGED <<dbVars, listenVars, hubVars, rest>>

\* ws_live takes the message of its queue when the connection takes it, and the
\* page gets it.
OnMessage ==
    /\ Connected /\ queue # None
    /\ page' = Shown(queue)
    /\ queue' = None
    /\ UNCHANGED <<dbVars, listenVars, hub, reader, rest>>

\* The socket closes (onclose), and what was on its way is lost.  (ws_live only
\* notices when it sends the next message; its queue is nobody's by then.)
Hangup ==
    /\ queue' = NotSubscribed
    /\ page' = IF Connected THEN [page EXCEPT !.live = FALSE] ELSE page

SocketLost ==
    /\ Connected
    /\ Hangup
    /\ UNCHANGED <<dbVars, listenVars, hub, reader, rest>>

\* No message for STALL_MS.  (No clock here: it may be at any time.)
Stall ==
    /\ page.live
    /\ page' = [page EXCEPT !.live = FALSE]
    /\ UNCHANGED <<dbVars, listenVars, hubVars, rest>>

-----------------------------------------------------------------------------

(* GET /api/cell/live (get_live, LiveHub.snapshot).                        *)

\* The request of this page is answered with the latest message; without one,
\* it refreshes.
AskSnapshot ==
    /\ rest.at = "asked"
    /\ \/ /\ hub.latest # None
          /\ rest' = [at |-> "answered", answer |-> hub.latest]
          /\ UNCHANGED reader
       \/ /\ hub.latest = None
          /\ rest' = [rest EXCEPT !.at = "refreshing"]
          /\ reader' = [reader EXCEPT !["request"] = Reading]
    /\ UNCHANGED <<dbVars, listenVars, hub, queue, page>>

\* The refresh of a request is over: it answers with the latest message.
AnswerSnapshot ==
    /\ Publish("request")
    /\ rest' = [at |-> "answered", answer |-> hub'.latest]
    /\ UNCHANGED <<page>>

\* The database fails it: an error is the answer, which the page ignores.
SnapshotFails ==
    /\ reader["request"].at = "rev"
    /\ reader' = [reader EXCEPT !["request"] = Idle]
    /\ rest' = Request("over")
    /\ UNCHANGED <<dbVars, listenVars, hub, queue, page>>

\* The answer arrives, whatever the socket has brought before.
OnSnapshot ==
    /\ rest.at = "answered"
    /\ page' = Shown(rest.answer)
    /\ rest' = Request("over")
    /\ UNCHANGED <<dbVars, listenVars, hubVars>>

PageInit ==
    /\ page = [now |-> None, rev |-> None, live |-> FALSE]
    /\ rest = Request("asked")
=============================================================================
