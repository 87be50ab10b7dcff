------------------------------ MODULE Reconnect ------------------------------
(***************************************************************************)
(* The WebSocket of one tab: ApiService's socket, its handshake watchdog,  *)
(* its retry timer, and the callbacks that start an attempt: the page      *)
(* becoming visible, the retry button, the end of a token refresh.         *)
(*                                                                         *)
(* ApiService is one object changed by one thread, so its fields are one   *)
(* record, tab, and a method is an operator from a record to a record;     *)
(* an action is what one browser callback does.  Times are left out: a     *)
(* timer that runs may fire, and the back-off only decides when.           *)
(***************************************************************************)
EXTENDS Naturals, FiniteSets

CONSTANTS
    Sockets,    \* names of WebSocket objects, numbers; a name is used again
    MaxEvents   \* bound: what user, network and server may do unasked

ASSUME SocketsAssumption == IsFiniteSet(Sockets) /\ Sockets \subseteq Nat \ {0} /\ Sockets # {}
ASSUME EventsAssumption == MaxEvents \in Nat

VARIABLES
    tab,        \* ApiService of the tab
    events,     \* unasked events so far
    gaveUp,     \* ghost: an attempt ended with a refresh that failed
    staleClose  \* ghost: a socket's close event came when another was current

reconnectVars == <<tab, events, gaveUp, staleClose>>

NoSocket == 0

SocketState == {"free", "connecting", "stalled", "open", "closing"}

\* Who waits for the refresh in flight: an attempt to connect, or a request
\* that was answered 401.
Subscriber == {"connect", "request"}

Tab == [user: BOOLEAN, token: {"none", "valid", "expired"}, stored: BOOLEAN,
        visible: BOOLEAN, flight: BOOLEAN, subs: SUBSET Subscriber,
        sock: [Sockets -> SocketState], ws: Sockets \cup {NoSocket},
        connecting: BOOLEAN, watchdog: BOOLEAN, retry: BOOLEAN,
        reconnecting: BOOLEAN, connected: BOOLEAN]

ReconnectTypeOK ==
    /\ tab \in Tab
    /\ events \in 0..MaxEvents
    /\ gaveUp \in BOOLEAN /\ staleClose \in BOOLEAN
    /\ tab.retry = tab.reconnecting
    /\ tab.flight <=> tab.subs # {}
    /\ tab.ws # NoSocket => tab.sock[tab.ws] # "free"

-----------------------------------------------------------------------------
(* ApiService's methods                                                    *)

IsOpen(c) == c.ws # NoSocket /\ c.sock[c.ws] = "open"

\* Mutant: a second attempt does not close the handshake under way.
LeavesTheSocket(c) == c.sock

\* close() of a socket whose handlers stay attached: its close event is to come.
Closing(c) == IF c.ws = NoSocket THEN c.sock ELSE [c.sock EXCEPT ![c.ws] = "closing"]

\* Mutant: the timer goes, the flag stays.
KeepsTheFlag(c) == [c EXCEPT !.retry = FALSE]

\* The retry timer and the flag that says one was asked for go together.
Unscheduled(c) == [c EXCEPT !.retry = FALSE, !.reconnecting = FALSE]

ScheduleReconnect(c) ==
    IF c.reconnecting \/ c.retry \/ c.token = "none" THEN c
    ELSE [c EXCEPT !.retry = TRUE, !.reconnecting = TRUE]

DisconnectWebSocket(c) ==
    [Unscheduled(c) EXCEPT !.connected = FALSE, !.sock = Closing(c), !.ws = NoSocket]

Logout(c) ==
    [DisconnectWebSocket(c) EXCEPT !.user = FALSE, !.token = "none", !.stored = FALSE]

\* Closed and forgotten: the handlers are detached, so no event will come.
DropSocket(c) ==
    [c EXCEPT !.ws = NoSocket, !.connecting = FALSE,
              !.sock = IF c.ws = NoSocket THEN @ ELSE [@ EXCEPT ![c.ws] = "free"]]

Free(c) == {s \in Sockets : Closing(c)[s] = "free"}

\* Bound: the names; the run has one free for every socket it makes.
NewSocket(c) == CHOOSE s \in IF Free(c) = {} THEN Sockets ELSE Free(c) : TRUE

\* Mutant: no handshake is watched.
NoWatchdog(c, throws) ==
    IF c.connecting \/ IsOpen(c) \/ c.token = "none" THEN c
    ELSE [Unscheduled(c) EXCEPT !.connecting = TRUE, !.ws = NewSocket(c),
                                !.sock = [Closing(c) EXCEPT ![NewSocket(c)] = "connecting"]]

\* A refused attempt returns; otherwise the old socket is closed and, with a
\* token, a new one is made, unless its constructor throws.
ConnectWebSocket(c, throws) ==
    LET idle == [c EXCEPT !.sock = Closing(c), !.retry = FALSE,
                          !.reconnecting = IF c.retry THEN FALSE ELSE @]
    IN  IF c.connecting \/ IsOpen(c) THEN c
        ELSE IF c.token = "none" THEN idle
        ELSE IF throws THEN ScheduleReconnect([idle EXCEPT !.watchdog = FALSE])
        ELSE [idle EXCEPT !.connecting = TRUE, !.watchdog = TRUE,
                          !.ws = NewSocket(c), !.sock[NewSocket(c)] = "connecting"]

\* One refresh in flight for all who ask.  Nothing to refresh with counts as a
\* 401, on which every caller signs out.
RefreshAccessToken(c, subscriber) ==
    IF c.flight THEN [c EXCEPT !.subs = @ \cup {subscriber}]
    ELSE IF ~c.stored THEN Logout(c)
    ELSE [c EXCEPT !.flight = TRUE, !.subs = {subscriber}]

\* With a valid token connect, with an expired one refresh it first.
ConnectOrRefresh(c, throws) ==
    IF c.token = "expired" THEN RefreshAccessToken(c, "connect")
    ELSE ConnectWebSocket(c, throws)

RetryConnection(c, throws) ==
    LET idle == [Unscheduled(c) EXCEPT !.connecting = FALSE]
    IN  IF IsOpen(c) THEN c
        ELSE IF c.token = "none" THEN Logout(idle)
        ELSE ConnectOrRefresh(idle, throws)

OnOpen(c, s) ==
    [c EXCEPT !.sock[s] = "open", !.watchdog = FALSE, !.connecting = FALSE, !.connected = TRUE]

\* The handlers know no socket: whichever closes, the fields of the current one go.
OnClose(c, s) ==
    ScheduleReconnect([c EXCEPT !.sock[s] = "free", !.watchdog = FALSE, !.ws = NoSocket,
                                !.connecting = FALSE, !.connected = FALSE])

-----------------------------------------------------------------------------
Event == events < MaxEvents /\ events' = events + 1
NoEvent == UNCHANGED events

\* The constructor reads the session from storage, ngOnInit connects.
Loaded(token) ==
    [user |-> token # "none", token |-> token, stored |-> token # "none", visible |-> TRUE,
     flight |-> FALSE, subs |-> {}, sock |-> [s \in Sockets |-> "free"], ws |-> NoSocket,
     connecting |-> FALSE, watchdog |-> FALSE, retry |-> FALSE, reconnecting |-> FALSE,
     connected |-> FALSE]

ReconnectInit ==
    /\ tab \in {Loaded("none"), RetryConnection(Loaded("valid"), FALSE),
                RetryConnection(Loaded("expired"), FALSE)}
    /\ events = 0 /\ gaveUp = FALSE /\ staleClose = FALSE

\* Something that will start an attempt, or end one, is under way.
OnItsWay(c) ==
    \/ c.retry
    \/ c.connecting /\ c.watchdog
    \/ c.flight /\ "connect" \in c.subs
    \/ \E s \in Sockets : c.sock[s] = "closing"

\* An attempt that starts makes an earlier failure of a refresh history.
Attempt(c) == tab' = c /\ gaveUp' = (gaveUp /\ ~OnItsWay(c))

Login ==
    /\ Event /\ ~tab.user
    /\ \E throws \in BOOLEAN :
           Attempt(ConnectWebSocket([tab EXCEPT !.user = TRUE, !.token = "valid", !.stored = TRUE],
                                    throws))
    /\ UNCHANGED staleClose

LogsOut ==
    /\ Event /\ tab.user
    /\ tab' = Logout(tab)
    /\ UNCHANGED <<gaveUp, staleClose>>

\* goOffline; its POST /offline is the hub's forceOffline.
Hide ==
    /\ Event /\ tab.visible
    /\ tab' = [IF tab.user THEN DisconnectWebSocket(tab) ELSE tab EXCEPT !.visible = FALSE]
    /\ UNCHANGED <<gaveUp, staleClose>>

Show ==
    /\ Event /\ ~tab.visible
    /\ LET shown == [tab EXCEPT !.visible = TRUE]
       IN  \E throws \in BOOLEAN : Attempt(IF tab.user THEN RetryConnection(shown, throws) ELSE shown)
    /\ UNCHANGED staleClose

\* The banner's button, the pull gesture, the diagnostics page.
PressRetry ==
    /\ Event /\ tab.visible /\ tab.user
    /\ \E throws \in BOOLEAN : Attempt(RetryConnection(tab, throws))
    /\ UNCHANGED staleClose

TokenExpires ==
    /\ Event /\ tab.token = "valid"
    /\ tab' = [tab EXCEPT !.token = "expired"]
    /\ UNCHANGED <<gaveUp, staleClose>>

\* localStorage is shared: a logout in another tab takes the refresh token.
OtherTabLogsOut ==
    /\ Event /\ tab.stored
    /\ tab' = [tab EXCEPT !.stored = FALSE]
    /\ UNCHANGED <<gaveUp, staleClose>>

\* authInterceptor: a request is answered 401.
Unauthorized ==
    /\ Event /\ tab.token = "expired"
    /\ tab' = RefreshAccessToken(tab, "request")
    /\ UNCHANGED <<gaveUp, staleClose>>

HandshakeDone(s) ==
    /\ NoEvent /\ tab.sock[s] = "connecting"
    /\ tab' = OnOpen(tab, s)
    /\ UNCHANGED <<gaveUp, staleClose>>

\* On a mobile network packets vanish: neither onopen nor onclose will come.
HandshakeStalls(s) ==
    /\ Event /\ tab.sock[s] = "connecting"
    /\ tab' = [tab EXCEPT !.sock[s] = "stalled"]
    /\ UNCHANGED <<gaveUp, staleClose>>

\* A socket the tab closed ends by itself; one the network ends is an event.
SocketCloses(s) ==
    /\ tab.sock[s] \notin {"free", "stalled"}
    /\ IF tab.sock[s] = "closing" THEN NoEvent ELSE Event
    /\ tab' = OnClose(tab, s)
    /\ staleClose' = (staleClose \/ tab.ws \notin {s, NoSocket})
    /\ UNCHANGED gaveUp

\* It may also cut off a handshake that is only slow; that is an event.
WatchdogFires ==
    /\ tab.watchdog
    /\ IF tab.connecting /\ tab.ws # NoSocket /\ tab.sock[tab.ws] = "connecting"
       THEN Event ELSE NoEvent
    /\ LET off == [tab EXCEPT !.watchdog = FALSE]
       IN  tab' = IF tab.connecting THEN ScheduleReconnect(DropSocket(off)) ELSE off
    /\ UNCHANGED <<gaveUp, staleClose>>

RetryTimerFires ==
    /\ tab.retry
    /\ \E throws \in BOOLEAN :
           /\ IF throws THEN Event ELSE NoEvent
           /\ Attempt(ConnectOrRefresh(Unscheduled(tab), throws))
    /\ UNCHANGED staleClose

RefreshSucceeds ==
    /\ tab.flight
    /\ LET done == [tab EXCEPT !.token = "valid", !.stored = TRUE, !.flight = FALSE, !.subs = {}]
       IN  \E throws \in BOOLEAN :
               /\ IF throws THEN Event ELSE NoEvent
               /\ Attempt(IF "connect" \in tab.subs THEN ConnectWebSocket(done, throws) ELSE done)
    /\ UNCHANGED staleClose

\* 401 signs out; any other failure is for whoever tries next.
RefreshFails ==
    /\ Event /\ tab.flight
    /\ LET done == [tab EXCEPT !.flight = FALSE, !.subs = {}]
       IN  \/ tab' = Logout(done) /\ UNCHANGED gaveUp
           \/ tab' = done /\ gaveUp' = (gaveUp \/ "connect" \in tab.subs)
    /\ UNCHANGED staleClose

Asked ==
    \/ \E s \in Sockets : HandshakeDone(s) \/ HandshakeStalls(s) \/ SocketCloses(s)
    \/ WatchdogFires \/ RetryTimerFires \/ RefreshSucceeds \/ RefreshFails

Unasked ==
    \/ Login \/ LogsOut \/ Hide \/ Show \/ PressRetry
    \/ TokenExpires \/ OtherTabLogsOut \/ Unauthorized

ReconnectNext == Asked \/ Unasked

\* The browser delivers the events it owes and runs the timers that are set.
Fairness ==
    /\ \A s \in Sockets : WF_reconnectVars(HandshakeDone(s)) /\ WF_reconnectVars(SocketCloses(s))
    /\ WF_reconnectVars(WatchdogFires)
    /\ WF_reconnectVars(RetryTimerFires)
    /\ WF_reconnectVars(RefreshSucceeds \/ RefreshFails)

ReconnectSpec == ReconnectInit /\ [][ReconnectNext]_reconnectVars /\ Fairness

-----------------------------------------------------------------------------
Live == {s \in Sockets : tab.sock[s] \in {"connecting", "stalled", "open"}}

Wanted == tab.user /\ tab.visible

\* A signed-in page the user looks at is connected or on its way there,
\* unless its last attempt ended in a refresh that failed: no order of closes,
\* watchdogs, timers and presses loses the attempt.
NeverAbandoned == Wanted /\ ~gaveUp => tab.connected \/ OnItsWay(tab)

\* The banner is truthful one way: "connected" is shown only while a socket of
\* this tab is open, whichever socket's handlers wrote the flag last.
ConnectedIsTrue == tab.connected => \E s \in Sockets : tab.sock[s] = "open"

\* connectWebSocket, the watchdog and disconnectWebSocket leave one socket: a
\* second one lives only where the close event of an old socket came late and
\* took the current one's fields.
SecondSocketNeedsStaleClose == Cardinality(Live) > 1 => staleClose

\* Whatever happens to sockets, tokens and timers, such a page gets its
\* connection back, signs out, or is left by its user.
OnlineAgain == Wanted ~> (tab.connected \/ ~Wanted \/ gaveUp)

\* docs/ws-requirements.md PWA1: the reconnect never stops altogether.  It does
\* where gaveUp says so.
ReconnectNeverStops == Wanted => tab.connected \/ OnItsWay(tab)
=============================================================================
