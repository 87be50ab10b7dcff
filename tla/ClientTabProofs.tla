--------------------------- MODULE ClientTabProofs ---------------------------
(***************************************************************************)
(* Proofs about the two parts of a browser tab that live with its socket:  *)
(* Reconnect, the socket itself, and ChatThread, the open chat.            *)
(*                                                                         *)
(* Reconnect, for any number of socket names and any bound: no order of    *)
(* callbacks loses the attempt to connect, and only a late close event     *)
(* leaves two sockets.  A method is an operator from a record to a record, *)
(* so each has a lemma: what it does to a sound record, and what it        *)
(* promises of its result.                                                 *)
(*                                                                         *)
(* ChatThread, for any chats, requests and bounds: no message is missed,   *)
(* shown twice, put in another chat or left pending, but for the overlaps  *)
(* its ghosts name.  The types come first, with a lemma for what each      *)
(* handler does to the bubbles; then one invariant at a time, each proved  *)
(* for the steps that leave the bubbles alone and for those that do not.   *)
(***************************************************************************)
EXTENDS Reconnect, ChatThread, TLAPS, FiniteSetTheorems, SequenceTheorems, NaturalsInduction

-----------------------------------------------------------------------------
(* The socket of the tab.                                                  *)

\* What every method keeps of the fields of the tab.
Sound(c) ==
    /\ c \in Tab
    /\ c.retry = c.reconnecting
    /\ c.flight <=> c.subs # {}
    /\ c.ws # NoSocket => c.sock[c.ws] # "free"
    /\ c.connecting => c.watchdog
    /\ IsOpen(c) => c.connected
    /\ c.user => c.token # "none"

LiveState == {"connecting", "stalled", "open"}

\* No socket lives but the current one.
OneSocket(c) == \A s \in Sockets : c.sock[s] \in LiveState => s = c.ws

Headed(c) == c.connected \/ OnItsWay(c)

ReconnectIndInv ==
    /\ Sound(tab)
    /\ events \in 0..MaxEvents /\ gaveUp \in BOOLEAN /\ staleClose \in BOOLEAN
    /\ ~staleClose => OneSocket(tab)
    /\ NeverAbandoned

\* What a method leaves of a tab: soundness, its page, and its one socket.
Keeps(c, r) == Sound(r) /\ (r.user => c.user) /\ r.visible = c.visible /\ (OneSocket(c) => OneSocket(r))

-----------------------------------------------------------------------------
LEMMA NamesAreNumbers == NoSocket \notin Sockets
BY SocketsAssumption DEF SocketsAssumption, NoSocket

LEMMA NewSocketIsNamed == ASSUME NEW c PROVE NewSocket(c) \in Sockets
<1> DEFINE names == IF Free(c) = {} THEN Sockets ELSE Free(c)
<1>1. names \subseteq Sockets /\ names # {}
  BY SocketsAssumption DEF SocketsAssumption, Free
<1>2. NewSocket(c) = CHOOSE s \in names : TRUE
  BY Zenon DEF NewSocket
<1> HIDE DEF names
<1>3. (CHOOSE s \in names : TRUE) \in names
  BY <1>1
<1> QED BY <1>1, <1>2, <1>3

LEMMA ClosingKeeps ==
    ASSUME NEW c \in Tab
    PROVE  /\ Closing(c) \in [Sockets -> SocketState]
           /\ \A s \in Sockets : Closing(c)[s] = IF s = c.ws THEN "closing" ELSE c.sock[s]
<1>1. c.sock \in [Sockets -> SocketState] /\ c.ws \in Sockets \cup {NoSocket}
  BY DEF Tab
<1>2. CASE c.ws = NoSocket
  BY <1>1, <1>2, NamesAreNumbers DEF Closing
<1>3. CASE c.ws \in Sockets
  <2>1. Closing(c) = [c.sock EXCEPT ![c.ws] = "closing"]
    BY <1>3, NamesAreNumbers DEF Closing
  <2> QED BY <1>1, <1>3, <2>1 DEF SocketState
<1> QED BY <1>1, <1>2, <1>3

LEMMA UnscheduledKeeps ==
    ASSUME NEW c, Sound(c)
    PROVE  /\ Keeps(c, Unscheduled(c))
           /\ Unscheduled(c).token = c.token /\ Unscheduled(c).user = c.user
           /\ IsOpen(Unscheduled(c)) = IsOpen(c)
<1> DEFINE r == Unscheduled(c)
<1>1. /\ r \in Tab /\ r.retry = FALSE /\ r.reconnecting = FALSE
      /\ r.flight = c.flight /\ r.subs = c.subs /\ r.ws = c.ws /\ r.sock = c.sock
      /\ r.connecting = c.connecting /\ r.watchdog = c.watchdog /\ r.connected = c.connected
      /\ r.user = c.user /\ r.token = c.token /\ r.visible = c.visible
  BY DEF Sound, Unscheduled, Tab
<1> HIDE DEF r
<1>2. IsOpen(r) = IsOpen(c) /\ (OneSocket(c) => OneSocket(r))
  BY <1>1 DEF IsOpen, OneSocket
<1>3. Sound(r)
  BY <1>1, <1>2 DEF Sound
<1> QED BY <1>1, <1>2, <1>3 DEF Keeps, r

LEMMA ScheduleKeeps ==
    ASSUME NEW c, Sound(c)
    PROVE  /\ Keeps(c, ScheduleReconnect(c))
           /\ c.token # "none" => Headed(ScheduleReconnect(c))
<1> DEFINE r == ScheduleReconnect(c)
<1>1. CASE c.reconnecting \/ c.retry \/ c.token = "none"
  BY <1>1 DEF ScheduleReconnect, Keeps, Sound, Headed, OnItsWay
<1>2. CASE ~(c.reconnecting \/ c.retry \/ c.token = "none")
  <2>1. /\ r \in Tab /\ r.retry /\ r.reconnecting
        /\ r.flight = c.flight /\ r.subs = c.subs /\ r.connecting = c.connecting /\ r.watchdog = c.watchdog
        /\ r.user = c.user /\ r.token = c.token /\ r.visible = c.visible /\ r.connected = c.connected
        /\ r.ws = c.ws /\ r.sock = c.sock
    BY <1>2 DEF Sound, ScheduleReconnect, Tab
  <2> HIDE DEF r
  <2>2. Keeps(c, r) /\ Headed(r)
    BY <2>1 DEF Keeps, Sound, OneSocket, IsOpen, Headed, OnItsWay
  <2> QED BY <2>2 DEF r
<1> QED BY <1>1, <1>2

LEMMA DisconnectKeeps ==
    ASSUME NEW c, Sound(c)
    PROVE  Keeps(c, DisconnectWebSocket(c))
<1> DEFINE r == DisconnectWebSocket(c)
<1>a. c \in Tab /\ Unscheduled(c) = [c EXCEPT !.retry = FALSE, !.reconnecting = FALSE]
  BY DEF Sound, Unscheduled
<1>b. r = [Unscheduled(c) EXCEPT !.connected = FALSE, !.sock = Closing(c), !.ws = NoSocket]
  BY DEF DisconnectWebSocket
<1> HIDE DEF r
<1>1. /\ r \in Tab /\ r.ws = NoSocket /\ r.retry = r.reconnecting
      /\ r.flight = c.flight /\ r.subs = c.subs /\ r.connecting = c.connecting /\ r.watchdog = c.watchdog
      /\ r.user = c.user /\ r.token = c.token /\ r.visible = c.visible /\ r.sock = Closing(c)
  <2> DEFINE sock == Closing(c)
  <2>1. sock \in [Sockets -> SocketState]
    BY <1>a, ClosingKeeps
  <2> HIDE DEF sock
  <2>2. /\ r \in Tab /\ r.ws = NoSocket /\ r.retry = r.reconnecting
        /\ r.flight = c.flight /\ r.subs = c.subs /\ r.connecting = c.connecting /\ r.watchdog = c.watchdog
        /\ r.user = c.user /\ r.token = c.token /\ r.visible = c.visible /\ r.sock = sock
    <3>1. Unscheduled(c) \in Tab
      BY <1>a DEF Tab
    <3>2. /\ Unscheduled(c).retry = FALSE /\ Unscheduled(c).reconnecting = FALSE
          /\ Unscheduled(c).flight = c.flight /\ Unscheduled(c).subs = c.subs
          /\ Unscheduled(c).connecting = c.connecting /\ Unscheduled(c).watchdog = c.watchdog
          /\ Unscheduled(c).user = c.user /\ Unscheduled(c).token = c.token
          /\ Unscheduled(c).visible = c.visible
      BY <1>a DEF Tab
    <3>3. r = [Unscheduled(c) EXCEPT !.connected = FALSE, !.sock = sock, !.ws = NoSocket]
      BY <1>b DEF sock
    <3> QED BY <2>1, <3>1, <3>2, <3>3 DEF Tab
  <2> QED BY <2>2 DEF sock
<1>2. OneSocket(c) => OneSocket(r)
  BY <1>1, ClosingKeeps DEF Sound, OneSocket, LiveState
<1> QED BY <1>1, <1>2 DEF Keeps, Sound, IsOpen, r

LEMMA LogoutKeeps ==
    ASSUME NEW c, Sound(c)
    PROVE  Keeps(c, Logout(c)) /\ ~Logout(c).user
<1> DEFINE u == DisconnectWebSocket(c)
           r == Logout(c)
<1>1. Keeps(c, u)
  BY DisconnectKeeps
<1>2. r = [u EXCEPT !.user = FALSE, !.token = "none", !.stored = FALSE]
  BY DEF Logout
<1> HIDE DEF u, r
<1>3. /\ r \in Tab /\ r.user = FALSE /\ r.retry = u.retry /\ r.reconnecting = u.reconnecting
      /\ r.flight = u.flight /\ r.subs = u.subs /\ r.ws = u.ws /\ r.sock = u.sock
      /\ r.connecting = u.connecting /\ r.watchdog = u.watchdog
      /\ r.connected = u.connected /\ r.visible = u.visible
  BY <1>1, <1>2 DEF Keeps, Sound, Tab
<1> QED BY <1>1, <1>3 DEF Keeps, Sound, IsOpen, OneSocket, r

LEMMA ConnectKeeps ==
    ASSUME NEW c, Sound(c), NEW throws \in BOOLEAN
    PROVE  /\ Keeps(c, ConnectWebSocket(c, throws))
           /\ c.token # "none" => Headed(ConnectWebSocket(c, throws))
<1> DEFINE idle == [c EXCEPT !.sock = Closing(c), !.retry = FALSE,
                             !.reconnecting = IF c.retry THEN FALSE ELSE @]
           off == [idle EXCEPT !.watchdog = FALSE]
           new == [idle EXCEPT !.connecting = TRUE, !.watchdog = TRUE,
                               !.ws = NewSocket(c), !.sock[NewSocket(c)] = "connecting"]
           r == ConnectWebSocket(c, throws)
<1>1. CASE c.connecting \/ IsOpen(c)
  BY <1>1 DEF ConnectWebSocket, Keeps, Sound, Headed, OnItsWay
<1>2. CASE ~c.connecting /\ ~IsOpen(c)
  <2>1. /\ idle \in Tab /\ idle.retry = FALSE /\ idle.reconnecting = FALSE
        /\ idle.flight = c.flight /\ idle.subs = c.subs /\ idle.connecting = c.connecting
        /\ idle.user = c.user /\ idle.token = c.token /\ idle.visible = c.visible
        /\ idle.ws = c.ws /\ idle.sock = Closing(c)
    BY ClosingKeeps DEF Sound, Tab
  <2>2. Keeps(c, idle)
    <3>1. OneSocket(c) => OneSocket(idle)
      BY <2>1, ClosingKeeps DEF Sound, OneSocket, LiveState
    <3> QED BY <1>2, <2>1, <3>1, ClosingKeeps, NamesAreNumbers DEF Keeps, Sound, IsOpen, Tab
  <2>3. Keeps(c, off)
    <3>1. /\ off \in Tab /\ off.retry = FALSE /\ off.reconnecting = FALSE
          /\ off.flight = c.flight /\ off.subs = c.subs /\ ~off.connecting
          /\ off.user = c.user /\ off.token = c.token /\ off.visible = c.visible
          /\ off.ws = idle.ws /\ off.sock = idle.sock /\ off.connected = idle.connected
      <4> HIDE DEF idle
      <4> QED BY <1>2, <2>1 DEF Tab
    <3> HIDE DEF idle, off
    <3>2. Sound(off)
      BY <2>2, <3>1 DEF Keeps, Sound, IsOpen
    <3>3. OneSocket(idle) => OneSocket(off)
      BY <3>1 DEF OneSocket
    <3> QED BY <2>2, <3>1, <3>2, <3>3 DEF Keeps
  <2>4. Keeps(c, new) /\ Headed(new)
    <3>1. /\ new \in Tab /\ new.retry = FALSE /\ new.reconnecting = FALSE
          /\ new.flight = c.flight /\ new.subs = c.subs /\ new.connecting /\ new.watchdog
          /\ new.user = c.user /\ new.token = c.token /\ new.visible = c.visible
          /\ new.ws = NewSocket(c) /\ new.sock = [idle.sock EXCEPT ![NewSocket(c)] = "connecting"]
      <4> DEFINE sock == [idle.sock EXCEPT ![NewSocket(c)] = "connecting"]
      <4>1. sock \in [Sockets -> SocketState]
        BY <2>1, NewSocketIsNamed, ClosingKeeps DEF Sound, SocketState
      <4>2. new = [idle EXCEPT !.connecting = TRUE, !.watchdog = TRUE, !.ws = NewSocket(c), !.sock = sock]
        BY <2>1 DEF Tab
      <4> HIDE DEF idle, new, sock
      <4>3. /\ new \in Tab /\ new.retry = idle.retry /\ new.reconnecting = idle.reconnecting
            /\ new.flight = idle.flight /\ new.subs = idle.subs /\ new.connecting /\ new.watchdog
            /\ new.user = idle.user /\ new.token = idle.token /\ new.visible = idle.visible
            /\ new.ws = NewSocket(c) /\ new.sock = sock
        BY <2>1, <4>1, <4>2, NewSocketIsNamed DEF Tab
      <4> QED BY <2>1, <4>3 DEF sock
    <3> HIDE DEF new
    <3>2. \A s \in Sockets : new.sock[s] = IF s = new.ws THEN "connecting" ELSE Closing(c)[s]
      BY <2>1, <3>1, ClosingKeeps, NewSocketIsNamed DEF Sound
    <3>3. OneSocket(c) => OneSocket(new)
      BY <3>2, ClosingKeeps DEF Sound, OneSocket, LiveState
    <3>4. new.sock[new.ws] = "connecting"
      BY <3>1, <3>2, NewSocketIsNamed
    <3>5. Sound(new)
      <4> HIDE DEF idle
      <4>1. (new.flight <=> new.subs # {}) /\ (new.user => new.token # "none")
        BY <3>1 DEF Sound
      <4>2. new.sock[new.ws] # "free" /\ ~IsOpen(new)
        BY <3>4 DEF IsOpen
      <4> QED BY <3>1, <4>1, <4>2 DEF Sound
    <3> QED BY <3>1, <3>3, <3>5 DEF Keeps, Sound, Headed, OnItsWay
  <2>5. r = IF c.token = "none" THEN idle ELSE IF throws THEN ScheduleReconnect(off) ELSE new
    BY <1>2 DEF ConnectWebSocket
  <2>6. off.token = c.token
    BY <2>1 DEF Tab
  <2> HIDE DEF idle, off, new, r
  <2>7. Keeps(off, ScheduleReconnect(off)) /\ (c.token # "none" => Headed(ScheduleReconnect(off)))
    BY <2>3, <2>6, ScheduleKeeps DEF Keeps
  <2> QED BY <2>2, <2>3, <2>4, <2>5, <2>7 DEF Keeps, r
<1> QED BY <1>1, <1>2

LEMMA RefreshKeeps ==
    ASSUME NEW c, Sound(c), NEW subscriber \in Subscriber
    PROVE  /\ Keeps(c, RefreshAccessToken(c, subscriber))
           /\ RefreshAccessToken(c, subscriber).user =>
                  /\ Headed(c) => Headed(RefreshAccessToken(c, subscriber))
                  /\ subscriber = "connect" => Headed(RefreshAccessToken(c, subscriber))
<1> DEFINE asks == [c EXCEPT !.subs = @ \cup {subscriber}]
           starts == [c EXCEPT !.flight = TRUE, !.subs = {subscriber}]
<1>1. /\ asks \in Tab /\ starts \in Tab
      /\ asks.subs = c.subs \cup {subscriber} /\ starts.flight /\ starts.subs = {subscriber}
      /\ asks.flight = c.flight
  BY DEF Sound, Tab
<1>2. ASSUME NEW r \in {asks, starts}
      PROVE  /\ r.user = c.user /\ r.token = c.token /\ r.visible = c.visible
             /\ r.ws = c.ws /\ r.sock = c.sock /\ r.connecting = c.connecting /\ r.watchdog = c.watchdog
             /\ r.retry = c.retry /\ r.reconnecting = c.reconnecting /\ r.connected = c.connected
  BY DEF Sound, Tab
<1> HIDE DEF asks, starts
<1>3. CASE c.flight
  <2>1. Keeps(c, asks)
    BY <1>1, <1>2, <1>3 DEF Keeps, Sound, IsOpen, OneSocket
  <2>2. (Headed(c) => Headed(asks)) /\ (subscriber = "connect" => Headed(asks))
    BY <1>1, <1>2, <1>3 DEF Headed, OnItsWay
  <2> QED BY <1>3, <2>1, <2>2 DEF RefreshAccessToken, asks
<1>4. CASE ~c.flight /\ ~c.stored
  BY <1>4, LogoutKeeps DEF RefreshAccessToken
<1>5. CASE ~c.flight /\ c.stored
  <2>1. Keeps(c, starts)
    BY <1>1, <1>2, <1>5 DEF Keeps, Sound, IsOpen, OneSocket
  <2>2. (Headed(c) => Headed(starts)) /\ (subscriber = "connect" => Headed(starts))
    BY <1>1, <1>2, <1>5 DEF Headed, OnItsWay
  <2> QED BY <1>5, <2>1, <2>2 DEF RefreshAccessToken, starts
<1> QED BY <1>3, <1>4, <1>5

\* An attempt ends in a sound tab that, if still signed in, is headed for a
\* connection.
LEMMA ConnectOrRefreshKeeps ==
    ASSUME NEW c, Sound(c), NEW throws \in BOOLEAN
    PROVE  /\ Keeps(c, ConnectOrRefresh(c, throws))
           /\ ConnectOrRefresh(c, throws).user => Headed(ConnectOrRefresh(c, throws))
<1>1. CASE c.token = "expired"
  BY <1>1, RefreshKeeps DEF ConnectOrRefresh, Subscriber
<1>2. CASE c.token # "expired"
  BY <1>2, ConnectKeeps DEF ConnectOrRefresh, Keeps, Sound
<1> QED BY <1>1, <1>2

LEMMA RetryKeeps ==
    ASSUME NEW c, Sound(c), NEW throws \in BOOLEAN
    PROVE  /\ Keeps(c, RetryConnection(c, throws))
           /\ RetryConnection(c, throws).user => Headed(RetryConnection(c, throws))
<1> DEFINE idle == [Unscheduled(c) EXCEPT !.connecting = FALSE]
<1>1. Keeps(c, idle)
  <2> DEFINE u == Unscheduled(c)
  <2>1. Keeps(c, u)
    BY UnscheduledKeeps
  <2>2. idle = [u EXCEPT !.connecting = FALSE]
    OBVIOUS
  <2> HIDE DEF idle, u
  <2>3. /\ idle \in Tab /\ idle.user = u.user /\ idle.token = u.token /\ idle.retry = u.retry
        /\ idle.reconnecting = u.reconnecting /\ idle.flight = u.flight /\ idle.subs = u.subs
        /\ idle.ws = u.ws /\ idle.sock = u.sock /\ idle.connecting = FALSE
        /\ idle.connected = u.connected /\ idle.visible = u.visible
    BY <2>1, <2>2 DEF Keeps, Sound, Tab
  <2> QED BY <2>1, <2>3 DEF Keeps, Sound, IsOpen, OneSocket
<1>2. RetryConnection(c, throws) = IF IsOpen(c) THEN c
                                   ELSE IF c.token = "none" THEN Logout(idle)
                                   ELSE ConnectOrRefresh(idle, throws)
  BY DEF RetryConnection
<1> HIDE DEF idle
<1>3. CASE IsOpen(c)
  BY <1>2, <1>3 DEF Keeps, Sound, Headed
<1>4. CASE ~IsOpen(c) /\ c.token = "none"
  BY <1>1, <1>2, <1>4, LogoutKeeps DEF Keeps
<1>5. CASE ~IsOpen(c) /\ c.token # "none"
  BY <1>1, <1>2, <1>5, ConnectOrRefreshKeeps DEF Keeps
<1> QED BY <1>3, <1>4, <1>5

-----------------------------------------------------------------------------
(* The steps                                                               *)

\* A step keeps the invariant when it leaves the tab sound, a second socket
\* excused and a wanted connection under way.
LEMMA StepKeeps ==
    ASSUME ReconnectIndInv, Event \/ NoEvent, gaveUp' \in BOOLEAN, staleClose' \in BOOLEAN,
           Sound(tab'), ~staleClose' => OneSocket(tab'),
           tab'.user /\ tab'.visible /\ ~gaveUp' => Headed(tab')
    PROVE  ReconnectIndInv'
<1>1. events' \in 0..MaxEvents
  BY EventsAssumption DEF ReconnectIndInv, Event, NoEvent, EventsAssumption
<1>2. NeverAbandoned'
  BY DEF NeverAbandoned, Wanted, Headed, OnItsWay
<1>3. Sound(tab)' /\ (~staleClose => OneSocket(tab))'
  BY DEF Sound, OneSocket, IsOpen
<1> QED BY <1>1, <1>2, <1>3 DEF ReconnectIndInv

\* An attempt is under way when it ends, or the tab was headed nowhere before.
LEMMA AttemptKeeps ==
    ASSUME ReconnectIndInv, Event \/ NoEvent, staleClose' = staleClose, NEW c, Attempt(c),
           Sound(c), OneSocket(tab) => OneSocket(c),
           c.user /\ c.visible => Headed(c) \/ (Wanted /\ ~Headed(tab))
    PROVE  ReconnectIndInv'
<1>1. tab' = c /\ gaveUp' = (gaveUp /\ ~OnItsWay(c))
  BY DEF Attempt
<1>2. gaveUp' \in BOOLEAN /\ staleClose' \in BOOLEAN
  BY <1>1 DEF ReconnectIndInv
<1>3. ~staleClose' => OneSocket(tab')
  BY <1>1 DEF ReconnectIndInv
<1>4. c.user /\ c.visible /\ ~gaveUp' => Headed(c)
  BY <1>1 DEF ReconnectIndInv, NeverAbandoned, Headed
<1> QED BY <1>1, <1>2, <1>3, <1>4, StepKeeps

LEMMA LoginStep ==
    ASSUME ReconnectIndInv, Login
    PROVE  ReconnectIndInv'
<1> DEFINE in == [tab EXCEPT !.user = TRUE, !.token = "valid", !.stored = TRUE]
<1>1. PICK throws \in BOOLEAN : Attempt(ConnectWebSocket(in, throws))
  BY DEF Login
<1>2. /\ in \in Tab /\ in.token = "valid" /\ in.retry = tab.retry /\ in.reconnecting = tab.reconnecting
      /\ in.flight = tab.flight /\ in.subs = tab.subs /\ in.ws = tab.ws /\ in.sock = tab.sock
      /\ in.connecting = tab.connecting /\ in.watchdog = tab.watchdog /\ in.connected = tab.connected
  BY DEF ReconnectIndInv, Sound, Tab
<1> HIDE DEF in
<1>3. Sound(in) /\ (OneSocket(tab) => OneSocket(in))
  BY <1>2 DEF ReconnectIndInv, Sound, OneSocket, IsOpen
<1> DEFINE r == ConnectWebSocket(in, throws)
<1>4. Keeps(in, r) /\ Headed(r)
  BY <1>2, <1>3, ConnectKeeps
<1> HIDE DEF r
<1>5. Attempt(r) /\ Event /\ staleClose' = staleClose
  BY <1>1 DEF Login, r
<1> QED BY <1>3, <1>4, <1>5, AttemptKeeps DEF Keeps

\* A sound tab without a user, left by a logout.
LEMMA SignedOutKeeps ==
    ASSUME ReconnectIndInv, Event \/ NoEvent, NEW c, Sound(c), OneSocket(tab) => OneSocket(c),
           tab' = Logout(c), gaveUp' = gaveUp, staleClose' = staleClose
    PROVE  ReconnectIndInv'
<1>1. Sound(tab') /\ ~tab'.user /\ (OneSocket(tab) => OneSocket(tab'))
  BY LogoutKeeps DEF Keeps
<1> QED BY <1>1, StepKeeps DEF ReconnectIndInv

LEMMA LogsOutStep ==
    ASSUME ReconnectIndInv, LogsOut
    PROVE  ReconnectIndInv'
BY SignedOutKeeps DEF LogsOut, ReconnectIndInv

LEMMA HideStep ==
    ASSUME ReconnectIndInv, Hide
    PROVE  ReconnectIndInv'
<1> DEFINE c == IF tab.user THEN DisconnectWebSocket(tab) ELSE tab
<1>1. Sound(c) /\ (OneSocket(tab) => OneSocket(c))
  BY DisconnectKeeps DEF ReconnectIndInv, Keeps
<1>2. tab' = [c EXCEPT !.visible = FALSE]
  BY DEF Hide
<1> HIDE DEF c
<1>3. /\ tab' \in Tab /\ tab'.user = c.user /\ tab'.token = c.token /\ tab'.retry = c.retry
      /\ tab'.reconnecting = c.reconnecting /\ tab'.flight = c.flight /\ tab'.subs = c.subs
      /\ tab'.ws = c.ws /\ tab'.sock = c.sock /\ tab'.connecting = c.connecting
      /\ tab'.watchdog = c.watchdog /\ tab'.connected = c.connected /\ ~tab'.visible
  BY <1>1, <1>2 DEF Sound, Tab
<1>4. Sound(tab') /\ (OneSocket(c) => OneSocket(tab'))
  BY <1>1, <1>3 DEF Sound, OneSocket, IsOpen
<1>5. Event /\ gaveUp' = gaveUp /\ staleClose' = staleClose
  BY DEF Hide
<1> QED BY <1>1, <1>3, <1>4, <1>5, StepKeeps DEF ReconnectIndInv

LEMMA ShowStep ==
    ASSUME ReconnectIndInv, Show
    PROVE  ReconnectIndInv'
<1> DEFINE shown == [tab EXCEPT !.visible = TRUE]
<1>1. PICK throws \in BOOLEAN : Attempt(IF tab.user THEN RetryConnection(shown, throws) ELSE shown)
  BY DEF Show
<1>2. /\ shown \in Tab /\ shown.user = tab.user /\ shown.token = tab.token /\ shown.retry = tab.retry
      /\ shown.reconnecting = tab.reconnecting /\ shown.flight = tab.flight /\ shown.subs = tab.subs
      /\ shown.ws = tab.ws /\ shown.sock = tab.sock /\ shown.connecting = tab.connecting
      /\ shown.watchdog = tab.watchdog /\ shown.connected = tab.connected
  BY DEF ReconnectIndInv, Sound, Tab
<1> HIDE DEF shown
<1>3. Sound(shown) /\ (OneSocket(tab) => OneSocket(shown))
  BY <1>2 DEF ReconnectIndInv, Sound, OneSocket, IsOpen
<1> DEFINE r == IF tab.user THEN RetryConnection(shown, throws) ELSE shown
<1>4. Sound(r) /\ (OneSocket(tab) => OneSocket(r)) /\ (r.user => Headed(r))
  BY <1>2, <1>3, RetryKeeps DEF Keeps
<1>5. Attempt(r) /\ Event /\ staleClose' = staleClose
  BY <1>1 DEF Show
<1> HIDE DEF r
<1> QED BY <1>4, <1>5, AttemptKeeps

LEMMA PressRetryStep ==
    ASSUME ReconnectIndInv, PressRetry
    PROVE  ReconnectIndInv'
<1>1. PICK throws \in BOOLEAN : Attempt(RetryConnection(tab, throws))
  BY DEF PressRetry
<1> DEFINE r == RetryConnection(tab, throws)
<1>2. Keeps(tab, r) /\ (r.user => Headed(r))
  BY RetryKeeps DEF ReconnectIndInv
<1>3. Attempt(r) /\ Event /\ staleClose' = staleClose
  BY <1>1 DEF PressRetry
<1> HIDE DEF r
<1> QED BY <1>2, <1>3, AttemptKeeps DEF Keeps

\* A step of the network or another tab that touches neither the user nor
\* what is on its way.
LEMMA TokenStep ==
    ASSUME ReconnectIndInv, TokenExpires \/ OtherTabLogsOut
    PROVE  ReconnectIndInv'
<1>1. /\ tab' \in Tab /\ tab'.user = tab.user /\ (tab.token # "none" => tab'.token # "none")
      /\ tab'.retry = tab.retry /\ tab'.visible = tab.visible
      /\ tab'.reconnecting = tab.reconnecting /\ tab'.flight = tab.flight /\ tab'.subs = tab.subs
      /\ tab'.ws = tab.ws /\ tab'.sock = tab.sock /\ tab'.connecting = tab.connecting
      /\ tab'.watchdog = tab.watchdog /\ tab'.connected = tab.connected
  <2>1. CASE TokenExpires
    BY <2>1 DEF TokenExpires, ReconnectIndInv, Sound, Tab
  <2>2. CASE OtherTabLogsOut
    BY <2>2 DEF OtherTabLogsOut, ReconnectIndInv, Sound, Tab
  <2> QED BY <2>1, <2>2
<1>2. Sound(tab') /\ (OneSocket(tab) => OneSocket(tab')) /\ (Headed(tab) => Headed(tab'))
  BY <1>1 DEF ReconnectIndInv, Sound, OneSocket, IsOpen, Headed, OnItsWay
<1>3. Event /\ gaveUp' = gaveUp /\ staleClose' = staleClose
  BY DEF TokenExpires, OtherTabLogsOut
<1> QED BY <1>1, <1>2, <1>3, StepKeeps DEF ReconnectIndInv, NeverAbandoned, Wanted, Headed

LEMMA UnauthorizedStep ==
    ASSUME ReconnectIndInv, Unauthorized
    PROVE  ReconnectIndInv'
<1>1. Event /\ gaveUp' = gaveUp /\ staleClose' = staleClose /\ tab' = RefreshAccessToken(tab, "request")
  BY DEF Unauthorized
<1>2. Keeps(tab, tab') /\ (tab'.user => (Headed(tab) => Headed(tab')))
  BY <1>1, RefreshKeeps DEF ReconnectIndInv, Subscriber
<1> QED BY <1>1, <1>2, StepKeeps DEF ReconnectIndInv, NeverAbandoned, Wanted, Headed, Keeps

LEMMA HandshakeDoneStep ==
    ASSUME ReconnectIndInv, NEW s \in Sockets, HandshakeDone(s)
    PROVE  ReconnectIndInv'
<1>1. tab' = OnOpen(tab, s) /\ NoEvent /\ gaveUp' = gaveUp /\ staleClose' = staleClose
  BY DEF HandshakeDone
<1>2. /\ tab' \in Tab /\ tab'.user = tab.user /\ tab'.token = tab.token /\ tab'.retry = tab.retry
      /\ tab'.reconnecting = tab.reconnecting /\ tab'.flight = tab.flight /\ tab'.subs = tab.subs
      /\ tab'.ws = tab.ws /\ tab'.sock = [tab.sock EXCEPT ![s] = "open"] /\ tab'.connecting = FALSE
      /\ tab'.connected = TRUE
  BY <1>1 DEF OnOpen, ReconnectIndInv, Sound, Tab, SocketState
<1>3. \A u \in Sockets : tab'.sock[u] = IF u = s THEN "open" ELSE tab.sock[u]
  BY <1>2 DEF ReconnectIndInv, Sound, Tab
<1>4. Sound(tab')
  <2>1. tab'.ws # NoSocket => tab'.sock[tab'.ws] # "free"
    BY <1>2, <1>3 DEF ReconnectIndInv, Sound, Tab
  <2> QED BY <1>2, <2>1 DEF ReconnectIndInv, Sound
<1>5. OneSocket(tab) => OneSocket(tab')
  BY <1>2, <1>3 DEF OneSocket, LiveState, HandshakeDone
<1> QED BY <1>1, <1>2, <1>4, <1>5, StepKeeps DEF ReconnectIndInv, Headed

LEMMA HandshakeStallsStep ==
    ASSUME ReconnectIndInv, NEW s \in Sockets, HandshakeStalls(s)
    PROVE  ReconnectIndInv'
<1>1. /\ tab' = [tab EXCEPT !.sock[s] = "stalled"] /\ tab.sock[s] = "connecting"
      /\ Event /\ gaveUp' = gaveUp /\ staleClose' = staleClose
  BY DEF HandshakeStalls
<1>2. /\ tab' \in Tab /\ tab'.user = tab.user /\ tab'.token = tab.token /\ tab'.retry = tab.retry
      /\ tab'.reconnecting = tab.reconnecting /\ tab'.flight = tab.flight /\ tab'.subs = tab.subs
      /\ tab'.ws = tab.ws /\ tab'.sock = [tab.sock EXCEPT ![s] = "stalled"] /\ tab'.visible = tab.visible
      /\ tab'.connecting = tab.connecting /\ tab'.watchdog = tab.watchdog /\ tab'.connected = tab.connected
  BY <1>1 DEF ReconnectIndInv, Sound, Tab, SocketState
<1>3. \A u \in Sockets : tab'.sock[u] = IF u = s THEN "stalled" ELSE tab.sock[u]
  BY <1>2 DEF ReconnectIndInv, Sound, Tab
<1>4. Sound(tab')
  <2>1. /\ tab'.ws # NoSocket => tab'.sock[tab'.ws] # "free"
        /\ IsOpen(tab') => tab'.connected
    BY <1>2, <1>3 DEF ReconnectIndInv, Sound, Tab, IsOpen
  <2> QED BY <1>2, <2>1 DEF ReconnectIndInv, Sound
<1>5. OneSocket(tab) => OneSocket(tab')
  BY <1>1, <1>2, <1>3 DEF OneSocket, LiveState
<1>6. Headed(tab) => Headed(tab')
  BY <1>1, <1>2, <1>3 DEF Headed, OnItsWay
<1> QED BY <1>1, <1>2, <1>4, <1>5, <1>6, StepKeeps DEF ReconnectIndInv, NeverAbandoned, Wanted, Headed

LEMMA SocketClosesStep ==
    ASSUME ReconnectIndInv, NEW s \in Sockets, SocketCloses(s)
    PROVE  ReconnectIndInv'
<1> DEFINE c == [tab EXCEPT !.sock[s] = "free", !.watchdog = FALSE, !.ws = NoSocket,
                            !.connecting = FALSE, !.connected = FALSE]
<1>1. /\ tab' = ScheduleReconnect(c) /\ (Event \/ NoEvent) /\ gaveUp' = gaveUp
      /\ staleClose' = (staleClose \/ tab.ws \notin {s, NoSocket})
  BY DEF SocketCloses, OnClose
<1>2. /\ c \in Tab /\ c.user = tab.user /\ c.token = tab.token /\ c.retry = tab.retry
      /\ c.reconnecting = tab.reconnecting /\ c.flight = tab.flight /\ c.subs = tab.subs
      /\ c.ws = NoSocket /\ c.sock = [tab.sock EXCEPT ![s] = "free"] /\ c.connecting = FALSE
  BY DEF ReconnectIndInv, Sound, Tab, SocketState
<1> HIDE DEF c
<1>3. \A u \in Sockets : c.sock[u] = IF u = s THEN "free" ELSE tab.sock[u]
  BY <1>2 DEF ReconnectIndInv, Sound, Tab
<1>4. Sound(c)
  BY <1>2 DEF ReconnectIndInv, Sound, IsOpen
<1>5. ~staleClose' => OneSocket(c)
  BY <1>1, <1>2, <1>3, NamesAreNumbers DEF ReconnectIndInv, OneSocket, LiveState
<1>6. Keeps(c, tab') /\ (tab'.user => Headed(tab'))
  BY <1>1, <1>4, ScheduleKeeps DEF Keeps, Sound
<1>7. gaveUp' \in BOOLEAN /\ staleClose' \in BOOLEAN
  BY <1>1 DEF ReconnectIndInv
<1> QED BY <1>1, <1>5, <1>6, <1>7, StepKeeps DEF Keeps

LEMMA WatchdogStep ==
    ASSUME ReconnectIndInv, WatchdogFires
    PROVE  ReconnectIndInv'
<1> DEFINE off == [tab EXCEPT !.watchdog = FALSE]
           c == DropSocket(off)
<1>1. /\ tab' = (IF tab.connecting THEN ScheduleReconnect(c) ELSE off)
      /\ (Event \/ NoEvent) /\ gaveUp' = gaveUp /\ staleClose' = staleClose
  BY DEF WatchdogFires
<1>2. /\ off \in Tab /\ off.user = tab.user /\ off.token = tab.token /\ off.retry = tab.retry
      /\ off.reconnecting = tab.reconnecting /\ off.flight = tab.flight /\ off.subs = tab.subs
      /\ off.ws = tab.ws /\ off.sock = tab.sock /\ off.visible = tab.visible
      /\ off.connecting = tab.connecting /\ off.connected = tab.connected
  BY DEF ReconnectIndInv, Sound, Tab
<1>3. /\ c \in Tab /\ c.user = off.user /\ c.token = off.token /\ c.retry = off.retry
      /\ c.reconnecting = off.reconnecting /\ c.flight = off.flight /\ c.subs = off.subs
      /\ c.ws = NoSocket /\ c.connecting = FALSE
      /\ c.sock = IF off.ws = NoSocket THEN off.sock ELSE [off.sock EXCEPT ![off.ws] = "free"]
  <2> HIDE DEF off
  <2> QED BY <1>2 DEF DropSocket, Tab, SocketState
<1> HIDE DEF off, c
<1>4. CASE tab.connecting
  <2>1. Sound(c)
    BY <1>2, <1>3 DEF ReconnectIndInv, Sound, IsOpen
  <2>2. \A u \in Sockets : c.sock[u] = IF u = tab.ws THEN "free" ELSE tab.sock[u]
    BY <1>2, <1>3, NamesAreNumbers DEF Tab
  <2>3. OneSocket(tab) => OneSocket(c)
    BY <1>3, <2>2 DEF OneSocket, LiveState
  <2>4. Keeps(c, tab') /\ (tab'.user => Headed(tab'))
    BY <1>1, <1>4, <2>1, ScheduleKeeps DEF Keeps, Sound
  <2> QED BY <1>1, <2>3, <2>4, StepKeeps DEF ReconnectIndInv, Keeps
<1>5. CASE ~tab.connecting
  <2>1. Sound(off) /\ (OneSocket(tab) => OneSocket(off))
    BY <1>2, <1>5 DEF ReconnectIndInv, Sound, IsOpen, OneSocket
  <2>2. Headed(tab) => Headed(off)
    BY <1>2, <1>5 DEF Headed, OnItsWay
  <2> QED BY <1>1, <1>2, <1>5, <2>1, <2>2, StepKeeps DEF ReconnectIndInv, NeverAbandoned, Wanted, Headed
<1> QED BY <1>4, <1>5

LEMMA RetryTimerStep ==
    ASSUME ReconnectIndInv, RetryTimerFires
    PROVE  ReconnectIndInv'
<1> DEFINE c == Unscheduled(tab)
<1>1. PICK throws \in BOOLEAN : (Event \/ NoEvent) /\ Attempt(ConnectOrRefresh(c, throws))
  BY DEF RetryTimerFires
<1>2. Keeps(tab, c)
  BY UnscheduledKeeps DEF ReconnectIndInv
<1> DEFINE r == ConnectOrRefresh(c, throws)
<1>3. Keeps(c, r) /\ (r.user => Headed(r))
  BY <1>2, ConnectOrRefreshKeeps DEF Keeps
<1>4. Attempt(r) /\ staleClose' = staleClose
  BY <1>1 DEF RetryTimerFires
<1> HIDE DEF c, r
<1> QED BY <1>1, <1>2, <1>3, <1>4, AttemptKeeps DEF Keeps

\* The refresh has answered: nobody waits for it any more.
LEMMA AnsweredKeeps ==
    ASSUME Sound(tab), NEW token \in {"none", "valid", "expired"}, NEW stored \in BOOLEAN,
           tab.user => token # "none",
           NEW c, c = [tab EXCEPT !.token = token, !.stored = stored, !.flight = FALSE, !.subs = {}]
    PROVE  /\ Sound(c) /\ c.user = tab.user /\ c.token = token /\ c.visible = tab.visible
           /\ OneSocket(tab) => OneSocket(c)
           /\ "connect" \notin tab.subs /\ Headed(tab) => Headed(c)
<1>1. /\ c \in Tab /\ c.user = tab.user /\ c.token = token /\ c.retry = tab.retry
      /\ c.reconnecting = tab.reconnecting /\ c.flight = FALSE /\ c.subs = {}
      /\ c.ws = tab.ws /\ c.sock = tab.sock /\ c.visible = tab.visible
      /\ c.connecting = tab.connecting /\ c.watchdog = tab.watchdog /\ c.connected = tab.connected
  BY DEF Sound, Tab
<1> QED BY <1>1 DEF Sound, OneSocket, IsOpen, Headed, OnItsWay

LEMMA RefreshSucceedsStep ==
    ASSUME ReconnectIndInv, RefreshSucceeds
    PROVE  ReconnectIndInv'
<1> DEFINE done == [tab EXCEPT !.token = "valid", !.stored = TRUE, !.flight = FALSE, !.subs = {}]
           end(throws) == IF "connect" \in tab.subs THEN ConnectWebSocket(done, throws) ELSE done
<1>1. PICK throws \in BOOLEAN : (Event \/ NoEvent) /\ Attempt(end(throws))
  BY DEF RefreshSucceeds
<1>2. /\ Sound(done) /\ done.user = tab.user /\ done.token = "valid" /\ done.visible = tab.visible
      /\ OneSocket(tab) => OneSocket(done)
      /\ "connect" \notin tab.subs /\ Headed(tab) => Headed(done)
  BY AnsweredKeeps DEF ReconnectIndInv
<1> DEFINE r == end(throws)
<1>3. Attempt(r) /\ staleClose' = staleClose
  BY <1>1 DEF RefreshSucceeds
<1> HIDE DEF done
<1>4. CASE "connect" \in tab.subs
  <2>1. Keeps(done, r) /\ Headed(r)
    BY <1>2, <1>4, ConnectKeeps
  <2> HIDE DEF r
  <2> QED BY <1>1, <1>2, <1>3, <2>1, AttemptKeeps DEF Keeps
<1>5. CASE "connect" \notin tab.subs
  <2>1. r = done
    BY <1>5
  <2> HIDE DEF r
  <2> QED BY <1>1, <1>2, <1>3, <1>5, <2>1, AttemptKeeps DEF Wanted
<1> QED BY <1>4, <1>5

LEMMA RefreshFailsStep ==
    ASSUME ReconnectIndInv, RefreshFails
    PROVE  ReconnectIndInv'
<1> DEFINE done == [tab EXCEPT !.flight = FALSE, !.subs = {}]
<1>1. /\ Event /\ staleClose' = staleClose
      /\ \/ tab' = Logout(done) /\ gaveUp' = gaveUp
         \/ tab' = done /\ gaveUp' = (gaveUp \/ "connect" \in tab.subs)
  BY DEF RefreshFails
<1>2. done = [tab EXCEPT !.token = tab.token, !.stored = tab.stored, !.flight = FALSE, !.subs = {}]
  BY DEF ReconnectIndInv, Sound, Tab
<1>3. tab.token \in {"none", "valid", "expired"} /\ tab.stored \in BOOLEAN /\ (tab.user => tab.token # "none")
  BY DEF ReconnectIndInv, Sound, Tab
<1> HIDE DEF done
<1>4. /\ Sound(done) /\ done.user = tab.user /\ done.visible = tab.visible
      /\ OneSocket(tab) => OneSocket(done)
      /\ "connect" \notin tab.subs /\ Headed(tab) => Headed(done)
  BY <1>2, <1>3, AnsweredKeeps DEF ReconnectIndInv
<1>5. CASE tab' = Logout(done) /\ gaveUp' = gaveUp
  BY <1>1, <1>4, <1>5, SignedOutKeeps
<1>6. CASE tab' = done /\ gaveUp' = (gaveUp \/ "connect" \in tab.subs)
  BY <1>1, <1>4, <1>6, StepKeeps DEF ReconnectIndInv, NeverAbandoned, Wanted, Headed
<1> QED BY <1>1, <1>5, <1>6

-----------------------------------------------------------------------------
LEMMA LoadedIsSound ==
    ASSUME NEW token \in {"none", "valid", "expired"}
    PROVE  Sound(Loaded(token)) /\ OneSocket(Loaded(token)) /\ (Loaded(token).user <=> token # "none")
BY DEF Loaded, Sound, Tab, OneSocket, LiveState, IsOpen, SocketState, NoSocket

LEMMA InitIndInv == ASSUME ReconnectInit PROVE ReconnectIndInv
<1>1. events \in 0..MaxEvents /\ gaveUp = FALSE /\ staleClose = FALSE
  BY EventsAssumption DEF ReconnectInit, EventsAssumption
<1>2. Sound(tab) /\ OneSocket(tab) /\ (tab.user => Headed(tab))
  <2>1. CASE tab = Loaded("none")
    BY <2>1, LoadedIsSound
  <2>2. ASSUME NEW token \in {"valid", "expired"}, tab = RetryConnection(Loaded(token), FALSE)
        PROVE  Sound(tab) /\ OneSocket(tab) /\ (tab.user => Headed(tab))
    BY <2>2, LoadedIsSound, RetryKeeps DEF Keeps
  <2> QED BY <2>1, <2>2 DEF ReconnectInit
<1> QED BY <1>1, <1>2 DEF ReconnectIndInv, NeverAbandoned, Headed, Wanted

LEMMA StepIndInv == ASSUME ReconnectIndInv, [ReconnectNext]_reconnectVars PROVE ReconnectIndInv'
<1>1. ASSUME Asked PROVE ReconnectIndInv'
  BY <1>1, HandshakeDoneStep, HandshakeStallsStep, SocketClosesStep, WatchdogStep, RetryTimerStep,
     RefreshSucceedsStep, RefreshFailsStep DEF Asked
<1>2. ASSUME Unasked PROVE ReconnectIndInv'
  BY <1>2, LoginStep, LogsOutStep, HideStep, ShowStep, PressRetryStep, TokenStep, UnauthorizedStep DEF Unasked
<1>3. ASSUME UNCHANGED reconnectVars PROVE ReconnectIndInv'
  BY <1>3 DEF reconnectVars, ReconnectIndInv, Sound, IsOpen, OneSocket, NeverAbandoned, Wanted, OnItsWay
<1> QED BY <1>1, <1>2, <1>3 DEF ReconnectNext

LEMMA IndInvType == ReconnectIndInv => ReconnectTypeOK
BY DEF ReconnectIndInv, Sound, ReconnectTypeOK

LEMMA OneSocketIsOne == OneSocket(tab) => Cardinality(Live) <= 1
<1> SUFFICES ASSUME OneSocket(tab) PROVE Cardinality(Live) <= 1
  OBVIOUS
<1>1. Live = {} \/ Live = {tab.ws}
  BY DEF OneSocket, Live, LiveState
<1>2. Cardinality({}) = 0
  BY FS_EmptySet
<1>3. Cardinality({tab.ws}) = 1
  BY FS_Singleton
<1> QED BY <1>1, <1>2, <1>3

LEMMA IndInvOneSocket == ReconnectIndInv => SecondSocketNeedsStaleClose
<1> SUFFICES ASSUME ReconnectIndInv, ~staleClose PROVE ~(Cardinality(Live) > 1)
  BY DEF SecondSocketNeedsStaleClose
<1>1. Cardinality(Live) <= 1
  BY OneSocketIsOne DEF ReconnectIndInv
<1>2. Cardinality(Live) \in Nat
  BY FS_Subset, FS_CardinalityType, SocketsAssumption DEF SocketsAssumption, Live
<1> QED BY <1>1, <1>2

LEMMA ReconnectIsInductive == ReconnectSpec => []ReconnectIndInv
BY InitIndInv, StepIndInv, PTL DEF ReconnectSpec

\* ApiService's fields keep their shape: a timer and its flag go together, a
\* refresh has somebody waiting, the current socket is one.
THEOREM TabTypes == ReconnectSpec => []ReconnectTypeOK
BY ReconnectIsInductive, IndInvType, PTL

\* A signed-in page that is looked at is connected, on its way, or its last
\* refresh failed, whatever the order of closes, timers, presses and answers.
THEOREM NobodyIsAbandoned == ReconnectSpec => []NeverAbandoned
<1>1. ReconnectIndInv => NeverAbandoned
  BY DEF ReconnectIndInv
<1> QED BY <1>1, ReconnectIsInductive, PTL

\* Without a late close event of a replaced socket there is one live socket.
THEOREM OneLiveSocket == ReconnectSpec => []SecondSocketNeedsStaleClose
BY ReconnectIsInductive, IndInvOneSocket, PTL

-----------------------------------------------------------------------------
(* The open chat of the tab.                                               *)

(* Bags, the least element of a set, and the array nobody refers to.       *)

\* The bags whose elements are in S.
BagOver(S) == UNION {[T -> Nat \ {0}] : T \in SUBSET S}

LEMMA BagOverFacts ==
    ASSUME NEW S, NEW b
    PROVE  b \in BagOver(S) <=> IsABag(b) /\ BagToSet(b) \subseteq S
<1>1. b \in BagOver(S) => IsABag(b) /\ BagToSet(b) \subseteq S
  BY DEF BagOver, IsABag, BagToSet
<1>2. ASSUME IsABag(b), BagToSet(b) \subseteq S PROVE b \in BagOver(S)
  <2>1. b \in [DOMAIN b -> Nat \ {0}] /\ DOMAIN b \in SUBSET S
    BY <1>2 DEF IsABag, BagToSet
  <2> QED BY <2>1 DEF BagOver
<1> QED BY <1>1, <1>2

LEMMA BagOverGrows ==
    ASSUME NEW S, NEW T, S \subseteq T, NEW b \in BagOver(S)
    PROVE  b \in BagOver(T)
BY BagOverFacts

LEMMA EmptyBagFacts == IsABag(EmptyBag) /\ BagToSet(EmptyBag) = {}
BY DEF IsABag, BagToSet, EmptyBag, SetToBag

LEMMA SetToBagFacts ==
    ASSUME NEW S
    PROVE  IsABag(SetToBag(S)) /\ BagToSet(SetToBag(S)) = S
           /\ \A x \in S : SetToBag(S)[x] = 1
BY DEF IsABag, BagToSet, SetToBag

LEMMA PushFacts ==
    ASSUME NEW b, IsABag(b), NEW id
    PROVE  /\ IsABag(Push(b, id)) /\ BagToSet(Push(b, id)) = BagToSet(b) \cup {id}
           /\ \A x \in BagToSet(b) \ {id} : Push(b, id)[x] = b[x]
           /\ id \notin BagToSet(b) => Push(b, id)[id] = 1
BY DEF IsABag, BagToSet, SetToBag, Push, (+)

LEMMA DropFacts ==
    ASSUME NEW b, IsABag(b), NEW id
    PROVE  LET c == b (-) SetToBag({id})
           IN  /\ IsABag(c) /\ BagToSet(c) \subseteq BagToSet(b)
               /\ BagToSet(b) \ {id} \subseteq BagToSet(c)
               /\ \A x \in BagToSet(c) \ {id} : c[x] = b[x]
               /\ id \in BagToSet(b) /\ b[id] = 1 => id \notin BagToSet(c)
BY DEF IsABag, BagToSet, SetToBag, (-)

LEMMA MergedFacts ==
    ASSUME NEW b, IsABag(b), NEW ids
    PROVE  /\ IsABag(Merged(b, ids)) /\ BagToSet(Merged(b, ids)) = BagToSet(b) \cup ids
           /\ \A x \in BagToSet(Merged(b, ids)) : Merged(b, ids)[x] = 1
BY SetToBagFacts DEF Merged

LEMMA MinIsLeast ==
    ASSUME NEW S \in SUBSET Nat, S # {}
    PROVE  Min(S) \in S
<1>1. PICK x \in S : \A y \in S : ~ <<y, x>> \in OpToRel(<, Nat)
  BY NatLessThanWellFounded, WFMin
<1>2. ASSUME NEW y \in S PROVE ~ y < x
  BY <1>1, Zenon DEF OpToRel
<1>3. \A y \in S : x <= y
  BY <1>2
<1> QED BY <1>3 DEF Min

\* There is an array more than this.messages and the loads can refer to.
LEMMA SomeArrayIsFree ==
    ASSUME NEW now \in Array, NEW loads, \A l \in Load : loads[l].arr \in Array
    PROVE  Array \ HeldBy(now, loads) # {}
<1> DEFINE H == HoldingIn(loads)
           f == [l \in H |-> loads[l].arr]
           T == {loads[l].arr : l \in H}
<1>1. IsFiniteSet(H) /\ Cardinality(H) <= Cardinality(Load) /\ Cardinality(H) \in Nat
      /\ Cardinality(Load) \in Nat
  <2>1. H \in SUBSET Load /\ IsFiniteSet(Load)
    BY ChatAssumption DEF ChatAssumption, HoldingIn
  <2>2. IsFiniteSet(H) /\ Cardinality(H) <= Cardinality(Load)
    BY <2>1, FS_Subset
  <2> HIDE DEF H
  <2> QED BY <2>1, <2>2, FS_CardinalityType
<1>2. f \in Surjection(H, T)
  BY DEF Surjection
<1>3. IsFiniteSet(T) /\ Cardinality(T) <= Cardinality(H) /\ Cardinality(T) \in Nat
  <2>1. IsFiniteSet(T) /\ Cardinality(T) <= Cardinality(H)
    BY <1>1, <1>2, FS_Surjection
  <2> HIDE DEF T
  <2> QED BY <2>1, FS_CardinalityType
<1>4. HeldBy(now, loads) = T \cup {now}
  BY DEF HeldBy
<1>5. IsFiniteSet(T \cup {now}) /\ Cardinality(T \cup {now}) <= Cardinality(Load) + 1
  <2> HIDE DEF T, H
  <2>1. /\ IsFiniteSet(T \cup {now})
        /\ Cardinality(T \cup {now}) = IF now \in T THEN Cardinality(T) ELSE Cardinality(T) + 1
    BY <1>3, FS_AddElement
  <2> QED BY <1>1, <1>3, <2>1
<1>6. Cardinality(Array) = Cardinality(Load) + 2
  <2>1. Cardinality(0 .. Cardinality(Load) + 1)
        = IF 0 > Cardinality(Load) + 1 THEN 0 ELSE Cardinality(Load) + 1 - 0 + 1
    BY <1>1, FS_Interval
  <2> QED BY <1>1, <2>1 DEF Array
<1>7. ASSUME Array \subseteq T \cup {now} PROVE FALSE
  <2> HIDE DEF T, H
  <2>1. Array \in SUBSET (T \cup {now})
    BY <1>7
  <2>2. Cardinality(Array) <= Cardinality(T \cup {now})
    BY <1>5, <2>1, FS_Subset
  <2>3. Cardinality(T \cup {now}) \in Nat
    BY <1>5, FS_CardinalityType
  <2> QED BY <1>1, <1>5, <1>6, <2>2, <2>3
<1> QED BY <1>4, <1>7

LEMMA FreshIsFree ==
    ASSUME current \in Array, \A l \in Load : load[l].arr \in Array
    PROVE  Fresh \in Array /\ Fresh \notin Held /\ Fresh # current
<1>1. Array \ Held # {} /\ Array \ Held \in SUBSET Nat
  BY SomeArrayIsFree, FS_CardinalityType, ChatAssumption DEF Held, Array, ChatAssumption
<1> QED BY <1>1, MinIsLeast DEF Fresh, Held, HeldBy

-----------------------------------------------------------------------------
(* The types, with what ties a request, a send and a frame to the rows.    *)

Ghost == {"never", "before", "now"}

Holder(S) == [held : BagOver(S), since : Nat]

Request(ids) == [kind : {"none", "open", "reload"},
                 stage : {"unused", "asked", "served", "holding"},
                 peer : Peer \cup {NoPeer}, fetched : SUBSET ids, todo : SUBSET ids,
                 arr : Array]

Message == [stage : {"idle", "preparing", "posting", "stored"},
            peer : Peer \cup {NoPeer}, temp : Int, id : Nat]

RowsOK == rows \in Seq([peer : Peer, mine : BOOLEAN])

NetOK ==
    /\ socket \in {"closed", "open", "registered"}
    /\ everConnected \in BOOLEAN /\ failed \in BOOLEAN
    /\ socket # "closed" => everConnected
    /\ selected \in Peer \cup {NoPeer}
    /\ frames \subseteq Row /\ opening \subseteq Row /\ unheard \subseteq Row
    /\ \A id \in frames \cup opening : ~rows[id].mine

BubblesOK ==
    /\ current \in Array
    /\ array \in [Array -> Holder(Bubble)]
    /\ cache \in [Peer -> BagOver(Bubble)]
    /\ seen \subseteq Bubble

SoundRequest(r, table) ==
    /\ r.stage = "unused" => r = Unused
    /\ r.stage # "unused" => r.kind \in {"open", "reload"} /\ r.peer \in Peer
    /\ r.todo \subseteq r.fetched
    /\ r.stage = "holding" /\ r.kind = "reload" => r.todo # {}
    /\ \A id \in r.fetched : table[id].peer = r.peer

LoadsOK == load \in [Load -> Request(Row)] /\ \A l \in Load : SoundRequest(load[l], rows)

SendOK ==
    /\ opens \in Nat /\ reloads \in Nat /\ sends \in Nat /\ drops \in Nat /\ elsewhere \in Nat
    /\ crossed \in Ghost /\ raced \in Ghost
    /\ send \in Message
    /\ send.stage = "idle" => send = Idle
    /\ send.stage # "idle" => sends >= 1 /\ send.peer \in Peer
    /\ Pending => send.temp = Temp(sends)
    /\ send.stage = "stored" =>
        /\ send.id \in Row
        /\ rows[send.id].mine /\ rows[send.id].peer = send.peer

\* The next optimistic bubble is new wherever it may be pushed.
TempIsNew ==
    send.stage = "preparing" =>
        /\ \A a \in Array : Temp(sends) \notin BagToSet(array[a].held)
        /\ \A p \in Peer : Temp(sends) \notin BagToSet(cache[p])

TypesInv == RowsOK /\ NetOK /\ BubblesOK /\ LoadsOK /\ SendOK /\ TempIsNew

-----------------------------------------------------------------------------
LEMMA RowFacts ==
    ASSUME RowsOK
    PROVE  /\ Len(rows) \in Nat /\ Row = 1 .. Len(rows) /\ Row \subseteq Nat
           /\ \A id \in Row : rows[id].peer \in Peer /\ rows[id].mine \in BOOLEAN /\ id > 0
<1>1. Len(rows) \in Nat /\ Row = 1 .. Len(rows) /\ Row \subseteq Nat
  <2>1. Len(rows) \in Nat
    BY DEF RowsOK
  <2> QED BY <2>1 DEF Row
<1>2. ASSUME NEW id \in Row PROVE rows[id] \in [peer : Peer, mine : BOOLEAN]
  <2> HIDE DEF Row
  <2>1. id \in 1 .. Len(rows)
    BY <1>1
  <2> QED BY <2>1, ElementOfSeq DEF RowsOK
<1>3. \A id \in Row : id > 0
  BY <1>1
<1> QED BY <1>1, <1>2, <1>3

LEMMA StoreFacts ==
    ASSUME RowsOK, NEW p \in Peer, NEW mine \in BOOLEAN, Store(p, mine)
    PROVE  /\ RowsOK' /\ NewId \notin Row /\ Row' = Row \cup {NewId} /\ NewId \in Nat
           /\ rows'[NewId].peer = p /\ rows'[NewId].mine = mine
           /\ \A id \in Row : rows'[id] = rows[id]
BY DEF RowsOK, Row, Store, NewId

\* The rows only grow, and a row never changes.
RowsGrow == Row \subseteq Row' /\ \A id \in Row : rows'[id] = rows[id]

LEMMA BubbleGrows ==
    ASSUME Row \subseteq Row', sends \in Nat, sends' \in Nat, sends <= sends'
    PROVE  Bubble \subseteq Bubble'
<1>1. \A n \in 1 .. sends : n \in 1 .. sends'
  OBVIOUS
<1> QED BY <1>1 DEF Bubble

LEMMA BubblesStay ==
    ASSUME BubblesOK, Bubble \subseteq Bubble', UNCHANGED bubbles
    PROVE  BubblesOK'
<1>1. \A b \in BagOver(Bubble) : b \in BagOver(Bubble')
  BY BagOverGrows
<1>2. array \in [Array -> Holder(Bubble')]
  BY <1>1 DEF BubblesOK, Holder
<1>3. cache \in [Peer -> BagOver(Bubble')]
  BY <1>1 DEF BubblesOK
<1>4. array' = array /\ cache' = cache /\ current' = current /\ seen' = seen
  BY DEF bubbles
<1> QED BY <1>2, <1>3, <1>4 DEF BubblesOK

LEMMA SoundStays ==
    ASSUME RowsGrow, NEW r \in Request(Row), SoundRequest(r, rows)
    PROVE  r \in Request(Row') /\ SoundRequest(r, rows')
<1>1. SUBSET Row \subseteq SUBSET Row'
  BY DEF RowsGrow
<1>2. r \in Request(Row')
  BY <1>1 DEF Request
<1> QED BY <1>2 DEF RowsGrow, SoundRequest, Request

LEMMA LoadsStay ==
    ASSUME LoadsOK, RowsGrow, UNCHANGED load
    PROVE  LoadsOK'
<1>1. \A l \in Load : load[l] \in Request(Row') /\ SoundRequest(load[l], rows')
  BY SoundStays DEF LoadsOK
<1> QED BY <1>1 DEF LoadsOK

\* One request changes to a sound record.
LEMMA LoadsChange ==
    ASSUME LoadsOK, RowsGrow, NEW l \in Load, NEW r \in Request(Row'), SoundRequest(r, rows'),
           load' = [load EXCEPT ![l] = r]
    PROVE  LoadsOK' /\ load'[l] = r /\ \A m \in Load \ {l} : load'[m] = load[m]
<1>1. \A m \in Load : load[m] \in Request(Row') /\ SoundRequest(load[m], rows')
  BY SoundStays DEF LoadsOK
<1>2. load' \in [Load -> Request(Row')] /\ load'[l] = r /\ \A m \in Load \ {l} : load'[m] = load[m]
  BY <1>1 DEF LoadsOK
<1> QED BY <1>1, <1>2 DEF LoadsOK

-----------------------------------------------------------------------------
(* What the handlers do to the arrays, the cache and the requests.         *)

LEMMA NothingIsHolder == ASSUME NEW S PROVE Nothing \in Holder(S) /\ Nothing.held = EmptyBag
<1>1. EmptyBag \in BagOver(S)
  BY EmptyBagFacts, BagOverFacts
<1> QED BY <1>1 DEF Nothing, Holder

LEMMA SweptFacts ==
    ASSUME NEW S, NEW arrays \in [Array -> Holder(S)], NEW now \in Array, NEW loads
    PROVE  /\ Swept(arrays, now, loads) \in [Array -> Holder(S)]
           /\ Swept(arrays, now, loads)[now] = arrays[now]
           /\ \A a \in Array : \/ Swept(arrays, now, loads)[a] = arrays[a]
                               \/ Swept(arrays, now, loads)[a] = Nothing
BY NothingIsHolder DEF Swept, HeldBy

\* The bags of the state, with the elements they may have.
LEMMA BagFacts ==
    ASSUME BubblesOK
    PROVE  /\ \A a \in Array : /\ IsABag(array[a].held) /\ BagToSet(array[a].held) \subseteq Bubble
                               /\ array[a].since \in Nat /\ array[a] \in Holder(Bubble)
           /\ \A p \in Peer : IsABag(cache[p]) /\ BagToSet(cache[p]) \subseteq Bubble
           /\ IsABag(messages) /\ BagToSet(messages) = Shown /\ Shown \subseteq Bubble
           /\ current \in Array
<1>1. \A a \in Array : /\ array[a].held \in BagOver(Bubble) /\ array[a].since \in Nat
                       /\ array[a] \in Holder(Bubble)
  BY DEF BubblesOK, Holder
<1>2. \A p \in Peer : cache[p] \in BagOver(Bubble)
  BY DEF BubblesOK
<1>3. current \in Array
  BY DEF BubblesOK
<1> QED BY <1>1, <1>2, <1>3, BagOverFacts DEF messages, Shown

LEMMA ArrOK ==
    ASSUME LoadsOK
    PROVE  \A l \in Load : /\ load[l].arr \in Array /\ load[l] \in Request(Row)
                           /\ SoundRequest(load[l], rows)
BY DEF LoadsOK, Request

LEMMA PushAndCopyFacts ==
    ASSUME BubblesOK, LoadsOK, Bubble \subseteq Bubble', NEW id \in Bubble', PushAndCopy(id),
           seen' \subseteq Bubble'
    PROVE  /\ BubblesOK'
           /\ messages' = Push(messages, id)
           /\ \A a \in Array : \/ array'[a].held = array[a].held
                               \/ array'[a].held = EmptyBag
                               \/ array'[a].held = Push(messages, id)
           /\ \A p \in Peer : cache'[p] = IF p = selected THEN Push(messages, id) ELSE cache[p]
<1> DEFINE pushed == [array[current] EXCEPT !.held = Push(@, id)]
           arrays == [array EXCEPT ![current] = pushed, ![Fresh] = pushed]
<1>1. IsABag(messages) /\ BagToSet(messages) \subseteq Bubble /\ current \in Array
      /\ array[current] \in Holder(Bubble)
  BY BagFacts
<1>2. Push(messages, id) \in BagOver(Bubble')
  BY <1>1, PushFacts, BagOverFacts
<1>3. pushed \in Holder(Bubble') /\ pushed.held = Push(messages, id)
  BY <1>1, <1>2 DEF Holder, messages
<1>4. Fresh \in Array /\ Fresh # current
  BY <1>1, FreshIsFree, ArrOK
<1>5. /\ current' = Fresh
      /\ array' = Swept(arrays, Fresh, load)
      /\ cache' = [cache EXCEPT ![selected] = pushed.held]
  BY DEF PushAndCopy
<1>6. \A b \in BagOver(Bubble) : b \in BagOver(Bubble')
  BY BagOverGrows
<1>7. array \in [Array -> Holder(Bubble')] /\ cache \in [Peer -> BagOver(Bubble')]
  BY <1>6 DEF BubblesOK, Holder
<1> HIDE DEF pushed
<1>8. /\ arrays \in [Array -> Holder(Bubble')]
      /\ arrays[Fresh] = pushed
      /\ \A a \in Array : arrays[a] = array[a] \/ arrays[a] = pushed
  BY <1>1, <1>3, <1>4, <1>7
<1> HIDE DEF arrays
<1>9. /\ array' \in [Array -> Holder(Bubble')] /\ array'[Fresh] = arrays[Fresh]
      /\ \A a \in Array : array'[a] = arrays[a] \/ array'[a] = Nothing
  BY <1>4, <1>5, <1>8, SweptFacts
<1>10. cache' \in [Peer -> BagOver(Bubble')]
  BY <1>2, <1>3, <1>5, <1>7
<1>11. BubblesOK'
  BY <1>4, <1>5, <1>9, <1>10 DEF BubblesOK, Array
<1>12. messages' = Push(messages, id)
  BY <1>3, <1>5, <1>8, <1>9 DEF messages
<1>13. \A p \in Peer : cache'[p] = IF p = selected THEN Push(messages, id) ELSE cache[p]
  BY <1>3, <1>5 DEF BubblesOK
<1> QED BY <1>3, <1>8, <1>9, <1>11, <1>12, <1>13, NothingIsHolder

\* What Ask does: one unused request is asked, and the ghost notes an overlap.
LEMMA AskFacts ==
    ASSUME LoadsOK, RowsGrow, NEW l \in Load, NEW kind \in {"open", "reload"}, NEW p \in Peer,
           raced \in Ghost, Ask(l, kind, p)
    PROVE  /\ LoadsOK'
           /\ load[l].stage = "unused"
           /\ load'[l].kind = kind /\ load'[l].stage = "asked" /\ load'[l].peer = p
           /\ load'[l].fetched = {} /\ load'[l].todo = {}
           /\ \A m \in Load \ {l} : load'[m] = load[m]
           /\ HoldingIn(load') = HoldingIn(load)
           /\ raced' \in Ghost
           /\ raced' # "now" => Busy = {} /\ (raced # "now" \/ (kind = "open" /\ ~UnderWay))
           /\ raced' = "never" => raced = "never"
<1> DEFINE r == [Unused EXCEPT !.kind = kind, !.stage = "asked", !.peer = p]
<1>1. load[l] = Unused /\ load' = [load EXCEPT ![l] = r]
  BY Zenon DEF Ask
<1>2. /\ r \in Request(Row') /\ SoundRequest(r, rows')
      /\ r.kind = kind /\ r.stage = "asked" /\ r.peer = p /\ r.fetched = {} /\ r.todo = {}
  <2>1. 0 \in Array
    <3>1. Cardinality(Load) \in Nat
      BY ChatAssumption, FS_CardinalityType DEF ChatAssumption
    <3> QED BY <3>1 DEF Array
  <2> QED BY <2>1 DEF Request, SoundRequest, Unused
<1> HIDE DEF r
<1>3. LoadsOK' /\ load'[l] = r /\ \A m \in Load \ {l} : load'[m] = load[m]
  BY <1>1, <1>2, LoadsChange
<1>4. load[l].stage = "unused"
  BY <1>1 DEF Unused
<1>5. HoldingIn(load') = HoldingIn(load)
  BY <1>2, <1>3, <1>4 DEF HoldingIn
<1>6. /\ raced' \in Ghost
      /\ raced' # "now" => Busy = {} /\ (raced # "now" \/ (kind = "open" /\ ~UnderWay))
      /\ raced' = "never" => raced = "never"
  BY DEF Ask, Raced, Healed, Ghost, UnderWay
<1> QED BY <1>2, <1>3, <1>4, <1>5, <1>6

\* Opening a thread shows its cache, and claims what it shows.
LEMMA SelectFacts ==
    ASSUME RowsOK, BubblesOK, LoadsOK, SendOK, NEW p \in Peer, SelectUser(p)
    PROVE  /\ BubblesOK' /\ LoadsOK'
           /\ messages' = cache[p] /\ seen' = BagToSet(cache[p])
           /\ \A a \in Array : \/ array'[a].held = array[a].held
                               \/ array'[a].held = EmptyBag
                               \/ array'[a].held = cache[p]
           /\ Holding = {} => \A a \in Array : array'[a].held \in {EmptyBag, cache[p]}
           /\ raced' \in Ghost /\ crossed' \in Ghost
<1> DEFINE opened == [held |-> cache[p], since |-> opens']
           arrays == [array EXCEPT ![Fresh] = opened]
<1>1. /\ opens' = opens + 1
      /\ current' = Fresh /\ seen' = BagToSet(cache[p]) /\ cache' = cache
      /\ array' = Swept(arrays, Fresh, load)
      /\ rows' = rows /\ sends' = sends
      /\ crossed' = IF UnderWay THEN "now" ELSE Healed(crossed)
      /\ \E l \in Load : Ask(l, "open", p)
  BY DEF SelectUser
<1>2. LoadsOK' /\ raced' \in Ghost /\ HoldingIn(load') = HoldingIn(load)
  <2>1. RowsGrow
    BY <1>1 DEF RowsGrow, Row
  <2> QED BY <1>1, <2>1, AskFacts DEF SendOK
<1>3. Bubble' = Bubble
  BY <1>1 DEF Bubble, Row
<1>4. /\ cache[p] \in BagOver(Bubble) /\ BagToSet(cache[p]) \subseteq Bubble
      /\ array \in [Array -> Holder(Bubble)] /\ cache \in [Peer -> BagOver(Bubble)]
      /\ current \in Array
  BY BagFacts DEF BubblesOK
<1>5. opened \in Holder(Bubble) /\ opened.held = cache[p]
  BY <1>1, <1>4 DEF Holder, SendOK
<1>6. Fresh \in Array
  BY <1>4, FreshIsFree, ArrOK
<1> HIDE DEF opened
<1>7. /\ arrays \in [Array -> Holder(Bubble)] /\ arrays[Fresh] = opened
      /\ \A a \in Array \ {Fresh} : arrays[a] = array[a]
  BY <1>4, <1>5, <1>6
<1> HIDE DEF arrays
<1>8. /\ array' \in [Array -> Holder(Bubble)] /\ array'[Fresh] = opened
      /\ \A a \in Array : array'[a] = arrays[a] \/ array'[a] = Nothing
  BY <1>1, <1>6, <1>7, SweptFacts
<1>9. BubblesOK'
  BY <1>1, <1>3, <1>4, <1>6, <1>8 DEF BubblesOK, Array
<1>10. messages' = cache[p]
  BY <1>1, <1>5, <1>8 DEF messages
<1>11. ASSUME Holding = {}, NEW a \in Array PROVE array'[a].held \in {EmptyBag, cache[p]}
  <2>1. HeldBy(Fresh, load) = {Fresh}
    BY <1>11 DEF HeldBy, Holding
  <2>2. array'[a] = IF a = Fresh THEN arrays[a] ELSE Nothing
    BY <1>1, <2>1 DEF Swept
  <2> QED BY <1>5, <1>7, <2>2, NothingIsHolder
<1>12. crossed' \in Ghost
  BY <1>1 DEF SendOK, Healed, Ghost
<1>13. \A a \in Array : \/ array'[a].held = array[a].held
                        \/ array'[a].held = EmptyBag
                        \/ array'[a].held = cache[p]
  BY <1>5, <1>7, <1>8, NothingIsHolder
<1> QED BY <1>1, <1>2, <1>9, <1>10, <1>11, <1>12, <1>13

\* The merge of an opening replaces the list by what was looked up and fetched.
LEMMA MergeFacts ==
    ASSUME RowsOK, BubblesOK, LoadsOK, NEW l \in Load, Merge(l)
    PROVE  LET held == array[load[l].arr].held
               M == Merged(held, load[l].fetched)
           IN  /\ load[l].kind = "open" /\ load[l].stage = "holding" /\ load[l].peer \in Peer
               /\ load[l].arr \in Array /\ load[l].fetched \subseteq Row
               /\ IsABag(held) /\ BagToSet(held) \subseteq Bubble
               /\ BubblesOK' /\ LoadsOK'
               /\ load'[l] = Unused /\ \A m \in Load \ {l} : load'[m] = load[m]
               /\ messages' = M
               /\ seen' = seen \cup (load[l].fetched \ BagToSet(held))
               /\ \A a \in Array : \/ array'[a].held = array[a].held
                                   \/ array'[a].held = EmptyBag
                                   \/ array'[a].held = M
               /\ \A p \in Peer : cache'[p] = IF p = load[l].peer THEN M ELSE cache[p]
<1> DEFINE old == array[load[l].arr]
           M == Merged(old.held, load[l].fetched)
           new == [old EXCEPT !.held = Merged(@, load[l].fetched)]
           arrays == [array EXCEPT ![Fresh] = new]
<1>1. /\ load[l].kind = "open" /\ load[l].stage = "holding"
      /\ seen' = seen \cup (load[l].fetched \ BagToSet(old.held))
      /\ load' = [load EXCEPT ![l] = Unused]
      /\ current' = Fresh
      /\ array' = Swept(arrays, Fresh, load')
      /\ cache' = [cache EXCEPT ![load[l].peer] = new.held]
      /\ rows' = rows /\ sends' = sends
  BY DEF Merge, Claimed, user
<1>2. load[l].peer \in Peer /\ load[l].arr \in Array /\ load[l].fetched \subseteq Row
  BY <1>1 DEF LoadsOK, Request, SoundRequest
<1>3. IsABag(old.held) /\ BagToSet(old.held) \subseteq Bubble /\ old \in Holder(Bubble)
  BY <1>2, BagFacts
<1>4. Bubble' = Bubble /\ Row' = Row /\ Row \subseteq Bubble
  BY <1>1 DEF Bubble, Row
<1>5. M \in BagOver(Bubble)
  BY <1>2, <1>3, <1>4, MergedFacts, BagOverFacts
<1>6. new \in Holder(Bubble) /\ new.held = M
  BY <1>3, <1>5 DEF Holder
<1>7. Fresh \in Array /\ current \in Array
  BY BagFacts, FreshIsFree, ArrOK
<1>8. LoadsOK' /\ load'[l] = Unused /\ \A m \in Load \ {l} : load'[m] = load[m]
  <2>1. Unused \in Request(Row') /\ SoundRequest(Unused, rows')
    <3>1. 0 \in Array
      BY ChatAssumption, FS_CardinalityType DEF ChatAssumption, Array
    <3> QED BY <3>1 DEF Unused, Request, SoundRequest
  <2>2. RowsGrow
    BY <1>1, <1>4 DEF RowsGrow
  <2> QED BY <1>1, <2>1, <2>2, LoadsChange
<1>9. array \in [Array -> Holder(Bubble)] /\ cache \in [Peer -> BagOver(Bubble)] /\ seen \subseteq Bubble
  BY DEF BubblesOK
<1> HIDE DEF new, M, old
<1>10. /\ arrays \in [Array -> Holder(Bubble)] /\ arrays[Fresh] = new
       /\ \A a \in Array \ {Fresh} : arrays[a] = array[a]
  BY <1>6, <1>7, <1>9
<1> HIDE DEF arrays
<1>11. /\ array' \in [Array -> Holder(Bubble)] /\ array'[Fresh] = new
       /\ \A a \in Array : array'[a] = arrays[a] \/ array'[a] = Nothing
  BY <1>1, <1>7, <1>10, SweptFacts
<1>12. /\ cache' \in [Peer -> BagOver(Bubble)]
       /\ \A p \in Peer : cache'[p] = IF p = load[l].peer THEN M ELSE cache[p]
  BY <1>1, <1>5, <1>6, <1>9
<1>13. BubblesOK'
  <2>1. seen' \subseteq Bubble
    BY <1>1, <1>2, <1>4, <1>9
  <2> QED BY <1>1, <1>4, <1>7, <1>11, <1>12, <2>1 DEF BubblesOK, Array
<1>14. messages' = M
  BY <1>1, <1>6, <1>11 DEF messages
<1>15. \A a \in Array : \/ array'[a].held = array[a].held
                        \/ array'[a].held = EmptyBag
                        \/ array'[a].held = M
  BY <1>6, <1>10, <1>11, NothingIsHolder
<1> QED BY <1>1, <1>2, <1>3, <1>8, <1>12, <1>13, <1>14, <1>15 DEF M, old

\* A reload takes its next row, or is done with them.
LEMMA TakeNextFacts ==
    ASSUME RowsOK, BubblesOK, LoadsOK, rows' = rows, NEW l \in Load,
           load[l].kind = "reload", load[l].stage # "unused",
           NEW todo \in SUBSET load[l].fetched, NEW shown \in BagOver(Bubble),
           TakeNext(l, todo, shown)
    PROVE  /\ LoadsOK' /\ load[l].peer \in Peer
           /\ \A m \in Load \ {l} : load'[m] = load[m]
           /\ todo = {} => load'[l] = Unused
           /\ todo # {} => /\ load'[l].stage = "holding" /\ load'[l].arr = current
                           /\ load'[l].todo = todo /\ load'[l].kind = "reload"
                           /\ load'[l].peer = load[l].peer /\ load'[l].fetched = load[l].fetched
                           /\ Min(todo) \in todo
           /\ seen' = IF todo = {} THEN seen ELSE seen \cup {Min(todo)}
           /\ \A p \in Peer : \/ cache'[p] = cache[p]
                              \/ todo = {} /\ p = load[l].peer /\ cache'[p] = shown
           /\ cache' \in [Peer -> BagOver(Bubble)] /\ seen' \subseteq Bubble
<1>1. /\ load[l] \in Request(Row) /\ SoundRequest(load[l], rows) /\ load[l].peer \in Peer
      /\ load[l].fetched \subseteq Row
  BY DEF LoadsOK, SoundRequest, Request
<1>2. RowsGrow /\ Row' = Row /\ Row \subseteq Nat /\ Row \subseteq Bubble
  BY RowFacts DEF RowsGrow, Row, Bubble
<1>3. cache \in [Peer -> BagOver(Bubble)] /\ seen \subseteq Bubble /\ current \in Array
  BY DEF BubblesOK
<1>4. CASE todo = {}
  <2>1. /\ load' = [load EXCEPT ![l] = Unused] /\ seen' = seen
        /\ cache' = IF load[l].fetched = {} THEN cache ELSE [cache EXCEPT ![load[l].peer] = shown]
    BY <1>4 DEF TakeNext
  <2>2. Unused \in Request(Row') /\ SoundRequest(Unused, rows')
    <3>1. 0 \in Array
      BY ChatAssumption, FS_CardinalityType DEF ChatAssumption, Array
    <3> QED BY <3>1 DEF Unused, Request, SoundRequest
  <2>3. LoadsOK' /\ load'[l] = Unused /\ \A m \in Load \ {l} : load'[m] = load[m]
    BY <1>2, <2>1, <2>2, LoadsChange
  <2>4. cache' \in [Peer -> BagOver(Bubble)]
        /\ \A p \in Peer : cache'[p] = cache[p] \/ (p = load[l].peer /\ cache'[p] = shown)
    BY <1>1, <1>3, <2>1
  <2> QED BY <1>1, <1>3, <1>4, <2>1, <2>3, <2>4
<1>5. CASE todo # {}
  <2> DEFINE r == [load[l] EXCEPT !.stage = "holding", !.arr = current, !.todo = todo]
  <2>1. load' = [load EXCEPT ![l] = r] /\ cache' = cache /\ seen' = seen \cup {Min(todo)}
    <3>1. /\ load' = [load EXCEPT ![l].stage = "holding", ![l].arr = current, ![l].todo = todo]
          /\ cache' = cache /\ seen' = seen \cup {Min(todo)}
      BY <1>5 DEF TakeNext, Claimed
    <3> QED BY <1>1, <3>1 DEF LoadsOK, Request
  <2>2. /\ r \in Request(Row') /\ SoundRequest(r, rows')
        /\ r.stage = "holding" /\ r.arr = current /\ r.todo = todo /\ r.kind = "reload"
        /\ r.peer = load[l].peer /\ r.fetched = load[l].fetched
    BY <1>1, <1>2, <1>3, <1>5 DEF Request, SoundRequest
  <2> HIDE DEF r
  <2>3. LoadsOK' /\ load'[l] = r /\ \A m \in Load \ {l} : load'[m] = load[m]
    BY <1>2, <2>1, <2>2, LoadsChange
  <2>4. Min(todo) \in todo /\ Min(todo) \in Bubble
    <3>1. todo \in SUBSET Nat
      BY <1>1, <1>2
    <3> QED BY <1>1, <1>2, <1>5, <3>1, MinIsLeast
  <2> QED BY <1>1, <1>3, <1>5, <2>1, <2>2, <2>3, <2>4
<1> QED BY <1>4, <1>5

LEMMA ReloadAnsweredFacts ==
    ASSUME RowsOK, BubblesOK, LoadsOK, NEW l \in Load, ReloadAnswered(l)
    PROVE  LET todo == load[l].fetched \ Shown
           IN  /\ load[l].kind = "reload" /\ load[l].stage = "served" /\ load[l].peer \in Peer
               /\ load[l].fetched \subseteq Row
               /\ BubblesOK' /\ LoadsOK' /\ array' = array /\ current' = current
               /\ \A m \in Load \ {l} : load'[m] = load[m]
               /\ todo = {} => load'[l] = Unused
               /\ todo # {} => /\ load'[l].stage = "holding" /\ load'[l].arr = current
                               /\ load'[l].todo = todo /\ load'[l].kind = "reload"
                               /\ load'[l].peer = load[l].peer
                               /\ load'[l].fetched = load[l].fetched
                               /\ Min(todo) \in todo
               /\ seen' = IF todo = {} THEN seen ELSE seen \cup {Min(todo)}
               /\ \A p \in Peer : \/ cache'[p] = cache[p]
                                  \/ todo = {} /\ p = load[l].peer /\ cache'[p] = messages
<1> DEFINE todo == load[l].fetched \ Shown
<1>1. /\ load[l].kind = "reload" /\ load[l].stage = "served"
      /\ TakeNext(l, todo, messages)
      /\ rows' = rows /\ current' = current /\ array' = array /\ sends' = sends
  BY DEF ReloadAnswered, user
<1>2. messages \in BagOver(Bubble) /\ todo \in SUBSET load[l].fetched
  BY BagFacts, BagOverFacts DEF BubblesOK
<1> HIDE DEF todo
<1>3. /\ LoadsOK' /\ load[l].peer \in Peer
      /\ \A m \in Load \ {l} : load'[m] = load[m]
      /\ todo = {} => load'[l] = Unused
      /\ todo # {} => /\ load'[l].stage = "holding" /\ load'[l].arr = current
                      /\ load'[l].todo = todo /\ load'[l].kind = "reload"
                      /\ load'[l].peer = load[l].peer /\ load'[l].fetched = load[l].fetched
                      /\ Min(todo) \in todo
      /\ seen' = IF todo = {} THEN seen ELSE seen \cup {Min(todo)}
      /\ \A p \in Peer : \/ cache'[p] = cache[p]
                         \/ todo = {} /\ p = load[l].peer /\ cache'[p] = messages
      /\ cache' \in [Peer -> BagOver(Bubble)] /\ seen' \subseteq Bubble
  BY <1>1, <1>2, TakeNextFacts
<1>4. Bubble' = Bubble
  BY <1>1 DEF Bubble, Row
<1>5. BubblesOK'
  BY <1>1, <1>3, <1>4 DEF BubblesOK, Array
<1>6. load[l].fetched \subseteq Row
  BY DEF LoadsOK, Request
<1> QED BY <1>1, <1>3, <1>5, <1>6 DEF todo

LEMMA RowOpenedFacts ==
    ASSUME RowsOK, BubblesOK, LoadsOK, NEW l \in Load, RowOpened(l)
    PROVE  LET row == Min(load[l].todo)
               todo == load[l].todo \ {row}
               held == Push(array[load[l].arr].held, row)
           IN  /\ load[l].kind = "reload" /\ load[l].stage = "holding" /\ load[l].peer \in Peer
               /\ load[l].arr \in Array /\ load[l].fetched \subseteq Row
               /\ row \in load[l].todo /\ load[l].todo \subseteq load[l].fetched
               /\ BubblesOK' /\ LoadsOK' /\ current' = current
               /\ \A m \in Load \ {l} : load'[m] = load[m]
               /\ todo = {} => load'[l] = Unused
               /\ todo # {} => /\ load'[l].stage = "holding" /\ load'[l].arr = current
                               /\ load'[l].todo = todo /\ load'[l].kind = "reload"
                               /\ load'[l].peer = load[l].peer
                               /\ load'[l].fetched = load[l].fetched
                               /\ Min(todo) \in todo
               /\ seen' = IF todo = {} THEN seen ELSE seen \cup {Min(todo)}
               /\ \A p \in Peer : \/ cache'[p] = cache[p]
                                  \/ todo = {} /\ p = load[l].peer /\ cache'[p] = messages'
               /\ messages' = IF load[l].arr = current THEN held ELSE messages
               /\ \A a \in Array : \/ array'[a].held = array[a].held
                                   \/ array'[a].held = EmptyBag
                                   \/ a = load[l].arr /\ array'[a].held = held
<1> DEFINE row == Min(load[l].todo)
           todo == load[l].todo \ {row}
           held == Push(array[load[l].arr].held, row)
           pushed == [array EXCEPT ![load[l].arr].held = Push(@, row)]
<1>1. /\ load[l].kind = "reload" /\ load[l].stage = "holding"
      /\ TakeNext(l, todo, pushed[current].held)
      /\ array' = Swept(pushed, current, load')
      /\ rows' = rows /\ current' = current /\ sends' = sends
  BY DEF RowOpened, user
<1>2. /\ load[l].peer \in Peer /\ load[l].arr \in Array /\ load[l].fetched \subseteq Row
      /\ load[l].todo \subseteq load[l].fetched /\ load[l].todo # {}
  BY <1>1 DEF LoadsOK, Request, SoundRequest
<1>3. Bubble' = Bubble /\ Row' = Row /\ Row \subseteq Bubble /\ Row \subseteq Nat
  BY <1>1, RowFacts DEF Bubble, Row
<1>4. row \in load[l].todo /\ row \in Bubble
  <2>1. load[l].todo \in SUBSET Nat
    BY <1>2, <1>3
  <2> QED BY <1>2, <1>3, <2>1, MinIsLeast
<1>5. /\ IsABag(array[load[l].arr].held) /\ BagToSet(array[load[l].arr].held) \subseteq Bubble
      /\ array[load[l].arr] \in Holder(Bubble) /\ current \in Array
  BY <1>2, BagFacts
<1>6. held \in BagOver(Bubble)
  BY <1>4, <1>5, PushFacts, BagOverFacts
<1>7. array \in [Array -> Holder(Bubble)]
  BY DEF BubblesOK
<1>8. todo \in SUBSET load[l].fetched
  BY <1>2
<1> HIDE DEF row, todo
<1>9. /\ pushed \in [Array -> Holder(Bubble)]
      /\ \A a \in Array : pushed[a].held = IF a = load[l].arr THEN held ELSE array[a].held
  BY <1>2, <1>5, <1>6, <1>7 DEF Holder
<1> HIDE DEF pushed, held
<1>10. pushed[current].held \in BagOver(Bubble)
       /\ pushed[current].held = IF load[l].arr = current THEN held ELSE messages
  BY <1>5, <1>6, <1>7, <1>9 DEF Holder, messages
<1>11. /\ LoadsOK'
       /\ \A m \in Load \ {l} : load'[m] = load[m]
       /\ todo = {} => load'[l] = Unused
       /\ todo # {} => /\ load'[l].stage = "holding" /\ load'[l].arr = current
                       /\ load'[l].todo = todo /\ load'[l].kind = "reload"
                       /\ load'[l].peer = load[l].peer /\ load'[l].fetched = load[l].fetched
                       /\ Min(todo) \in todo
       /\ seen' = IF todo = {} THEN seen ELSE seen \cup {Min(todo)}
       /\ \A p \in Peer : \/ cache'[p] = cache[p]
                          \/ todo = {} /\ p = load[l].peer /\ cache'[p] = pushed[current].held
       /\ cache' \in [Peer -> BagOver(Bubble)] /\ seen' \subseteq Bubble
  BY <1>1, <1>8, <1>10, TakeNextFacts
<1>12. /\ array' \in [Array -> Holder(Bubble)] /\ array'[current] = pushed[current]
       /\ \A a \in Array : array'[a] = pushed[a] \/ array'[a] = Nothing
  BY <1>1, <1>5, <1>9, SweptFacts
<1>13. BubblesOK'
  BY <1>1, <1>3, <1>5, <1>11, <1>12 DEF BubblesOK, Array
<1>14. messages' = pushed[current].held
  BY <1>1, <1>12 DEF messages
<1>15. \A a \in Array : \/ array'[a].held = array[a].held
                        \/ array'[a].held = EmptyBag
                        \/ a = load[l].arr /\ array'[a].held = held
  BY <1>9, <1>12, NothingIsHolder
<1> QED BY <1>1, <1>2, <1>4, <1>10, <1>11, <1>13, <1>14, <1>15 DEF row, todo, held

-----------------------------------------------------------------------------
(* What the answer of a send does to the arrays.                           *)

\* The id changes in every array that shares the bubble's object.
LEMMA PostAnsweredFacts ==
    ASSUME BubblesOK, SendOK, PostAnswered, BagIn(send.temp, messages)
    PROVE  LET renamed(b) == Push(b (-) SetToBag({send.temp}), send.id)
           IN  /\ BubblesOK' /\ current' = current
               /\ send.id \in Row /\ messages' = renamed(messages)
               /\ \A a \in Array : \/ array'[a].held = array[a].held
                                   \/ /\ send.temp \in BagToSet(array[a].held)
                                      /\ array'[a].held = renamed(array[a].held)
               /\ \A p \in Peer : cache'[p] = IF p = selected THEN messages' ELSE cache[p]
               /\ seen' = (seen \ {send.temp}) \cup {send.id}
<1> DEFINE renamed(b) == Push(b (-) SetToBag({send.temp}), send.id)
<1>1. /\ seen' = (seen \ {send.temp}) \cup {send.id}
      /\ array' = Renamed(send.temp, send.id)
      /\ cache' = [cache EXCEPT ![selected] = array'[current].held]
      /\ rows' = rows /\ current' = current /\ sends' = sends
  BY DEF PostAnswered, Reclaimed, user
<1>2. Bubble' = Bubble /\ Row \subseteq Bubble
  BY <1>1 DEF Bubble, Row
<1>3. send.id \in Row
  BY DEF PostAnswered, SendOK
<1>4. ASSUME NEW a \in Array
      PROVE  /\ array'[a] \in Holder(Bubble)
             /\ \/ array'[a].held = array[a].held
                \/ /\ send.temp \in BagToSet(array[a].held)
                   /\ array'[a].held = renamed(array[a].held)
  <2>1. IsABag(array[a].held) /\ BagToSet(array[a].held) \subseteq Bubble /\ array[a] \in Holder(Bubble)
    BY BagFacts
  <2>2. renamed(array[a].held) \in BagOver(Bubble)
    <3> DEFINE c == array[a].held (-) SetToBag({send.temp})
    <3>1. IsABag(c) /\ BagToSet(c) \subseteq Bubble
      BY <2>1, DropFacts
    <3> HIDE DEF c
    <3>2. IsABag(Push(c, send.id)) /\ BagToSet(Push(c, send.id)) \subseteq Bubble
      BY <1>2, <1>3, <3>1, PushFacts
    <3> QED BY <3>2, BagOverFacts DEF c
  <2>3. array'[a] = IF array[a].since = array[current].since /\ send.temp \in BagToSet(array[a].held)
                    THEN [array[a] EXCEPT !.held = renamed(@)] ELSE array[a]
    BY <1>1 DEF Renamed, BagIn
  <2> HIDE DEF renamed
  <2> QED BY <2>1, <2>2, <2>3 DEF Holder
<1>5. array' \in [Array -> Holder(Bubble)] /\ current \in Array
  BY <1>1, <1>4, BagFacts DEF Renamed
<1>6. messages' = renamed(messages)
  <2>1. array'[current] = [array[current] EXCEPT !.held = renamed(@)]
    BY <1>1, <1>5 DEF Renamed, messages
  <2>2. array[current] \in Holder(Bubble)
    BY BagFacts
  <2> HIDE DEF renamed
  <2> QED BY <1>1, <2>1, <2>2 DEF Holder, messages
<1>7. messages' \in BagOver(Bubble) /\ messages' = array'[current].held
  BY <1>1, <1>5 DEF messages, Holder
<1>8. cache' \in [Peer -> BagOver(Bubble)]
      /\ \A p \in Peer : cache'[p] = IF p = selected THEN messages' ELSE cache[p]
  BY <1>1, <1>7 DEF BubblesOK
<1>9. seen' \subseteq Bubble
  BY <1>1, <1>2, <1>3 DEF BubblesOK
<1>10. BubblesOK'
  BY <1>1, <1>2, <1>5, <1>8, <1>9 DEF BubblesOK, Array
<1> QED BY <1>1, <1>3, <1>4, <1>6, <1>8, <1>10

\* The bubble goes from this.messages only.
LEMMA PostFailsFacts ==
    ASSUME BubblesOK, SendOK, PostFails, BagIn(send.temp, messages)
    PROVE  /\ BubblesOK' /\ current' = current
           /\ messages' = messages (-) SetToBag({send.temp})
           /\ \A a \in Array : \/ array'[a].held = array[a].held
                               \/ a = current /\ array'[a].held = messages'
           /\ \A p \in Peer : cache'[p] = IF p = selected THEN messages' ELSE cache[p]
           /\ seen' = seen \ {send.temp}
<1> DEFINE spliced == messages (-) SetToBag({send.temp})
<1>1. /\ seen' = seen \ {send.temp}
      /\ array' = [array EXCEPT ![current].held = spliced]
      /\ cache' = [cache EXCEPT ![selected] = array'[current].held]
      /\ rows' = rows /\ current' = current /\ sends' = sends
  BY DEF PostFails, Spliced, user, messages
<1>2. Bubble' = Bubble
  BY <1>1 DEF Bubble, Row
<1>3. /\ IsABag(messages) /\ BagToSet(messages) \subseteq Bubble /\ current \in Array
      /\ array[current] \in Holder(Bubble)
  BY BagFacts
<1>4. spliced \in BagOver(Bubble)
  <2>1. IsABag(spliced) /\ BagToSet(spliced) \subseteq Bubble
    BY <1>3, DropFacts
  <2> HIDE DEF spliced
  <2> QED BY <2>1, BagOverFacts
<1> HIDE DEF spliced
<1>5. /\ array' \in [Array -> Holder(Bubble)]
      /\ array'[current].held = spliced
      /\ \A a \in Array : array'[a].held = array[a].held \/ (a = current /\ array'[a].held = spliced)
  BY <1>1, <1>3, <1>4 DEF BubblesOK, Holder
<1>6. messages' = spliced
  BY <1>1, <1>5 DEF messages
<1>7. cache' \in [Peer -> BagOver(Bubble)]
      /\ \A p \in Peer : cache'[p] = IF p = selected THEN messages' ELSE cache[p]
  BY <1>1, <1>4, <1>5, <1>6 DEF BubblesOK
<1>8. BubblesOK'
  BY <1>1, <1>2, <1>3, <1>5, <1>7 DEF BubblesOK, Array
<1> QED BY <1>1, <1>5, <1>6, <1>7, <1>8 DEF spliced

-----------------------------------------------------------------------------
(* The types are kept.                                                     *)

\* A bubble somewhere on the screen, in an array of a handler, or in the cache.
Known ==
    (UNION {BagToSet(array[a].held) : a \in Array})
    \cup (UNION {BagToSet(cache[p]) : p \in Peer})

LEMMA KnownFacts ==
    /\ \A a \in Array : BagToSet(array[a].held) \subseteq Known
    /\ \A p \in Peer : BagToSet(cache[p]) \subseteq Known
    /\ \A S : (\A a \in Array : BagToSet(array[a].held) \subseteq S)
              /\ (\A p \in Peer : BagToSet(cache[p]) \subseteq S) => Known \subseteq S
BY DEF Known

LEMMA TempStays ==
    ASSUME TypesInv, UNCHANGED <<send, sends>>,
           \A a \in Array : BagToSet(array'[a].held) \subseteq Known \cup Row,
           \A p \in Peer : BagToSet(cache'[p]) \subseteq Known \cup Row
    PROVE  TempIsNew'
<1>1. SUFFICES ASSUME send.stage = "preparing"
               PROVE  /\ \A a \in Array : Temp(sends) \notin BagToSet(array'[a].held)
                      /\ \A p \in Peer : Temp(sends) \notin BagToSet(cache'[p])
  BY DEF TempIsNew, Temp, Array
<1>2. Temp(sends) \notin Row
  <2>1. sends \in Nat /\ sends >= 1
    BY <1>1 DEF TypesInv, SendOK
  <2> QED BY <2>1, RowFacts DEF TypesInv, Temp
<1>3. Temp(sends) \notin Known
  BY <1>1 DEF TypesInv, TempIsNew, Known
<1> QED BY <1>2, <1>3

LEMMA TypesStay ==
    ASSUME TypesInv, RowsGrow, RowsOK', NetOK', LoadsOK', SendOK', UNCHANGED bubbles,
           sends' >= sends, send'.stage = "preparing" => UNCHANGED <<send, sends>>
    PROVE  TypesInv'
<1>1. BubblesOK'
  <2>1. Bubble \subseteq Bubble'
    BY BubbleGrows DEF TypesInv, SendOK, RowsGrow
  <2> QED BY <2>1, BubblesStay DEF TypesInv
<1>2. TempIsNew'
  BY DEF TypesInv, TempIsNew, bubbles, Temp, Array
<1> QED BY <1>1, <1>2 DEF TypesInv

LEMMA TypesInit == ASSUME Init PROVE TypesInv
<1>1. Row = {} /\ RowsOK
  BY DEF Init, Row, RowsOK
<1>2. NetOK
  BY <1>1 DEF Init, NetOK
<1>3. 0 \in Array
  BY ChatAssumption, FS_CardinalityType DEF ChatAssumption, Array
<1>4. Nothing \in Holder(Bubble) /\ EmptyBag \in BagOver(Bubble)
  BY NothingIsHolder, EmptyBagFacts, BagOverFacts
<1>5. BubblesOK
  BY <1>3, <1>4 DEF Init, BubblesOK
<1>6. Unused \in Request(Row) /\ SoundRequest(Unused, rows)
  BY <1>3 DEF Unused, Request, SoundRequest
<1>7. LoadsOK
  BY <1>6 DEF Init, LoadsOK
<1>8. SendOK /\ TempIsNew
  BY DEF Init, SendOK, TempIsNew, Idle, Message, Ghost, Pending
<1> QED BY <1>1, <1>2, <1>5, <1>7, <1>8 DEF TypesInv

LEMMA StoreTypes ==
    ASSUME TypesInv, NEW p \in Peer, NEW mine \in BOOLEAN, Store(p, mine),
           UNCHANGED <<socket, everConnected, failed, selected, opening>>
    PROVE  RowsOK' /\ RowsGrow /\ NetOK'
<1>1. /\ RowsOK' /\ NewId \notin Row /\ Row' = Row \cup {NewId}
      /\ rows'[NewId].mine = mine /\ \A id \in Row : rows'[id] = rows[id]
  BY StoreFacts DEF TypesInv
<1>2. RowsGrow
  BY <1>1 DEF RowsGrow
<1>3. /\ frames' = IF mine \/ socket # "registered" THEN frames ELSE frames \cup {NewId}
      /\ unheard' \subseteq unheard \cup {NewId}
  BY DEF Store
<1>4. frames' \subseteq Row' /\ opening' \subseteq Row' /\ unheard' \subseteq Row'
  BY <1>1, <1>3 DEF TypesInv, NetOK
<1>5. \A id \in frames' \cup opening' : ~rows'[id].mine
  BY <1>1, <1>3 DEF TypesInv, NetOK
<1> QED BY <1>1, <1>2, <1>4, <1>5 DEF TypesInv, NetOK

\* The steps that change no row, no bubble and no send.
LEMMA SendStays ==
    ASSUME TypesInv, UNCHANGED <<rows, send, sends>>, opens' \in Nat, reloads' \in Nat,
           drops' \in Nat, elsewhere' \in Nat, crossed' \in Ghost, raced' \in Ghost
    PROVE  SendOK'
<1>1. Row' = Row /\ Pending' = Pending /\ Temp(sends)' = Temp(sends)
  BY DEF Row, Pending, Temp
<1> QED BY <1>1 DEF TypesInv, SendOK, Idle, Message

LEMMA NetworkTypes == ASSUME TypesInv, Network PROVE TypesInv'
<1> USE DEF TypesInv
<1>0. opens \in Nat /\ reloads \in Nat /\ drops \in Nat /\ elsewhere \in Nat /\ sends \in Nat
      /\ crossed \in Ghost /\ raced \in Ghost
  BY DEF SendOK
<1>1. ASSUME NEW p \in Peer, NEW mine \in BOOLEAN, Store(p, mine), elsewhere' \in Nat,
             UNCHANGED <<socket, everConnected, failed, selected, bubbles, opening, load,
                         send, opens, reloads, sends, drops, crossed, raced>>
      PROVE  TypesInv'
  <2>1. RowsOK' /\ RowsGrow /\ NetOK'
    BY <1>1, StoreTypes
  <2>2. LoadsOK'
    BY <1>1, <2>1, LoadsStay
  <2>3. SendOK'
    <3>1. Pending' = Pending /\ Temp(sends)' = Temp(sends)
      BY <1>1 DEF Pending, Temp
    <3> QED BY <1>0, <1>1, <2>1, <3>1 DEF SendOK, RowsGrow, Idle, Message
  <2> QED BY <1>0, <1>1, <2>1, <2>2, <2>3, TypesStay
<1>2. ASSUME NEW p \in Peer, PeerSends(p) PROVE TypesInv'
  BY <1>0, <1>1, <1>2 DEF PeerSends, user
<1>3. ASSUME NEW p \in Peer, SentElsewhere(p) PROVE TypesInv'
  <2>1. elsewhere' \in Nat
    BY <1>0, <1>3 DEF SentElsewhere
  <2> QED BY <1>1, <1>3, <2>1 DEF SentElsewhere
<1>4. ASSUME rows' = rows PROVE Row' = Row /\ RowsGrow /\ RowsOK'
  BY <1>4 DEF Row, RowsGrow, RowsOK
<1>5. CASE Drop
  <2>1. RowsOK' /\ RowsGrow /\ NetOK'
    BY <1>4, <1>5 DEF Drop, NetOK, ghosts
  <2>2. LoadsOK'
    BY <1>5, <2>1, LoadsStay DEF Drop
  <2>3. SendOK'
    BY <1>0, <1>5, SendStays DEF Drop, ghosts
  <2> QED BY <1>0, <1>5, <2>1, <2>2, <2>3, TypesStay DEF Drop
<1>6. CASE Connect
  <2>1. RowsOK' /\ RowsGrow /\ NetOK'
    BY <1>4, <1>6 DEF Connect, NetOK
  <2>2. LoadsOK' /\ raced' \in Ghost
    <3>1. CASE ReloadsOnConnect
      <4>1. selected \in Peer
        BY <3>1 DEF ReloadsOnConnect, NetOK
      <4> QED BY <1>0, <1>6, <2>1, <3>1, <4>1, AskFacts DEF Connect
    <3>2. CASE ~ReloadsOnConnect
      BY <1>0, <1>6, <2>1, <3>2, LoadsStay DEF Connect
    <3> QED BY <3>1, <3>2
  <2>3. SendOK'
    BY <1>0, <1>6, <2>2, SendStays DEF Connect, user
  <2> QED BY <1>0, <1>6, <2>1, <2>2, <2>3, TypesStay DEF Connect, user
<1>7. CASE HubRegisters
  <2>1. RowsOK' /\ RowsGrow /\ NetOK'
    BY <1>4, <1>7 DEF HubRegisters, NetOK, ghosts
  <2>2. LoadsOK'
    BY <1>7, <2>1, LoadsStay DEF HubRegisters
  <2>3. SendOK'
    BY <1>0, <1>7, SendStays DEF HubRegisters, user, ghosts
  <2> QED BY <1>0, <1>7, <2>1, <2>2, <2>3, TypesStay DEF HubRegisters, user
<1> QED BY <1>2, <1>3, <1>5, <1>6, <1>7 DEF Network

LEMMA FrameTypes ==
    ASSUME TypesInv, NEW id \in Row, FrameArrives(id) \/ FrameOpened(id)
    PROVE  TypesInv'
<1> USE DEF TypesInv
<1>0. opens \in Nat /\ reloads \in Nat /\ drops \in Nat /\ elsewhere \in Nat /\ sends \in Nat
      /\ crossed \in Ghost /\ raced \in Ghost
  BY DEF SendOK
<1>1. rows' = rows /\ Row' = Row /\ RowsGrow /\ RowsOK' /\ load' = load /\ send' = send
      /\ UNCHANGED user /\ crossed' = crossed
  BY DEF FrameArrives, FrameOpened, Row, RowsGrow, RowsOK, ghosts
<1>2. NetOK'
  BY <1>1 DEF FrameArrives, FrameOpened, NetOK, ghosts
<1>3. LoadsOK'
  BY <1>1, LoadsStay
<1>4. SendOK'
  <2>1. raced' \in Ghost
    BY <1>0 DEF FrameArrives, FrameOpened, ghosts, Raced, Ghost
  <2> QED BY <1>0, <1>1, <2>1, SendStays DEF user
<1>5. CASE UNCHANGED bubbles
  BY <1>0, <1>1, <1>2, <1>3, <1>4, <1>5, TypesStay DEF user
<1>6. CASE seen' = seen \cup {id} /\ PushAndCopy(id)
  <2>1. id \in Bubble /\ Bubble' = Bubble
    BY <1>1 DEF Bubble, user
  <2>2. seen' \subseteq Bubble'
    BY <1>6, <2>1 DEF BubblesOK
  <2>3. /\ BubblesOK'
        /\ \A a \in Array : \/ array'[a].held = array[a].held
                            \/ array'[a].held = EmptyBag
                            \/ array'[a].held = Push(messages, id)
        /\ \A p \in Peer : cache'[p] = IF p = selected THEN Push(messages, id) ELSE cache[p]
    BY <1>6, <2>1, <2>2, PushAndCopyFacts
  <2>4. IsABag(messages) /\ BagToSet(messages) \subseteq Known /\ current \in Array
    BY BagFacts, KnownFacts DEF messages
  <2>5. BagToSet(Push(messages, id)) \subseteq Known \cup Row
    BY <2>4, PushFacts
  <2>6. TempIsNew'
    BY <1>1, <2>3, <2>5, TempStays, KnownFacts, EmptyBagFacts DEF user
  <2> QED BY <1>1, <1>2, <1>3, <1>4, <2>3, <2>6
<1> QED BY <1>5, <1>6 DEF FrameArrives, FrameOpened, Claimed

\* The steps that change one request only, and the ghost of races.
LEMMA LoadTypes ==
    ASSUME TypesInv, NEW l \in Load, Serve(l) \/ LoadFails(l) \/ LookUp(l)
    PROVE  /\ TypesInv' /\ \A m \in Load \ {l} : load'[m] = load[m]
           /\ Serve(l) => /\ load'[l].stage = "served"
                          /\ load'[l].fetched = {id \in Row : rows[id].peer = load[l].peer}
                          /\ load'[l].kind = load[l].kind /\ load'[l].peer = load[l].peer
           /\ LoadFails(l) => load'[l] = Unused
           /\ LookUp(l) => /\ load'[l].stage = "holding" /\ load'[l].arr = current
                           /\ load'[l].kind = "open" /\ load'[l].peer = load[l].peer
                           /\ load'[l].fetched = load[l].fetched
<1> USE DEF TypesInv
<1>0. opens \in Nat /\ reloads \in Nat /\ drops \in Nat /\ elsewhere \in Nat /\ sends \in Nat
      /\ crossed \in Ghost /\ raced \in Ghost
  BY DEF SendOK
<1>1. rows' = rows /\ Row' = Row /\ RowsGrow /\ RowsOK' /\ send' = send
      /\ UNCHANGED user /\ crossed' = crossed /\ UNCHANGED bubbles
  BY DEF Serve, LoadFails, LookUp, Row, RowsGrow, RowsOK, ghosts
<1>2. NetOK'
  BY <1>1 DEF Serve, LoadFails, LookUp, NetOK, ghosts
<1>3. SendOK'
  <2>1. raced' \in Ghost
    BY <1>0 DEF Serve, LoadFails, LookUp, ghosts, Raced, Ghost
  <2> QED BY <1>0, <1>1, <2>1, SendStays DEF user
<1>4. load[l] \in Request(Row) /\ SoundRequest(load[l], rows) /\ load \in [Load -> Request(Row)]
  BY DEF LoadsOK
<1>5. \A q \in Request(Row) :
        SoundRequest(q, rows) /\ load' = [load EXCEPT ![l] = q]
        => LoadsOK' /\ load'[l] = q /\ \A m \in Load \ {l} : load'[m] = load[m]
  BY <1>1, LoadsChange
<1>6. TypesInv' <=> LoadsOK'
  BY <1>0, <1>1, <1>2, <1>3, TypesStay DEF user
<1>7. ASSUME Serve(l)
      PROVE  /\ LoadsOK' /\ \A m \in Load \ {l} : load'[m] = load[m]
             /\ load'[l].stage = "served" /\ load[l].stage = "asked"
             /\ load'[l].fetched = {id \in Row : rows[id].peer = load[l].peer}
             /\ load'[l].kind = load[l].kind /\ load'[l].peer = load[l].peer
  <2> DEFINE q == [load[l] EXCEPT !.stage = "served",
                                  !.fetched = {id \in Row : rows[id].peer = load[l].peer}]
  <2>1. load[l].stage = "asked" /\ load' = [load EXCEPT ![l] = q]
    BY <1>4, <1>7 DEF Serve
  <2>2. /\ q \in Request(Row) /\ q.stage = "served" /\ q.kind = load[l].kind /\ q.peer = load[l].peer
        /\ q.fetched = {id \in Row : rows[id].peer = load[l].peer} /\ q.todo = load[l].todo
    BY <1>4 DEF Request
  <2>3. SoundRequest(q, rows)
    BY <1>4, <2>1, <2>2 DEF SoundRequest, Request
  <2> HIDE DEF q
  <2> QED BY <1>5, <2>1, <2>2, <2>3
<1>8. ASSUME LoadFails(l)
      PROVE  LoadsOK' /\ load'[l] = Unused /\ \A m \in Load \ {l} : load'[m] = load[m]
  <2>1. Unused \in Request(Row) /\ SoundRequest(Unused, rows)
    <3>1. 0 \in Array
      BY ChatAssumption, FS_CardinalityType DEF ChatAssumption, Array
    <3> QED BY <3>1 DEF Unused, Request, SoundRequest
  <2> QED BY <1>5, <1>8, <2>1 DEF LoadFails
<1>9. ASSUME LookUp(l)
      PROVE  /\ LoadsOK' /\ \A m \in Load \ {l} : load'[m] = load[m]
             /\ load'[l].stage = "holding" /\ load'[l].arr = current /\ load[l].stage = "served"
             /\ load'[l].kind = "open" /\ load'[l].peer = load[l].peer
             /\ load'[l].fetched = load[l].fetched
  <2> DEFINE q == [load[l] EXCEPT !.stage = "holding", !.arr = current]
  <2>1. load[l].stage = "served" /\ load[l].kind = "open" /\ load' = [load EXCEPT ![l] = q]
    BY <1>4, <1>9 DEF LookUp
  <2>2. /\ q \in Request(Row) /\ q.stage = "holding" /\ q.kind = "open" /\ q.peer = load[l].peer
        /\ q.fetched = load[l].fetched /\ q.todo = load[l].todo /\ q.arr = current
    BY <1>4, <2>1 DEF Request, BubblesOK
  <2>3. SoundRequest(q, rows)
    BY <1>4, <2>1, <2>2 DEF SoundRequest
  <2> HIDE DEF q
  <2> QED BY <1>5, <2>1, <2>2, <2>3
<1> QED BY <1>6, <1>7, <1>8, <1>9

LEMMA ReloadTypes == ASSUME TypesInv, Reload PROVE TypesInv'
<1> USE DEF TypesInv
<1>0. opens \in Nat /\ reloads \in Nat /\ drops \in Nat /\ elsewhere \in Nat /\ sends \in Nat
      /\ crossed \in Ghost /\ raced \in Ghost
  BY DEF SendOK
<1>1. rows' = rows /\ Row' = Row /\ RowsGrow /\ RowsOK' /\ UNCHANGED bubbles /\ NetOK'
  BY DEF Reload, Row, RowsGrow, RowsOK, NetOK
<1>2. selected \in Peer /\ \E l \in Load : Ask(l, "reload", selected)
  BY DEF Reload, NetOK
<1>3. LoadsOK' /\ raced' \in Ghost
  BY <1>0, <1>1, <1>2, AskFacts
<1>4. SendOK'
  <2>1. reloads' \in Nat
    BY <1>0 DEF Reload
  <2> QED BY <1>0, <1>1, <1>3, <2>1, SendStays DEF Reload
<1> QED BY <1>0, <1>1, <1>3, <1>4, TypesStay DEF Reload

LEMMA SelectTypes == ASSUME TypesInv, NEW p \in Peer, SelectUser(p) PROVE TypesInv'
<1> USE DEF TypesInv
<1>0. opens \in Nat /\ reloads \in Nat /\ drops \in Nat /\ elsewhere \in Nat /\ sends \in Nat
  BY DEF SendOK
<1>1. rows' = rows /\ Row' = Row /\ RowsOK' /\ send' = send /\ sends' = sends /\ cache' = cache
  BY DEF SelectUser, Row, RowsOK
<1>2. NetOK'
  BY <1>1 DEF SelectUser, NetOK
<1>3. /\ BubblesOK' /\ LoadsOK' /\ raced' \in Ghost /\ crossed' \in Ghost
      /\ \A a \in Array : \/ array'[a].held = array[a].held
                          \/ array'[a].held = EmptyBag
                          \/ array'[a].held = cache[p]
  BY SelectFacts
<1>4. SendOK'
  <2>1. opens' \in Nat
    BY <1>0 DEF SelectUser
  <2> QED BY <1>0, <1>1, <1>3, <2>1, SendStays DEF SelectUser
<1>5. TempIsNew'
  BY <1>1, <1>3, TempStays, KnownFacts, EmptyBagFacts
<1> QED BY <1>1, <1>2, <1>3, <1>4, <1>5

LEMMA MergeTypes ==
    ASSUME TypesInv, NEW l \in Load, Merge(l) \/ ReloadAnswered(l) \/ RowOpened(l)
    PROVE  TypesInv'
<1> USE DEF TypesInv
<1>0. opens \in Nat /\ reloads \in Nat /\ drops \in Nat /\ elsewhere \in Nat /\ sends \in Nat
      /\ crossed \in Ghost /\ raced \in Ghost
  BY DEF SendOK
<1>1. rows' = rows /\ Row' = Row /\ RowsOK' /\ send' = send /\ UNCHANGED user /\ crossed' = crossed
  BY DEF Merge, ReloadAnswered, RowOpened, Row, RowsOK, ghosts
<1>2. NetOK'
  BY <1>1 DEF Merge, ReloadAnswered, RowOpened, NetOK, ghosts
<1>3. SendOK'
  <2>1. raced' \in Ghost
    BY <1>0 DEF Merge, ReloadAnswered, RowOpened, ghosts, Raced, Ghost
  <2> QED BY <1>0, <1>1, <2>1, SendStays DEF user
<1>4. IsABag(messages) /\ BagToSet(messages) \subseteq Known
  BY BagFacts, KnownFacts DEF messages
<1>5. CASE Merge(l)
  <2> DEFINE held == array[load[l].arr].held
             M == Merged(held, load[l].fetched)
  <2>1. /\ BubblesOK' /\ LoadsOK' /\ IsABag(held) /\ load[l].fetched \subseteq Row
        /\ load[l].arr \in Array
        /\ \A a \in Array : \/ array'[a].held = array[a].held
                            \/ array'[a].held = EmptyBag
                            \/ array'[a].held = M
        /\ \A q \in Peer : cache'[q] = IF q = load[l].peer THEN M ELSE cache[q]
    BY <1>5, MergeFacts
  <2>2. BagToSet(M) \subseteq Known \cup Row
    BY <2>1, KnownFacts, MergedFacts
  <2> HIDE DEF M, held
  <2>3. TempIsNew'
    BY <1>1, <2>1, <2>2, TempStays, KnownFacts, EmptyBagFacts DEF user
  <2> QED BY <1>1, <1>2, <1>3, <2>1, <2>3
<1>6. CASE ReloadAnswered(l)
  <2>1. /\ BubblesOK' /\ LoadsOK' /\ array' = array
        /\ \A q \in Peer : cache'[q] = cache[q] \/ cache'[q] = messages
    BY <1>6, ReloadAnsweredFacts
  <2>2. TempIsNew'
    BY <1>1, <1>4, <2>1, TempStays, KnownFacts DEF user
  <2> QED BY <1>1, <1>2, <1>3, <2>1, <2>2
<1>7. CASE RowOpened(l)
  <2> DEFINE row == Min(load[l].todo)
             held == Push(array[load[l].arr].held, row)
  <2>1. /\ BubblesOK' /\ LoadsOK' /\ load[l].arr \in Array /\ row \in Row
        /\ \A q \in Peer : cache'[q] = cache[q] \/ cache'[q] = messages'
        /\ messages' = held \/ messages' = messages
        /\ \A a \in Array : \/ array'[a].held = array[a].held
                            \/ array'[a].held = EmptyBag
                            \/ array'[a].held = held
    BY <1>7, RowOpenedFacts
  <2>2. BagToSet(held) \subseteq Known \cup Row
    BY <2>1, BagFacts, KnownFacts, PushFacts
  <2> HIDE DEF held, row
  <2>3. TempIsNew'
    BY <1>1, <1>4, <2>1, <2>2, TempStays, KnownFacts, EmptyBagFacts DEF user
  <2> QED BY <1>1, <1>2, <1>3, <2>1, <2>3
<1> QED BY <1>5, <1>6, <1>7

LEMMA StartSendTypes == ASSUME TypesInv, StartSend PROVE TypesInv'
<1> USE DEF TypesInv
<1>0. opens \in Nat /\ reloads \in Nat /\ drops \in Nat /\ elsewhere \in Nat /\ sends \in Nat
      /\ crossed \in Ghost /\ raced \in Ghost
  BY DEF SendOK
<1>1. rows' = rows /\ Row' = Row /\ RowsGrow /\ RowsOK' /\ load' = load /\ UNCHANGED bubbles /\ NetOK'
      /\ sends' = sends + 1
  BY DEF StartSend, Row, RowsGrow, RowsOK, NetOK, ghosts
<1>2. LoadsOK'
  BY <1>1, LoadsStay
<1>3. BubblesOK'
  BY <1>0, <1>1, BubbleGrows, BubblesStay
<1>4. selected \in Peer /\ send'.stage = "preparing" /\ send'.peer = selected /\ send' \in Message
  <2>1. selected \in Peer /\ send' = [Idle EXCEPT !.stage = "preparing", !.peer = selected]
    BY DEF StartSend, NetOK
  <2>2. Idle \in Message
    BY DEF Idle, Message
  <2> QED BY <2>1, <2>2 DEF Message
<1>5. SendOK'
  BY <1>0, <1>1, <1>4 DEF StartSend, SendOK, Pending, ghosts
<1>6. TempIsNew'
  <2>1. Temp(sends + 1) \notin Bubble
    <3>1. Temp(sends + 1) \notin Row
      BY <1>0, RowFacts DEF Temp
    <3>2. \A n \in 1 .. sends : Temp(sends + 1) # Temp(n)
      BY <1>0 DEF Temp
    <3> QED BY <3>1, <3>2 DEF Bubble
  <2>2. array' = array /\ cache' = cache /\ Temp(sends)' = Temp(sends + 1)
    BY <1>1 DEF bubbles, Temp
  <2> QED BY <2>1, <2>2, BagFacts DEF TempIsNew, Array
<1> QED BY <1>1, <1>2, <1>3, <1>5, <1>6

LEMMA IdleTypes ==
    ASSUME TypesInv, send' = Idle, UNCHANGED <<rows, user, crossed>>, raced' \in Ghost
    PROVE  SendOK' /\ TempIsNew' /\ RowsOK' /\ RowsGrow
<1>1. RowsOK' /\ RowsGrow
  BY DEF TypesInv, Row, RowsGrow, RowsOK
<1>2. Idle \in Message /\ Idle.stage = "idle"
  BY DEF Idle, Message
<1>3. SendOK' /\ TempIsNew'
  BY <1>2 DEF TypesInv, SendOK, TempIsNew, Pending, user
<1> QED BY <1>1, <1>3

LEMMA SendingTypes == ASSUME TypesInv, Sending PROVE TypesInv'
<1> USE DEF TypesInv
<1>0. opens \in Nat /\ reloads \in Nat /\ drops \in Nat /\ elsewhere \in Nat /\ sends \in Nat
      /\ crossed \in Ghost /\ raced \in Ghost
  BY DEF SendOK
<1>1. CASE StartSend
  BY <1>1, StartSendTypes
<1>2. CASE PrepareFails
  <2>1. SendOK' /\ TempIsNew' /\ RowsOK' /\ RowsGrow
    BY <1>0, <1>2, IdleTypes DEF PrepareFails, ghosts
  <2>2. NetOK' /\ UNCHANGED bubbles /\ load' = load /\ sends' = sends
    BY <1>2 DEF PrepareFails, NetOK, ghosts, Row, user
  <2>3. LoadsOK'
    BY <2>1, <2>2, LoadsStay
  <2>4. send'.stage = "idle"
    BY <1>2 DEF PrepareFails, Idle
  <2> QED BY <1>0, <2>1, <2>2, <2>3, <2>4, TypesStay
<1>3. CASE Prepared
  <2>1. /\ rows' = rows /\ Row' = Row /\ RowsGrow /\ RowsOK' /\ load' = load /\ sends' = sends
        /\ seen' = seen /\ PushAndCopy(Temp(sends))
    BY <1>3 DEF Prepared, Row, RowsGrow, RowsOK, user
  <2>2. NetOK'
    BY <1>3 DEF Prepared, NetOK, Row
  <2>3. LoadsOK'
    BY <2>1, LoadsStay
  <2>4. Bubble' = Bubble /\ Temp(sends) \in Bubble
    BY <1>3, <2>1 DEF Bubble, Prepared, SendOK
  <2>5. BubblesOK'
    BY <2>1, <2>4, PushAndCopyFacts DEF BubblesOK
  <2>6. send'.stage = "posting" /\ send'.temp = Temp(sends) /\ send'.peer = send.peer
        /\ send' \in Message
    <3>1. Temp(sends) \in Int
      BY <1>0 DEF Temp
    <3>2. send \in Message /\ send' = [send EXCEPT !.stage = "posting", !.temp = Temp(sends)]
      BY <1>3 DEF Prepared, SendOK
    <3> QED BY <3>1, <3>2 DEF Message
  <2>7. raced' \in Ghost
    BY <1>0, <1>3 DEF Prepared, Raced, Ghost
  <2>8. SendOK'
    <3>1. Temp(sends)' = Temp(sends)
      BY <2>1 DEF Temp
    <3> QED BY <1>0, <1>3, <2>1, <2>6, <2>7, <3>1 DEF Prepared, SendOK, user
  <2>9. TempIsNew'
    BY <2>6 DEF TempIsNew
  <2> QED BY <2>1, <2>2, <2>3, <2>5, <2>8, <2>9
<1>4. CASE PostStored
  <2>1. send.stage = "posting" /\ send.peer \in Peer /\ Store(send.peer, TRUE)
    BY <1>4 DEF PostStored, SendOK
  <2>2. RowsOK' /\ RowsGrow /\ NetOK'
    BY <1>4, <2>1, StoreTypes DEF PostStored
  <2>3. NewId \in Row' /\ rows'[NewId].peer = send.peer /\ rows'[NewId].mine = TRUE /\ NewId \in Nat
    BY <2>1, StoreFacts
  <2>4. LoadsOK'
    BY <1>4, <2>2, LoadsStay DEF PostStored
  <2>5. send'.stage = "stored" /\ send'.temp = send.temp /\ send'.peer = send.peer
        /\ send'.id = NewId /\ send' \in Message
    BY <1>4, <2>3 DEF PostStored, SendOK, Message
  <2>6. SendOK'
    <3>1. Temp(sends)' = Temp(sends)
      BY <1>4 DEF Temp, PostStored, user
    <3> QED BY <1>0, <1>4, <2>1, <2>3, <2>5, <3>1 DEF PostStored, SendOK, Pending, user
  <2> QED BY <1>0, <1>4, <2>2, <2>4, <2>5, <2>6, TypesStay DEF PostStored, user
<1>5. CASE PostAnswered \/ PostFails
  <2>1. raced' \in Ghost /\ send' = Idle /\ UNCHANGED <<rows, user, crossed>>
        /\ load' = load /\ NetOK' /\ sends' = sends /\ current' = current
    BY <1>0, <1>5 DEF PostAnswered, PostFails, Raced, Ghost, NetOK, Row, user
  <2>2. SendOK' /\ TempIsNew' /\ RowsOK' /\ RowsGrow
    BY <2>1, IdleTypes
  <2>3. LoadsOK'
    BY <2>1, <2>2, LoadsStay
  <2>4. CASE BagIn(send.temp, messages)
    <3>1. BubblesOK'
      BY <1>5, <2>4, PostAnsweredFacts, PostFailsFacts
    <3> QED BY <2>1, <2>2, <2>3, <3>1
  <2>5. CASE ~BagIn(send.temp, messages)
    <3>1. UNCHANGED bubbles
      BY <1>5, <2>1, <2>5 DEF PostAnswered, PostFails, bubbles
    <3>2. BubblesOK'
      BY <1>0, <2>1, <2>2, <3>1, BubbleGrows, BubblesStay DEF RowsGrow
    <3> QED BY <2>1, <2>2, <2>3, <3>2
  <2> QED BY <2>4, <2>5
<1> QED BY <1>1, <1>2, <1>3, <1>4, <1>5 DEF Sending

LEMMA TypesStutter == ASSUME TypesInv, UNCHANGED vars PROVE TypesInv'
<1> USE DEF TypesInv
<1>1. rows' = rows /\ load' = load /\ send' = send /\ UNCHANGED user /\ UNCHANGED bubbles
      /\ UNCHANGED ghosts /\ Row' = Row
  BY DEF vars, Row
<1>2. RowsOK' /\ RowsGrow /\ NetOK'
  BY <1>1 DEF vars, RowsOK, RowsGrow, NetOK, ghosts
<1>3. LoadsOK'
  BY <1>1, <1>2, LoadsStay
<1>4. SendOK'
  BY <1>1, SendStays DEF SendOK, user, ghosts
<1> QED BY <1>1, <1>2, <1>3, <1>4, TypesStay DEF SendOK, user

LEMMA TypesNext == ASSUME TypesInv, [Next]_vars PROVE TypesInv'
<1>1. CASE Network
  BY <1>1, NetworkTypes
<1>2. CASE Frame
  BY <1>2, FrameTypes DEF Frame
<1>3. CASE Thread
  BY <1>3, ReloadTypes, SelectTypes, LoadTypes, MergeTypes DEF Thread
<1>4. CASE Sending
  BY <1>4, SendingTypes
<1>5. CASE UNCHANGED vars
  BY <1>5, TypesStutter
<1> QED BY <1>1, <1>2, <1>3, <1>4, <1>5 DEF Next

\* Every variable of the thread keeps its type, and an assignment to
\* this.messages always finds an array nobody refers to.
THEOREM ChatTypes == Spec => []TypeOK
<1>1. TypesInv => TypeOK
  <2> SUFFICES ASSUME TypesInv PROVE TypeOK
    OBVIOUS
  <2> USE DEF TypesInv
  <2>1. current \in Array /\ Array \ Held # {}
    BY BagFacts, ArrOK, SomeArrayIsFree DEF Held
  <2>2. \A l \in Load : load[l].fetched \subseteq Row /\ load[l].todo \subseteq load[l].fetched
    BY ArrOK DEF Request, SoundRequest
  <2>3. \A a \in Array : IsABag(array[a].held) /\ BagToSet(array[a].held) \subseteq Bubble
    BY BagFacts
  <2>4. \A p \in Peer : IsABag(cache[p]) /\ BagToSet(cache[p]) \subseteq Bubble
    BY BagFacts
  <2>5. {everConnected, failed} \subseteq BOOLEAN /\ {crossed, raced} \subseteq {"never", "before", "now"}
    BY DEF NetOK, SendOK, Ghost
  <2> QED BY <2>1, <2>2, <2>3, <2>4, <2>5 DEF TypeOK, RowsOK, NetOK, BubblesOK
<1>2. Spec => []TypesInv
  BY TypesInit, TypesNext, PTL DEF Spec
<1> QED BY <1>1, <1>2, PTL

-----------------------------------------------------------------------------
(* Most steps leave the bubbles alone.  What they may do, for the          *)
(* invariants about bubbles, is one request, or the send.                  *)

\* A request is asked for the open thread, answered, given up, or looks up
\* this.messages.
QuietLoad(l) ==
    /\ \A m \in Load \ {l} : load'[m] = load[m]
    /\ send' = send
    /\ \/ /\ load[l].stage = "unused"
          /\ load'[l].stage = "asked" /\ load'[l].peer = selected
          /\ raced' # "now" => Busy = {}
       \/ /\ load[l].stage = "asked" /\ load'[l].stage = "served"
          /\ load'[l].kind = load[l].kind /\ load'[l].peer = load[l].peer
       \/ /\ load[l].stage \in {"asked", "served"} /\ load'[l] = Unused
       \/ /\ load[l].stage = "served" /\ load'[l].stage = "holding"
          /\ load[l].kind = "open" /\ load'[l].kind = "open"
          /\ load'[l].arr = current
          /\ load'[l].fetched = load[l].fetched /\ load'[l].peer = load[l].peer
          /\ raced' # "now" => ~Pending

\* A send starts, is stored, or ends; it may not have a bubble to end.
QuietSend ==
    /\ load' = load
    /\ \/ send' = send
       \/ /\ send = Idle /\ send'.stage = "preparing" /\ send'.peer = selected
       \/ /\ send.stage = "posting" /\ send'.stage = "stored"
          /\ send'.peer = send.peer /\ send'.temp = send.temp /\ send'.id \notin Row
       \/ /\ send' = Idle
          /\ Pending => send.temp \notin Shown

Quiet ==
    /\ UNCHANGED <<bubbles, crossed, selected>>
    /\ RowsGrow
    /\ raced' # "now" => raced # "now"
    /\ raced' = "never" => raced = "never"
    /\ QuietSend \/ \E l \in Load : QuietLoad(l)
    /\ opening' \ opening \subseteq {id \in Row : rows[id].peer = selected}

\* The steps that change bubbles.
FramePushed(id) == FrameOpened(id) /\ id \notin seen
Confirmed == PostAnswered /\ send.temp \in Shown
RolledBack == PostFails /\ send.temp \in Shown

Loud ==
    \/ \E id \in Row : FramePushed(id)
    \/ \E p \in Peer : SelectUser(p)
    \/ \E l \in Load : Merge(l) \/ ReloadAnswered(l) \/ RowOpened(l)
    \/ Prepared \/ Confirmed \/ RolledBack

LEMMA AskIsQuiet ==
    ASSUME TypesInv, selected \in Peer, NEW l \in Load, Ask(l, "reload", selected),
           RowsGrow, UNCHANGED send
    PROVE  /\ QuietLoad(l)
           /\ raced' # "now" => raced # "now"
           /\ raced' = "never" => raced = "never"
<1>1. raced \in Ghost
  BY DEF TypesInv, SendOK
<1>2. /\ load[l].stage = "unused" /\ load'[l].stage = "asked" /\ load'[l].peer = selected
      /\ \A m \in Load \ {l} : load'[m] = load[m]
      /\ raced' # "now" => Busy = {} /\ (raced # "now" \/ ("reload" = "open" /\ ~UnderWay))
      /\ raced' = "never" => raced = "never"
  BY <1>1, AskFacts DEF TypesInv
<1> QED BY <1>2 DEF QuietLoad

LEMMA StepKinds == ASSUME TypesInv, [Next]_vars PROVE Quiet \/ Loud
<1>0. /\ rows' = rows => RowsGrow
      /\ opening' = opening => opening' \ opening \subseteq {id \in Row : rows[id].peer = selected}
      /\ load' = load /\ send' = send => QuietSend
  BY DEF RowsGrow, Row, QuietSend
<1>1. ASSUME Network PROVE Quiet
  <2>1. ASSUME NEW p \in Peer, PeerSends(p) \/ SentElsewhere(p) PROVE Quiet
    <3>1. RowsGrow
      BY <2>1, StoreFacts DEF PeerSends, SentElsewhere, RowsGrow, TypesInv
    <3> QED BY <1>0, <2>1, <3>1 DEF PeerSends, SentElsewhere, Quiet
  <2>2. CASE Drop \/ HubRegisters
    BY <1>0, <2>2 DEF Drop, HubRegisters, Quiet, ghosts
  <2>3. CASE Connect
    <3>1. CASE ReloadsOnConnect
      <4>1. selected \in Peer
        BY <3>1 DEF ReloadsOnConnect, TypesInv, NetOK
      <4>2. PICK l \in Load : Ask(l, "reload", selected)
        BY <2>3, <3>1 DEF Connect
      <4> QED BY <1>0, <2>3, <4>1, <4>2, AskIsQuiet DEF Connect, Quiet
    <3>2. CASE ~ReloadsOnConnect
      BY <1>0, <2>3, <3>2 DEF Connect, Quiet
    <3> QED BY <3>1, <3>2
  <2> QED BY <1>1, <2>1, <2>2, <2>3 DEF Network
<1>2. ASSUME NEW id \in Row, FrameArrives(id) \/ FrameOpened(id) PROVE Quiet \/ Loud
  <2>1. CASE FrameArrives(id)
    BY <1>0, <2>1 DEF FrameArrives, Accepts, Quiet, ghosts
  <2>2. CASE FrameOpened(id) /\ id \in seen
    BY <1>0, <2>2 DEF FrameOpened, Quiet
  <2> QED BY <1>2, <2>1, <2>2 DEF FramePushed, Loud
<1>3. ASSUME Thread PROVE Quiet \/ Loud
  <2>1. CASE Reload
    <3>1. selected \in Peer
      BY <2>1 DEF Reload, TypesInv, NetOK
    <3>2. PICK l \in Load : Ask(l, "reload", selected)
      BY <2>1 DEF Reload
    <3> QED BY <1>0, <2>1, <3>1, <3>2, AskIsQuiet DEF Reload, Quiet
  <2>2. ASSUME NEW l \in Load, Serve(l) \/ LoadFails(l) \/ LookUp(l) PROVE Quiet
    <3>1. /\ \A m \in Load \ {l} : load'[m] = load[m]
          /\ Serve(l) => /\ load'[l].stage = "served"
                         /\ load'[l].kind = load[l].kind /\ load'[l].peer = load[l].peer
          /\ LoadFails(l) => load'[l] = Unused
          /\ LookUp(l) => /\ load'[l].stage = "holding" /\ load'[l].arr = current
                          /\ load'[l].kind = "open" /\ load'[l].peer = load[l].peer
                          /\ load'[l].fetched = load[l].fetched
      BY <2>2, LoadTypes
    <3>2. /\ Serve(l) => load[l].stage = "asked"
          /\ LoadFails(l) => load[l].stage \in {"asked", "served"}
          /\ LookUp(l) => load[l].stage = "served" /\ load[l].kind = "open"
          /\ LookUp(l) => raced' = Raced(Pending)
          /\ LookUp(l) \/ raced' = raced
          /\ send' = send /\ rows' = rows /\ opening' = opening
          /\ UNCHANGED <<bubbles, crossed, selected>>
      BY <2>2 DEF Serve, LoadFails, LookUp, ghosts
    <3>3. /\ raced' # "now" => raced # "now" /\ (LookUp(l) => ~Pending)
          /\ raced' = "never" => raced = "never"
      BY <3>2 DEF Raced
    <3>4. QuietLoad(l)
      BY <2>2, <3>1, <3>2, <3>3 DEF QuietLoad
    <3> QED BY <1>0, <3>2, <3>3, <3>4 DEF Quiet
  <2> QED BY <1>3, <2>1, <2>2 DEF Thread, Loud
<1>4. ASSUME Sending PROVE Quiet \/ Loud
  <2>1. CASE StartSend
    <3>1. send = Idle /\ send'.stage = "preparing" /\ send'.peer = selected
      BY <2>1 DEF StartSend, Idle
    <3> QED BY <1>0, <2>1, <3>1 DEF StartSend, Quiet, QuietSend, ghosts
  <2>2. CASE PrepareFails
    BY <1>0, <2>2 DEF PrepareFails, Quiet, QuietSend, Pending, ghosts
  <2>3. CASE PostStored
    <3>1. send.stage = "posting" /\ send.peer \in Peer /\ Store(send.peer, TRUE)
      BY <2>3 DEF PostStored, TypesInv, SendOK
    <3>2. RowsGrow /\ NewId \notin Row
      BY <3>1, StoreFacts DEF RowsGrow, TypesInv
    <3>3. /\ send'.stage = "stored" /\ send'.peer = send.peer /\ send'.temp = send.temp
          /\ send'.id = NewId
      BY <2>3 DEF PostStored, TypesInv, SendOK, Message
    <3> QED BY <1>0, <2>3, <3>1, <3>2, <3>3 DEF PostStored, Quiet, QuietSend
  <2>4. CASE (PostAnswered \/ PostFails) /\ send.temp \notin Shown
    <3>1. UNCHANGED bubbles /\ send' = Idle /\ rows' = rows /\ load' = load /\ opening' = opening
          /\ selected' = selected /\ crossed' = crossed /\ raced' = Raced(Holding # {})
      BY <2>4 DEF PostAnswered, PostFails, BagIn, Shown, bubbles
    <3> QED BY <1>0, <2>4, <3>1 DEF Quiet, QuietSend, Raced
  <2> QED BY <1>4, <2>1, <2>2, <2>3, <2>4 DEF Sending, Loud, Confirmed, RolledBack
<1>5. CASE UNCHANGED vars
  BY <1>0, <1>5 DEF vars, Quiet, ghosts
<1> QED BY <1>1, <1>2, <1>3, <1>4, <1>5 DEF Next, Frame

-----------------------------------------------------------------------------
(* Whatever is shown is claimed.                                           *)

\* What an array holds is claimed, of whichever handler it is the array, and
\* so is the row a reload is decrypting.
ClaimInv ==
    crossed # "now" =>
        /\ \A a \in Array : BagToSet(array[a].held) \cap Row \subseteq seen
        /\ \A l \in Load : load[l].stage = "holding" /\ load[l].kind = "reload"
                           => Min(load[l].todo) \in seen

\* A bubble there is already is none of a row to come.
LEMMA OldBubbles ==
    ASSUME TypesInv, TypesInv'
    PROVE  Bubble \cap Row' \subseteq Row
<1>1. \A id \in Row' : id > 0
  <2>1. Len(rows') \in Nat
    BY DEF TypesInv, RowsOK
  <2> QED BY <2>1 DEF Row
<1>2. \A n \in 1 .. sends : Temp(n) < 0
  BY DEF TypesInv, SendOK, Temp
<1>3. \A id \in Row : id > 0
  BY RowFacts DEF TypesInv
<1>4. ASSUME NEW id \in Bubble, id > 0 PROVE id \in Row
  <2>1. id \in Row \/ \E n \in 1 .. sends : id = Temp(n)
    BY DEF Bubble
  <2>2. ASSUME NEW n \in 1 .. sends, id = Temp(n) PROVE FALSE
    <3>1. Temp(n) \in Int /\ Temp(n) < 0
      BY <1>2 DEF Temp, TypesInv, SendOK
    <3> QED BY <1>4, <2>2, <3>1
  <2> QED BY <2>1, <2>2
<1> QED BY <1>1, <1>4

LEMMA ClaimQuiet == ASSUME TypesInv, TypesInv', ClaimInv, Quiet PROVE ClaimInv'
<1>1. SUFFICES ASSUME crossed # "now"
               PROVE  /\ \A a \in Array : BagToSet(array'[a].held) \cap Row' \subseteq seen'
                      /\ \A l \in Load : load'[l].stage = "holding" /\ load'[l].kind = "reload"
                                         => Min(load'[l].todo) \in seen'
  BY DEF ClaimInv, Quiet, Array
<1>2. array' = array /\ seen' = seen
  BY DEF Quiet, bubbles
<1>3. ASSUME NEW a \in Array PROVE BagToSet(array[a].held) \cap Row' \subseteq seen
  BY <1>1, <1>3, BagFacts, OldBubbles DEF ClaimInv, TypesInv
<1>4. ASSUME NEW l \in Load, load'[l].stage = "holding", load'[l].kind = "reload"
      PROVE  load'[l] = load[l]
  BY <1>4 DEF Quiet, QuietSend, QuietLoad, Unused
<1> QED BY <1>1, <1>2, <1>3, <1>4 DEF ClaimInv

\* The goal for a step that stores no row.
LEMMA ClaimGoal ==
    ASSUME rows' = rows, crossed' = "now" \/
           /\ \A a \in Array : BagToSet(array'[a].held) \cap Row \subseteq seen'
           /\ \A l \in Load : load'[l].stage = "holding" /\ load'[l].kind = "reload"
                              => Min(load'[l].todo) \in seen'
    PROVE  ClaimInv'
BY DEF ClaimInv, Array, Row

LEMMA ClaimLoud == ASSUME TypesInv, ClaimInv, Loud PROVE ClaimInv'
<1> USE DEF TypesInv
<1>0. Shown = BagToSet(array[current].held) /\ IsABag(messages) /\ current \in Array
      /\ messages = array[current].held
  BY BagFacts DEF messages, Shown
<1>1. ASSUME NEW id \in Row, FramePushed(id) PROVE ClaimInv'
  <2>1. /\ rows' = rows /\ load' = load /\ crossed' = crossed
        /\ seen' = seen \cup {id} /\ PushAndCopy(id) /\ sends' = sends
    BY <1>1 DEF FramePushed, FrameOpened, Claimed, user
  <2>2. id \in Bubble /\ Bubble' = Bubble /\ seen' \subseteq Bubble'
    BY <2>1 DEF Bubble, Row, BubblesOK
  <2>3. \A a \in Array : \/ array'[a].held = array[a].held
                         \/ array'[a].held = EmptyBag
                         \/ array'[a].held = Push(messages, id)
    BY <2>1, <2>2, PushAndCopyFacts
  <2>4. BagToSet(Push(messages, id)) = Shown \cup {id} /\ BagToSet(EmptyBag) = {}
    BY <1>0, PushFacts, EmptyBagFacts
  <2> QED BY <1>0, <2>1, <2>3, <2>4, ClaimGoal DEF ClaimInv
<1>2. ASSUME NEW p \in Peer, SelectUser(p) PROVE ClaimInv'
  <2>1. /\ rows' = rows /\ crossed' = IF UnderWay THEN "now" ELSE Healed(crossed)
    BY <1>2 DEF SelectUser
  <2>2. /\ seen' = BagToSet(cache[p])
        /\ Holding = {} => \A a \in Array : array'[a].held \in {EmptyBag, cache[p]}
    BY <1>2, SelectFacts
  <2>3. CASE UnderWay
    BY <2>1, <2>3, ClaimGoal
  <2>4. CASE ~UnderWay
    <3>1. Busy = {} /\ Holding = {}
      BY <2>4 DEF UnderWay, Busy, Holding, HoldingIn
    <3>2. PICK l \in Load : Ask(l, "open", p)
      BY <1>2 DEF SelectUser
    <3>3. load'[l].stage = "asked" /\ \A m \in Load \ {l} : load'[m] = load[m]
      BY <2>1, <3>2, AskFacts DEF RowsGrow, Row, SendOK
    <3>4. \A m \in Load : load'[m].stage # "holding"
      BY <3>1, <3>3 DEF Holding, HoldingIn
    <3> QED BY <2>1, <2>2, <3>1, <3>4, EmptyBagFacts, ClaimGoal
  <2> QED BY <2>3, <2>4
<1>3. ASSUME NEW l \in Load, Merge(l) PROVE ClaimInv'
  <2> DEFINE held == array[load[l].arr].held
             M == Merged(held, load[l].fetched)
  <2>1. /\ rows' = rows /\ crossed' = crossed
    BY <1>3 DEF Merge, ghosts
  <2>2. /\ load[l].arr \in Array /\ IsABag(held)
        /\ load'[l] = Unused /\ \A m \in Load \ {l} : load'[m] = load[m]
        /\ seen' = seen \cup (load[l].fetched \ BagToSet(held))
        /\ \A a \in Array : \/ array'[a].held = array[a].held
                            \/ array'[a].held = EmptyBag
                            \/ array'[a].held = M
    BY <1>3, MergeFacts
  <2>3. BagToSet(M) = BagToSet(held) \cup load[l].fetched /\ BagToSet(EmptyBag) = {}
    BY <2>2, MergedFacts, EmptyBagFacts
  <2> HIDE DEF M
  <2>4. crossed # "now" => BagToSet(held) \cap Row \subseteq seen
    BY <2>2 DEF ClaimInv
  <2>5. Unused.stage = "unused"
    BY DEF Unused
  <2> QED BY <2>1, <2>2, <2>3, <2>4, <2>5, ClaimGoal DEF ClaimInv
<1>4. ASSUME NEW l \in Load, ReloadAnswered(l) PROVE ClaimInv'
  <2> DEFINE todo == load[l].fetched \ Shown
  <2>1. /\ rows' = rows /\ crossed' = crossed
    BY <1>4 DEF ReloadAnswered
  <2>2. /\ array' = array
        /\ \A m \in Load \ {l} : load'[m] = load[m]
        /\ todo = {} => load'[l] = Unused
        /\ todo # {} => load'[l].todo = todo
        /\ seen' = IF todo = {} THEN seen ELSE seen \cup {Min(todo)}
    BY <1>4, ReloadAnsweredFacts
  <2>3. Unused.stage = "unused"
    BY DEF Unused
  <2> HIDE DEF todo
  <2> QED BY <2>1, <2>2, <2>3, ClaimGoal DEF ClaimInv
<1>5. ASSUME NEW l \in Load, RowOpened(l) PROVE ClaimInv'
  <2> DEFINE row == Min(load[l].todo)
             todo == load[l].todo \ {row}
             held == Push(array[load[l].arr].held, row)
  <2>1. /\ rows' = rows /\ crossed' = crossed
    BY <1>5 DEF RowOpened, ghosts
  <2>2. /\ load[l].arr \in Array /\ load[l].kind = "reload" /\ load[l].stage = "holding"
        /\ \A m \in Load \ {l} : load'[m] = load[m]
        /\ todo = {} => load'[l] = Unused
        /\ todo # {} => load'[l].todo = todo
        /\ seen' = IF todo = {} THEN seen ELSE seen \cup {Min(todo)}
        /\ \A a \in Array : \/ array'[a].held = array[a].held
                            \/ array'[a].held = EmptyBag
                            \/ a = load[l].arr /\ array'[a].held = held
    BY <1>5, RowOpenedFacts
  <2>3. BagToSet(held) = BagToSet(array[load[l].arr].held) \cup {row} /\ BagToSet(EmptyBag) = {}
    BY <2>2, BagFacts, PushFacts, EmptyBagFacts
  <2>4. crossed # "now" => row \in seen
    BY <2>2 DEF ClaimInv
  <2>5. Unused.stage = "unused"
    BY DEF Unused
  <2> HIDE DEF todo, row, held
  <2> QED BY <2>1, <2>2, <2>3, <2>4, <2>5, ClaimGoal DEF ClaimInv
<1>6. ASSUME Prepared PROVE ClaimInv'
  <2>1. /\ rows' = rows /\ load' = load /\ crossed' = crossed /\ seen' = seen
        /\ PushAndCopy(Temp(sends)) /\ sends' = sends /\ sends \in Nat /\ sends >= 1
    BY <1>6 DEF Prepared, user, SendOK
  <2>2. Temp(sends) \in Bubble /\ Bubble' = Bubble /\ seen' \subseteq Bubble'
    BY <2>1 DEF Bubble, Row, BubblesOK
  <2>3. \A a \in Array : \/ array'[a].held = array[a].held
                         \/ array'[a].held = EmptyBag
                         \/ array'[a].held = Push(messages, Temp(sends))
    BY <2>1, <2>2, PushAndCopyFacts
  <2>4. BagToSet(Push(messages, Temp(sends))) = Shown \cup {Temp(sends)} /\ BagToSet(EmptyBag) = {}
    BY <1>0, PushFacts, EmptyBagFacts
  <2>5. Temp(sends) \notin Row
    BY <2>1, RowFacts DEF Temp
  <2> QED BY <1>0, <2>1, <2>3, <2>4, <2>5, ClaimGoal DEF ClaimInv
<1>7. ASSUME Confirmed PROVE ClaimInv'
  <2> DEFINE renamed(b) == Push(b (-) SetToBag({send.temp}), send.id)
  <2>1. PostAnswered /\ BagIn(send.temp, messages)
    BY <1>0, <1>7 DEF Confirmed, BagIn, Shown
  <2>2. /\ rows' = rows /\ load' = load /\ crossed' = crossed /\ send.temp = Temp(sends)
        /\ sends \in Nat /\ sends >= 1
    BY <2>1 DEF PostAnswered, SendOK, Pending
  <2>3. /\ \A a \in Array : \/ array'[a].held = array[a].held
                            \/ array'[a].held = renamed(array[a].held)
        /\ seen' = (seen \ {send.temp}) \cup {send.id}
    BY <2>1, PostAnsweredFacts
  <2>4. ASSUME NEW a \in Array
        PROVE  BagToSet(array'[a].held) \subseteq BagToSet(array[a].held) \cup {send.id}
    <3> DEFINE c == array[a].held (-) SetToBag({send.temp})
    <3>1. IsABag(c) /\ BagToSet(c) \subseteq BagToSet(array[a].held)
      BY BagFacts, DropFacts
    <3> HIDE DEF c
    <3>2. BagToSet(Push(c, send.id)) = BagToSet(c) \cup {send.id}
      BY <3>1, PushFacts
    <3> QED BY <2>3, <3>1, <3>2 DEF c
  <2>5. send.temp \notin Row
    BY <2>2, RowFacts DEF Temp
  <2>6. ASSUME crossed # "now", NEW l \in Load, load[l].stage = "holding", load[l].kind = "reload"
        PROVE  Min(load[l].todo) \in seen /\ Min(load[l].todo) \in Row
    <3>1. load[l].todo \in SUBSET Nat /\ load[l].todo # {} /\ load[l].todo \subseteq Row
      BY <2>6, ArrOK, RowFacts DEF Request, SoundRequest
    <3> QED BY <2>6, <3>1, MinIsLeast DEF ClaimInv
  <2> QED BY <2>2, <2>3, <2>4, <2>5, <2>6, ClaimGoal DEF ClaimInv
<1>8. ASSUME RolledBack PROVE ClaimInv'
  <2>1. PostFails /\ BagIn(send.temp, messages)
    BY <1>0, <1>8 DEF RolledBack, BagIn, Shown
  <2>2. /\ rows' = rows /\ load' = load /\ crossed' = crossed /\ send.temp = Temp(sends)
        /\ sends \in Nat /\ sends >= 1
    BY <2>1 DEF PostFails, SendOK, Pending
  <2>3. /\ \A a \in Array : \/ array'[a].held = array[a].held
                            \/ a = current /\ array'[a].held = messages'
        /\ messages' = messages (-) SetToBag({send.temp})
        /\ seen' = seen \ {send.temp}
    BY <2>1, PostFailsFacts
  <2>4. BagToSet(messages') \subseteq Shown
    BY <1>0, <2>3, DropFacts
  <2>5. send.temp \notin Row
    BY <2>2, RowFacts DEF Temp
  <2>6. ASSUME crossed # "now", NEW l \in Load, load[l].stage = "holding", load[l].kind = "reload"
        PROVE  Min(load[l].todo) \in seen /\ Min(load[l].todo) \in Row
    <3>1. load[l].todo \in SUBSET Nat /\ load[l].todo # {} /\ load[l].todo \subseteq Row
      BY <2>6, ArrOK, RowFacts DEF Request, SoundRequest
    <3> QED BY <2>6, <3>1, MinIsLeast DEF ClaimInv
  <2> QED BY <1>0, <2>2, <2>3, <2>4, <2>5, <2>6, ClaimGoal DEF ClaimInv
<1> QED BY <1>1, <1>2, <1>3, <1>4, <1>5, <1>6, <1>7, <1>8 DEF Loud

\* Whatever the thread shows is in seenMessageIds, so that claimMessage refuses
\* the frame that would show it again, however the handlers of frames, loads and
\* sends overlap; only opening a thread over handlers still to come breaks it.
THEOREM ShownIsAlwaysClaimed == Spec => []ShownIsClaimed
<1>1. Init => ClaimInv
  BY EmptyBagFacts DEF Init, ClaimInv, Nothing, Unused
<1>2. TypesInv /\ ClaimInv /\ [Next]_vars => ClaimInv'
  BY TypesNext, StepKinds, ClaimQuiet, ClaimLoud
<1>3. TypesInv /\ ClaimInv => ShownIsClaimed
  BY BagFacts DEF TypesInv, ClaimInv, ShownIsClaimed, Shown, messages
<1> QED BY <1>1, <1>2, <1>3, TypesInit, TypesNext, PTL DEF Spec

-----------------------------------------------------------------------------
(* A message stays with its thread.                                        *)

\* Until a thread is opened over something pending, the requests, the send
\* and the frame handlers are those of the open thread, and so are the arrays.
OwnInv ==
    crossed = "never" =>
        /\ \A l \in Load : load[l].stage # "unused" => load[l].peer = selected
        /\ send.stage # "idle" => send.peer = selected
        /\ \A id \in opening : rows[id].peer = selected
        /\ \A a \in Array : \A id \in BagToSet(array[a].held) \cap Row : rows[id].peer = selected
        /\ \A p \in Peer : \A id \in BagToSet(cache[p]) \cap Row : rows[id].peer = p

LEMMA OwnQuiet == ASSUME TypesInv, TypesInv', OwnInv, Quiet PROVE OwnInv'
<1>1. SUFFICES ASSUME crossed = "never" PROVE OwnInv'
  BY DEF OwnInv, Quiet
<1>2. /\ array' = array /\ cache' = cache /\ selected' = selected /\ RowsGrow
      /\ opening' \subseteq opening \cup {id \in Row : rows[id].peer = selected}
  BY DEF Quiet, bubbles
<1>3. /\ \A l \in Load : load[l].stage # "unused" => load[l].peer = selected
      /\ send.stage # "idle" => send.peer = selected
      /\ \A id \in opening : rows[id].peer = selected
      /\ \A a \in Array : \A id \in BagToSet(array[a].held) \cap Row : rows[id].peer = selected
      /\ \A p \in Peer : \A id \in BagToSet(cache[p]) \cap Row : rows[id].peer = p
  BY <1>1 DEF OwnInv
<1>4. \A l \in Load : load'[l].stage # "unused" => load'[l].peer = selected
  BY <1>3 DEF Quiet, QuietSend, QuietLoad, Unused
<1>5. send'.stage # "idle" => send'.peer = selected
  BY <1>3 DEF Quiet, QuietSend, QuietLoad, Idle
<1>6. \A id \in opening' : rows'[id].peer = selected
  BY <1>2, <1>3 DEF RowsGrow, TypesInv, NetOK
<1>7. ASSUME NEW a \in Array, NEW id \in BagToSet(array[a].held) \cap Row'
      PROVE  rows'[id].peer = selected
  BY <1>2, <1>3, BagFacts, OldBubbles DEF RowsGrow, TypesInv
<1>8. ASSUME NEW p \in Peer, NEW id \in BagToSet(cache[p]) \cap Row'
      PROVE  rows'[id].peer = p
  BY <1>2, <1>3, BagFacts, OldBubbles DEF RowsGrow, TypesInv
<1> QED BY <1>2, <1>4, <1>5, <1>6, <1>7, <1>8 DEF OwnInv, Array

\* The goal for a step that stores no row.
LEMMA OwnGoal ==
    ASSUME rows' = rows, crossed' = "never" =>
        /\ \A l \in Load : load'[l].stage # "unused" => load'[l].peer = selected'
        /\ send'.stage # "idle" => send'.peer = selected'
        /\ \A id \in opening' : rows[id].peer = selected'
        /\ \A a \in Array : \A id \in BagToSet(array'[a].held) \cap Row : rows[id].peer = selected'
        /\ \A p \in Peer : \A id \in BagToSet(cache'[p]) \cap Row : rows[id].peer = p
    PROVE  OwnInv'
BY DEF OwnInv, Array, Row

LEMMA OwnLoud == ASSUME TypesInv, OwnInv, Loud PROVE OwnInv'
<1> USE DEF TypesInv
<1>0. /\ Shown = BagToSet(array[current].held) /\ IsABag(messages) /\ current \in Array
      /\ messages = array[current].held /\ BagToSet(EmptyBag) = {}
      /\ Unused.stage = "unused" /\ Idle.stage = "idle"
  BY BagFacts, EmptyBagFacts DEF messages, Shown, Unused, Idle
<1>1. ASSUME NEW id \in Row, FramePushed(id) PROVE OwnInv'
  <2>1. /\ rows' = rows /\ load' = load /\ crossed' = crossed /\ send' = send /\ selected' = selected
        /\ opening' \subseteq opening /\ id \in opening
        /\ seen' = seen \cup {id} /\ PushAndCopy(id) /\ sends' = sends
    BY <1>1 DEF FramePushed, FrameOpened, Claimed, user
  <2>2. id \in Bubble /\ Bubble' = Bubble /\ seen' \subseteq Bubble'
    BY <2>1 DEF Bubble, Row, BubblesOK
  <2>3. /\ \A a \in Array : \/ array'[a].held = array[a].held
                            \/ array'[a].held = EmptyBag
                            \/ array'[a].held = Push(messages, id)
        /\ \A p \in Peer : cache'[p] = IF p = selected THEN Push(messages, id) ELSE cache[p]
    BY <2>1, <2>2, PushAndCopyFacts
  <2>4. BagToSet(Push(messages, id)) = Shown \cup {id}
    BY <1>0, PushFacts
  <2> QED BY <1>0, <2>1, <2>3, <2>4, OwnGoal DEF OwnInv
<1>2. ASSUME NEW p \in Peer, SelectUser(p) PROVE OwnInv'
  <2>1. /\ rows' = rows /\ crossed' = IF UnderWay THEN "now" ELSE Healed(crossed)
        /\ selected' = p /\ cache' = cache /\ send' = send /\ opening' = opening
    BY <1>2 DEF SelectUser
  <2>2. Holding = {} => \A a \in Array : array'[a].held \in {EmptyBag, cache[p]}
    BY <1>2, SelectFacts
  <2>3. CASE UnderWay
    BY <2>1, <2>3, OwnGoal
  <2>4. CASE ~UnderWay
    <3>1. Busy = {} /\ Holding = {} /\ opening = {} /\ send = Idle
      BY <2>4 DEF UnderWay, Busy, Holding, HoldingIn
    <3>2. PICK l \in Load : Ask(l, "open", p)
      BY <1>2 DEF SelectUser
    <3>3. load'[l].peer = p /\ \A m \in Load \ {l} : load'[m] = load[m]
      BY <2>1, <3>2, AskFacts DEF RowsGrow, Row, SendOK
    <3>4. \A m \in Load : load[m].stage = "unused"
      BY <3>1 DEF Busy
    <3>5. crossed' = "never" => crossed = "never"
      BY <2>1, <2>4 DEF Healed
    <3> QED BY <1>0, <2>1, <2>2, <3>1, <3>3, <3>4, <3>5, OwnGoal DEF OwnInv
  <2> QED BY <2>3, <2>4
<1>3. ASSUME NEW l \in Load, Merge(l) PROVE OwnInv'
  <2> DEFINE held == array[load[l].arr].held
             M == Merged(held, load[l].fetched)
  <2>1. /\ rows' = rows /\ crossed' = crossed /\ send' = send /\ selected' = selected
        /\ opening' = opening
    BY <1>3 DEF Merge, ghosts
  <2>2. /\ load[l].arr \in Array /\ IsABag(held) /\ load[l].stage = "holding"
        /\ load'[l] = Unused /\ \A m \in Load \ {l} : load'[m] = load[m]
        /\ \A a \in Array : \/ array'[a].held = array[a].held
                            \/ array'[a].held = EmptyBag
                            \/ array'[a].held = M
        /\ \A p \in Peer : cache'[p] = IF p = load[l].peer THEN M ELSE cache[p]
    BY <1>3, MergeFacts
  <2>3. BagToSet(M) = BagToSet(held) \cup load[l].fetched
    BY <2>2, MergedFacts
  <2> HIDE DEF M
  <2>4. crossed = "never" =>
          /\ load[l].peer = selected
          /\ \A id \in BagToSet(M) \cap Row : rows[id].peer = selected
    BY <2>2, <2>3, ArrOK DEF OwnInv, SoundRequest
  <2> QED BY <1>0, <2>1, <2>2, <2>4, OwnGoal DEF OwnInv
<1>4. ASSUME NEW l \in Load, ReloadAnswered(l) PROVE OwnInv'
  <2> DEFINE todo == load[l].fetched \ Shown
  <2>1. /\ rows' = rows /\ crossed' = crossed /\ send' = send /\ selected' = selected
        /\ opening' = opening
    BY <1>4 DEF ReloadAnswered
  <2>2. /\ array' = array /\ load[l].stage = "served"
        /\ \A m \in Load \ {l} : load'[m] = load[m]
        /\ todo = {} => load'[l] = Unused
        /\ todo # {} => load'[l].peer = load[l].peer
        /\ \A p \in Peer : \/ cache'[p] = cache[p]
                           \/ todo = {} /\ p = load[l].peer /\ cache'[p] = messages
    BY <1>4, ReloadAnsweredFacts
  <2> HIDE DEF todo
  <2> QED BY <1>0, <2>1, <2>2, OwnGoal DEF OwnInv
<1>5. ASSUME NEW l \in Load, RowOpened(l) PROVE OwnInv'
  <2> DEFINE row == Min(load[l].todo)
             todo == load[l].todo \ {row}
             held == Push(array[load[l].arr].held, row)
  <2>1. /\ rows' = rows /\ crossed' = crossed /\ send' = send /\ selected' = selected
        /\ opening' = opening
    BY <1>5 DEF RowOpened, ghosts
  <2>2. /\ load[l].arr \in Array /\ load[l].kind = "reload" /\ load[l].stage = "holding"
        /\ row \in load[l].fetched
        /\ \A m \in Load \ {l} : load'[m] = load[m]
        /\ todo = {} => load'[l] = Unused
        /\ todo # {} => load'[l].peer = load[l].peer
        /\ messages' = IF load[l].arr = current THEN held ELSE messages
        /\ \A p \in Peer : \/ cache'[p] = cache[p]
                           \/ todo = {} /\ p = load[l].peer /\ cache'[p] = messages'
        /\ \A a \in Array : \/ array'[a].held = array[a].held
                            \/ array'[a].held = EmptyBag
                            \/ a = load[l].arr /\ array'[a].held = held
    BY <1>5, RowOpenedFacts
  <2>3. BagToSet(held) = BagToSet(array[load[l].arr].held) \cup {row}
    BY <2>2, BagFacts, PushFacts
  <2>4. crossed = "never" =>
          /\ load[l].peer = selected /\ rows[row].peer = selected
          /\ \A id \in BagToSet(held) \cap Row : rows[id].peer = selected
    <3>1. \A id \in load[l].fetched : rows[id].peer = load[l].peer
      BY ArrOK DEF SoundRequest
    <3> HIDE DEF row, held, todo
    <3> QED BY <2>2, <2>3, <3>1 DEF OwnInv
  <2> HIDE DEF todo, row, held
  <2> QED BY <1>0, <2>1, <2>2, <2>4, OwnGoal DEF OwnInv
<1>6. ASSUME Prepared PROVE OwnInv'
  <2>1. /\ rows' = rows /\ load' = load /\ crossed' = crossed /\ seen' = seen
        /\ selected' = selected /\ opening' = opening
        /\ PushAndCopy(Temp(sends)) /\ sends' = sends /\ sends \in Nat /\ sends >= 1
        /\ send'.peer = send.peer /\ send.stage = "preparing"
    BY <1>6 DEF Prepared, user, SendOK, Message
  <2>2. Temp(sends) \in Bubble /\ Bubble' = Bubble /\ seen' \subseteq Bubble'
    BY <2>1 DEF Bubble, Row, BubblesOK
  <2>3. /\ \A a \in Array : \/ array'[a].held = array[a].held
                            \/ array'[a].held = EmptyBag
                            \/ array'[a].held = Push(messages, Temp(sends))
        /\ \A p \in Peer : cache'[p] = IF p = selected THEN Push(messages, Temp(sends)) ELSE cache[p]
    BY <2>1, <2>2, PushAndCopyFacts
  <2>4. BagToSet(Push(messages, Temp(sends))) = Shown \cup {Temp(sends)}
    BY <1>0, PushFacts
  <2>5. Temp(sends) \notin Row
    BY <2>1, RowFacts DEF Temp
  <2> QED BY <1>0, <2>1, <2>3, <2>4, <2>5, OwnGoal DEF OwnInv
<1>7. ASSUME Confirmed PROVE OwnInv'
  <2> DEFINE renamed(b) == Push(b (-) SetToBag({send.temp}), send.id)
  <2>1. PostAnswered /\ BagIn(send.temp, messages)
    BY <1>0, <1>7 DEF Confirmed, BagIn, Shown
  <2>2. /\ rows' = rows /\ load' = load /\ crossed' = crossed /\ send' = Idle
        /\ selected' = selected /\ opening' = opening
        /\ rows[send.id].peer = send.peer /\ send.stage = "stored"
    BY <2>1 DEF PostAnswered, SendOK
  <2>3. /\ \A a \in Array : \/ array'[a].held = array[a].held
                            \/ array'[a].held = renamed(array[a].held)
        /\ messages' = renamed(messages)
        /\ \A p \in Peer : cache'[p] = IF p = selected THEN messages' ELSE cache[p]
    BY <2>1, PostAnsweredFacts
  <2>4. ASSUME NEW b, IsABag(b)
        PROVE  BagToSet(renamed(b)) \subseteq BagToSet(b) \cup {send.id}
    <3> DEFINE c == b (-) SetToBag({send.temp})
    <3>1. IsABag(c) /\ BagToSet(c) \subseteq BagToSet(b)
      BY <2>4, DropFacts
    <3> HIDE DEF c
    <3>2. BagToSet(Push(c, send.id)) = BagToSet(c) \cup {send.id}
      BY <3>1, PushFacts
    <3> QED BY <3>1, <3>2 DEF c
  <2>5. \A a \in Array : IsABag(array[a].held)
    BY BagFacts
  <2> HIDE DEF renamed
  <2>6. BagToSet(messages') \subseteq Shown \cup {send.id}
    BY <1>0, <2>3, <2>4
  <2>7. \A a \in Array : BagToSet(array'[a].held) \subseteq BagToSet(array[a].held) \cup {send.id}
    BY <2>3, <2>4, <2>5
  <2> QED BY <1>0, <2>2, <2>3, <2>6, <2>7, OwnGoal DEF OwnInv
<1>8. ASSUME RolledBack PROVE OwnInv'
  <2>1. PostFails /\ BagIn(send.temp, messages)
    BY <1>0, <1>8 DEF RolledBack, BagIn, Shown
  <2>2. /\ rows' = rows /\ load' = load /\ crossed' = crossed /\ send' = Idle
        /\ selected' = selected /\ opening' = opening
    BY <2>1 DEF PostFails
  <2>3. /\ \A a \in Array : \/ array'[a].held = array[a].held
                            \/ a = current /\ array'[a].held = messages'
        /\ messages' = messages (-) SetToBag({send.temp})
        /\ \A p \in Peer : cache'[p] = IF p = selected THEN messages' ELSE cache[p]
    BY <2>1, PostFailsFacts
  <2>4. BagToSet(messages') \subseteq Shown
    BY <1>0, <2>3, DropFacts
  <2> QED BY <1>0, <2>2, <2>3, <2>4, OwnGoal DEF OwnInv
<1> QED BY <1>1, <1>2, <1>3, <1>4, <1>5, <1>6, <1>7, <1>8 DEF Loud

LEMMA Own == Spec => [](TypesInv /\ OwnInv)
<1>1. Init => OwnInv
  BY EmptyBagFacts DEF Init, OwnInv, Nothing, Unused, Idle
<1>2. TypesInv /\ OwnInv /\ [Next]_vars => OwnInv'
  BY TypesNext, StepKinds, OwnQuiet, OwnLoud
<1> QED BY <1>1, <1>2, TypesInit, TypesNext, PTL DEF Spec

\* persistCache never stores a message under another chat's key, as long as no
\* thread is opened while a handler of the previous one is still to come.
THEOREM ThreadsKeepTheirOwn == Spec => []OwnThread
<1>1. OwnInv => OwnThread
  BY DEF OwnInv, OwnThread
<1> QED BY <1>1, Own, PTL

-----------------------------------------------------------------------------
(* No two handlers that write the thread overlap, unless they raced.       *)

\* Without a race there is one request at most, what it holds is the thread's
\* array, and it holds that only while no optimistic bubble is pending.
LoneInv ==
    raced # "now" =>
        /\ \A l, m \in Load : load[l].stage # "unused" /\ load[m].stage # "unused" => l = m
        /\ \A l \in Load : load[l].stage = "holding" => load[l].arr = current /\ ~Pending

LEMMA LoneQuiet == ASSUME TypesInv, LoneInv, Quiet PROVE LoneInv'
<1>1. SUFFICES ASSUME raced' # "now" PROVE LoneInv'
  BY DEF LoneInv
<1>2. /\ \A l, m \in Load : load[l].stage # "unused" /\ load[m].stage # "unused" => l = m
      /\ \A l \in Load : load[l].stage = "holding" => load[l].arr = current /\ ~Pending
      /\ current' = current
  BY <1>1 DEF LoneInv, Quiet, bubbles
<1>3. Unused.stage = "unused" /\ Idle.stage = "idle"
  BY DEF Unused, Idle
<1>4. CASE QuietSend
  <2>1. load' = load /\ (Pending' => Pending)
    BY <1>3, <1>4 DEF QuietSend, Pending
  <2> QED BY <1>2, <2>1 DEF LoneInv
<1>5. ASSUME NEW l \in Load, QuietLoad(l) PROVE LoneInv'
  <2>1. Pending' = Pending /\ \A m \in Load \ {l} : load'[m] = load[m]
    BY <1>5 DEF QuietLoad, Pending
  <2>2. \A m \in Load : m # l => load'[m].stage = "unused" \/ load'[l].stage = "unused"
    BY <1>1, <1>2, <1>3, <1>5, <2>1 DEF QuietLoad, Busy
  <2>3. load'[l].stage = "holding" => load'[l].arr = current /\ ~Pending
    BY <1>1, <1>3, <1>5 DEF QuietLoad
  <2> QED BY <1>2, <2>1, <2>2, <2>3 DEF LoneInv
<1> QED BY <1>4, <1>5 DEF Quiet

LEMMA LoneGoal ==
    ASSUME raced' # "now" =>
        /\ \A l, m \in Load : load'[l].stage # "unused" /\ load'[m].stage # "unused" => l = m
        /\ \A l \in Load : load'[l].stage = "holding" => load'[l].arr = current' /\ ~Pending'
    PROVE  LoneInv'
BY DEF LoneInv

LEMMA LoneLoud == ASSUME TypesInv, LoneInv, Loud PROVE LoneInv'
<1> USE DEF TypesInv
<1>0. Unused.stage = "unused" /\ Idle.stage = "idle"
  BY DEF Unused, Idle
<1>1. ASSUME load' = load, raced' = Raced(Holding # {}) PROVE LoneInv'
  <2>1. raced' # "now" => raced # "now" /\ \A l \in Load : load[l].stage # "holding"
    BY <1>1 DEF Raced, Holding, HoldingIn
  <2> QED BY <1>1, <2>1, LoneGoal DEF LoneInv
<1>2. ASSUME NEW p \in Peer, SelectUser(p) PROVE LoneInv'
  <2>1. rows' = rows
    BY <1>2 DEF SelectUser
  <2>2. PICK l \in Load : Ask(l, "open", p)
    BY <1>2 DEF SelectUser
  <2>3. /\ load'[l].stage = "asked" /\ \A m \in Load \ {l} : load'[m] = load[m]
        /\ raced' # "now" => Busy = {}
    BY <2>1, <2>2, AskFacts DEF RowsGrow, Row, SendOK
  <2>4. raced' # "now" => \A m \in Load \ {l} : load'[m].stage = "unused"
    BY <2>3 DEF Busy
  <2> QED BY <2>3, <2>4, LoneGoal
<1>3. ASSUME NEW l \in Load, Merge(l) PROVE LoneInv'
  <2>1. load[l].stage = "holding" /\ load'[l] = Unused /\ \A m \in Load \ {l} : load'[m] = load[m]
    BY <1>3, MergeFacts
  <2>2. raced' = raced
    BY <1>3 DEF Merge, ghosts
  <2>3. raced' # "now" => \A m \in Load : load'[m].stage = "unused"
    BY <1>0, <2>1, <2>2 DEF LoneInv
  <2> QED BY <2>3, LoneGoal
<1>4. ASSUME NEW l \in Load, ReloadAnswered(l) PROVE LoneInv'
  <2> DEFINE todo == load[l].fetched \ Shown
  <2>1. /\ load[l].stage = "served" /\ \A m \in Load \ {l} : load'[m] = load[m]
        /\ todo = {} => load'[l] = Unused
        /\ todo # {} => load'[l].stage = "holding" /\ load'[l].arr = current
        /\ current' = current
    BY <1>4, ReloadAnsweredFacts
  <2>2. raced' = Raced(Pending) /\ send' = send
    BY <1>4 DEF ReloadAnswered
  <2>3. raced' # "now" => raced # "now" /\ ~Pending /\ ~Pending'
    BY <2>2 DEF Raced, Pending
  <2>4. raced' # "now" => \A m \in Load \ {l} : load'[m].stage = "unused"
    BY <2>1, <2>3 DEF LoneInv
  <2> HIDE DEF todo
  <2>5. load'[l] = Unused \/ load'[l].arr = current'
    BY <2>1
  <2> QED BY <1>0, <2>3, <2>4, <2>5, LoneGoal
<1>5. ASSUME NEW l \in Load, RowOpened(l) PROVE LoneInv'
  <2> DEFINE todo == load[l].todo \ {Min(load[l].todo)}
  <2>1. /\ load[l].stage = "holding" /\ \A m \in Load \ {l} : load'[m] = load[m]
        /\ todo = {} => load'[l] = Unused
        /\ todo # {} => load'[l].stage = "holding" /\ load'[l].arr = current
        /\ current' = current
    BY <1>5, RowOpenedFacts
  <2>2. raced' = raced /\ send' = send
    BY <1>5 DEF RowOpened, ghosts
  <2>3. raced' # "now" => raced # "now" /\ ~Pending'
    BY <2>1, <2>2 DEF LoneInv, Pending
  <2>4. raced' # "now" => \A m \in Load \ {l} : load'[m].stage = "unused"
    BY <2>1, <2>3 DEF LoneInv
  <2> HIDE DEF todo
  <2>5. load'[l] = Unused \/ load'[l].arr = current'
    BY <2>1
  <2> QED BY <1>0, <2>3, <2>4, <2>5, LoneGoal
<1>6. ASSUME (\E id \in Row : FramePushed(id)) \/ Prepared \/ Confirmed \/ RolledBack
      PROVE  load' = load /\ raced' = Raced(Holding # {})
  BY <1>6 DEF FramePushed, FrameOpened, Prepared, Confirmed, RolledBack, PostAnswered, PostFails
<1> QED BY <1>1, <1>2, <1>3, <1>4, <1>5, <1>6 DEF Loud

LEMMA Lone == Spec => [](TypesInv /\ LoneInv)
<1>1. Init => LoneInv
  BY DEF Init, LoneInv, Unused
<1>2. TypesInv /\ LoneInv /\ [Next]_vars => LoneInv'
  BY StepKinds, LoneQuiet, LoneLoud
<1> QED BY <1>1, <1>2, TypesInit, TypesNext, PTL DEF Spec

-----------------------------------------------------------------------------
(* Nothing is shown twice.                                                 *)

\* Without a race the thread and the cached threads hold one bubble for an id,
\* what is shown is claimed, the rows a reload has left are not shown and the
\* first of them is claimed, and a row whose answer is due is shown nowhere.
OnceInv ==
    raced = "never" =>
        /\ \A id \in Shown : messages[id] = 1
        /\ \A p \in Peer : \A id \in BagToSet(cache[p]) : cache[p][id] = 1
        /\ Shown \cap Row \subseteq seen
        /\ \A l \in Load : load[l].stage = "holding" /\ load[l].kind = "reload"
                           => load[l].todo \cap Shown = {} /\ Min(load[l].todo) \in seen
        /\ send.stage = "stored" =>
               send.id \notin Shown /\ \A p \in Peer : send.id \notin BagToSet(cache[p])

LEMMA OnceQuiet == ASSUME TypesInv, TypesInv', OnceInv, Quiet PROVE OnceInv'
<1>1. SUFFICES ASSUME raced = "never" PROVE OnceInv'
  BY DEF OnceInv, Quiet
<1>2. messages' = messages /\ Shown' = Shown /\ cache' = cache /\ seen' = seen
  BY DEF Quiet, bubbles, messages, Shown
<1>3. /\ \A id \in Shown : messages[id] = 1
      /\ \A p \in Peer : \A id \in BagToSet(cache[p]) : cache[p][id] = 1
      /\ Shown \cap Row \subseteq seen
      /\ \A l \in Load : load[l].stage = "holding" /\ load[l].kind = "reload"
                         => load[l].todo \cap Shown = {} /\ Min(load[l].todo) \in seen
      /\ send.stage = "stored" =>
             send.id \notin Shown /\ \A p \in Peer : send.id \notin BagToSet(cache[p])
  BY <1>1 DEF OnceInv
<1>4. Shown \subseteq Bubble /\ \A p \in Peer : BagToSet(cache[p]) \subseteq Bubble
  BY BagFacts DEF TypesInv
<1>5. Shown \cap Row' \subseteq seen
  BY <1>3, <1>4, OldBubbles
<1>6. ASSUME NEW l \in Load, load'[l].stage = "holding", load'[l].kind = "reload"
      PROVE  load'[l] = load[l]
  BY <1>6 DEF Quiet, QuietSend, QuietLoad, Unused
<1>7. ASSUME send'.stage = "stored"
      PROVE  send'.id \notin Shown /\ \A p \in Peer : send'.id \notin BagToSet(cache[p])
  <2>1. send' = send \/ send'.id \notin Row
    BY <1>7 DEF Quiet, QuietSend, QuietLoad, Idle
  <2>2. send'.id \in Row'
    BY <1>7 DEF TypesInv, SendOK
  <2> QED BY <1>3, <1>4, <1>7, <2>1, <2>2, OldBubbles
<1> QED BY <1>2, <1>3, <1>5, <1>6, <1>7 DEF OnceInv

\* The goal for a step that stores no row.
LEMMA OnceGoal ==
    ASSUME rows' = rows, raced' = "never" =>
        /\ \A id \in BagToSet(messages') : messages'[id] = 1
        /\ \A p \in Peer : \A id \in BagToSet(cache'[p]) : cache'[p][id] = 1
        /\ BagToSet(messages') \cap Row \subseteq seen'
        /\ \A l \in Load : load'[l].stage = "holding" /\ load'[l].kind = "reload"
                           => /\ load'[l].todo \cap BagToSet(messages') = {}
                              /\ Min(load'[l].todo) \in seen'
        /\ send'.stage = "stored" =>
               /\ send'.id \notin BagToSet(messages')
               /\ \A p \in Peer : send'.id \notin BagToSet(cache'[p])
    PROVE  OnceInv'
<1>1. Shown' = BagToSet(messages') /\ Row' = Row
  BY DEF Shown, BagToSet, Row
<1> QED BY <1>1 DEF OnceInv

LEMMA OnceLoud == ASSUME TypesInv, LoneInv, OnceInv, Loud PROVE OnceInv'
<1> USE DEF TypesInv
<1>0. /\ Shown = BagToSet(messages) /\ IsABag(messages) /\ current \in Array
      /\ messages = array[current].held
      /\ Unused.stage = "unused" /\ Idle.stage = "idle"
  BY BagFacts DEF messages, Shown, Unused, Idle
<1>1. ASSUME NEW id \in Row, FramePushed(id) PROVE OnceInv'
  <2>1. /\ rows' = rows /\ load' = load /\ send' = send /\ sends' = sends
        /\ id \in opening /\ id \notin seen /\ raced' = Raced(Holding # {})
        /\ seen' = seen \cup {id} /\ PushAndCopy(id)
    BY <1>1 DEF FramePushed, FrameOpened, Claimed, user
  <2>2. id \in Bubble /\ Bubble' = Bubble /\ seen' \subseteq Bubble'
    BY <2>1 DEF Bubble, Row, BubblesOK
  <2>3. /\ messages' = Push(messages, id)
        /\ \A p \in Peer : cache'[p] = IF p = selected THEN Push(messages, id) ELSE cache[p]
    BY <2>1, <2>2, PushAndCopyFacts
  <2>4. raced' = "never" => raced = "never" /\ \A l \in Load : load[l].stage # "holding"
    BY <2>1 DEF Raced, Holding, HoldingIn
  <2>5. raced = "never" => id \notin Shown
    BY <2>1 DEF OnceInv
  <2>6. send.stage = "stored" => send.id # id
    BY <2>1 DEF SendOK, NetOK
  <2>7. /\ BagToSet(messages') = Shown \cup {id}
        /\ \A x \in Shown \ {id} : messages'[x] = messages[x]
        /\ id \notin Shown => messages'[id] = 1
    BY <1>0, <2>3, PushFacts
  <2>8. ASSUME raced' = "never", NEW x \in BagToSet(messages') PROVE messages'[x] = 1
    BY <2>4, <2>5, <2>7, <2>8 DEF OnceInv
  <2> QED BY <2>1, <2>3, <2>4, <2>6, <2>7, <2>8, OnceGoal DEF OnceInv
<1>2. ASSUME NEW p \in Peer, SelectUser(p) PROVE OnceInv'
  <2>1. rows' = rows /\ cache' = cache /\ send' = send
    BY <1>2 DEF SelectUser
  <2>2. messages' = cache[p] /\ seen' = BagToSet(cache[p])
    BY <1>2, SelectFacts
  <2>3. PICK l \in Load : Ask(l, "open", p)
    BY <1>2 DEF SelectUser
  <2>4. /\ load'[l].stage = "asked" /\ \A m \in Load \ {l} : load'[m] = load[m]
        /\ raced' # "now" => Busy = {}
        /\ raced' = "never" => raced = "never"
    BY <2>1, <2>3, AskFacts DEF RowsGrow, Row, SendOK
  <2>5. raced' = "never" => \A m \in Load : load'[m].stage # "holding"
    BY <2>4 DEF Busy
  <2> QED BY <2>1, <2>2, <2>4, <2>5, OnceGoal DEF OnceInv
<1>3. ASSUME NEW l \in Load, Merge(l) PROVE OnceInv'
  <2> DEFINE held == array[load[l].arr].held
             M == Merged(held, load[l].fetched)
  <2>1. /\ rows' = rows /\ send' = send /\ raced' = raced
    BY <1>3 DEF Merge, ghosts
  <2>2. /\ load[l].arr \in Array /\ IsABag(held) /\ load[l].stage = "holding"
        /\ load'[l] = Unused /\ \A m \in Load \ {l} : load'[m] = load[m]
        /\ messages' = M /\ seen' = seen \cup (load[l].fetched \ BagToSet(held))
        /\ \A p \in Peer : cache'[p] = IF p = load[l].peer THEN M ELSE cache[p]
    BY <1>3, MergeFacts
  <2>3. BagToSet(M) = BagToSet(held) \cup load[l].fetched /\ \A x \in BagToSet(M) : M[x] = 1
    BY <2>2, MergedFacts
  <2> HIDE DEF M
  <2>4. raced = "never" => /\ load[l].arr = current /\ ~Pending
                           /\ \A m \in Load : load'[m].stage = "unused"
    BY <1>0, <2>2 DEF LoneInv
  <2>5. raced = "never" => send.stage # "stored"
    BY <2>4 DEF Pending
  <2>6. raced = "never" => BagToSet(held) \cap Row \subseteq seen
    BY <1>0, <2>4 DEF OnceInv
  <2> HIDE DEF held
  <2> QED BY <2>1, <2>2, <2>3, <2>4, <2>5, <2>6, OnceGoal DEF OnceInv
<1>4. ASSUME NEW l \in Load, ReloadAnswered(l) PROVE OnceInv'
  <2> DEFINE todo == load[l].fetched \ Shown
  <2>1. rows' = rows /\ send' = send /\ raced' = Raced(Pending)
    BY <1>4 DEF ReloadAnswered
  <2>2. /\ array' = array /\ current' = current
        /\ \A m \in Load \ {l} : load'[m] = load[m]
        /\ todo = {} => load'[l] = Unused
        /\ todo # {} => load'[l].todo = todo
        /\ seen' = IF todo = {} THEN seen ELSE seen \cup {Min(todo)}
        /\ \A p \in Peer : \/ cache'[p] = cache[p]
                           \/ todo = {} /\ p = load[l].peer /\ cache'[p] = messages
    BY <1>4, ReloadAnsweredFacts
  <2>3. messages' = messages
    BY <2>2 DEF messages
  <2>4. raced' = "never" => raced = "never" /\ send.stage # "stored"
    BY <2>1 DEF Raced, Pending
  <2>5. todo \cap Shown = {}
    OBVIOUS
  <2> HIDE DEF todo
  <2> QED BY <1>0, <2>1, <2>2, <2>3, <2>4, <2>5, OnceGoal DEF OnceInv
<1>5. ASSUME NEW l \in Load, RowOpened(l) PROVE OnceInv'
  <2> DEFINE row == Min(load[l].todo)
             todo == load[l].todo \ {row}
             held == Push(array[load[l].arr].held, row)
  <2>1. rows' = rows /\ send' = send /\ raced' = raced
    BY <1>5 DEF RowOpened, ghosts
  <2>2. /\ load[l].kind = "reload" /\ load[l].stage = "holding" /\ row \in load[l].todo
        /\ \A m \in Load \ {l} : load'[m] = load[m]
        /\ todo = {} => load'[l] = Unused
        /\ todo # {} => load'[l].todo = todo
        /\ seen' = IF todo = {} THEN seen ELSE seen \cup {Min(todo)}
        /\ \A p \in Peer : \/ cache'[p] = cache[p]
                           \/ todo = {} /\ p = load[l].peer /\ cache'[p] = messages'
        /\ messages' = IF load[l].arr = current THEN held ELSE messages
    BY <1>5, RowOpenedFacts
  <2>3. raced = "never" => /\ load[l].arr = current /\ ~Pending
                           /\ load[l].todo \cap Shown = {} /\ row \in seen
                           /\ \A m \in Load \ {l} : load'[m].stage = "unused"
    BY <2>2 DEF LoneInv, OnceInv
  <2>4. raced = "never" => send.stage # "stored" /\ messages' = Push(messages, row)
    BY <1>0, <2>2, <2>3 DEF Pending
  <2>5. todo \cap {row} = {} /\ todo \subseteq load[l].todo
    OBVIOUS
  <2> HIDE DEF row, todo, held
  <2>6. /\ BagToSet(Push(messages, row)) = Shown \cup {row}
        /\ \A x \in Shown \ {row} : Push(messages, row)[x] = messages[x]
        /\ row \notin Shown => Push(messages, row)[row] = 1
    BY <1>0, PushFacts
  <2>7. raced = "never" => row \notin Shown
    BY <2>2, <2>3
  <2>8. ASSUME raced = "never", NEW x \in BagToSet(messages') PROVE messages'[x] = 1
    BY <2>4, <2>6, <2>7, <2>8 DEF OnceInv
  <2>9. raced = "never" => /\ BagToSet(messages') = Shown \cup {row}
                           /\ Shown \cap Row \subseteq seen
                           /\ \A p \in Peer : \A id \in BagToSet(cache[p]) : cache[p][id] = 1
    BY <2>4, <2>6 DEF OnceInv
  <2>10. raced = "never" => \A p \in Peer : \A id \in BagToSet(cache'[p]) : cache'[p][id] = 1
    BY <2>2, <2>8, <2>9
  <2>11. ASSUME raced = "never", NEW m \in Load, load'[m].stage = "holding"
         PROVE  load'[m].todo \cap BagToSet(messages') = {} /\ Min(load'[m].todo) \in seen'
    <3>1. m = l /\ todo # {}
      BY <1>0, <2>2, <2>3, <2>11
    <3> QED BY <2>2, <2>3, <2>5, <2>9, <2>11, <3>1
  <2>12. raced = "never" => BagToSet(messages') \cap Row \subseteq seen'
    BY <2>2, <2>3, <2>9
  <2> QED BY <2>1, <2>4, <2>8, <2>10, <2>11, <2>12, OnceGoal
<1>6. ASSUME Prepared PROVE OnceInv'
  <2>1. /\ rows' = rows /\ load' = load /\ seen' = seen /\ raced' = Raced(Holding # {})
        /\ PushAndCopy(Temp(sends)) /\ sends' = sends /\ sends \in Nat /\ sends >= 1
        /\ send.stage = "preparing" /\ send'.stage = "posting"
    BY <1>6 DEF Prepared, user, SendOK, Message
  <2>2. Temp(sends) \in Bubble /\ Bubble' = Bubble /\ seen' \subseteq Bubble'
    BY <2>1 DEF Bubble, Row, BubblesOK
  <2>3. /\ messages' = Push(messages, Temp(sends))
        /\ \A p \in Peer : cache'[p] = IF p = selected THEN Push(messages, Temp(sends)) ELSE cache[p]
    BY <2>1, <2>2, PushAndCopyFacts
  <2>4. Temp(sends) \notin Row
    BY <2>1, RowFacts DEF Temp
  <2>5. Temp(sends) \notin Shown
    BY <1>0, <2>1 DEF TempIsNew
  <2>6. /\ BagToSet(messages') = Shown \cup {Temp(sends)}
        /\ \A x \in Shown : messages'[x] = messages[x]
        /\ messages'[Temp(sends)] = 1
    BY <1>0, <2>3, <2>5, PushFacts
  <2>7. raced' = "never" => raced = "never" /\ \A l \in Load : load[l].stage # "holding"
    BY <2>1 DEF Raced, Holding, HoldingIn
  <2>8. ASSUME raced' = "never", NEW x \in BagToSet(messages') PROVE messages'[x] = 1
    BY <2>6, <2>7, <2>8 DEF OnceInv
  <2> QED BY <2>1, <2>3, <2>4, <2>6, <2>7, <2>8, OnceGoal DEF OnceInv
<1>7. ASSUME Confirmed PROVE OnceInv'
  <2> DEFINE c == messages (-) SetToBag({send.temp})
  <2>1. PostAnswered /\ BagIn(send.temp, messages) /\ send.temp \in Shown
    BY <1>0, <1>7 DEF Confirmed, BagIn
  <2>2. /\ rows' = rows /\ load' = load /\ send' = Idle /\ raced' = Raced(Holding # {})
        /\ send.stage = "stored"
    BY <2>1 DEF PostAnswered
  <2>3. /\ messages' = Push(c, send.id)
        /\ \A p \in Peer : cache'[p] = IF p = selected THEN messages' ELSE cache[p]
        /\ seen' = (seen \ {send.temp}) \cup {send.id}
    BY <2>1, PostAnsweredFacts
  <2>4. /\ IsABag(c) /\ BagToSet(c) \subseteq Shown
        /\ \A x \in BagToSet(c) \ {send.temp} : c[x] = messages[x]
        /\ messages[send.temp] = 1 => send.temp \notin BagToSet(c)
    <3>1. /\ IsABag(c) /\ BagToSet(c) \subseteq BagToSet(messages)
          /\ \A x \in BagToSet(c) \ {send.temp} : c[x] = messages[x]
          /\ send.temp \in BagToSet(messages) /\ messages[send.temp] = 1
             => send.temp \notin BagToSet(c)
      BY <1>0, DropFacts, SMTT(30)
    <3> QED BY <1>0, <2>1, <3>1
  <2> HIDE DEF c
  <2>5. /\ BagToSet(messages') = BagToSet(c) \cup {send.id}
        /\ \A x \in BagToSet(c) \ {send.id} : messages'[x] = c[x]
        /\ send.id \notin BagToSet(c) => messages'[send.id] = 1
    BY <2>3, <2>4, PushFacts
  <2>6. raced' = "never" => raced = "never" /\ \A l \in Load : load[l].stage # "holding"
    BY <2>2 DEF Raced, Holding, HoldingIn
  <2>7. raced' = "never" => /\ send.temp \notin BagToSet(c) /\ send.id \notin BagToSet(c)
                            /\ \A x \in BagToSet(c) : c[x] = 1
    BY <2>1, <2>2, <2>4, <2>6 DEF OnceInv
  <2>8. ASSUME raced' = "never", NEW x \in BagToSet(messages') PROVE messages'[x] = 1
    BY <2>5, <2>7, <2>8
  <2>9. raced' = "never" => BagToSet(messages') \cap Row \subseteq seen'
    BY <2>3, <2>4, <2>5, <2>6, <2>7 DEF OnceInv
  <2> QED BY <1>0, <2>2, <2>3, <2>6, <2>8, <2>9, OnceGoal DEF OnceInv
<1>8. ASSUME RolledBack PROVE OnceInv'
  <2>1. PostFails /\ BagIn(send.temp, messages) /\ send.temp \in Shown
    BY <1>0, <1>8 DEF RolledBack, BagIn
  <2>2. /\ rows' = rows /\ load' = load /\ send' = Idle /\ raced' = Raced(Holding # {})
    BY <2>1 DEF PostFails
  <2>3. /\ messages' = messages (-) SetToBag({send.temp})
        /\ \A p \in Peer : cache'[p] = IF p = selected THEN messages' ELSE cache[p]
        /\ seen' = seen \ {send.temp}
    BY <2>1, PostFailsFacts
  <2>4. /\ BagToSet(messages') \subseteq Shown
        /\ \A x \in BagToSet(messages') \ {send.temp} : messages'[x] = messages[x]
        /\ messages[send.temp] = 1 => send.temp \notin BagToSet(messages')
    BY <1>0, <2>1, <2>3, DropFacts
  <2>5. raced' = "never" => raced = "never" /\ \A l \in Load : load[l].stage # "holding"
    BY <2>2 DEF Raced, Holding, HoldingIn
  <2>6. raced' = "never" => send.temp \notin BagToSet(messages')
    BY <2>1, <2>4, <2>5 DEF OnceInv
  <2>7. ASSUME raced' = "never", NEW x \in BagToSet(messages') PROVE messages'[x] = 1
    BY <2>4, <2>5, <2>6, <2>7 DEF OnceInv
  <2>8. raced' = "never" => BagToSet(messages') \cap Row \subseteq seen'
    BY <2>3, <2>4, <2>5, <2>6 DEF OnceInv
  <2>9. ASSUME raced' = "never", NEW p \in Peer, NEW id \in BagToSet(cache'[p])
        PROVE  cache'[p][id] = 1
    <3>1. CASE p = selected
      BY <2>3, <2>7, <2>9, <3>1
    <3>2. CASE p # selected
      <4>1. cache'[p] = cache[p]
        BY <2>3, <3>2
      <4> QED BY <2>5, <2>9, <4>1 DEF OnceInv
    <3> QED BY <3>1, <3>2
  <2>10. send'.stage # "stored" /\ \A l \in Load : load'[l] = load[l]
    BY <1>0, <2>2
  <2> QED BY <2>2, <2>5, <2>7, <2>8, <2>9, <2>10, OnceGoal
<1> QED BY <1>1, <1>2, <1>3, <1>4, <1>5, <1>6, <1>7, <1>8 DEF Loud

LEMMA Once == Spec => [](TypesInv /\ LoneInv /\ OnceInv)
<1>1. ASSUME Init PROVE OnceInv
  <2>1. messages = EmptyBag /\ \A p \in Peer : cache[p] = EmptyBag
    <3>1. current \in Array
      BY <1>1, TypesInit DEF TypesInv, BubblesOK
    <3> QED BY <1>1, <3>1 DEF Init, Nothing, messages
  <2>2. Shown = {} /\ \A p \in Peer : BagToSet(cache[p]) = {}
    BY <2>1, EmptyBagFacts DEF Shown
  <2>3. send.stage # "stored" /\ \A l \in Load : load[l].stage # "holding"
    BY <1>1 DEF Init, Unused, Idle
  <2> QED BY <2>2, <2>3 DEF OnceInv
<1>2. TypesInv /\ LoneInv /\ OnceInv /\ [Next]_vars => OnceInv'
  BY TypesNext, StepKinds, OnceQuiet, OnceLoud
<1> QED BY <1>1, <1>2, Lone, PTL DEF Spec

\* One message id, one bubble, while no two writers of the thread have
\* overlapped: the claims of the frame handler, of selectUser and of the reload,
\* and the renaming of a pending bubble, together.
THEOREM NothingIsShownTwice == Spec => []ShownOnce
<1>1. OnceInv => ShownOnce
  BY DEF OnceInv, ShownOnce
<1> QED BY <1>1, Once, PTL

-----------------------------------------------------------------------------
(* No pending bubble is left behind.                                       *)

\* With nothing crossed and nothing raced, the one bubble without a row is
\* that of the send under way: in the thread, and in the cached threads only
\* in that of the open thread, where it is shown too.
PendInv ==
    crossed = "never" /\ raced = "never" =>
        /\ \A id \in Shown \ Row : Pending /\ id = send.temp
        /\ \A p \in Peer : \A id \in BagToSet(cache[p]) \ Row :
               p = selected /\ Pending /\ id = send.temp /\ id \in Shown

LEMMA PendQuiet == ASSUME TypesInv, PendInv, Quiet PROVE PendInv'
<1>1. SUFFICES ASSUME crossed = "never", raced = "never" PROVE PendInv'
  BY DEF PendInv, Quiet
<1>2. messages' = messages /\ Shown' = Shown /\ cache' = cache /\ selected' = selected
      /\ Row \subseteq Row'
  BY DEF Quiet, bubbles, messages, Shown, RowsGrow
<1>3. /\ \A id \in Shown \ Row : Pending /\ id = send.temp
      /\ \A p \in Peer : \A id \in BagToSet(cache[p]) \ Row :
             p = selected /\ Pending /\ id = send.temp /\ id \in Shown
  BY <1>1 DEF PendInv
<1>4. Pending /\ send.temp \in Shown => Pending' /\ send'.temp = send.temp
  BY DEF Quiet, QuietSend, QuietLoad, Pending, Idle
<1>5. \A id \in Shown \ Row : Pending' /\ id = send'.temp
  BY <1>3, <1>4
<1>6. \A p \in Peer : \A id \in BagToSet(cache[p]) \ Row :
          p = selected /\ Pending' /\ id = send'.temp /\ id \in Shown
  BY <1>3, <1>4
<1> QED BY <1>2, <1>5, <1>6 DEF PendInv

\* The goal for a step that stores no row.
LEMMA PendGoal ==
    ASSUME rows' = rows, crossed' = "never" /\ raced' = "never" =>
        /\ \A id \in BagToSet(messages') \ Row : Pending' /\ id = send'.temp
        /\ \A p \in Peer : \A id \in BagToSet(cache'[p]) \ Row :
               p = selected' /\ Pending' /\ id = send'.temp /\ id \in BagToSet(messages')
    PROVE  PendInv'
<1>1. Shown' = BagToSet(messages') /\ Row' = Row
  BY DEF Shown, BagToSet, Row
<1> QED BY <1>1 DEF PendInv

\* Steps after which no bubble is without a row.
LEMMA PendNone ==
    ASSUME rows' = rows, crossed' = "never" /\ raced' = "never" =>
        /\ BagToSet(messages') \subseteq Row
        /\ \A p \in Peer : BagToSet(cache'[p]) \subseteq Row
    PROVE  PendInv'
BY PendGoal

LEMMA PendLoud ==
    ASSUME TypesInv, OwnInv, LoneInv, OnceInv, PendInv, Loud
    PROVE  PendInv'
<1> USE DEF TypesInv
<1>0. /\ Shown = BagToSet(messages) /\ IsABag(messages) /\ current \in Array
      /\ messages = array[current].held
      /\ Unused.stage = "unused" /\ Idle.stage = "idle"
  BY BagFacts DEF messages, Shown, Unused, Idle
<1>a. ASSUME crossed = "never", raced = "never", ~Pending
      PROVE  Shown \subseteq Row /\ \A p \in Peer : BagToSet(cache[p]) \subseteq Row
  BY <1>a DEF PendInv
<1>1. ASSUME NEW id \in Row, FramePushed(id) PROVE PendInv'
  <2>1. /\ rows' = rows /\ send' = send /\ sends' = sends /\ crossed' = crossed
        /\ selected' = selected /\ raced' = Raced(Holding # {})
        /\ seen' = seen \cup {id} /\ PushAndCopy(id)
    BY <1>1 DEF FramePushed, FrameOpened, Claimed, user
  <2>2. id \in Bubble /\ Bubble' = Bubble /\ seen' \subseteq Bubble'
    BY <2>1 DEF Bubble, Row, BubblesOK
  <2>3. /\ messages' = Push(messages, id)
        /\ \A p \in Peer : cache'[p] = IF p = selected THEN messages' ELSE cache[p]
    BY <2>1, <2>2, PushAndCopyFacts
  <2>4. BagToSet(messages') = Shown \cup {id}
    BY <1>0, <2>3, PushFacts
  <2>5. Pending' = Pending /\ (raced' = "never" => raced = "never")
    BY <2>1 DEF Pending, Raced
  <2> QED BY <2>1, <2>3, <2>4, <2>5, PendGoal DEF PendInv
<1>2. ASSUME NEW p \in Peer, SelectUser(p) PROVE PendInv'
  <2>1. /\ rows' = rows /\ cache' = cache
        /\ crossed' = IF UnderWay THEN "now" ELSE Healed(crossed)
    BY <1>2 DEF SelectUser
  <2>2. messages' = cache[p]
    BY <1>2, SelectFacts
  <2>3. PICK l \in Load : Ask(l, "open", p)
    BY <1>2 DEF SelectUser
  <2>4. raced' = "never" => raced = "never"
    BY <2>1, <2>3, AskFacts DEF RowsGrow, Row, SendOK
  <2>5. crossed' = "never" => crossed = "never" /\ ~Pending
    BY <1>0, <2>1 DEF UnderWay, Healed, Pending
  <2> QED BY <1>a, <2>1, <2>2, <2>4, <2>5, PendNone
<1>3. ASSUME NEW l \in Load, Merge(l) PROVE PendInv'
  <2> DEFINE held == array[load[l].arr].held
             M == Merged(held, load[l].fetched)
  <2>1. /\ rows' = rows /\ crossed' = crossed /\ raced' = raced
    BY <1>3 DEF Merge, ghosts
  <2>2. /\ IsABag(held) /\ load[l].stage = "holding" /\ load[l].fetched \subseteq Row
        /\ messages' = M
        /\ \A p \in Peer : cache'[p] = IF p = load[l].peer THEN M ELSE cache[p]
    BY <1>3, MergeFacts
  <2>3. BagToSet(M) = BagToSet(held) \cup load[l].fetched
    BY <2>2, MergedFacts
  <2> HIDE DEF M
  <2>4. raced = "never" => load[l].arr = current /\ ~Pending
    BY <2>2 DEF LoneInv
  <2>5. raced = "never" => held = messages
    BY <1>0, <2>4
  <2> HIDE DEF held
  <2> QED BY <1>0, <1>a, <2>1, <2>2, <2>3, <2>4, <2>5, PendNone
<1>4. ASSUME NEW l \in Load, ReloadAnswered(l) PROVE PendInv'
  <2>1. rows' = rows /\ crossed' = crossed /\ raced' = Raced(Pending)
    BY <1>4 DEF ReloadAnswered
  <2>2. /\ array' = array /\ current' = current
        /\ \A p \in Peer : cache'[p] \in {cache[p], messages}
    BY <1>4, ReloadAnsweredFacts
  <2>3. messages' = messages
    BY <2>2 DEF messages
  <2>4. raced' = "never" => raced = "never" /\ ~Pending
    BY <2>1 DEF Raced
  <2> QED BY <1>0, <1>a, <2>1, <2>2, <2>3, <2>4, PendNone
<1>5. ASSUME NEW l \in Load, RowOpened(l) PROVE PendInv'
  <2> DEFINE row == Min(load[l].todo)
             held == Push(array[load[l].arr].held, row)
  <2>1. rows' = rows /\ crossed' = crossed /\ raced' = raced
    BY <1>5 DEF RowOpened, ghosts
  <2>2. /\ load[l].stage = "holding" /\ row \in Row
        /\ messages' = IF load[l].arr = current THEN held ELSE messages
        /\ \A p \in Peer : cache'[p] \in {cache[p], messages'}
    BY <1>5, RowOpenedFacts
  <2>3. raced = "never" => ~Pending
    BY <2>2 DEF LoneInv
  <2> HIDE DEF row
  <2>4. BagToSet(messages') \subseteq Shown \cup {row}
    BY <1>0, <2>2, PushFacts
  <2> QED BY <1>a, <2>1, <2>2, <2>3, <2>4, PendNone
<1>6. ASSUME Prepared PROVE PendInv'
  <2>1. /\ rows' = rows /\ seen' = seen /\ raced' = Raced(Holding # {}) /\ crossed' = crossed
        /\ PushAndCopy(Temp(sends)) /\ sends' = sends /\ sends \in Nat /\ sends >= 1
        /\ send.stage = "preparing" /\ send'.stage = "posting" /\ send'.temp = Temp(sends)
        /\ selected' = selected
    BY <1>6 DEF Prepared, user, SendOK, Message
  <2>2. Temp(sends) \in Bubble /\ Bubble' = Bubble /\ seen' \subseteq Bubble'
    BY <2>1 DEF Bubble, Row, BubblesOK
  <2>3. /\ messages' = Push(messages, Temp(sends))
        /\ \A p \in Peer : cache'[p] = IF p = selected THEN messages' ELSE cache[p]
    BY <2>1, <2>2, PushAndCopyFacts
  <2>4. BagToSet(messages') = Shown \cup {Temp(sends)}
    BY <1>0, <2>3, PushFacts
  <2>5. ~Pending /\ Pending' /\ (raced' = "never" => raced = "never")
    BY <2>1 DEF Pending, Raced
  <2> QED BY <1>a, <2>1, <2>3, <2>4, <2>5, PendGoal
<1>7. ASSUME Confirmed \/ RolledBack PROVE PendInv'
  <2> DEFINE c == messages (-) SetToBag({send.temp})
  <2>1. /\ send.temp \in Shown /\ BagIn(send.temp, messages)
        /\ rows' = rows /\ crossed' = crossed /\ raced' = Raced(Holding # {})
    BY <1>0, <1>7 DEF Confirmed, RolledBack, BagIn, PostAnswered, PostFails
  <2>2. /\ (messages' = Push(c, send.id) /\ send.id \in Row) \/ messages' = c
        /\ \A p \in Peer : cache'[p] = IF p = selected THEN messages' ELSE cache[p]
    BY <1>7, <2>1, PostAnsweredFacts, PostFailsFacts DEF Confirmed, RolledBack
  <2>3. IsABag(c) /\ BagToSet(c) \subseteq Shown
        /\ (messages[send.temp] = 1 => send.temp \notin BagToSet(c))
    <3>1. /\ IsABag(c) /\ BagToSet(c) \subseteq BagToSet(messages)
          /\ send.temp \in BagToSet(messages) /\ messages[send.temp] = 1
             => send.temp \notin BagToSet(c)
      BY <1>0, DropFacts, ZenonT(60)
    <3> QED BY <1>0, <2>1, <3>1
  <2> HIDE DEF c
  <2>4. BagToSet(messages') \subseteq BagToSet(c) \cup Row
    BY <2>2, <2>3, PushFacts
  <2>5. raced' = "never" => raced = "never"
    BY <2>1 DEF Raced
  <2>6. raced = "never" => send.temp \notin BagToSet(c)
    BY <2>1, <2>3 DEF OnceInv
  <2>7. crossed = "never" /\ raced = "never" => BagToSet(messages') \subseteq Row
    BY <2>3, <2>4, <2>6 DEF PendInv
  <2>8. crossed = "never" /\ raced = "never" => \A p \in Peer : BagToSet(cache'[p]) \subseteq Row
    BY <2>2, <2>7 DEF PendInv
  <2> QED BY <2>1, <2>5, <2>7, <2>8, PendNone
<1> QED BY <1>1, <1>2, <1>3, <1>4, <1>5, <1>6, <1>7 DEF Loud

\* The optimistic bubble is confirmed or removed with its send, in the thread
\* and in localStorage, whatever frames arrive and whatever else is stored
\* meanwhile: it outlives the send only if a thread was opened under it, or a
\* load held an array from before it.
THEOREM NoPendingBubbleIsLeft == Spec => []NoPendingLeft
<1>1. ASSUME Init PROVE PendInv
  <2>1. messages = EmptyBag /\ \A p \in Peer : cache[p] = EmptyBag
    <3>1. current \in Array
      BY <1>1, TypesInit DEF TypesInv, BubblesOK
    <3> QED BY <1>1, <3>1 DEF Init, Nothing, messages
  <2> QED BY <2>1, EmptyBagFacts DEF Shown, PendInv
<1>2. TypesInv /\ OwnInv /\ LoneInv /\ OnceInv /\ PendInv /\ [Next]_vars => PendInv'
  BY StepKinds, PendQuiet, PendLoud
<1>3. PendInv => NoPendingLeft
  BY DEF PendInv, NoPendingLeft
<1> QED BY <1>1, <1>2, <1>3, Own, Once, PTL DEF Spec

-----------------------------------------------------------------------------
(* Every message of the other side is shown, or due.                       *)

Theirs(id) == rows[id].peer = selected /\ ~rows[id].mine

\* The rows a reload has left to show, and those a request has yet to bring.
Left(r, id) == r.stage = "holding" /\ r.kind = "reload" /\ id \in r.todo

Brings(r, id) ==
    \/ r.stage = "asked"
    \/ r.stage = "served" /\ id \in r.fetched
    \/ r.stage = "holding" /\ r.kind = "open" /\ id \in r.fetched
    \/ Left(r, id)

AllUnused(loads) == \A l \in Load : loads[l].stage = "unused"

\* With nothing crossed and nothing raced the requests are those of the open
\* thread, and a row of the other side is shown, or its frame is on the way or
\* being decrypted, or a reconnect is to ask for it, or a request brings it,
\* or the user is asked to retry; what is claimed is shown or left to show.
AllInv ==
    crossed # "now" /\ raced # "now" =>
        /\ \A l \in Load : load[l].stage # "unused" => load[l].peer = selected
        /\ \A id \in Row : Theirs(id) =>
               \/ id \in Shown \cup unheard \cup frames \cup opening
               \/ socket = "closed" /\ everConnected
               \/ \E l \in Load : Brings(load[l], id)
               \/ failed /\ AllUnused(load)
        /\ \A id \in seen \cap Row : Theirs(id) =>
               id \in Shown \/ \E l \in Load : Left(load[l], id)

\* The goal for a step that stores no row.
LEMMA AllGoal ==
    ASSUME rows' = rows, crossed' # "now" /\ raced' # "now" =>
        /\ \A l \in Load : load'[l].stage # "unused" => load'[l].peer = selected'
        /\ \A id \in Row : rows[id].peer = selected' /\ ~rows[id].mine =>
               \/ id \in BagToSet(messages') \cup unheard' \cup frames' \cup opening'
               \/ socket' = "closed" /\ everConnected'
               \/ \E l \in Load : Brings(load'[l], id)
               \/ failed' /\ AllUnused(load')
        /\ \A id \in seen' \cap Row : rows[id].peer = selected' /\ ~rows[id].mine =>
               id \in BagToSet(messages') \/ \E l \in Load : Left(load'[l], id)
    PROVE  AllInv'
<1>1. Shown' = BagToSet(messages') /\ Row' = Row
  BY DEF Shown, BagToSet, Row
<1>2. AllUnused(load') <=> AllUnused(load)'
  BY DEF AllUnused
<1>3. \A l \in Load : \A id \in Row : /\ Brings(load'[l], id) => Brings(load[l], id)'
                                     /\ Left(load'[l], id) => Left(load[l], id)'
  BY DEF Brings, Left
<1>4. \A id : Theirs(id)' <=> rows[id].peer = selected' /\ ~rows[id].mine
  BY DEF Theirs
<1> QED BY <1>1, <1>2, <1>3, <1>4 DEF AllInv

\* A step that changes no request: what was due is still due.
LEMMA AllCalm ==
    ASSUME TypesInv, AllInv, UNCHANGED <<rows, load, selected, failed>>,
           crossed' # "now" /\ raced' # "now" =>
             /\ crossed # "now" /\ raced # "now"
             /\ Shown \cap Row \subseteq BagToSet(messages')
             /\ socket = "closed" /\ everConnected => socket' = "closed" /\ everConnected'
             /\ \A id \in unheard \cup frames \cup opening : Theirs(id) =>
                    \/ id \in BagToSet(messages') \cup unheard' \cup frames' \cup opening'
                    \/ socket' = "closed" /\ everConnected'
                    \/ \E l \in Load : Brings(load[l], id)
             /\ \A id \in seen' \cap Row : Theirs(id) => id \in seen \cup BagToSet(messages')
    PROVE  AllInv'
<1> SUFFICES ASSUME crossed' # "now", raced' # "now" PROVE AllInv'
  BY DEF AllInv
<1>1. /\ \A l \in Load : load[l].stage # "unused" => load[l].peer = selected
      /\ \A id \in Row : Theirs(id) =>
             \/ id \in Shown \cup unheard \cup frames \cup opening
             \/ socket = "closed" /\ everConnected
             \/ \E l \in Load : Brings(load[l], id)
             \/ failed /\ AllUnused(load)
      /\ \A id \in seen \cap Row : Theirs(id) =>
             id \in Shown \/ \E l \in Load : Left(load[l], id)
  BY DEF AllInv
<1>2. \A id : Theirs(id) <=> rows[id].peer = selected' /\ ~rows[id].mine
  BY DEF Theirs
<1>3. ASSUME NEW id \in Row, Theirs(id)
      PROVE  \/ id \in BagToSet(messages') \cup unheard' \cup frames' \cup opening'
             \/ socket' = "closed" /\ everConnected'
             \/ \E l \in Load : Brings(load[l], id)
             \/ failed /\ AllUnused(load)
  BY <1>1, <1>3
<1>4. ASSUME NEW id \in seen' \cap Row, Theirs(id)
      PROVE  id \in BagToSet(messages') \/ \E l \in Load : Left(load[l], id)
  BY <1>1, <1>4
<1> QED BY <1>1, <1>2, <1>3, <1>4, AllGoal

\* A request for the open thread is asked: it brings every row.
LEMMA AllAsk ==
    ASSUME TypesInv, AllInv, UNCHANGED <<rows, bubbles, selected, crossed>>, selected \in Peer,
           NEW l \in Load, Ask(l, "reload", selected)
    PROVE  AllInv'
<1>1. /\ load'[l].stage = "asked" /\ load'[l].peer = selected
      /\ load[l].stage = "unused" /\ \A m \in Load \ {l} : load'[m] = load[m]
      /\ raced' # "now" => Busy = {} /\ (raced # "now" \/ ("reload" = "open" /\ ~UnderWay))
  BY AskFacts DEF TypesInv, SendOK, RowsGrow, Row
<1>2. messages' = messages /\ seen' = seen /\ selected' = selected /\ Shown = BagToSet(messages)
  BY BagFacts DEF bubbles, messages, TypesInv
<1>3. \A id : Brings(load'[l], id)
  BY <1>1 DEF Brings
<1>4. raced' # "now" => \A m \in Load \ {l} : load'[m].stage = "unused"
  BY <1>1 DEF Busy
<1>5. \A id : \A m \in Load : Left(load[m], id) => Left(load'[m], id)
  BY <1>1 DEF Left
<1>6. crossed' # "now" /\ raced' # "now" => crossed # "now" /\ raced # "now"
  BY <1>1
<1>7. ASSUME crossed' # "now", raced' # "now", NEW id \in seen \cap Row, Theirs(id)
      PROVE  id \in Shown \/ \E m \in Load : Left(load'[m], id)
  BY <1>5, <1>6, <1>7 DEF AllInv
<1> QED BY <1>1, <1>2, <1>3, <1>4, <1>7, AllGoal DEF Theirs

\* A row is stored: its frame is sent, or a reconnect will ask for it, or it
\* goes unheard.
LEMMA AllStore ==
    ASSUME TypesInv, TypesInv', AllInv, NEW p \in Peer, NEW mine \in BOOLEAN, Store(p, mine),
           UNCHANGED <<socket, everConnected, failed, selected, bubbles, opening, load,
                       crossed, raced>>
    PROVE  AllInv'
<1> SUFFICES ASSUME crossed # "now", raced # "now" PROVE AllInv'
  BY DEF AllInv
<1>1. /\ Row' = Row \cup {NewId} /\ rows'[NewId].peer = p /\ rows'[NewId].mine = mine
      /\ \A id \in Row : rows'[id] = rows[id]
  BY StoreFacts DEF TypesInv
<1>2. /\ frames' = IF mine \/ socket # "registered" THEN frames ELSE frames \cup {NewId}
      /\ unheard' = IF mine \/ socket = "registered" \/ (socket = "closed" /\ everConnected)
                    THEN unheard ELSE unheard \cup {NewId}
  BY DEF Store
<1>3. messages' = messages /\ Shown' = Shown /\ seen' = seen /\ load' = load /\ selected' = selected
      /\ opening' = opening /\ socket' = socket /\ everConnected' = everConnected /\ failed' = failed
  BY DEF bubbles, messages, Shown
<1>4. seen \cap Row' \subseteq Row
  BY OldBubbles DEF TypesInv, BubblesOK
<1>5. /\ \A l \in Load : load[l].stage # "unused" => load[l].peer = selected
      /\ \A id \in Row : Theirs(id) =>
             \/ id \in Shown \cup unheard \cup frames \cup opening
             \/ socket = "closed" /\ everConnected
             \/ \E l \in Load : Brings(load[l], id)
             \/ failed /\ AllUnused(load)
      /\ \A id \in seen \cap Row : Theirs(id) =>
             id \in Shown \/ \E l \in Load : Left(load[l], id)
  BY DEF AllInv
<1>6. ASSUME NEW id \in Row', rows'[id].peer = selected, ~rows'[id].mine
      PROVE  \/ id \in Shown \cup unheard' \cup frames' \cup opening
             \/ socket = "closed" /\ everConnected
             \/ \E l \in Load : Brings(load[l], id)
             \/ failed /\ AllUnused(load)
  <2>1. CASE id = NewId
    BY <1>1, <1>2, <1>6, <2>1
  <2>2. CASE id \in Row
    <3>1. Theirs(id)
      BY <1>1, <1>6, <2>2 DEF Theirs
    <3> QED BY <1>2, <1>5, <2>2, <3>1
  <2> QED BY <1>1, <2>1, <2>2
<1>7. ASSUME NEW id \in seen \cap Row', rows'[id].peer = selected, ~rows'[id].mine
      PROVE  id \in Shown \/ \E l \in Load : Left(load[l], id)
  BY <1>1, <1>4, <1>5, <1>7 DEF Theirs
<1>8. \A id : Theirs(id)' <=> rows'[id].peer = selected /\ ~rows'[id].mine
  BY <1>3 DEF Theirs
<1>9. AllUnused(load)' <=> AllUnused(load)
  BY <1>3 DEF AllUnused
<1>10. \A l \in Load : \A id \in Row' : /\ Brings(load[l], id)' <=> Brings(load[l], id)
                                        /\ Left(load[l], id)' <=> Left(load[l], id)
  BY <1>3 DEF Brings, Left
<1> QED BY <1>3, <1>5, <1>6, <1>7, <1>8, <1>9, <1>10 DEF AllInv

\* The one request there is goes on: what it was to bring it still brings, or
\* has brought, or it has failed.
LEMMA AllLoad ==
    ASSUME TypesInv, LoneInv, AllInv, NEW l \in Load, load[l].stage # "unused",
           \A m \in Load \ {l} : load'[m] = load[m],
           UNCHANGED <<rows, selected, frames, opening, unheard, socket, everConnected, crossed>>,
           raced' # "now" => raced # "now",
           crossed # "now" /\ raced' # "now" =>
             /\ Shown \cap Row \subseteq BagToSet(messages')
             /\ load'[l].stage # "unused" => load'[l].peer = load[l].peer
             /\ \A id \in Row : Theirs(id) /\ load[l].peer = selected /\ Brings(load[l], id) =>
                    \/ id \in BagToSet(messages') \/ Brings(load'[l], id)
                    \/ failed' /\ load'[l].stage = "unused"
             /\ \A id \in Row : Left(load[l], id) =>
                    id \in BagToSet(messages') \/ Left(load'[l], id)
             /\ \A id \in seen' \cap Row : Theirs(id) =>
                    id \in seen \cup BagToSet(messages') \/ Left(load'[l], id)
    PROVE  AllInv'
<1> SUFFICES ASSUME crossed # "now", raced' # "now" PROVE AllInv'
  BY DEF AllInv
<1>1. /\ \A m \in Load : load[m].stage # "unused" => load[m].peer = selected
      /\ \A id \in Row : Theirs(id) =>
             \/ id \in Shown \cup unheard \cup frames \cup opening
             \/ socket = "closed" /\ everConnected
             \/ \E m \in Load : Brings(load[m], id)
             \/ failed /\ AllUnused(load)
      /\ \A id \in seen \cap Row : Theirs(id) =>
             id \in Shown \/ \E m \in Load : Left(load[m], id)
  BY DEF AllInv
<1>2. \A m \in Load \ {l} : load[m].stage = "unused" /\ load'[m].stage = "unused"
  BY DEF LoneInv
<1>3. \A id : \A m \in Load \ {l} : ~Brings(load[m], id) /\ ~Left(load[m], id)
  BY <1>2 DEF Brings, Left
<1>4. ~AllUnused(load) /\ (load'[l].stage = "unused" => AllUnused(load'))
  BY <1>2 DEF AllUnused
<1>5. ASSUME NEW id \in Row, Theirs(id)
      PROVE  \/ id \in BagToSet(messages') \cup unheard \cup frames \cup opening
             \/ socket = "closed" /\ everConnected
             \/ \E m \in Load : Brings(load'[m], id)
             \/ failed' /\ AllUnused(load')
  <2>1. CASE Brings(load[l], id)
    BY <1>1, <1>4, <1>5, <2>1
  <2>2. CASE ~Brings(load[l], id)
    BY <1>1, <1>3, <1>4, <1>5, <2>2
  <2> QED BY <2>1, <2>2
<1>6. ASSUME NEW id \in seen' \cap Row, Theirs(id)
      PROVE  id \in BagToSet(messages') \/ \E m \in Load : Left(load'[m], id)
  BY <1>1, <1>3, <1>6
<1>7. \A m \in Load : load'[m].stage # "unused" => load'[m].peer = selected
  BY <1>1, <1>2
<1> QED BY <1>5, <1>6, <1>7, AllGoal DEF Theirs

LEMMA AllNetwork == ASSUME TypesInv, TypesInv', AllInv, Network PROVE AllInv'
<1> USE DEF TypesInv
<1>0. Shown = BagToSet(messages) /\ (socket # "closed" => everConnected)
  BY BagFacts DEF NetOK
<1>1. ASSUME NEW p \in Peer, PeerSends(p) \/ SentElsewhere(p) PROVE AllInv'
  BY <1>1, AllStore DEF PeerSends, SentElsewhere
<1>2. CASE Drop
  <2>1. messages' = messages /\ seen' = seen
    BY <1>2 DEF Drop, bubbles, messages
  <2> QED BY <1>0, <1>2, <2>1, AllCalm DEF Drop, ghosts
<1>3. CASE Connect
  <2>1. messages' = messages /\ seen' = seen
    BY <1>3 DEF Connect, bubbles, messages
  <2>2. CASE ReloadsOnConnect
    <3>1. selected \in Peer
      BY <2>2 DEF ReloadsOnConnect, NetOK
    <3> QED BY <1>3, <2>2, <3>1, AllAsk DEF Connect
  <2>3. CASE ~ReloadsOnConnect /\ selected \in Peer
    <3>1. ~everConnected
      BY <2>3, ChatAssumption DEF ReloadsOnConnect, ChatAssumption
    <3>2. /\ UNCHANGED <<rows, load, selected, failed, crossed, raced, unheard, frames, opening>>
      BY <1>3, <2>3 DEF Connect
    <3> QED BY <1>0, <2>1, <3>1, <3>2, AllCalm
  <2>4. CASE selected \notin Peer
    <3>1. load' = load /\ selected' = selected /\ rows' = rows /\ crossed' = crossed /\ raced' = raced
      BY <1>3, <2>4 DEF Connect, ReloadsOnConnect, NetOK
    <3>2. \A id \in Row : rows[id].peer # selected
      BY <2>4, RowFacts
    <3> QED BY <3>1, <3>2, AllGoal DEF AllInv
  <2> QED BY <2>2, <2>3, <2>4
<1>4. CASE HubRegisters
  <2>1. messages' = messages /\ seen' = seen
    BY <1>4 DEF HubRegisters, bubbles, messages
  <2> QED BY <1>0, <1>4, <2>1, AllCalm DEF HubRegisters, ghosts
<1> QED BY <1>1, <1>2, <1>3, <1>4 DEF Network

LEMMA AllFrame ==
    ASSUME TypesInv, AllInv, NEW id \in Row, FrameArrives(id) \/ FrameOpened(id)
    PROVE  AllInv'
<1> USE DEF TypesInv
<1>0. Shown = BagToSet(messages) /\ IsABag(messages)
  BY BagFacts
<1>1. CASE FrameArrives(id)
  <2>1. messages' = messages /\ seen' = seen
    BY <1>1 DEF FrameArrives, bubbles, messages
  <2>2. Theirs(id) => Accepts(id)
    BY DEF Theirs, Accepts
  <2> QED BY <1>0, <1>1, <2>1, <2>2, AllCalm DEF FrameArrives, ghosts
<1>2. CASE FrameOpened(id) /\ id \in seen
  <2>1. messages' = messages /\ seen' = seen /\ raced' = raced
    BY <1>2 DEF FrameOpened, bubbles, messages
  <2>2. crossed # "now" /\ raced # "now" /\ Theirs(id) => id \in Shown \/ \E l \in Load : Brings(load[l], id)
    BY <1>2 DEF AllInv, Brings
  <2>3. /\ UNCHANGED <<rows, load, selected, failed, crossed, socket, everConnected, unheard, frames>>
        /\ opening' = opening \ {id}
    BY <1>2 DEF FrameOpened
  <2> QED BY <1>0, <2>1, <2>2, <2>3, AllCalm
<1>3. CASE FramePushed(id)
  <2>1. /\ rows' = rows /\ sends' = sends /\ raced' = Raced(Holding # {})
        /\ seen' = seen \cup {id} /\ PushAndCopy(id)
        /\ UNCHANGED <<load, selected, failed, crossed, socket, everConnected, unheard, frames>>
        /\ opening' = opening \ {id}
    BY <1>3 DEF FramePushed, FrameOpened, Claimed, user
  <2>2. id \in Bubble /\ Bubble' = Bubble /\ seen' \subseteq Bubble'
    BY <2>1 DEF Bubble, Row, BubblesOK
  <2>3. messages' = Push(messages, id)
    BY <2>1, <2>2, PushAndCopyFacts
  <2>4. BagToSet(messages') = Shown \cup {id}
    BY <1>0, <2>3, PushFacts
  <2>5. raced' # "now" => raced # "now"
    BY <2>1 DEF Raced
  <2> QED BY <2>1, <2>4, <2>5, AllCalm
<1> QED BY <1>1, <1>2, <1>3 DEF FramePushed

LEMMA AllOpening ==
    ASSUME TypesInv, AllInv, NEW p \in Peer, SelectUser(p)
    PROVE  AllInv'
<1>1. /\ rows' = rows /\ selected' = p
      /\ crossed' = IF UnderWay THEN "now" ELSE Healed(crossed)
  BY DEF SelectUser
<1>2. messages' = cache[p] /\ seen' = BagToSet(cache[p])
  BY SelectFacts DEF TypesInv
<1>3. PICK l \in Load : Ask(l, "open", p)
  BY DEF SelectUser
<1>4. /\ load'[l].stage = "asked" /\ load'[l].peer = p /\ \A m \in Load \ {l} : load'[m] = load[m]
      /\ raced' # "now" => Busy = {}
  BY <1>1, <1>3, AskFacts DEF RowsGrow, Row, SendOK, TypesInv
<1>5. raced' # "now" => \A m \in Load \ {l} : load'[m].stage = "unused"
  BY <1>4 DEF Busy
<1>6. \A id : Brings(load'[l], id)
  BY <1>4 DEF Brings
<1> QED BY <1>1, <1>2, <1>4, <1>5, <1>6, AllGoal

LEMMA AllAnswer ==
    ASSUME TypesInv, LoneInv, AllInv, NEW l \in Load, Serve(l) \/ LoadFails(l) \/ LookUp(l)
    PROVE  AllInv'
<1>1. /\ UNCHANGED <<rows, selected, frames, opening, unheard, socket, everConnected, crossed, seen>>
      /\ messages' = messages /\ load[l].stage # "unused"
      /\ raced' # "now" => raced # "now"
  BY DEF Serve, LoadFails, LookUp, bubbles, messages, ghosts, Raced
<1>2. Shown = BagToSet(messages)
  BY BagFacts DEF TypesInv
<1>3. /\ \A m \in Load \ {l} : load'[m] = load[m]
      /\ Serve(l) => /\ load'[l].stage = "served"
                     /\ load'[l].fetched = {id \in Row : rows[id].peer = load[l].peer}
                     /\ load'[l].kind = load[l].kind /\ load'[l].peer = load[l].peer
      /\ LoadFails(l) => load'[l] = Unused
      /\ LookUp(l) => /\ load'[l].stage = "holding" /\ load'[l].arr = current
                      /\ load'[l].kind = "open" /\ load'[l].peer = load[l].peer
                      /\ load'[l].fetched = load[l].fetched
  BY LoadTypes
<1>4. /\ Serve(l) => load[l].stage = "asked"
      /\ LoadFails(l) => load[l].stage \in {"asked", "served"} /\ failed'
      /\ LookUp(l) => load[l].stage = "served"
      /\ Unused.stage = "unused"
  BY DEF Serve, LoadFails, LookUp, Unused
<1>5. load'[l].stage # "unused" => load'[l].peer = load[l].peer
  BY <1>3, <1>4
<1>6. ASSUME NEW id \in Row, Theirs(id), load[l].peer = selected, Brings(load[l], id)
      PROVE  Brings(load'[l], id) \/ (failed' /\ load'[l].stage = "unused")
  <2>1. CASE Serve(l)
    BY <1>3, <1>6, <2>1 DEF Brings, Theirs
  <2>2. CASE LoadFails(l)
    BY <1>3, <1>4, <2>2
  <2>3. CASE LookUp(l)
    BY <1>3, <1>4, <1>6, <2>3 DEF Brings, Left
  <2> QED BY <2>1, <2>2, <2>3
<1>7. \A id \in Row : ~Left(load[l], id)
  BY <1>4 DEF Left
<1> QED BY <1>1, <1>2, <1>3, <1>5, <1>6, <1>7, AllLoad

LEMMA AllMerge ==
    ASSUME TypesInv, LoneInv, AllInv, NEW l \in Load, Merge(l)
    PROVE  AllInv'
<1> DEFINE held == array[load[l].arr].held
           M == Merged(held, load[l].fetched)
<1>1. /\ UNCHANGED <<rows, selected, frames, opening, unheard, socket, everConnected, crossed>>
      /\ raced' = raced
  BY DEF Merge, ghosts
<1>2. /\ IsABag(held) /\ load[l].kind = "open" /\ load[l].stage = "holding"
      /\ load'[l] = Unused /\ \A m \in Load \ {l} : load'[m] = load[m]
      /\ messages' = M /\ seen' = seen \cup (load[l].fetched \ BagToSet(held))
  BY MergeFacts DEF TypesInv
<1>3. BagToSet(messages') = BagToSet(held) \cup load[l].fetched
  BY <1>2, MergedFacts
<1> HIDE DEF M
<1>4. raced # "now" => Shown = BagToSet(held)
  BY <1>2 DEF LoneInv, Shown, messages
<1>5. \A id \in Row : Brings(load[l], id) => id \in load[l].fetched
  BY <1>2 DEF Brings, Left
<1>6. \A id \in Row : ~Left(load[l], id)
  BY <1>2 DEF Left
<1>7. load'[l].stage = "unused" /\ load[l].stage # "unused"
  BY <1>2 DEF Unused
<1> HIDE DEF held
<1> QED BY <1>1, <1>2, <1>3, <1>4, <1>5, <1>6, <1>7, AllLoad

LEMMA AllReloaded ==
    ASSUME TypesInv, LoneInv, AllInv, NEW l \in Load, ReloadAnswered(l)
    PROVE  AllInv'
<1> DEFINE todo == load[l].fetched \ Shown
<1>1. /\ UNCHANGED <<rows, selected, frames, opening, unheard, socket, everConnected, crossed>>
      /\ raced' = Raced(Pending)
  BY DEF ReloadAnswered
<1>2. /\ load[l].stage = "served" /\ array' = array /\ current' = current
      /\ \A m \in Load \ {l} : load'[m] = load[m]
      /\ todo = {} => load'[l] = Unused
      /\ todo # {} => /\ load'[l].stage = "holding" /\ load'[l].todo = todo
                      /\ load'[l].kind = "reload" /\ load'[l].peer = load[l].peer
                      /\ Min(todo) \in todo
      /\ seen' = IF todo = {} THEN seen ELSE seen \cup {Min(todo)}
  BY ReloadAnsweredFacts DEF TypesInv
<1>3. messages' = messages /\ Shown = BagToSet(messages)
  BY <1>2, BagFacts DEF messages, TypesInv
<1>4. \A id \in Row : /\ Brings(load[l], id) => id \in Shown \cup todo
                      /\ ~Left(load[l], id)
  BY <1>2 DEF Brings, Left
<1> HIDE DEF todo
<1>5. \A id \in todo : Left(load'[l], id) /\ Brings(load'[l], id)
  BY <1>2 DEF Left, Brings
<1>6. load'[l].stage # "unused" => load'[l].peer = load[l].peer
  BY <1>2 DEF Unused
<1>7. raced' # "now" => raced # "now"
  BY <1>1 DEF Raced
<1> QED BY <1>1, <1>2, <1>3, <1>4, <1>5, <1>6, <1>7, AllLoad

LEMMA AllRowOpened ==
    ASSUME TypesInv, LoneInv, AllInv, NEW l \in Load, RowOpened(l)
    PROVE  AllInv'
<1> DEFINE row == Min(load[l].todo)
           todo == load[l].todo \ {row}
           held == Push(array[load[l].arr].held, row)
<1>1. /\ UNCHANGED <<rows, selected, frames, opening, unheard, socket, everConnected, crossed>>
      /\ raced' = raced
  BY DEF RowOpened, ghosts
<1>2. /\ load[l].kind = "reload" /\ load[l].stage = "holding" /\ row \in load[l].todo
      /\ \A m \in Load \ {l} : load'[m] = load[m]
      /\ todo = {} => load'[l] = Unused
      /\ todo # {} => /\ load'[l].stage = "holding" /\ load'[l].todo = todo
                      /\ load'[l].kind = "reload" /\ load'[l].peer = load[l].peer
                      /\ Min(todo) \in todo
      /\ seen' = IF todo = {} THEN seen ELSE seen \cup {Min(todo)}
      /\ messages' = IF load[l].arr = current THEN held ELSE messages
  BY RowOpenedFacts DEF TypesInv
<1>3. Shown = BagToSet(messages) /\ IsABag(messages) /\ messages = array[current].held
  BY BagFacts DEF messages, TypesInv
<1>4. \A id \in Row : Brings(load[l], id) \/ Left(load[l], id) => id \in todo \cup {row}
  BY <1>2 DEF Brings, Left
<1> HIDE DEF row, todo
<1>5. raced # "now" => BagToSet(messages') = Shown \cup {row}
  <2>1. raced # "now" => messages' = Push(messages, row)
    BY <1>2, <1>3 DEF LoneInv
  <2>2. BagToSet(Push(messages, row)) = Shown \cup {row}
    BY <1>3, PushFacts
  <2> HIDE DEF held
  <2> QED BY <2>1, <2>2
<1> HIDE DEF held
<1>6. \A id \in todo : Left(load'[l], id) /\ Brings(load'[l], id)
  BY <1>2 DEF Left, Brings
<1>7. load'[l].stage # "unused" => load'[l].peer = load[l].peer
  BY <1>2 DEF Unused
<1> QED BY <1>1, <1>2, <1>4, <1>5, <1>6, <1>7, AllLoad

LEMMA AllSending == ASSUME TypesInv, TypesInv', AllInv, Sending PROVE AllInv'
<1> USE DEF TypesInv
<1>0. Shown = BagToSet(messages) /\ IsABag(messages)
  BY BagFacts
<1>1. CASE StartSend \/ PrepareFails
  <2>1. messages' = messages /\ seen' = seen
    BY <1>1 DEF StartSend, PrepareFails, bubbles, messages
  <2> QED BY <1>0, <1>1, <2>1, AllCalm DEF StartSend, PrepareFails, ghosts
<1>2. CASE PostStored
  <2>1. send.peer \in Peer
    BY <1>2 DEF PostStored, SendOK
  <2> QED BY <1>2, <2>1, AllStore DEF PostStored
<1>3. ASSUME Prepared \/ PostAnswered \/ PostFails
      PROVE  /\ UNCHANGED <<rows, load, selected, failed, crossed, socket, everConnected,
                            unheard, frames, opening>>
             /\ raced' # "now" => raced # "now"
             /\ sends' = sends
  BY <1>3 DEF Prepared, PostAnswered, PostFails, user, Raced
<1>4. CASE Prepared
  <2>1. /\ seen' = seen /\ PushAndCopy(Temp(sends)) /\ sends \in Nat /\ sends >= 1
    BY <1>4 DEF Prepared, SendOK
  <2>2. Temp(sends) \in Bubble /\ Bubble' = Bubble /\ seen' \subseteq Bubble'
    BY <1>3, <1>4, <2>1 DEF Bubble, Row, BubblesOK
  <2>3. messages' = Push(messages, Temp(sends))
    BY <2>1, <2>2, PushAndCopyFacts
  <2>4. Shown \subseteq BagToSet(messages')
    BY <1>0, <2>3, PushFacts
  <2> QED BY <1>3, <1>4, <2>1, <2>4, AllCalm
<1>5. ASSUME PostAnswered \/ PostFails PROVE AllInv'
  <2> DEFINE c == messages (-) SetToBag({send.temp})
  <2>1. send.temp \notin Row
    BY <1>5, RowFacts DEF PostAnswered, PostFails, Pending, SendOK, Temp
  <2>2. CASE BagIn(send.temp, messages)
    <3>1. \/ messages' = Push(c, send.id) /\ seen' = (seen \ {send.temp}) \cup {send.id}
          \/ messages' = c /\ seen' = seen \ {send.temp}
      <4>1. CASE PostAnswered
        BY <2>2, <4>1, PostAnsweredFacts
      <4>2. CASE PostFails
        BY <2>2, <4>2, PostFailsFacts
      <4> QED BY <1>5, <4>1, <4>2
    <3>2. IsABag(c) /\ BagToSet(messages) \ {send.temp} \subseteq BagToSet(c)
      BY <1>0, DropFacts
    <3> HIDE DEF c
    <3>3. BagToSet(c) \subseteq BagToSet(messages')
          /\ (messages' = Push(c, send.id) => send.id \in BagToSet(messages'))
      BY <3>1, <3>2, PushFacts
    <3>4. Shown \cap Row \subseteq BagToSet(messages')
      BY <1>0, <2>1, <3>2, <3>3
    <3>5. \A id \in seen' : id \in seen \cup BagToSet(messages')
      BY <3>1, <3>3
    <3> QED BY <1>3, <1>5, <3>4, <3>5, AllCalm
  <2>3. CASE ~BagIn(send.temp, messages)
    <3>1. seen' = seen /\ messages' = messages
      BY <1>5, <2>3 DEF PostAnswered, PostFails, messages
    <3> QED BY <1>0, <1>3, <1>5, <3>1, AllCalm
  <2> QED BY <2>2, <2>3
<1> QED BY <1>1, <1>2, <1>4, <1>5 DEF Sending

LEMMA AllNext == ASSUME TypesInv, LoneInv, AllInv, [Next]_vars PROVE AllInv'
<1>0. TypesInv'
  BY TypesNext
<1>1. CASE Network
  BY <1>0, <1>1, AllNetwork
<1>2. CASE Frame
  BY <1>2, AllFrame DEF Frame
<1>3. CASE Thread
  <2>1. CASE Reload
    <3>1. selected \in Peer
      BY <2>1 DEF Reload, TypesInv, NetOK
    <3> QED BY <2>1, <3>1, AllAsk DEF Reload
  <2> QED BY <1>3, <2>1, AllOpening, AllAnswer, AllMerge, AllReloaded, AllRowOpened DEF Thread
<1>4. CASE Sending
  BY <1>0, <1>4, AllSending
<1>5. CASE UNCHANGED vars
  <2>1. messages' = messages /\ seen' = seen
    BY <1>5 DEF vars, bubbles, messages
  <2>2. Shown = BagToSet(messages)
    BY BagFacts DEF TypesInv
  <2> QED BY <1>5, <2>1, <2>2, AllCalm DEF vars, ghosts
<1> QED BY <1>1, <1>2, <1>3, <1>4, <1>5 DEF Next

\* What the socket lost, a reload or the retry of a failed load makes up for:
\* once nothing is under way, every message of the other side is on the screen,
\* but for those of the moments in which nobody could have heard them.
THEOREM NoMessageIsMissed == Spec => []SettledShowsAll
<1>1. Init => AllInv
  BY DEF Init, AllInv, Row, Unused
<1>2. AllInv => SettledShowsAll
  <2> SUFFICES ASSUME AllInv, Settled, crossed # "now", raced # "now", NEW id \in Row, Theirs(id)
               PROVE  id \in Shown \cup unheard
    BY DEF SettledShowsAll, Theirs
  <2>1. frames = {} /\ opening = {} /\ socket # "closed" /\ ~failed
        /\ \A l \in Load : load[l].stage = "unused"
    BY DEF Settled, UnderWay, Busy
  <2>2. \A l \in Load : ~Brings(load[l], id)
    BY <2>1 DEF Brings, Left
  <2> QED BY <2>1, <2>2 DEF AllInv
<1> QED BY <1>1, <1>2, AllNext, Lone, PTL DEF Spec

-----------------------------------------------------------------------------
(* A message on the screen stays there.                                    *)

LEMMA KeptLoud ==
    ASSUME TypesInv, LoneInv, Loud, raced' # "now", opens' = opens
    PROVE  Shown \cap Row \subseteq BagToSet(messages')
<1> USE DEF TypesInv
<1>0. /\ Shown = BagToSet(messages) /\ IsABag(messages) /\ messages = array[current].held
      /\ opens \in Nat
  BY BagFacts DEF messages, SendOK
<1>1. ASSUME NEW id \in Row, FramePushed(id) PROVE Shown \subseteq BagToSet(messages')
  <2>1. rows' = rows /\ sends' = sends /\ seen' = seen \cup {id} /\ PushAndCopy(id)
    BY <1>1 DEF FramePushed, FrameOpened, Claimed, user
  <2>2. id \in Bubble /\ Bubble' = Bubble /\ seen' \subseteq Bubble'
    BY <2>1 DEF Bubble, Row, BubblesOK
  <2>3. messages' = Push(messages, id)
    BY <2>1, <2>2, PushAndCopyFacts
  <2> QED BY <1>0, <2>3, PushFacts
<1>2. ASSUME NEW p \in Peer, SelectUser(p) PROVE FALSE
  BY <1>0, <1>2 DEF SelectUser
<1>3. ASSUME NEW l \in Load, Merge(l) PROVE Shown \subseteq BagToSet(messages')
  <2> DEFINE held == array[load[l].arr].held
  <2>1. raced' = raced
    BY <1>3 DEF Merge, ghosts
  <2>2. IsABag(held) /\ load[l].stage = "holding" /\ messages' = Merged(held, load[l].fetched)
    BY <1>3, MergeFacts
  <2>3. held = messages
    BY <1>0, <2>1, <2>2 DEF LoneInv
  <2> HIDE DEF held
  <2> QED BY <1>0, <2>2, <2>3, MergedFacts
<1>4. ASSUME NEW l \in Load, ReloadAnswered(l) PROVE Shown \subseteq BagToSet(messages')
  <2>1. array' = array /\ current' = current
    BY <1>4 DEF ReloadAnswered
  <2> QED BY <1>0, <2>1 DEF messages
<1>5. ASSUME NEW l \in Load, RowOpened(l) PROVE Shown \subseteq BagToSet(messages')
  <2> DEFINE row == Min(load[l].todo)
  <2>1. messages' = IF load[l].arr = current THEN Push(array[load[l].arr].held, row) ELSE messages
    BY <1>5, RowOpenedFacts
  <2> HIDE DEF row
  <2>2. messages' \in {messages, Push(messages, row)}
    BY <1>0, <2>1
  <2> QED BY <1>0, <2>2, PushFacts
<1>6. ASSUME Prepared PROVE Shown \subseteq BagToSet(messages')
  <2>1. /\ rows' = rows /\ sends' = sends /\ seen' = seen /\ PushAndCopy(Temp(sends))
        /\ sends \in Nat /\ sends >= 1
    BY <1>6 DEF Prepared, SendOK, user
  <2>2. Temp(sends) \in Bubble /\ Bubble' = Bubble /\ seen' \subseteq Bubble'
    BY <2>1 DEF Bubble, Row, BubblesOK
  <2>3. messages' = Push(messages, Temp(sends))
    BY <2>1, <2>2, PushAndCopyFacts
  <2> QED BY <1>0, <2>3, PushFacts
<1>7. ASSUME Confirmed \/ RolledBack PROVE Shown \cap Row \subseteq BagToSet(messages')
  <2> DEFINE c == messages (-) SetToBag({send.temp})
  <2>1. send.temp \notin Row /\ BagIn(send.temp, messages)
    BY <1>0, <1>7, RowFacts DEF Confirmed, RolledBack, PostAnswered, PostFails, Pending, SendOK,
                                Temp, BagIn
  <2>2. messages' = Push(c, send.id) \/ messages' = c
    <3>1. CASE Confirmed
      BY <2>1, <3>1, PostAnsweredFacts DEF Confirmed
    <3>2. CASE RolledBack
      BY <2>1, <3>2, PostFailsFacts DEF RolledBack
    <3> QED BY <1>7, <3>1, <3>2
  <2>3. IsABag(c) /\ BagToSet(messages) \ {send.temp} \subseteq BagToSet(c)
    BY <1>0, DropFacts
  <2> HIDE DEF c
  <2>4. BagToSet(c) \subseteq BagToSet(messages')
    BY <2>2, <2>3, PushFacts
  <2> QED BY <1>0, <2>1, <2>3, <2>4
<1> QED BY <1>1, <1>2, <1>3, <1>4, <1>5, <1>6, <1>7 DEF Loud

\* What has arrived survives the answer of a request for the same thread, and
\* the end of a send: a message leaves the screen only when a thread is opened,
\* or when one writer of the thread overtakes another.
THEOREM ShownUntilOpenedOrRaced == Spec => KeptUnlessRaced
<1>1. TypesInv /\ LoneInv /\ [Next]_vars => (raced' # "now" => KeepsShown)
  <2> SUFFICES ASSUME TypesInv, LoneInv, [Next]_vars, raced' # "now", opens' = opens
               PROVE  Shown \cap Row \subseteq BagToSet(messages')
    BY DEF KeepsShown, Shown, BagToSet
  <2>1. CASE Quiet
    BY <2>1, BagFacts DEF Quiet, bubbles, messages, TypesInv
  <2>2. CASE Loud
    BY <2>2, KeptLoud
  <2> QED BY <2>1, <2>2, StepKinds
<1>2. TypesInv /\ LoneInv /\ [Next]_vars => [raced' # "now" => KeepsShown]_vars
  BY <1>1
<1> QED BY <1>2, Lone, PTL DEF Spec, KeptUnlessRaced
=============================================================================
