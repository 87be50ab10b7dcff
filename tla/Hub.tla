--------------------------------- MODULE Hub ---------------------------------
(***************************************************************************)
(* The WebSocket hub of backend/handlers/handlers.go: the registry of open *)
(* sockets, the cap on sockets per user, the counters /api/ws-health shows *)
(* and the online indicator with its grace timers.                         *)
(*                                                                         *)
(* One goroutine (runHub) owns the maps and handles one channel receive at *)
(* a time, so each case of its select is one action here.  Around it run   *)
(* one HandleWebSocket goroutine per socket, the time.AfterFunc timers and *)
(* the HTTP handlers; they reach the hub through channels only.            *)
(*                                                                         *)
(* What the frames of broadcast, broadcastGroup, broadcastAll and          *)
(* broadcastToUser carry, and to whom, is left out: here such a frame is   *)
(* WriteFrame, whose only effect on this state is to close the sockets     *)
(* whose write failed.                                                     *)
(***************************************************************************)
EXTENDS Integers, FiniteSets, Sequences

CONSTANTS
    User,             \* user ids
    Socket,           \* WebSocket connections; each is accepted at most once
    Owner,            \* the user whose JWT opened a socket
    TimerSlot,        \* bound: names for the timers of one user alive at once
    NoTimer,          \* graceTimers has no entry
    MaxConnsPerUser,  \* 2 in production
    GracePeriod,      \* 30 s in production, in ticks
    ForcePeriod,      \* the literal 30*time.Second of forceOffline, in ticks
    ExpiredCap,       \* capacity of graceExpired, 1024 in the code
    ForceCap          \* capacity of forceOffline, 1024 in the code

ASSUME OwnerAssumption == Owner \in [Socket -> User]
ASSUME SocketAssumption == IsFiniteSet(Socket)
ASSUME ConnsAssumption == MaxConnsPerUser \in Nat \ {0}
ASSUME TimerAssumption == NoTimer \notin TimerSlot
ASSUME PeriodAssumption == GracePeriod \in Nat /\ ForcePeriod \in Nat
ASSUME CapAssumption == ExpiredCap \in Nat /\ ForceCap \in Nat

VARIABLES
    handler,             \* the HandleWebSocket goroutine of each socket
    clients,             \* h.clients: the registered sockets
    connOpened,          \* h.connOpened: registration time, 0 for no entry
    wsConnectionsTotal,  \* the two counters that follow the registry
    wsClosedTotal,
    onlineUsers,         \* h.onlineUsers
    graceTimers,         \* h.graceTimers: the timer the hub still holds
    fuse,                \* ticks left on each timer alive, Unarmed otherwise
    graceExpired,        \* the two buffered channels of user ids
    forceOffline,
    shown,               \* ghost: the last presence frame was user_online
    dropped,             \* ghost: users whose expiry met a full channel
    away                 \* ghost: ticks since the last socket was registered

sockets == <<handler, clients, connOpened, wsConnectionsTotal, wsClosedTotal>>
timers == <<graceTimers, fuse, dropped>>
vars == <<handler, clients, connOpened, wsConnectionsTotal, wsClosedTotal,
          onlineUsers, graceTimers, fuse, graceExpired, forceOffline, shown,
          dropped, away>>

Unarmed == -1

ConnsOf(u) == {s \in clients : Owner[s] = u}
Registered == {s \in Socket : handler[s] # "idle"}
Now == Cardinality(Registered) + 1  \* time.Now(), as a registration rank
Running(u) == {k \in TimerSlot : fuse[u][k] # Unarmed}

Init ==
    /\ handler = [s \in Socket |-> "idle"]
    /\ clients = {}
    /\ connOpened = [s \in Socket |-> 0]
    /\ wsConnectionsTotal = 0
    /\ wsClosedTotal = 0
    /\ onlineUsers = [u \in User |-> FALSE]
    /\ graceTimers = [u \in User |-> NoTimer]
    /\ fuse = [u \in User |-> [k \in TimerSlot |-> Unarmed]]
    /\ graceExpired = << >>
    /\ forceOffline = << >>
    /\ shown = [u \in User |-> FALSE]
    /\ dropped = {}
    /\ away = [u \in User |-> GracePeriod]

-----------------------------------------------------------------------------
(* Mutated forms of the operators below, for the sensitivity of the runs.  *)

CountsEveryDisconnect(S) == S

EvictsAnybody(opened, mine, kept) == TRUE

LooksBeforeClosing(s) == ConnsOf(Owner[s])

ExpiresBlindly(u) == TRUE

-----------------------------------------------------------------------------
(* Operators the hub's cases share.                                        *)

\* closeConn returns early for a socket that is no longer in the map.
StillOpen(S) == S \cap clients

\* What dropStaleSockets may keep of a user's sockets: all of them up to the
\* cap, and otherwise MaxConnsPerUser of them, the newest by OldestGo.
Keeps(mine) ==
    {kept \in SUBSET mine :
        IF Cardinality(mine) <= MaxConnsPerUser
        THEN kept = mine
        ELSE Cardinality(kept) = MaxConnsPerUser}

OldestGo(opened, mine, kept) ==
    \A out \in mine \ kept, in \in kept : opened[out] < opened[in]

\* The registry after sockets joined, sockets evicted by the cap and sockets
\* closed by closeConn: only closeConn counts a closed connection.
Registry(joined, evicted, closed) ==
    /\ clients' = (clients \cup joined) \ (evicted \cup closed)
    /\ connOpened' = [s \in Socket |->
            IF s \in evicted \cup closed THEN 0
            ELSE IF s \in joined THEN Now
            ELSE connOpened[s]]
    /\ wsConnectionsTotal' = wsConnectionsTotal + Cardinality(joined)
            - Cardinality(evicted) - Cardinality(closed)
    /\ wsClosedTotal' = wsClosedTotal + Cardinality(closed)

\* Every write to a socket may fail: the peer is gone, or slower than the
\* 10 s deadline.
WriteErrors(targets) == SUBSET targets

\* time.AfterFunc, and the map entry that overwrites whatever was there.
Arm(u, period) ==
    \E k \in TimerSlot \ Running(u) :
        /\ fuse' = [fuse EXCEPT ![u][k] = period]
        /\ graceTimers' = [graceTimers EXCEPT ![u] = k]
        /\ dropped' = dropped \ {u}

\* t.Stop() and delete: only the timer the map still holds.
Disarm(u) ==
    /\ fuse' = IF graceTimers[u] = NoTimer THEN fuse
               ELSE [fuse EXCEPT ![u][graceTimers[u]] = Unarmed]
    /\ graceTimers' = [graceTimers EXCEPT ![u] = NoTimer]
    /\ UNCHANGED dropped

\* The sockets left to a leaving socket's user, looked up after closeConn.
OthersOf(s) == ConnsOf(Owner[s]) \ {s}

StillOffline(u) == ConnsOf(u) = {}

\* forceOffline marks the user online, so that the expiry has an indicator
\* to turn off.
MarkedOnline(u) == [onlineUsers EXCEPT ![u] = TRUE]

-----------------------------------------------------------------------------
(* The select of runHub.                                                   *)

\* case <-h.register.  A user who was offline is announced to every socket,
\* the new one included; a failed write closes the socket it was for.
Register(s) ==
    LET u == Owner[s]
        mine == ConnsOf(u) \cup {s}
    IN /\ handler[s] = "idle"
       /\ handler' = [handler EXCEPT ![s] = "reading"]
       /\ \E kept \in Keeps(mine) :
            /\ OldestGo([connOpened EXCEPT ![s] = Now], mine, kept)
            /\ \E lost \in WriteErrors((clients \cup {s}) \ (mine \ kept)) :
                /\ onlineUsers[u] => lost = {}
                /\ Registry({s}, mine \ kept, lost)
       /\ Disarm(u)
       /\ onlineUsers' = [onlineUsers EXCEPT ![u] = TRUE]
       /\ shown' = [shown EXCEPT ![u] = @ \/ ~onlineUsers[u]]
       /\ away' = [away EXCEPT ![u] = 0]
       /\ UNCHANGED <<graceExpired, forceOffline>>

\* case <-h.unregister, the last thing a HandleWebSocket goroutine does.
Unregister(s) ==
    LET u == Owner[s]
    IN /\ handler[s] = "leaving"
       /\ handler' = [handler EXCEPT ![s] = "done"]
       /\ Registry({}, {}, StillOpen({s}))
       /\ IF OthersOf(s) = {} /\ onlineUsers[u]
          THEN Arm(u, GracePeriod)
          ELSE UNCHANGED timers
       /\ UNCHANGED <<onlineUsers, graceExpired, forceOffline, shown, away>>

\* case <-h.graceExpired.  The map entry goes first, whichever timer it holds.
GraceExpired ==
    /\ graceExpired # << >>
    /\ LET u == Head(graceExpired)
           flips == StillOffline(u) /\ onlineUsers[u]
       IN /\ graceTimers' = [graceTimers EXCEPT ![u] = NoTimer]
          /\ onlineUsers' = [onlineUsers EXCEPT ![u] = @ /\ ~flips]
          /\ shown' = [shown EXCEPT ![u] = @ /\ ~flips]
          /\ \E lost \in WriteErrors(clients) :
                /\ ~flips => lost = {}
                /\ Registry({}, {}, lost)
    /\ graceExpired' = Tail(graceExpired)
    /\ UNCHANGED <<handler, fuse, forceOffline, dropped, away>>

\* case <-h.forceOffline.
ForceOffline ==
    /\ forceOffline # << >>
    /\ LET u == Head(forceOffline)
       IN /\ Registry({}, {}, ConnsOf(u))
          /\ onlineUsers' = MarkedOnline(u)
          /\ Arm(u, ForcePeriod)
    /\ forceOffline' = Tail(forceOffline)
    /\ UNCHANGED <<handler, graceExpired, shown, away>>

\* The four broadcast cases, as far as the registry is concerned.
WriteFrame ==
    /\ \E lost \in WriteErrors(clients) : lost # {} /\ Registry({}, {}, lost)
    /\ UNCHANGED <<handler, onlineUsers, timers, graceExpired, forceOffline,
                   shown, away>>

-----------------------------------------------------------------------------
(* The goroutines around the hub.                                          *)

\* The browser goes away, the pong is late, a frame is malformed or the rate
\* limit closes the socket: the read loop ends while the socket is registered.
HangUp(s) ==
    /\ handler[s] = "reading"
    /\ s \in clients
    /\ handler' = [handler EXCEPT ![s] = "leaving"]
    /\ UNCHANGED <<clients, connOpened, wsConnectionsTotal, wsClosedTotal,
                   onlineUsers, timers, graceExpired, forceOffline, shown, away>>

\* The hub has closed the connection, so the read loop's next read fails.
ReadFails(s) ==
    /\ handler[s] = "reading"
    /\ s \notin clients
    /\ handler' = [handler EXCEPT ![s] = "leaving"]
    /\ UNCHANGED <<clients, connOpened, wsConnectionsTotal, wsClosedTotal,
                   onlineUsers, timers, graceExpired, forceOffline, shown, away>>

\* POST /offline: a send that gives up on a full channel.
GoOffline(u) ==
    /\ Len(forceOffline) < ForceCap
    /\ forceOffline' = Append(forceOffline, u)
    /\ UNCHANGED <<sockets, onlineUsers, timers, graceExpired, shown, away>>

\* The function of time.AfterFunc: a send that gives up on a full channel.
TimerFires(u, k) ==
    /\ fuse[u][k] = 0
    /\ fuse' = [fuse EXCEPT ![u][k] = Unarmed]
    /\ IF Len(graceExpired) < ExpiredCap
       THEN /\ graceExpired' = Append(graceExpired, u)
            /\ UNCHANGED dropped
       ELSE /\ dropped' = dropped \cup {u}
            /\ UNCHANGED graceExpired
    /\ UNCHANGED <<sockets, onlineUsers, graceTimers, forceOffline, shown, away>>

\* Time passes for every timer alike; a timer that is due may fire late.
Tick ==
    /\ \E u \in User : away[u] < GracePeriod \/ \E k \in TimerSlot : fuse[u][k] > 0
    /\ fuse' = [u \in User |-> [k \in TimerSlot |->
            IF fuse[u][k] > 0 THEN fuse[u][k] - 1 ELSE fuse[u][k]]]
    /\ away' = [u \in User |->
            IF ConnsOf(u) # {} \/ away[u] = GracePeriod THEN away[u]
            ELSE away[u] + 1]
    /\ UNCHANGED <<sockets, onlineUsers, graceTimers, graceExpired,
                   forceOffline, shown, dropped>>

-----------------------------------------------------------------------------
HubStep ==
    \/ \E s \in Socket : Register(s) \/ Unregister(s)
    \/ GraceExpired
    \/ ForceOffline

Outside ==
    \/ \E s \in Socket : HangUp(s) \/ ReadFails(s)
    \/ \E u \in User : GoOffline(u)
    \/ \E u \in User, k \in TimerSlot : TimerFires(u, k)
    \/ Tick

Next == HubStep \/ WriteFrame \/ Outside

Spec == Init /\ [][Next]_vars

(***************************************************************************)
(* Go's select serves every ready channel sooner or later, a closed        *)
(* connection fails its reader, and the clock and its timers run.  Nothing *)
(* is assumed of browsers: nobody has to connect, hang up or go offline.   *)
(***************************************************************************)
Fairness ==
    /\ \A s \in Socket : WF_vars(Unregister(s)) /\ WF_vars(ReadFails(s))
    /\ WF_vars(GraceExpired)
    /\ WF_vars(ForceOffline)
    /\ \A u \in User, k \in TimerSlot : WF_vars(TimerFires(u, k))
    /\ WF_vars(Tick)

FairSpec == Spec /\ Fairness

-----------------------------------------------------------------------------
(* Properties.                                                             *)

\* Every variable keeps its shape; in particular no counter goes below zero
\* and no channel holds more than its capacity.
TypeOK ==
    /\ handler \in [Socket -> {"idle", "reading", "leaving", "done"}]
    /\ clients \in SUBSET Socket
    /\ connOpened \in [Socket -> Nat]
    /\ wsConnectionsTotal \in Nat
    /\ wsClosedTotal \in Nat
    /\ onlineUsers \in [User -> BOOLEAN]
    /\ graceTimers \in [User -> TimerSlot \cup {NoTimer}]
    /\ fuse \in [User -> [TimerSlot -> Nat \cup {Unarmed}]]
    /\ graceExpired \in Seq(User) /\ Len(graceExpired) <= ExpiredCap
    /\ forceOffline \in Seq(User) /\ Len(forceOffline) <= ForceCap
    /\ shown \in [User -> BOOLEAN]
    /\ dropped \in SUBSET User
    /\ away \in [User -> 0..GracePeriod]

\* The counter /api/ws-health reports and the map agree, whichever of the
\* exits - the cap, a failed write, forceOffline, unregister, or several of
\* them for one socket - removed a connection.
ConnCount == wsConnectionsTotal = Cardinality(clients)

\* No user ever has more sockets than the cap, so one message is written at
\* most MaxConnsPerUser times to one person.
CapRespected == \A u \in User : Cardinality(ConnsOf(u)) <= MaxConnsPerUser

\* The cap takes the oldest sockets: one that leaves uncounted by closeConn
\* is older than every socket its user keeps.
EvictsOldest ==
    [][wsClosedTotal' = wsClosedTotal =>
        \A out \in clients \ clients', in \in clients' :
            Owner[in] = Owner[out] => connOpened[out] < connOpened'[in]]_vars

\* Whatever expiries were in flight when the user came back, a user with a
\* registered socket is online in the map the REST answers are read from.
ConnectedIsOnline == \A s \in clients : onlineUsers[Owner[s]]

\* Nobody is forgotten online: behind every user who is online without a
\* socket there is a timer, an expiry in the channel or a goroutine about to
\* unregister - unless an expiry of theirs met a full channel.
NeverStuckOnline ==
    \A u \in User : onlineUsers[u] /\ ConnsOf(u) = {} =>
        \/ Running(u) # {}
        \/ \E i \in 1..Len(graceExpired) : graceExpired[i] = u
        \/ \E s \in Socket : Owner[s] = u /\ handler[s] \in {"reading", "leaving"}
        \/ u \in dropped

\* What was last broadcast and what the map says may differ one way only: a
\* user other clients were told is online is online.
ShownIsOnline == \A u \in User : shown[u] => onlineUsers[u]

\* A user who is online without a socket comes back or is turned offline,
\* unless an expiry of theirs met a full channel.
GoesOffline ==
    \A u \in User : (onlineUsers[u] /\ ConnsOf(u) = {})
        ~> (~onlineUsers[u] \/ ConnsOf(u) # {} \/ u \in dropped)

\* P9 and T12 of docs/ws-requirements.md and the comment on GracePeriod: a
\* user keeps the indicator for the whole grace period after the last
\* disconnect.  The code breaks it (an expiry on its way, or a timer the map
\* no longer holds, outlives a reconnect).
GraceHonoured ==
    [][\A u \in User : onlineUsers[u] /\ ~onlineUsers'[u] =>
            away[u] = GracePeriod]_vars

-----------------------------------------------------------------------------
\* What the hub promises about presence, whatever its sockets and timers do.
P == INSTANCE Presence WITH
        present <- {u \in User : ConnsOf(u) # {}},
        online <- {u \in User : onlineUsers[u]}

PresenceSpec == P!Spec
=============================================================================
