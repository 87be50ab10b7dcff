------------------------------ MODULE HubProofs ------------------------------
(***************************************************************************)
(* What TLAPS proves of Hub, for every set of users and sockets, every cap *)
(* and every length of the grace period.                                   *)
(***************************************************************************)
EXTENDS Hub, FiniteSetTheorems, TLAPS

\* A registered socket has a goroutine that will unregister it: what connects
\* the map to the goroutines, and what makes the other invariants inductive.
Attended == \A s \in clients : handler[s] \in {"reading", "leaving"}

RegistryInv == TypeOK /\ ConnCount /\ CapRespected /\ Attended

-----------------------------------------------------------------------------
\* Every set of sockets is finite and has a natural cardinality.
LEMMA SocketsFinite ==
    ASSUME NEW S \in SUBSET Socket
    PROVE  IsFiniteSet(S) /\ Cardinality(S) \in Nat
BY SocketAssumption, FS_Subset, FS_CardinalityType

\* Taking a part away from a set of sockets takes its cardinality away.
LEMMA DifferenceCount ==
    ASSUME NEW S \in SUBSET Socket, NEW T \in SUBSET S
    PROVE  Cardinality(S \ T) = Cardinality(S) - Cardinality(T)
<1>1. IsFiniteSet(S \ T) /\ IsFiniteSet(T)
  BY SocketsFinite
<1>2. Cardinality((S \ T) \cup T)
        = Cardinality(S \ T) + Cardinality(T) - Cardinality((S \ T) \cap T)
  BY <1>1, FS_Union
<1>3. (S \ T) \cup T = S /\ (S \ T) \cap T = {}
  OBVIOUS
<1>4. Cardinality({}) = 0
  BY FS_EmptySet
<1>5. Cardinality(S \ T) \in Nat /\ Cardinality(T) \in Nat
  BY SocketsFinite
<1> QED
  BY <1>2, <1>3, <1>4, <1>5

\* Adding sockets that were not there adds their number.
LEMMA JoinCount ==
    ASSUME NEW S \in SUBSET Socket, NEW T \in SUBSET Socket, S \cap T = {}
    PROVE  Cardinality(S \cup T) = Cardinality(S) + Cardinality(T)
<1>1. IsFiniteSet(S) /\ IsFiniteSet(T)
  BY SocketsFinite
<1>2. Cardinality(S \cup T) = Cardinality(S) + Cardinality(T) - Cardinality({})
  BY <1>1, FS_Union
<1>3. Cardinality(S) \in Nat /\ Cardinality(T) \in Nat /\ Cardinality({}) = 0
  BY SocketsFinite, FS_EmptySet
<1> QED
  BY <1>2, <1>3

-----------------------------------------------------------------------------
\* The shape of the registry, which Registry must restore.
RegistryOK ==
    /\ clients \in SUBSET Socket
    /\ connOpened \in [Socket -> Nat]
    /\ wsConnectionsTotal \in Nat
    /\ wsClosedTotal \in Nat
    /\ ConnCount

\* Sockets that join, are evicted and are closed in one step leave the
\* counter and the map in agreement, as long as nobody joins twice and nobody
\* is removed twice.
LEMMA RegistryCounts ==
    ASSUME RegistryOK,
           NEW joined \in SUBSET Socket,
           NEW evicted \in SUBSET (clients \cup joined),
           NEW closed \in SUBSET ((clients \cup joined) \ evicted),
           joined \cap clients = {},
           Registry(joined, evicted, closed)
    PROVE  RegistryOK'
<1> DEFINE all == clients \cup joined
<1>1. all \in SUBSET Socket
  BY DEF RegistryOK
<1>2. clients' = (all \ evicted) \ closed
  BY DEF Registry
<1>3. Cardinality(all) = Cardinality(clients) + Cardinality(joined)
  BY JoinCount DEF RegistryOK
<1>4. Cardinality(all \ evicted) = Cardinality(all) - Cardinality(evicted)
  BY <1>1, DifferenceCount
<1>5. Cardinality((all \ evicted) \ closed)
        = Cardinality(all \ evicted) - Cardinality(closed)
  BY <1>1, DifferenceCount
<1>6. /\ Cardinality(joined) \in Nat /\ Cardinality(evicted) \in Nat
      /\ Cardinality(closed) \in Nat /\ Cardinality(clients') \in Nat
      /\ Cardinality(clients) \in Nat
  BY <1>1, <1>2, SocketsFinite DEF RegistryOK
<1>7. wsConnectionsTotal' = Cardinality(clients')
  <2>1. wsConnectionsTotal' = Cardinality(clients) + Cardinality(joined)
            - Cardinality(evicted) - Cardinality(closed)
    BY DEF Registry, RegistryOK, ConnCount
  <2>2. Cardinality(clients') = Cardinality((all \ evicted) \ closed)
    BY <1>2
  <2> HIDE DEF all
  <2> QED
    BY <1>3, <1>4, <1>5, <1>6, <2>1, <2>2
<1>8. connOpened' \in [Socket -> Nat]
  <2>1. Now \in Nat
    BY SocketsFinite DEF Now, Registered
  <2> QED
    BY <2>1 DEF Registry, RegistryOK
<1>9. wsClosedTotal' \in Nat
  BY <1>6 DEF Registry, RegistryOK
<1> QED
  BY <1>1, <1>2, <1>6, <1>7, <1>8, <1>9 DEF RegistryOK, ConnCount

\* Nobody's sockets exceed the cap when none was added.
LEMMA CapShrinks ==
    ASSUME clients \in SUBSET Socket, CapRespected, clients' \subseteq clients
    PROVE  CapRespected'
<1> SUFFICES ASSUME NEW u \in User
             PROVE  Cardinality(ConnsOf(u)') <= MaxConnsPerUser
  BY DEF CapRespected, ConnsOf
<1>1. ConnsOf(u)' \in SUBSET ConnsOf(u) /\ ConnsOf(u) \in SUBSET Socket
  BY DEF ConnsOf
<1>2. Cardinality(ConnsOf(u)') <= Cardinality(ConnsOf(u))
  BY <1>1, SocketsFinite, FS_Subset
<1>3. /\ Cardinality(ConnsOf(u)) \in Nat /\ Cardinality(ConnsOf(u)') \in Nat
      /\ Cardinality(ConnsOf(u)) <= MaxConnsPerUser
  BY <1>1, SocketsFinite DEF CapRespected
<1> QED
  BY <1>2, <1>3, ConnsAssumption
-----------------------------------------------------------------------------
\* The timers' part of the type invariant.
TimersOK ==
    /\ graceTimers \in [User -> TimerSlot \cup {NoTimer}]
    /\ fuse \in [User -> [TimerSlot -> Nat \cup {Unarmed}]]
    /\ dropped \in SUBSET User

\* Arming a timer keeps the timer variables typed.
LEMMA ArmTypes ==
    ASSUME TimersOK, NEW u \in User, NEW period \in Nat, Arm(u, period)
    PROVE  TimersOK'
BY DEF TimersOK, Arm, Running

\* Stopping a timer and deleting its entry keeps the timer variables typed.
LEMMA DisarmTypes ==
    ASSUME TimersOK, NEW u \in User, Disarm(u)
    PROVE  TimersOK'
<1>1. graceTimers[u] # NoTimer => graceTimers[u] \in TimerSlot
  BY DEF TimersOK
<1> QED
  BY <1>1 DEF TimersOK, Disarm, Unarmed

\* What is left of the type invariant.
ChannelsOK ==
    /\ onlineUsers \in [User -> BOOLEAN]
    /\ graceExpired \in Seq(User) /\ Len(graceExpired) <= ExpiredCap
    /\ forceOffline \in Seq(User) /\ Len(forceOffline) <= ForceCap
    /\ shown \in [User -> BOOLEAN]
    /\ away \in [User -> 0..GracePeriod]

HandlersOK == handler \in [Socket -> {"idle", "reading", "leaving", "done"}]

\* The conjuncts of the type invariant and the finiteness of the registry.
LEMMA TypeParts ==
    RegistryInv <=> /\ RegistryOK /\ TimersOK /\ ChannelsOK /\ HandlersOK
                    /\ CapRespected /\ Attended
BY DEF RegistryInv, TypeOK, RegistryOK, TimersOK, ChannelsOK, HandlersOK

\* A step of the hub that adds no socket keeps the registry invariant's part
\* about sockets.
LEMMA CloseStep ==
    ASSUME RegistryInv, NEW closed \in SUBSET clients, Registry({}, {}, closed)
    PROVE  /\ RegistryOK' /\ CapRespected'
           /\ clients' = clients \ closed
<1>1. RegistryOK
  BY TypeParts
<1>2. RegistryOK'
  BY <1>1, RegistryCounts
<1>3. clients' = clients \ closed
  BY DEF Registry
<1>4. CapRespected'
  BY <1>1, <1>3, CapShrinks DEF RegistryInv, RegistryOK
<1> QED
  BY <1>2, <1>3, <1>4

\* A registration leaves its user with the sockets the cap keeps, and nobody
\* else with more than before.
LEMMA RegisterStep ==
    ASSUME RegistryInv, NEW s \in Socket, Register(s)
    PROVE  /\ RegistryOK' /\ CapRespected'
           /\ clients' \subseteq clients \cup {s}
<1> DEFINE u == Owner[s]
           mine == ConnsOf(u) \cup {s}
<1>1. PICK kept \in Keeps(mine) :
         \E lost \in WriteErrors((clients \cup {s}) \ (mine \ kept)) :
             Registry({s}, mine \ kept, lost)
  BY DEF Register
<1>2. PICK lost \in WriteErrors((clients \cup {s}) \ (mine \ kept)) :
         Registry({s}, mine \ kept, lost)
  BY <1>1
<1>3. s \notin clients
  BY DEF Register, RegistryInv, Attended
<1>4. RegistryOK
  BY TypeParts
<1>5. /\ mine \ kept \in SUBSET (clients \cup {s})
      /\ lost \in SUBSET ((clients \cup {s}) \ (mine \ kept))
  BY DEF ConnsOf, WriteErrors
<1>6. RegistryOK'
  BY <1>2, <1>3, <1>4, <1>5, RegistryCounts
<1>7. clients' = (clients \cup {s}) \ ((mine \ kept) \cup lost)
  BY <1>2 DEF Registry
<1>8. CapRespected'
  <2> SUFFICES ASSUME NEW v \in User
               PROVE  Cardinality(ConnsOf(v)') <= MaxConnsPerUser
    BY DEF CapRespected, ConnsOf
  <2>1. mine \in SUBSET Socket /\ kept \in SUBSET mine
    BY <1>4 DEF RegistryOK, ConnsOf, Keeps
  <2>2. CASE v = u
    <3>1. ConnsOf(v)' \in SUBSET kept
      BY <1>7, <2>2 DEF ConnsOf
    <3>2. IsFiniteSet(kept) /\ Cardinality(kept) \in Nat
      BY <2>1, SocketsFinite
    <3>3. Cardinality(ConnsOf(v)') <= Cardinality(kept)
      BY <3>1, <3>2, FS_Subset
    <3>4. Cardinality(kept) <= MaxConnsPerUser
      <4>1. CASE Cardinality(mine) <= MaxConnsPerUser
        BY <4>1 DEF Keeps
      <4>2. CASE ~(Cardinality(mine) <= MaxConnsPerUser)
        BY <4>2, ConnsAssumption DEF Keeps
      <4> QED
        BY <4>1, <4>2
    <3>5. Cardinality(ConnsOf(v)') \in Nat
      BY <3>1, <2>1, SocketsFinite
    <3> QED
      BY <3>2, <3>3, <3>4, <3>5, ConnsAssumption
  <2>3. CASE v # u
    <3>1. ConnsOf(v)' \in SUBSET ConnsOf(v) /\ ConnsOf(v) \in SUBSET Socket
      BY <1>4, <1>7, <2>3 DEF ConnsOf, RegistryOK
    <3>2. Cardinality(ConnsOf(v)') <= Cardinality(ConnsOf(v))
      BY <3>1, SocketsFinite, FS_Subset
    <3>3. /\ Cardinality(ConnsOf(v)) \in Nat /\ Cardinality(ConnsOf(v)') \in Nat
          /\ Cardinality(ConnsOf(v)) <= MaxConnsPerUser
      BY <3>1, SocketsFinite DEF RegistryInv, CapRespected
    <3> QED
      BY <3>2, <3>3, ConnsAssumption
  <2> QED
    BY <2>2, <2>3
<1> QED
  BY <1>6, <1>7, <1>8

-----------------------------------------------------------------------------
\* The registry invariant holds before the first socket arrives.
LEMMA RegistryInit == Init => RegistryInv
<1> SUFFICES ASSUME Init PROVE RegistryInv
  OBVIOUS
<1>1. RegistryOK
  BY FS_EmptySet DEF Init, RegistryOK, ConnCount
<1>2. TimersOK /\ HandlersOK /\ Attended
  BY DEF Init, TimersOK, HandlersOK, Attended, Unarmed
<1>3. ChannelsOK
  BY PeriodAssumption, CapAssumption DEF Init, ChannelsOK
<1>4. CapRespected
  <2>1. \A u \in User : ConnsOf(u) = {}
    BY DEF Init, ConnsOf
  <2> QED
    BY <2>1, FS_EmptySet, ConnsAssumption DEF CapRespected
<1> QED
  BY <1>1, <1>2, <1>3, <1>4, TypeParts

\* Every step keeps the types, the counter, the cap and the goroutine behind
\* each registered socket.
LEMMA RegistryStep == RegistryInv /\ [Next]_vars => RegistryInv'
<1> SUFFICES ASSUME RegistryInv, [Next]_vars PROVE RegistryInv'
  OBVIOUS
<1> SUFFICES /\ RegistryOK' /\ TimersOK' /\ ChannelsOK' /\ HandlersOK'
             /\ CapRespected' /\ Attended'
  <2>1. RegistryInv' <=> /\ RegistryOK' /\ TimersOK' /\ ChannelsOK'
                         /\ HandlersOK' /\ CapRespected' /\ Attended'
    BY DEF RegistryInv, TypeOK, RegistryOK, TimersOK, ChannelsOK, HandlersOK
  <2> QED
    BY <2>1
<1>0. RegistryOK /\ TimersOK /\ ChannelsOK /\ HandlersOK /\ CapRespected /\ Attended
  BY TypeParts
<1>1. ASSUME NEW s \in Socket, Register(s)
      PROVE  /\ RegistryOK' /\ TimersOK' /\ ChannelsOK' /\ HandlersOK'
             /\ CapRespected' /\ Attended'
  <2>1. RegistryOK' /\ CapRespected' /\ clients' \subseteq clients \cup {s}
    BY <1>1, RegisterStep
  <2>2. Owner[s] \in User
    BY OwnerAssumption
  <2>3. TimersOK'
    BY <1>0, <1>1, <2>2, DisarmTypes DEF Register
  <2>4. ChannelsOK'
    BY <1>0, <1>1, <2>2, PeriodAssumption DEF Register, ChannelsOK
  <2>5. HandlersOK'
    BY <1>0, <1>1 DEF Register, HandlersOK
  <2>6. Attended'
    BY <1>0, <1>1, <2>1 DEF Register, Attended, HandlersOK
  <2> QED
    BY <2>1, <2>3, <2>4, <2>5, <2>6
<1>2. ASSUME NEW s \in Socket, Unregister(s)
      PROVE  /\ RegistryOK' /\ TimersOK' /\ ChannelsOK' /\ HandlersOK'
             /\ CapRespected' /\ Attended'
  <2>1. /\ RegistryOK' /\ CapRespected'
        /\ clients' = clients \ StillOpen({s})
    <3>1. StillOpen({s}) \in SUBSET clients
      BY DEF StillOpen
    <3> QED
      BY <1>2, <3>1, CloseStep DEF Unregister
  <2>2. Owner[s] \in User
    BY OwnerAssumption
  <2>3. TimersOK'
    <3>1. CASE Arm(Owner[s], GracePeriod)
      BY <1>0, <2>2, <3>1, ArmTypes, PeriodAssumption
    <3>2. CASE UNCHANGED timers
      BY <1>0, <3>2 DEF TimersOK, timers
    <3> QED
      BY <1>2, <3>1, <3>2 DEF Unregister
  <2>4. ChannelsOK'
    BY <1>0, <1>2 DEF Unregister, ChannelsOK
  <2>5. HandlersOK'
    BY <1>0, <1>2 DEF Unregister, HandlersOK
  <2>6. Attended'
    BY <1>0, <1>2, <2>1 DEF Unregister, Attended, StillOpen, HandlersOK
  <2> QED
    BY <2>1, <2>3, <2>4, <2>5, <2>6
<1>3. ASSUME GraceExpired
      PROVE  /\ RegistryOK' /\ TimersOK' /\ ChannelsOK' /\ HandlersOK'
             /\ CapRespected' /\ Attended'
  <2> DEFINE u == Head(graceExpired)
  <2>1. PICK lost \in SUBSET clients : Registry({}, {}, lost)
    BY <1>3 DEF GraceExpired, WriteErrors
  <2>2. RegistryOK' /\ CapRespected' /\ clients' = clients \ lost
    BY <2>1, CloseStep
  <2>3. u \in User
    BY <1>0, <1>3 DEF GraceExpired, ChannelsOK
  <2>4. TimersOK'
    BY <1>0, <1>3, <2>3 DEF GraceExpired, TimersOK
  <2>5. ChannelsOK'
    <3>1. /\ graceExpired' \in Seq(User)
          /\ Len(graceExpired') <= ExpiredCap
      <4>1. /\ graceExpired \in Seq(User) /\ graceExpired # << >>
            /\ Len(graceExpired) <= ExpiredCap
            /\ graceExpired' = Tail(graceExpired)
        BY <1>0, <1>3 DEF GraceExpired, ChannelsOK
      <4>2. Len(Tail(graceExpired)) = Len(graceExpired) - 1
        BY <4>1
      <4>3. Tail(graceExpired) \in Seq(User) /\ Len(graceExpired) \in Nat
        BY <4>1
      <4> QED
        BY <4>1, <4>2, <4>3, CapAssumption
    <3>2. UNCHANGED <<forceOffline, away>>
      BY <1>3 DEF GraceExpired
    <3>3. onlineUsers' \in [User -> BOOLEAN] /\ shown' \in [User -> BOOLEAN]
      BY <1>0, <1>3, <2>3 DEF GraceExpired, ChannelsOK
    <3> QED
      BY <1>0, <3>1, <3>2, <3>3 DEF ChannelsOK
  <2>6. HandlersOK' /\ Attended'
    BY <1>0, <1>3, <2>2 DEF GraceExpired, HandlersOK, Attended
  <2> QED
    BY <2>2, <2>4, <2>5, <2>6
<1>4. ASSUME ForceOffline
      PROVE  /\ RegistryOK' /\ TimersOK' /\ ChannelsOK' /\ HandlersOK'
             /\ CapRespected' /\ Attended'
  <2> DEFINE u == Head(forceOffline)
  <2>1. u \in User
    BY <1>0, <1>4 DEF ForceOffline, ChannelsOK
  <2>2. RegistryOK' /\ CapRespected' /\ clients' = clients \ ConnsOf(u)
    <3>1. ConnsOf(u) \in SUBSET clients
      BY DEF ConnsOf
    <3> QED
      BY <1>4, <3>1, CloseStep DEF ForceOffline
  <2>3. TimersOK'
    BY <1>0, <1>4, <2>1, ArmTypes, PeriodAssumption DEF ForceOffline
  <2>4. ChannelsOK'
    <3>1. /\ forceOffline' \in Seq(User)
          /\ Len(forceOffline') <= ForceCap
      <4>1. /\ forceOffline \in Seq(User) /\ forceOffline # << >>
            /\ Len(forceOffline) <= ForceCap
            /\ forceOffline' = Tail(forceOffline)
        BY <1>0, <1>4 DEF ForceOffline, ChannelsOK
      <4>2. Len(Tail(forceOffline)) = Len(forceOffline) - 1
        BY <4>1
      <4>3. Tail(forceOffline) \in Seq(User) /\ Len(forceOffline) \in Nat
        BY <4>1
      <4> QED
        BY <4>1, <4>2, <4>3, CapAssumption
    <3>2. UNCHANGED <<graceExpired, shown, away>>
      BY <1>4 DEF ForceOffline
    <3>3. onlineUsers' \in [User -> BOOLEAN]
      BY <1>0, <1>4, <2>1 DEF ForceOffline, MarkedOnline, ChannelsOK
    <3> QED
      BY <1>0, <3>1, <3>2, <3>3 DEF ChannelsOK
  <2>5. HandlersOK' /\ Attended'
    BY <1>0, <1>4, <2>2 DEF ForceOffline, HandlersOK, Attended
  <2> QED
    BY <2>2, <2>3, <2>4, <2>5
<1>5. ASSUME WriteFrame
      PROVE  /\ RegistryOK' /\ TimersOK' /\ ChannelsOK' /\ HandlersOK'
             /\ CapRespected' /\ Attended'
  <2>1. PICK lost \in SUBSET clients : Registry({}, {}, lost)
    BY <1>5 DEF WriteFrame, WriteErrors
  <2>2. RegistryOK' /\ CapRespected' /\ clients' = clients \ lost
    BY <2>1, CloseStep
  <2>3. TimersOK' /\ ChannelsOK' /\ HandlersOK' /\ Attended'
    BY <1>0, <1>5, <2>2
    DEF WriteFrame, timers, TimersOK, ChannelsOK, HandlersOK, Attended
  <2> QED
    BY <2>2, <2>3
<1>6. ASSUME NEW s \in Socket, HangUp(s) \/ ReadFails(s)
      PROVE  /\ RegistryOK' /\ TimersOK' /\ ChannelsOK' /\ HandlersOK'
             /\ CapRespected' /\ Attended'
  <2>1. UNCHANGED <<clients, connOpened, wsConnectionsTotal, wsClosedTotal,
                    graceTimers, fuse, dropped, onlineUsers, graceExpired,
                    forceOffline, shown, away>>
    BY <1>6 DEF HangUp, ReadFails, timers
  <2>2. RegistryOK' /\ TimersOK' /\ ChannelsOK' /\ CapRespected'
    BY <1>0, <2>1 DEF RegistryOK, ConnCount, TimersOK, ChannelsOK, CapRespected, ConnsOf
  <2>3. handler' = [handler EXCEPT ![s] = "leaving"]
    BY <1>6 DEF HangUp, ReadFails
  <2>4. HandlersOK'
    BY <1>0, <2>3 DEF HandlersOK
  <2>5. Attended'
    BY <1>0, <2>1, <2>3 DEF RegistryOK, HandlersOK, Attended
  <2> QED
    BY <2>2, <2>4, <2>5
<1>7. ASSUME NEW u \in User, GoOffline(u)
      PROVE  /\ RegistryOK' /\ TimersOK' /\ ChannelsOK' /\ HandlersOK'
             /\ CapRespected' /\ Attended'
  <2>1. forceOffline' \in Seq(User) /\ Len(forceOffline') <= ForceCap
    <3>1. /\ forceOffline \in Seq(User) /\ Len(forceOffline) < ForceCap
          /\ forceOffline' = Append(forceOffline, u)
      BY <1>0, <1>7 DEF GoOffline, ChannelsOK
    <3>2. /\ Append(forceOffline, u) \in Seq(User)
          /\ Len(Append(forceOffline, u)) = Len(forceOffline) + 1
          /\ Len(forceOffline) \in Nat
      BY <3>1
    <3> QED
      BY <3>1, <3>2, CapAssumption
  <2>2. UNCHANGED <<handler, clients, connOpened, wsConnectionsTotal,
                    wsClosedTotal, graceTimers, fuse, dropped, onlineUsers,
                    graceExpired, shown, away>>
    BY <1>7 DEF GoOffline, sockets, timers
  <2> QED
    BY <1>0, <2>1, <2>2 DEF RegistryOK, ConnCount, TimersOK, ChannelsOK,
       HandlersOK, CapRespected, ConnsOf, Attended
<1>8. ASSUME NEW u \in User, NEW k \in TimerSlot, TimerFires(u, k)
      PROVE  /\ RegistryOK' /\ TimersOK' /\ ChannelsOK' /\ HandlersOK'
             /\ CapRespected' /\ Attended'
  <2>1. graceExpired' \in Seq(User) /\ Len(graceExpired') <= ExpiredCap
    <3>1. graceExpired \in Seq(User) /\ Len(graceExpired) <= ExpiredCap
      BY <1>0 DEF ChannelsOK
    <3>2. /\ Append(graceExpired, u) \in Seq(User)
          /\ Len(Append(graceExpired, u)) = Len(graceExpired) + 1
          /\ Len(graceExpired) \in Nat
      BY <3>1
    <3>3. \/ graceExpired' = graceExpired
          \/ /\ Len(graceExpired) < ExpiredCap
             /\ graceExpired' = Append(graceExpired, u)
      BY <1>8 DEF TimerFires
    <3> QED
      BY <3>1, <3>2, <3>3, CapAssumption
  <2>2. TimersOK'
    BY <1>0, <1>8 DEF TimerFires, TimersOK
  <2>3. UNCHANGED <<handler, clients, connOpened, wsConnectionsTotal,
                    wsClosedTotal, onlineUsers, forceOffline, shown, away>>
    BY <1>8 DEF TimerFires, sockets
  <2> QED
    BY <1>0, <2>1, <2>2, <2>3 DEF RegistryOK, ConnCount, ChannelsOK,
       HandlersOK, CapRespected, ConnsOf, Attended
<1>9. ASSUME Tick
      PROVE  /\ RegistryOK' /\ TimersOK' /\ ChannelsOK' /\ HandlersOK'
             /\ CapRespected' /\ Attended'
  <2>1. UNCHANGED <<handler, clients, connOpened, wsConnectionsTotal,
                    wsClosedTotal, graceTimers, dropped, onlineUsers,
                    graceExpired, forceOffline, shown>>
    BY <1>9 DEF Tick, sockets
  <2>2. fuse' \in [User -> [TimerSlot -> Nat \cup {Unarmed}]]
    BY <1>0, <1>9 DEF Tick, TimersOK, Unarmed
  <2>3. away' \in [User -> 0..GracePeriod]
    BY <1>0, <1>9, PeriodAssumption DEF Tick, ChannelsOK
  <2> QED
    BY <1>0, <2>1, <2>2, <2>3 DEF RegistryOK, ConnCount, TimersOK, ChannelsOK,
       HandlersOK, CapRespected, ConnsOf, Attended
<1>10. CASE UNCHANGED vars
  BY <1>0, <1>10 DEF vars, RegistryOK, ConnCount, TimersOK, ChannelsOK,
     HandlersOK, CapRespected, ConnsOf, Attended
<1> QED
  BY <1>1, <1>2, <1>3, <1>4, <1>5, <1>6, <1>7, <1>8, <1>9, <1>10
  DEF Next, HubStep, Outside

\* TypeOK, ConnCount and CapRespected hold in every reachable state: the
\* counter /api/ws-health reports never parts from the map, and no user has
\* more sockets than the cap.
THEOREM RegistrySafe == Spec => [](TypeOK /\ ConnCount /\ CapRespected)
<1>1. Spec => []RegistryInv
  BY RegistryInit, RegistryStep, PTL DEF Spec
<1>2. RegistryInv => TypeOK /\ ConnCount /\ CapRespected
  BY DEF RegistryInv
<1> QED
  BY <1>1, <1>2, PTL

-----------------------------------------------------------------------------
\* What keeps an online user without a socket from being forgotten.
Awaited(u) ==
    \/ Running(u) # {}
    \/ \E i \in 1..Len(graceExpired) : graceExpired[i] = u
    \/ \E s \in Socket : Owner[s] = u /\ handler[s] \in {"reading", "leaving"}
    \/ u \in dropped

PresenceInv ==
    RegistryInv /\ ConnectedIsOnline /\ NeverStuckOnline /\ ShownIsOnline

\* A user whose sockets the hub has closed is awaited by their goroutines.
LEMMA LosersAwaited ==
    ASSUME RegistryInv, NEW u \in User, ConnsOf(u) # {}
    PROVE  \E s \in Socket : Owner[s] = u /\ handler[s] \in {"reading", "leaving"}
BY DEF RegistryInv, TypeOK, Attended, ConnsOf

\* Closing sockets forgets nobody: NeverStuckOnline survives any step that
\* leaves the indicator, the timers, the goroutines and the channel alone.
LEMMA CloseAwaited ==
    ASSUME RegistryInv, NeverStuckOnline, NEW u \in User,
           onlineUsers[u],
           handler' = handler, fuse' = fuse, dropped' = dropped,
           graceExpired' = graceExpired
    PROVE  Awaited(u)'
<1>1. CASE ConnsOf(u) # {}
  <2>1. PICK s \in Socket : Owner[s] = u /\ handler[s] \in {"reading", "leaving"}
    BY <1>1, LosersAwaited
  <2> QED
    BY <2>1 DEF Awaited
<1>2. CASE ConnsOf(u) = {}
  <2>1. Awaited(u)
    BY <1>2 DEF NeverStuckOnline, Awaited
  <2> QED
    BY <2>1 DEF Awaited, Running
<1> QED
  BY <1>1, <1>2

\* The presence invariant holds while nobody is online.
LEMMA PresenceInit == Init => PresenceInv
<1>1. Init => ConnectedIsOnline /\ NeverStuckOnline /\ ShownIsOnline
  BY DEF Init, ConnectedIsOnline, NeverStuckOnline, ShownIsOnline
<1> QED
  BY <1>1, RegistryInit DEF PresenceInv

\* Registering a socket: its user is online and, if every socket fails, is
\* awaited by the new goroutine; the others lose sockets at most.
LEMMA PresenceRegister ==
    ASSUME PresenceInv, NEW s \in Socket, Register(s)
    PROVE  ConnectedIsOnline' /\ NeverStuckOnline' /\ ShownIsOnline'
<1> DEFINE v == Owner[s]
<1>0. RegistryInv /\ TypeOK /\ NeverStuckOnline
  BY DEF PresenceInv, RegistryInv
<1>1. v \in User /\ clients' \subseteq clients \cup {s} /\ clients \subseteq Socket
  BY <1>0, OwnerAssumption, RegisterStep DEF TypeOK
<1>2. onlineUsers' = [onlineUsers EXCEPT ![v] = TRUE]
  BY DEF Register
<1>3. ConnectedIsOnline'
  BY <1>0, <1>1, <1>2, OwnerAssumption
  DEF PresenceInv, ConnectedIsOnline, TypeOK
<1>4. ShownIsOnline'
  BY <1>0, <1>1, <1>2 DEF Register, PresenceInv, ShownIsOnline, TypeOK
<1>5. handler' = [handler EXCEPT ![s] = "reading"] /\ Disarm(v)
      /\ graceExpired' = graceExpired
  BY DEF Register
<1>6. ASSUME NEW u \in User, onlineUsers'[u]
      PROVE  Awaited(u)'
  <2>1. CASE u = v
    <3>1. handler'[s] = "reading"
      BY <1>0, <1>5 DEF TypeOK
    <3> QED
      BY <2>1, <3>1 DEF Awaited
  <2>2. CASE u # v
    <3>1. onlineUsers[u]
      BY <1>0, <1>2, <1>6, <2>2 DEF TypeOK
    <3>2. CASE ConnsOf(u) # {}
      <4>1. PICK r \in Socket :
               Owner[r] = u /\ handler[r] \in {"reading", "leaving"}
        BY <1>0, <3>2, LosersAwaited
      <4>2. handler'[r] = handler[r]
        BY <1>0, <1>5, <2>2, <4>1 DEF TypeOK
      <4> QED
        BY <4>1, <4>2 DEF Awaited
    <3>3. CASE ConnsOf(u) = {}
      <4>1. Awaited(u)
        BY <1>0, <3>1, <3>3 DEF NeverStuckOnline, Awaited
      <4>2. Running(u)' = Running(u) /\ dropped' = dropped
        BY <1>0, <1>1, <1>5, <2>2 DEF Disarm, Running, TypeOK
      <4>3. \A r \in Socket : Owner[r] = u => handler'[r] = handler[r]
        BY <1>0, <1>5, <2>2 DEF TypeOK
      <4> QED
        BY <1>5, <4>1, <4>2, <4>3 DEF Awaited
    <3> QED
      BY <3>2, <3>3
  <2> QED
    BY <2>1, <2>2
<1> QED
  BY <1>3, <1>4, <1>6 DEF NeverStuckOnline, Awaited

\* Unregistering: the last socket of an online user leaves a timer behind.
LEMMA PresenceUnregister ==
    ASSUME PresenceInv, NEW s \in Socket, Unregister(s)
    PROVE  ConnectedIsOnline' /\ NeverStuckOnline' /\ ShownIsOnline'
<1> DEFINE v == Owner[s]
<1>0. RegistryInv /\ TypeOK /\ NeverStuckOnline
  BY DEF PresenceInv, RegistryInv
<1>1. v \in User /\ clients' = clients \ {s} /\ clients \subseteq Socket
  BY <1>0, OwnerAssumption DEF Unregister, Registry, StillOpen, TypeOK
<1>2. UNCHANGED <<onlineUsers, shown, graceExpired>>
      /\ handler' = [handler EXCEPT ![s] = "done"]
  BY DEF Unregister
<1>3. ConnectedIsOnline' /\ ShownIsOnline'
  BY <1>1, <1>2 DEF PresenceInv, ConnectedIsOnline, ShownIsOnline
<1>4. ASSUME NEW u \in User, onlineUsers'[u], ConnsOf(u)' = {}
      PROVE  Awaited(u)'
  <2>1. CASE u = v
    <3>1. OthersOf(s) = {}
      BY <1>1, <1>4, <2>1 DEF OthersOf, ConnsOf
    <3>2. Arm(v, GracePeriod)
      BY <1>2, <1>4, <2>1, <3>1 DEF Unregister
    <3>3. PICK k \in TimerSlot : fuse' = [fuse EXCEPT ![v][k] = GracePeriod]
      BY <3>2 DEF Arm
    <3>4. fuse'[v][k] = GracePeriod
      BY <1>0, <1>1, <3>3 DEF TypeOK
    <3> QED
      BY <2>1, <3>4, PeriodAssumption DEF Awaited, Running, Unarmed
  <2>2. CASE u # v
    <3>1. \A r \in Socket : Owner[r] = u => handler'[r] = handler[r]
      BY <1>0, <1>2, <2>2 DEF TypeOK
    <3>2. CASE ConnsOf(u) # {}
      <4>1. PICK r \in Socket :
               Owner[r] = u /\ handler[r] \in {"reading", "leaving"}
        BY <1>0, <3>2, LosersAwaited
      <4> QED
        BY <3>1, <4>1 DEF Awaited
    <3>3. CASE ConnsOf(u) = {}
      <4>1. Awaited(u)
        BY <1>0, <1>2, <1>4, <3>3 DEF NeverStuckOnline, Awaited
      <4>2. Running(u)' = Running(u) /\ (u \in dropped => u \in dropped')
        <5>1. CASE UNCHANGED timers
          BY <5>1 DEF timers, Running
        <5>2. CASE Arm(v, GracePeriod)
          <6>1. PICK k \in TimerSlot :
                   /\ fuse' = [fuse EXCEPT ![v][k] = GracePeriod]
                   /\ dropped' = dropped \ {v}
            BY <5>2 DEF Arm
          <6> QED
            BY <1>0, <1>1, <2>2, <6>1 DEF Running, TypeOK
        <5> QED
          BY <5>1, <5>2 DEF Unregister
      <4> QED
        BY <1>2, <3>1, <4>1, <4>2 DEF Awaited
    <3> QED
      BY <3>2, <3>3
  <2> QED
    BY <2>1, <2>2
<1> QED
  BY <1>3, <1>4 DEF NeverStuckOnline, Awaited

\* Handling an expiry: the entry taken from the channel either turns its user
\* offline or finds the user connected.
LEMMA PresenceExpiry ==
    ASSUME PresenceInv, GraceExpired
    PROVE  ConnectedIsOnline' /\ NeverStuckOnline' /\ ShownIsOnline'
<1> DEFINE v == Head(graceExpired)
           flips == StillOffline(v) /\ onlineUsers[v]
<1>0. RegistryInv /\ TypeOK /\ NeverStuckOnline
  BY DEF PresenceInv, RegistryInv
<1>1. v \in User /\ graceExpired \in Seq(User) /\ graceExpired # << >>
  BY <1>0 DEF GraceExpired, TypeOK
<1>2. /\ onlineUsers' = [onlineUsers EXCEPT ![v] = @ /\ ~flips]
      /\ shown' = [shown EXCEPT ![v] = @ /\ ~flips]
      /\ graceExpired' = Tail(graceExpired)
      /\ UNCHANGED <<handler, fuse, dropped>>
  BY DEF GraceExpired
<1>3. clients' \subseteq clients
  BY DEF GraceExpired, Registry
<1>4. \A u \in User : u # v => onlineUsers'[u] = onlineUsers[u]
  BY <1>0, <1>2 DEF TypeOK
<1>5. onlineUsers'[v] = (onlineUsers[v] /\ ~flips)
  BY <1>0, <1>1, <1>2 DEF TypeOK
<1>6. ConnectedIsOnline'
  <2> SUFFICES ASSUME NEW s \in clients' PROVE onlineUsers'[Owner[s]]
    BY DEF ConnectedIsOnline
  <2>1. s \in clients /\ onlineUsers[Owner[s]] /\ Owner[s] \in User
    BY <1>0, <1>3, OwnerAssumption DEF PresenceInv, ConnectedIsOnline, TypeOK
  <2>2. Owner[s] = v => ~flips
    BY <2>1 DEF StillOffline, ConnsOf
  <2> QED
    BY <1>4, <1>5, <2>1, <2>2
<1>7. ShownIsOnline'
  <2> SUFFICES ASSUME NEW u \in User, shown'[u] PROVE onlineUsers'[u]
    BY DEF ShownIsOnline
  <2>1. CASE u = v
    <3>1. shown'[v] = (shown[v] /\ ~flips)
      BY <1>0, <1>1, <1>2 DEF TypeOK
    <3> QED
      BY <1>5, <2>1, <3>1 DEF PresenceInv, ShownIsOnline
  <2>2. CASE u # v
    <3>1. shown'[u] = shown[u]
      BY <1>0, <1>2, <2>2 DEF TypeOK
    <3> QED
      BY <1>4, <2>2, <3>1 DEF PresenceInv, ShownIsOnline
  <2> QED
    BY <2>1, <2>2
<1>8. ASSUME NEW u \in User, onlineUsers'[u]
      PROVE  Awaited(u)'
  <2>1. onlineUsers[u]
    BY <1>4, <1>5, <1>8
  <2>2. CASE ConnsOf(u) # {}
    <3>1. PICK r \in Socket :
             Owner[r] = u /\ handler[r] \in {"reading", "leaving"}
      BY <1>0, <2>2, LosersAwaited
    <3> QED
      BY <1>2, <3>1 DEF Awaited
  <2>3. CASE ConnsOf(u) = {}
    <3>1. u # v
      BY <1>5, <1>8, <2>1, <2>3 DEF StillOffline
    <3>2. Awaited(u)
      BY <1>0, <2>1, <2>3 DEF NeverStuckOnline, Awaited
    <3>3. ASSUME NEW i \in 1..Len(graceExpired), graceExpired[i] = u
          PROVE  \E j \in 1..Len(graceExpired') : graceExpired'[j] = u
      <4>1. i # 1
        BY <1>1, <3>1, <3>3
      <4>2. /\ Len(Tail(graceExpired)) = Len(graceExpired) - 1
            /\ Len(graceExpired) \in Nat
        BY <1>1
      <4>3. i - 1 \in 1..Len(Tail(graceExpired))
        BY <4>1, <4>2
      <4>4. Tail(graceExpired)[i - 1] = graceExpired[i]
        BY <1>1, <4>2, <4>3
      <4> QED
        BY <1>2, <3>3, <4>3, <4>4
    <3>4. Running(u)' = Running(u)
      BY <1>2 DEF Running
    <3>5. CASE \E i \in 1..Len(graceExpired) : graceExpired[i] = u
      BY <3>3, <3>5 DEF Awaited
    <3>6. CASE ~ \E i \in 1..Len(graceExpired) : graceExpired[i] = u
      BY <1>2, <3>2, <3>4, <3>6 DEF Awaited
    <3> QED
      BY <3>5, <3>6
  <2> QED
    BY <2>2, <2>3
<1> QED
  BY <1>6, <1>7, <1>8 DEF NeverStuckOnline, Awaited

\* Forcing a user offline: online until the timer it arms expires.
LEMMA PresenceForce ==
    ASSUME PresenceInv, ForceOffline
    PROVE  ConnectedIsOnline' /\ NeverStuckOnline' /\ ShownIsOnline'
<1> DEFINE v == Head(forceOffline)
<1>0. RegistryInv /\ TypeOK /\ NeverStuckOnline
  BY DEF PresenceInv, RegistryInv
<1>1. v \in User
  BY <1>0 DEF ForceOffline, TypeOK
<1>2. /\ onlineUsers' = [onlineUsers EXCEPT ![v] = TRUE]
      /\ UNCHANGED <<handler, graceExpired, shown>>
      /\ clients' \subseteq clients
      /\ Arm(v, ForcePeriod)
  BY DEF ForceOffline, MarkedOnline, Registry
<1>3. ConnectedIsOnline'
  BY <1>0, <1>1, <1>2, OwnerAssumption
  DEF PresenceInv, ConnectedIsOnline, TypeOK
<1>4. ShownIsOnline'
  BY <1>0, <1>1, <1>2 DEF PresenceInv, ShownIsOnline, TypeOK
<1>5. PICK k \in TimerSlot :
         /\ fuse' = [fuse EXCEPT ![v][k] = ForcePeriod]
         /\ dropped' = dropped \ {v}
  BY <1>2 DEF Arm
<1>6. ASSUME NEW u \in User, onlineUsers'[u]
      PROVE  Awaited(u)'
  <2>1. CASE u = v
    <3>1. fuse'[v][k] = ForcePeriod
      BY <1>0, <1>1, <1>5 DEF TypeOK
    <3> QED
      BY <2>1, <3>1, PeriodAssumption DEF Awaited, Running, Unarmed
  <2>2. CASE u # v
    <3>1. onlineUsers[u]
      BY <1>0, <1>2, <1>6, <2>2 DEF TypeOK
    <3>2. CASE ConnsOf(u) # {}
      <4>1. PICK r \in Socket :
               Owner[r] = u /\ handler[r] \in {"reading", "leaving"}
        BY <1>0, <3>2, LosersAwaited
      <4> QED
        BY <1>2, <4>1 DEF Awaited
    <3>3. CASE ConnsOf(u) = {}
      <4>1. Awaited(u)
        BY <1>0, <3>1, <3>3 DEF NeverStuckOnline, Awaited
      <4>2. Running(u)' = Running(u) /\ (u \in dropped => u \in dropped')
        BY <1>0, <1>1, <1>5, <2>2 DEF Running, TypeOK
      <4> QED
        BY <1>2, <4>1, <4>2 DEF Awaited
    <3> QED
      BY <3>2, <3>3
  <2> QED
    BY <2>1, <2>2
<1> QED
  BY <1>3, <1>4, <1>6 DEF NeverStuckOnline, Awaited

\* A timer that fires hands its user over to the channel, or to `dropped`.
LEMMA PresenceTimer ==
    ASSUME PresenceInv, NEW v \in User, NEW k \in TimerSlot, TimerFires(v, k)
    PROVE  ConnectedIsOnline' /\ NeverStuckOnline' /\ ShownIsOnline'
<1>0. TypeOK /\ NeverStuckOnline
  BY DEF PresenceInv, RegistryInv
<1>1. UNCHANGED <<handler, clients, onlineUsers, shown>>
  BY DEF TimerFires, sockets
<1>2. ConnectedIsOnline' /\ ShownIsOnline'
  BY <1>1 DEF PresenceInv, ConnectedIsOnline, ShownIsOnline
<1>3. ASSUME NEW u \in User, onlineUsers'[u], ConnsOf(u)' = {}
      PROVE  Awaited(u)'
  <2>1. Awaited(u)
    BY <1>0, <1>1, <1>3 DEF NeverStuckOnline, Awaited, ConnsOf
  <2>2. /\ Len(graceExpired) \in Nat
        /\ \A i \in 1..Len(graceExpired) :
              Append(graceExpired, v)[i] = graceExpired[i]
        /\ Len(Append(graceExpired, v)) = Len(graceExpired) + 1
        /\ Append(graceExpired, v)[Len(graceExpired) + 1] = v
    BY <1>0 DEF TypeOK
  <2>3. CASE graceExpired' = Append(graceExpired, v) /\ dropped' = dropped
    <3>1. CASE u = v
      <4>1. Len(graceExpired) + 1 \in 1..Len(graceExpired')
        BY <2>2, <2>3
      <4> QED
        BY <2>2, <2>3, <3>1, <4>1 DEF Awaited
    <3>2. CASE u # v
      <4>1. Running(u)' = Running(u)
        BY <1>0, <3>2 DEF TimerFires, Running, TypeOK
      <4>2. ASSUME NEW i \in 1..Len(graceExpired), graceExpired[i] = u
            PROVE  \E j \in 1..Len(graceExpired') : graceExpired'[j] = u
        <5>1. i \in 1..Len(graceExpired') /\ graceExpired'[i] = u
          BY <2>2, <2>3, <4>2
        <5> QED
          BY <5>1
      <4> QED
        BY <1>1, <2>1, <2>3, <4>1, <4>2 DEF Awaited
    <3> QED
      BY <3>1, <3>2
  <2>4. CASE graceExpired' = graceExpired /\ dropped' = dropped \cup {v}
    <3>1. u # v => Running(u)' = Running(u)
      BY <1>0 DEF TimerFires, Running, TypeOK
    <3> QED
      BY <1>1, <2>1, <2>4, <3>1 DEF Awaited
  <2> QED
    BY <2>3, <2>4 DEF TimerFires
<1> QED
  BY <1>2, <1>3 DEF NeverStuckOnline, Awaited

\* Every step keeps the presence invariants.
LEMMA PresenceStep == PresenceInv /\ [Next]_vars => PresenceInv'
<1> SUFFICES ASSUME PresenceInv, [Next]_vars PROVE PresenceInv'
  OBVIOUS
<1> SUFFICES ConnectedIsOnline' /\ NeverStuckOnline' /\ ShownIsOnline'
  BY RegistryStep DEF PresenceInv
<1>0. RegistryInv /\ TypeOK /\ NeverStuckOnline
  BY DEF PresenceInv, RegistryInv
<1>1. ASSUME NEW s \in Socket, Register(s)
      PROVE  ConnectedIsOnline' /\ NeverStuckOnline' /\ ShownIsOnline'
  BY <1>1, PresenceRegister
<1>2. ASSUME NEW s \in Socket, Unregister(s)
      PROVE  ConnectedIsOnline' /\ NeverStuckOnline' /\ ShownIsOnline'
  BY <1>2, PresenceUnregister
<1>3. CASE GraceExpired
  BY <1>3, PresenceExpiry
<1>4. CASE ForceOffline
  BY <1>4, PresenceForce
<1>5. CASE WriteFrame
  <2>1. /\ clients' \subseteq clients
        /\ UNCHANGED <<handler, onlineUsers, fuse, dropped, graceExpired, shown>>
    BY <1>5 DEF WriteFrame, Registry, timers
  <2>2. ConnectedIsOnline' /\ ShownIsOnline'
    BY <2>1 DEF PresenceInv, ConnectedIsOnline, ShownIsOnline
  <2>3. ASSUME NEW u \in User, onlineUsers'[u]
        PROVE  Awaited(u)'
    BY <1>0, <2>1, <2>3, CloseAwaited
  <2> QED
    BY <2>2, <2>3 DEF NeverStuckOnline, Awaited
<1>6. ASSUME NEW s \in Socket, HangUp(s) \/ ReadFails(s)
      PROVE  ConnectedIsOnline' /\ NeverStuckOnline' /\ ShownIsOnline'
  <2>1. /\ handler[s] = "reading"
        /\ handler' = [handler EXCEPT ![s] = "leaving"]
        /\ UNCHANGED <<clients, onlineUsers, fuse, dropped, graceExpired, shown>>
    BY <1>6 DEF HangUp, ReadFails, timers
  <2>2. ConnectedIsOnline' /\ ShownIsOnline'
    BY <2>1 DEF PresenceInv, ConnectedIsOnline, ShownIsOnline
  <2>3. \A r \in Socket : handler[r] \in {"reading", "leaving"} =>
                          handler'[r] \in {"reading", "leaving"}
    BY <1>0, <2>1 DEF TypeOK
  <2>4. ASSUME NEW u \in User, onlineUsers'[u], ConnsOf(u)' = {}
        PROVE  Awaited(u)'
    <3>1. Awaited(u)
      BY <1>0, <2>1, <2>4 DEF NeverStuckOnline, Awaited, ConnsOf
    <3> QED
      BY <2>1, <2>3, <3>1 DEF Awaited, Running
  <2> QED
    BY <2>2, <2>4 DEF NeverStuckOnline, Awaited
<1>7. ASSUME NEW u \in User, GoOffline(u)
      PROVE  ConnectedIsOnline' /\ NeverStuckOnline' /\ ShownIsOnline'
  BY <1>7 DEF GoOffline, sockets, timers, PresenceInv, ConnectedIsOnline,
     NeverStuckOnline, ShownIsOnline, ConnsOf, Running
<1>8. ASSUME NEW u \in User, NEW k \in TimerSlot, TimerFires(u, k)
      PROVE  ConnectedIsOnline' /\ NeverStuckOnline' /\ ShownIsOnline'
  BY <1>8, PresenceTimer
<1>9. CASE Tick
  <2>1. UNCHANGED <<handler, clients, onlineUsers, dropped, graceExpired, shown>>
    BY <1>9 DEF Tick, sockets
  <2>2. \A u \in User : Running(u)' = Running(u)
    BY <1>0, <1>9 DEF Tick, Running, TypeOK, Unarmed
  <2> QED
    BY <2>1, <2>2 DEF PresenceInv, ConnectedIsOnline, NeverStuckOnline,
       ShownIsOnline, ConnsOf
<1>10. CASE UNCHANGED vars
  BY <1>10 DEF vars, PresenceInv, ConnectedIsOnline, NeverStuckOnline,
     ShownIsOnline, ConnsOf, Running
<1> QED
  BY <1>1, <1>2, <1>3, <1>4, <1>5, <1>6, <1>7, <1>8, <1>9, <1>10
  DEF Next, HubStep, Outside

\* A connected user is online, a user other clients were told is online is
\* online, and an online user without a socket is always on the way to being
\* turned off - in every reachable state, whatever the timers do.
THEOREM PresenceSafe ==
    Spec => [](ConnectedIsOnline /\ NeverStuckOnline /\ ShownIsOnline)
<1>1. Spec => []PresenceInv
  BY PresenceInit, PresenceStep, PTL DEF Spec
<1>2. PresenceInv => ConnectedIsOnline /\ NeverStuckOnline /\ ShownIsOnline
  BY DEF PresenceInv
<1> QED
  BY <1>1, <1>2, PTL

-----------------------------------------------------------------------------
\* The cap takes the oldest sockets of a user and no others.
THEOREM OldestEvicted == Spec => EvictsOldest
<1> DEFINE Oldest ==
        wsClosedTotal' = wsClosedTotal =>
            \A out \in clients \ clients', in \in clients' :
                Owner[in] = Owner[out] => connOpened[out] < connOpened'[in]
<1>1. RegistryInv /\ [Next]_vars => [Oldest]_vars
  <2> SUFFICES ASSUME RegistryInv, [Next]_vars,
                      wsClosedTotal' = wsClosedTotal,
                      NEW out \in clients \ clients', NEW in \in clients',
                      Owner[in] = Owner[out]
               PROVE  connOpened[out] < connOpened'[in]
    OBVIOUS
  <2>0. TypeOK
    BY DEF RegistryInv
  <2>1. ASSUME NEW closed \in SUBSET Socket, Cardinality(closed) # 0 => FALSE
        PROVE  closed = {}
    BY <2>1, SocketsFinite, FS_EmptySet
  <2>2. ASSUME NEW closed \in SUBSET clients, Registry({}, {}, closed)
        PROVE  FALSE
    <3>1. Cardinality(closed) = 0
      <4>1. wsClosedTotal' = wsClosedTotal + Cardinality(closed)
        BY <2>2 DEF Registry
      <4>2. Cardinality(closed) \in Nat /\ wsClosedTotal \in Nat
        BY <2>0, <2>2, SocketsFinite DEF TypeOK
      <4> QED
        BY <4>1, <4>2
    <3>2. closed = {}
      BY <2>0, <2>1, <3>1 DEF TypeOK
    <3> QED
      BY <2>2, <3>2 DEF Registry
  <2>3. ASSUME NEW s \in Socket, Register(s)
        PROVE  connOpened[out] < connOpened'[in]
    <3> DEFINE mine == ConnsOf(Owner[s]) \cup {s}
    <3>1. PICK kept \in Keeps(mine) :
             /\ OldestGo([connOpened EXCEPT ![s] = Now], mine, kept)
             /\ \E lost \in WriteErrors((clients \cup {s}) \ (mine \ kept)) :
                    Registry({s}, mine \ kept, lost)
      BY <2>3 DEF Register
    <3>2. PICK lost \in WriteErrors((clients \cup {s}) \ (mine \ kept)) :
             Registry({s}, mine \ kept, lost)
      BY <3>1
    <3>3. lost \in SUBSET Socket
      BY <2>0 DEF WriteErrors, TypeOK
    <3>4. Cardinality(lost) = 0
      <4>1. wsClosedTotal' = wsClosedTotal + Cardinality(lost)
        BY <3>2 DEF Registry
      <4>2. Cardinality(lost) \in Nat /\ wsClosedTotal \in Nat
        BY <2>0, <3>3, SocketsFinite DEF TypeOK
      <4> QED
        BY <4>1, <4>2
    <3>5. lost = {}
      BY <2>1, <3>3, <3>4
    <3>6. clients' = (clients \cup {s}) \ (mine \ kept)
      BY <3>2, <3>5 DEF Registry
    <3>7. s \notin clients
      BY <2>3 DEF Register, RegistryInv, Attended
    <3>8. out \in mine \ kept /\ Owner[out] = Owner[s] /\ out # s
      BY <3>6, <3>7 DEF ConnsOf
    <3>9. in \in kept
      BY <3>6, <3>8 DEF ConnsOf
    <3>10. connOpened'[in] = [connOpened EXCEPT ![s] = Now][in]
      BY <2>0, <3>2, <3>5, <3>7, <3>9 DEF Registry, TypeOK, Keeps, ConnsOf
    <3>11. [connOpened EXCEPT ![s] = Now][out] = connOpened[out]
      BY <2>0, <3>8 DEF TypeOK
    <3> QED
      BY <3>1, <3>8, <3>9, <3>10, <3>11 DEF OldestGo
  <2>4. ASSUME NEW s \in Socket, Unregister(s)
        PROVE  FALSE
    <3>1. StillOpen({s}) \in SUBSET clients
      BY DEF StillOpen
    <3> QED
      BY <2>2, <2>4, <3>1 DEF Unregister
  <2>5. CASE GraceExpired
    BY <2>2, <2>5 DEF GraceExpired, WriteErrors
  <2>6. CASE ForceOffline
    <3>1. ConnsOf(Head(forceOffline)) \in SUBSET clients
      BY DEF ConnsOf
    <3> QED
      BY <2>2, <2>6, <3>1 DEF ForceOffline
  <2>7. CASE WriteFrame
    BY <2>2, <2>7 DEF WriteFrame, WriteErrors
  <2>8. CASE Outside \/ UNCHANGED vars
    <3>1. clients' = clients
      BY <2>8 DEF Outside, HangUp, ReadFails, GoOffline, TimerFires, Tick,
         sockets, vars
    <3> QED
      BY <3>1
  <2> QED
    BY <2>3, <2>4, <2>5, <2>6, <2>7, <2>8 DEF Next, HubStep
<1>2. Spec => []RegistryInv
  BY RegistryInit, RegistryStep, PTL DEF Spec
<1>3. [][Oldest]_vars <=> EvictsOldest
  BY DEF EvictsOldest
<1> HIDE DEF Oldest
<1>4. Spec => [][Oldest]_vars
  BY <1>1, <1>2, PTL DEF Spec
<1> QED
  BY <1>3, <1>4

-----------------------------------------------------------------------------
\* The abstract view of the hub's state.
ConnectedUsers == {u \in User : ConnsOf(u) # {}}
OnlineSet == {u \in User : onlineUsers[u]}

\* The empty hub is Presence with nobody present and nobody online.
LEMMA RefinementInit == Init => P!Init
BY DEF Init, P!Init, ConnsOf

\* Every step of the hub is a step of Presence or leaves its variables alone.
LEMMA RefinementStep ==
    ASSUME PresenceInv, [Next]_vars
    PROVE  P!Next \/ UNCHANGED <<ConnectedUsers, OnlineSet>>
<1>0. TypeOK /\ RegistryInv
  BY DEF PresenceInv, RegistryInv
<1>1. ASSUME clients' \subseteq clients, onlineUsers' = onlineUsers
      PROVE  P!Next \/ UNCHANGED <<ConnectedUsers, OnlineSet>>
  <2> DEFINE gone == ConnectedUsers \ ConnectedUsers'
  <2>1. /\ gone \in SUBSET ConnectedUsers
        /\ ConnectedUsers' = ConnectedUsers \ gone
        /\ OnlineSet' = OnlineSet
    BY <1>1 DEF ConnectedUsers, OnlineSet, ConnsOf
  <2> QED
    BY <2>1 DEF P!Next, P!Lose, ConnectedUsers, OnlineSet
<1>2. ASSUME NEW s \in Socket, Register(s)
      PROVE  P!Next
  <2> DEFINE v == Owner[s]
             gone == User \ ConnectedUsers'
  <2>1. v \in User
    BY OwnerAssumption
  <2>2. clients' \subseteq clients \cup {s}
    BY <1>0, <1>2, RegisterStep
  <2>3. ConnectedUsers' = (ConnectedUsers \cup {v}) \ gone
    BY <2>1, <2>2 DEF ConnectedUsers, ConnsOf
  <2>4. OnlineSet' = OnlineSet \cup {v}
    BY <1>0, <1>2, <2>1 DEF Register, OnlineSet, TypeOK
  <2>5. gone \in SUBSET User
    OBVIOUS
  <2>6. P!Connect(v)
    BY <2>3, <2>4, <2>5 DEF P!Connect, ConnectedUsers, OnlineSet
  <2> QED
    BY <2>1, <2>6 DEF P!Next
<1>3. ASSUME NEW s \in Socket, Unregister(s)
      PROVE  P!Next \/ UNCHANGED <<ConnectedUsers, OnlineSet>>
  <2>1. clients' \subseteq clients /\ onlineUsers' = onlineUsers
    BY <1>3 DEF Unregister, Registry
  <2> QED
    BY <1>1, <2>1
<1>4. ASSUME GraceExpired
      PROVE  P!Next \/ UNCHANGED <<ConnectedUsers, OnlineSet>>
  <2>1. PICK v \in User : v = Head(graceExpired)
    BY <1>0, <1>4 DEF GraceExpired, TypeOK
  <2> DEFINE flips == StillOffline(v) /\ onlineUsers[v]
  <2>2. clients' \subseteq clients
    BY <1>4 DEF GraceExpired, Registry
  <2>3. onlineUsers' = [onlineUsers EXCEPT ![v] = @ /\ ~flips]
    BY <1>4, <2>1 DEF GraceExpired
  <2>4. CASE flips
    <3> DEFINE gone == ConnectedUsers \ ConnectedUsers'
    <3>1. v \notin ConnectedUsers
      BY <2>4 DEF StillOffline, ConnectedUsers
    <3>2. gone \in SUBSET ConnectedUsers /\ ConnectedUsers' = ConnectedUsers \ gone
      BY <2>2 DEF ConnectedUsers, ConnsOf
    <3>3. OnlineSet' = OnlineSet \ {v}
      BY <1>0, <2>1, <2>3, <2>4 DEF OnlineSet, TypeOK
    <3>4. P!Expire(v)
      BY <3>1, <3>2, <3>3 DEF P!Expire, ConnectedUsers, OnlineSet
    <3> QED
      BY <2>1, <3>4 DEF P!Next
  <2>5. CASE ~flips
    <3>1. onlineUsers' = onlineUsers
      BY <1>0, <2>1, <2>3, <2>5 DEF TypeOK
    <3> QED
      BY <1>1, <2>2, <3>1
  <2> QED
    BY <2>4, <2>5
<1>5. ASSUME ForceOffline
      PROVE  P!Next
  <2>1. PICK v \in User : v = Head(forceOffline)
    BY <1>0, <1>5 DEF ForceOffline, TypeOK
  <2>2. clients' = clients \ ConnsOf(v)
    BY <1>5, <2>1 DEF ForceOffline, Registry
  <2>3. ConnectedUsers' = ConnectedUsers \ {v}
    BY <2>1, <2>2 DEF ConnectedUsers, ConnsOf
  <2>4. OnlineSet' = OnlineSet \cup {v}
    BY <1>0, <1>5, <2>1 DEF ForceOffline, MarkedOnline, OnlineSet, TypeOK
  <2>5. P!Linger(v)
    BY <2>3, <2>4 DEF P!Linger, ConnectedUsers, OnlineSet
  <2> QED
    BY <2>1, <2>5 DEF P!Next
<1>6. ASSUME WriteFrame \/ Outside \/ UNCHANGED vars
      PROVE  P!Next \/ UNCHANGED <<ConnectedUsers, OnlineSet>>
  <2>1. clients' \subseteq clients /\ onlineUsers' = onlineUsers
    BY <1>6 DEF WriteFrame, Registry, Outside, HangUp, ReadFails, GoOffline,
       TimerFires, Tick, sockets, vars
  <2> QED
    BY <1>1, <2>1
<1> QED
  BY <1>2, <1>3, <1>4, <1>5, <1>6 DEF Next, HubStep

\* The hub implements Presence: connecting is the only way to be shown as
\* newly connected, no disconnect turns anybody offline, and only somebody
\* without a socket is turned offline.
THEOREM HubImplementsPresence == Spec => PresenceSpec
<1>1. PresenceInv /\ [Next]_vars => [P!Next]_(P!vars)
  BY RefinementStep DEF P!vars, ConnectedUsers, OnlineSet
<1>2. Spec => []PresenceInv
  BY PresenceInit, PresenceStep, PTL DEF Spec
<1> QED
  BY <1>1, <1>2, RefinementInit, PTL DEF Spec, P!Spec, PresenceSpec
=============================================================================
