------------------------------ MODULE Presence -------------------------------
(***************************************************************************)
(* What the hub promises about the online indicator, without sockets,      *)
(* timers or channels: who has a connection and who is marked online.      *)
(* Hub implements it under the mapping it states.                          *)
(***************************************************************************)
CONSTANT User

VARIABLES
    present,  \* users with at least one registered socket
    online    \* users the hub marks online

vars == <<present, online>>

TypeOK == present \subseteq User /\ online \subseteq User

Init == present = {} /\ online = {}

\* A user connects and is online from then on.  Announcing it may reveal that
\* other users - or this one - are gone already.
Connect(u) ==
    \E gone \in SUBSET User :
        /\ present' = (present \cup {u}) \ gone
        /\ online' = online \cup {u}

\* Connections break.  Nobody's indicator changes on that account.
Lose ==
    \E gone \in SUBSET present :
        /\ present' = present \ gone
        /\ UNCHANGED online

\* A user asks to go offline: disconnected at once, but left online for the
\* expiry to turn off.
Linger(u) ==
    /\ present' = present \ {u}
    /\ online' = online \cup {u}

\* Only somebody without a connection is turned offline.
Expire(u) ==
    /\ u \notin present
    /\ \E gone \in SUBSET present : present' = present \ gone
    /\ online' = online \ {u}

Next == Lose \/ \E u \in User : Connect(u) \/ Linger(u) \/ Expire(u)

Spec == Init /\ [][Next]_vars

\* Whoever is connected is marked online.
PresentIsOnline == present \subseteq online
=============================================================================
