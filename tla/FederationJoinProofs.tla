------------------------ MODULE FederationJoinProofs ------------------------
(***************************************************************************)
(* What TLAPS proves of FederationJoin, for any servers, invites, calls    *)
(* and bounds: an invite's count, that peers agree on their token, and     *)
(* that they know each other's users.                                      *)
(***************************************************************************)
EXTENDS FederationJoin, FiniteSetTheorems, TLAPS

Active(c) == call[c].step # "idle"

\* A call is between two servers, and what it has been answered is a token.
FlightInv ==
    \A c \in Call : Active(c) =>
        /\ call[c].from # Host(c)
        /\ call[c].step \in {"answered", "stored"} => call[c].token # None

\* What is so of a pair that is not uneven: its rows agree; while the first joins
\* the second, no join goes the other way, the first has no row or the right one,
\* and an answer under way holds the token of the second's row.
Even(s, p) ==
    /\ row[s][p] # None /\ row[p][s] # None => row[s][p] = row[p][s]
    /\ \A c \in Call : Active(c) /\ call[c].from = s /\ Host(c) = p =>
         /\ \A d \in Call : ~(Active(d) /\ call[d].from = p /\ Host(d) = s)
         /\ row[s][p] \in {None, row[p][s]}
         /\ call[c].step = "answered" => row[p][s] = call[c].token

JoinInv == \A s, p \in Server : {s, p} \in uneven \/ Even(s, p)

\* The calls that have passed the check, and those that have counted a use.
In(i, st) == {c \in Call : call[c].step = st /\ call[c].invite = i}

CountInv ==
    \A i \in Invite :
        /\ admitted[i] + Cardinality(In(i, "counted")) <= uses[i]
        /\ MaxUses > 0 => uses[i] + Cardinality(In(i, "checked")) < MaxUses + Cardinality(Call)

\* While nothing is lost and no peer deleted: a row no other row answers to is
\* that of an answer under way, whose import is pending or came too early; and
\* peers of one token have each other's users, or are about to ask for them.
Sharing(s, p) == \E c \in Call : call[c].step = "stored" /\ call[c].from = s /\ Host(c) = p
Importing(s, p) == \E x \in imports : x.at = s /\ x.of = p

Peers(s, p) == row[s][p] # None /\ row[p][s] = row[s][p]

Heard(c) ==
    /\ call[c].waits
    /\ call[c].step = "answered" =>
         /\ row[Host(c)][call[c].from] = call[c].token
         /\ {Host(c), call[c].from} \in early \/ Importing(Host(c), call[c].from)

Comes(s, p) ==
    /\ row[s][p] <= tokens
    /\ row[s][p] # None /\ row[p][s] = None =>
         \E c \in Call : call[c].step = "answered" /\ call[c].from = p /\ Host(c) = s
    /\ s # p /\ Peers(s, p) => p \in users[s] \/ {s, p} \in early \/ Sharing(s, p) \/ Importing(s, p)

UsersComing ==
    /\ \A c \in Call : Active(c) => Heard(c)
    /\ \A x \in imports : Refers(x)
    /\ \A s, p \in Server : Comes(s, p)

UsersInv == faults = 0 /\ deletes = 0 => UsersComing

-----------------------------------------------------------------------------
(* Types                                                                   *)

\* Rows are as they were but for that of a for b, which is v.
OnlyRow(a, b, v) ==
    /\ row' \in [Server -> [Server -> Tokens \cup {None}]]
    /\ row'[a][b] = v
    /\ \A x, y \in Server : x # a \/ y # b => row'[x][y] = row[x][y]

\* An update of one row.
LEMMA Entry ==
    ASSUME TypeOK, NEW a \in Server, NEW b \in Server, NEW v \in Tokens \cup {None},
           row' = [row EXCEPT ![a][b] = v]
    PROVE  OnlyRow(a, b, v)
<1> DEFINE V == Tokens \cup {None}
           g == [row[a] EXCEPT ![b] = v]
<1>1. row \in [Server -> [Server -> V]] /\ v \in V
  BY DEF TypeOK
<1> HIDE DEF V
<1>2. row[a] \in [Server -> V]
  BY <1>1
<1>3. g \in [Server -> V] /\ \A y \in Server : g[y] = IF y = b THEN v ELSE row[a][y]
  BY <1>1, <1>2
<1>4. row' = [row EXCEPT ![a] = g]
  OBVIOUS
<1> HIDE DEF g
<1>5. row' \in [Server -> [Server -> V]]
  BY <1>1, <1>3, <1>4
<1>6. \A x \in Server : row'[x] = IF x = a THEN g ELSE row[x]
  BY <1>1, <1>4
<1> QED
  BY <1>3, <1>5, <1>6 DEF V, OnlyRow

\* The steps of a call that go on keep its type.
LEMMA FlightStep ==
    ASSUME NEW r \in Flight, NEW st \in {"sent", "checked", "counted", "answered", "stored"}
    PROVE  /\ [r EXCEPT !.step = st] \in Flight
           /\ [r EXCEPT !.step = st].step = st
           /\ [r EXCEPT !.step = st].from = r.from
           /\ [r EXCEPT !.step = st].invite = r.invite
           /\ [r EXCEPT !.step = st].token = r.token
BY DEF Flight

\* An active call is a record of a flight.
LEMMA ActiveFlight ==
    ASSUME TypeOK, NEW c \in Call, Active(c)
    PROVE  /\ call[c] \in Flight
           /\ call[c].from \in Server /\ call[c].invite \in Invite
           /\ call[c].token \in Tokens \cup {None} /\ Host(c) \in Server
<1>1. call[c] \in Flight
  BY DEF TypeOK, Active, Idle
<1> QED
  BY <1>1, InviteAssumption DEF Flight, Host

LEMMA InitTypes == Init => TypeOK
BY InviteAssumption, BoundAssumption DEF Init, TypeOK, None, Idle

LEMMA NextTypes == TypeOK /\ FlightInv /\ [Next]_vars => TypeOK'
<1> SUFFICES ASSUME TypeOK, FlightInv, [Next]_vars PROVE TypeOK'
  OBVIOUS
<1> USE InviteAssumption, BoundAssumption
<1>1. ASSUME NEW c \in Call, NEW s \in Server, NEW i \in Invite, Connect(c, s, i) PROVE TypeOK'
  <2>1. [step |-> "sent", from |-> s, invite |-> i, token |-> None, waits |-> TRUE] \in Flight
    BY DEF Flight
  <2>2. {s, IssuedBy[i]} \in Pairs
    BY DEF Pairs
  <2> QED
    BY <1>1, <2>1, <2>2 DEF Connect, Does, TypeOK, counters
<1>2. ASSUME NEW c \in Call, Check(c) PROVE TypeOK'
  <2>1. call[c] \in Flight
    BY <1>2, ActiveFlight DEF Check, Active
  <2>2. [call[c] EXCEPT !.step = "checked"] \in Flight
    BY <2>1, FlightStep
  <2> QED
    BY <1>2, <2>2 DEF Check, Steps, Does, TypeOK, counters, ghosts
<1>3. ASSUME NEW c \in Call, Count(c) PROVE TypeOK'
  <2>1. call[c] \in Flight /\ call[c].invite \in Invite
    BY <1>3, ActiveFlight DEF Count, Active
  <2>2. [call[c] EXCEPT !.step = "counted"] \in Flight
    BY <2>1, FlightStep
  <2>3. uses' \in [Invite -> Nat]
    <3>1. uses \in [Invite -> Nat] /\ uses' = [uses EXCEPT ![call[c].invite] = @ + 1]
      BY <1>3 DEF Count, TypeOK
    <3> QED
      BY <2>1, <3>1
  <2> QED
    BY <1>3, <2>2, <2>3 DEF Count, Steps, Does, TypeOK, counters, ghosts
<1>4. ASSUME NEW c \in Call, Register(c) PROVE TypeOK'
  <2>1. /\ call[c] \in Flight /\ Host(c) \in Server /\ call[c].from \in Server
        /\ call[c].invite \in Invite
    BY <1>4, ActiveFlight DEF Register, Active
  <2>2. CASE ~Unknown(Host(c), call[c].from)
    BY <1>4, <2>2 DEF Register, Does, TypeOK
  <2>3. CASE Unknown(Host(c), call[c].from)
    <3>1. tokens' \in Tokens /\ tokens' \in 0..MaxTokens
      BY <1>4, <2>3 DEF Register, TypeOK, Tokens
    <3>2. [call[c] EXCEPT !.step = "answered", !.token = tokens'] \in Flight
      BY <2>1, <3>1 DEF Flight
    <3>3. call' \in [Call -> Flight \cup {Idle}]
      BY <1>4, <2>3, <3>2 DEF Register, Does, TypeOK
    <3>4. OnlyRow(Host(c), call[c].from, tokens')
      <4>1. row' = [row EXCEPT ![Host(c)][call[c].from] = tokens']
        BY <1>4, <2>3 DEF Register
      <4>2. tokens' \in Tokens \cup {None}
        BY <3>1
      <4> QED
        BY <2>1, <4>1, <4>2, Entry
    <3>5. imports' \subseteq [at : Server, of : Server, token : Tokens]
      BY <1>4, <2>1, <2>3, <3>1 DEF Register, TypeOK
    <3>6. admitted' \in [Invite -> Nat]
      <4>1. call[c].invite \in Invite /\ admitted \in [Invite -> Nat]
            /\ admitted' = [admitted EXCEPT ![call[c].invite] = @ + 1]
        BY <1>4, <2>1, <2>3 DEF Register, TypeOK
      <4> QED
        BY <4>1
    <3>7. \A s, p \in Server : p \in users'[s] => row'[s][p] # None
      <4>1. tokens' # None
        BY <3>1 DEF Tokens, None
      <4>2. users' = users /\ \A s, p \in Server : p \in users[s] => row[s][p] # None
        BY <1>4 DEF Register, TypeOK
      <4> QED
        BY <2>1, <3>4, <4>1, <4>2 DEF OnlyRow
    <3>8. row' \in [Server -> [Server -> Tokens \cup {None}]]
      BY <3>4 DEF OnlyRow
    <3> QED
      BY <1>4, <2>3, <3>1, <3>3, <3>5, <3>6, <3>7, <3>8 DEF Register, TypeOK
  <2> QED
    BY <2>2, <2>3
<1>5. ASSUME NEW c \in Call, Store(c) PROVE TypeOK'
  <2>1. /\ call[c] \in Flight /\ Host(c) \in Server /\ call[c].from \in Server
        /\ call[c].token \in Tokens
    BY <1>5, ActiveFlight DEF Store, Active, FlightInv
  <2>2. [call[c] EXCEPT !.step = "stored"] \in Flight
    BY <2>1, FlightStep
  <2>3. call' \in [Call -> Flight \cup {Idle}]
    BY <1>5, <2>2 DEF Store, Steps, Does, TypeOK
  <2>4. /\ row' \in [Server -> [Server -> Tokens \cup {None}]]
        /\ \A x, y \in Server : row[x][y] # None => row'[x][y] # None
    <3>1. CASE UNCHANGED row
      BY <3>1 DEF TypeOK
    <3>2. CASE row' = [row EXCEPT ![call[c].from][Host(c)] = call[c].token]
      <4>1. call[c].token # None
        BY <2>1 DEF Tokens, None
      <4>2. call[c].token \in Tokens \cup {None}
        BY <2>1
      <4>3. OnlyRow(call[c].from, Host(c), call[c].token)
        BY <2>1, <3>2, <4>2, Entry
      <4> QED
        BY <2>1, <4>1, <4>3 DEF OnlyRow
    <3> QED
      BY <1>5, <3>1, <3>2 DEF Store
  <2>5. \A s, p \in Server : p \in users'[s] => row'[s][p] # None
    BY <1>5, <2>4 DEF Store, TypeOK
  <2> QED
    BY <1>5, <2>3, <2>4, <2>5 DEF Store, TypeOK, counters, ghosts
<1>6. ASSUME NEW c \in Call, Share(c) PROVE TypeOK'
  <2>1. Host(c) \in Server /\ call[c].from \in Server
    BY <1>6, ActiveFlight DEF Share, Active
  <2>2. call' \in [Call -> Flight \cup {Idle}]
    BY <1>6 DEF Share, Does, TypeOK
  <2> QED
    BY <1>6, <2>1, <2>2 DEF Share, Answers, Admits, TypeOK, counters, ghosts
<1>7. ASSUME NEW c \in Call, LoseCall(c) PROVE TypeOK'
  <2>1. CASE Does(c, Idle)
    BY <1>7, <2>1 DEF LoseCall, Fault, Does, TypeOK, ghosts
  <2>2. CASE /\ call[c].step \in {"sent", "checked", "counted"}
             /\ Does(c, [call[c] EXCEPT !.waits = FALSE])
    <3>1. call[c] \in Flight
      BY <2>2, ActiveFlight DEF Active
    <3>2. [call[c] EXCEPT !.waits = FALSE] \in Flight
      BY <3>1 DEF Flight
    <3> QED
      BY <1>7, <2>2, <3>2 DEF LoseCall, Fault, Does, TypeOK, ghosts
  <2> QED
    BY <1>7, <2>1, <2>2 DEF LoseCall
<1>8. ASSUME NEW x \in imports, Import(x) PROVE TypeOK'
  <2>1. x.at \in Server /\ x.of \in Server /\ x.token # None
    BY DEF TypeOK, Tokens, None
  <2>2. {x.at, x.of} \in Pairs
    BY <2>1 DEF Pairs
  <2> QED
    BY <1>8, <2>1, <2>2 DEF Import, Refers, Admits, TypeOK, counters
<1>9. ASSUME NEW x \in imports, LoseImport(x) PROVE TypeOK'
  BY <1>9 DEF LoseImport, Fault, TypeOK, ghosts
<1>10. ASSUME NEW s \in Server, Crash(s) PROVE TypeOK'
  <2>1. ASSUME NEW c \in Call PROVE call'[c] \in Flight \cup {Idle}
    <3>1. CASE call'[c] \in {Idle, call[c]}
      BY <3>1 DEF TypeOK
    <3>2. CASE /\ call[c].step \in {"sent", "checked", "counted"}
               /\ call'[c] = [call[c] EXCEPT !.waits = FALSE]
      <4>1. call[c] \in Flight
        BY <3>2, ActiveFlight DEF Active
      <4> QED
        BY <3>2, <4>1 DEF Flight
    <3> QED
      BY <1>10, <3>1, <3>2 DEF Crash
  <2>2. call' \in [Call -> Flight \cup {Idle}]
    BY <1>10, <2>1 DEF Crash
  <2> QED
    BY <1>10, <2>2 DEF Crash, Fault, TypeOK, ghosts
<1>11. ASSUME NEW s \in Server, NEW p \in Server, Delete(s, p) PROVE TypeOK'
  <2>1. {s, p} \in Pairs
    BY DEF Pairs
  <2>2. /\ row' \in [Server -> [Server -> Tokens \cup {None}]]
        /\ \A x, y \in Server : row'[x][y] = row[x][y] \/ (x = s /\ y = p)
    <3>1. CASE UNCHANGED row
      BY <3>1 DEF TypeOK
    <3>2. CASE row' = [row EXCEPT ![s][p] = None]
      <4>1. None \in Tokens \cup {None}
        OBVIOUS
      <4>2. OnlyRow(s, p, None)
        BY <3>2, <4>1, Entry
      <4> QED
        BY <4>2 DEF OnlyRow
    <3> QED
      BY <1>11, <3>1, <3>2 DEF Delete
  <2>3. users' \in [Server -> SUBSET Server]
    BY <1>11 DEF Delete, TypeOK
  <2>4. \A x, y \in Server : y \in users'[x] => row'[x][y] # None
    BY <1>11, <2>2 DEF Delete, TypeOK
  <2>5. deletes' \in 0..MaxDeletes
    BY <1>11 DEF Delete, TypeOK
  <2>6. uneven' \subseteq Pairs
    BY <1>11, <2>1 DEF Delete, TypeOK
  <2> QED
    BY <1>11, <2>2, <2>3, <2>4, <2>5, <2>6 DEF Delete, TypeOK
<1>12. CASE UNCHANGED vars
  BY <1>12 DEF vars, TypeOK
<1> QED
  BY <1>1, <1>2, <1>3, <1>4, <1>5, <1>6, <1>7, <1>8, <1>9, <1>10, <1>11, <1>12 DEF Next

-----------------------------------------------------------------------------
(* What a step does to the calls                                           *)

\* No call begins or is answered: those that go on are as they were but for steps.
CallsGoOn ==
    \A c \in Call : Active(c)' =>
        /\ Active(c) /\ call'[c].from = call[c].from
        /\ call'[c].invite = call[c].invite /\ call'[c].token = call[c].token
        /\ call'[c].step = "answered" => call[c].step = "answered"
        /\ call'[c].step = "stored" => call[c].step \in {"answered", "stored"}

\* A call that only moves on to another step, or ends.
LEMMA MovesOn ==
    ASSUME TypeOK, NEW c \in Call, Active(c),
           NEW st \in {"checked", "counted", "stored"},
           st = "stored" => call[c].step = "answered",
           Does(c, Idle) \/ Steps(c, st)
    PROVE  CallsGoOn
<1>1. call[c] \in Flight
  BY ActiveFlight
<1>2. \A d \in Call : d # c => call'[d] = call[d]
  BY DEF Does, Steps, TypeOK
<1>3. call'[c] \in {Idle, [call[c] EXCEPT !.step = st]}
  BY DEF Does, Steps, TypeOK
<1>4. ASSUME NEW d \in Call, Active(d)', d # c
      PROVE  call'[d] = call[d] /\ Active(d)
  BY <1>2, <1>4 DEF Active
<1>5. ASSUME Active(c)'
      PROVE  /\ call'[c].from = call[c].from /\ call'[c].invite = call[c].invite
             /\ call'[c].token = call[c].token /\ call'[c].step = st
  <2>1. call'[c] = [call[c] EXCEPT !.step = st]
    BY <1>3, <1>5 DEF Active, Idle
  <2>2. st \in {"sent", "checked", "counted", "answered", "stored"}
    OBVIOUS
  <2> QED
    BY <1>1, <2>1, <2>2, FlightStep
<1> QED
  BY <1>4, <1>5 DEF CallsGoOn

\* The steps that neither begin a call nor answer one.
LEMMA GoOn ==
    ASSUME TypeOK,
           \/ \E c \in Call : Check(c) \/ Count(c) \/ Store(c) \/ Share(c) \/ LoseCall(c)
           \/ \E x \in imports : Import(x) \/ LoseImport(x)
           \/ \E s \in Server : Crash(s)
           \/ \E s, p \in Server : Delete(s, p)
           \/ UNCHANGED vars
    PROVE  CallsGoOn
<1>1. ASSUME UNCHANGED call PROVE CallsGoOn
  BY <1>1 DEF CallsGoOn, Active
<1>2. ASSUME NEW c \in Call, Check(c) PROVE CallsGoOn
  <2>1. Active(c) /\ (Does(c, Idle) \/ Steps(c, "checked"))
    BY <1>2 DEF Check, Active
  <2> QED
    BY <2>1, MovesOn
<1>3. ASSUME NEW c \in Call, Count(c) PROVE CallsGoOn
  <2>1. Active(c) /\ Steps(c, "counted")
    BY <1>3 DEF Count, Active
  <2> QED
    BY <2>1, MovesOn
<1>4. ASSUME NEW c \in Call, Store(c) PROVE CallsGoOn
  <2>1. Active(c) /\ call[c].step = "answered" /\ (Does(c, Idle) \/ Steps(c, "stored"))
    BY <1>4 DEF Store, Active
  <2> QED
    BY <2>1, MovesOn
<1>5. ASSUME NEW c \in Call, Share(c) PROVE CallsGoOn
  <2>1. Active(c) /\ Does(c, Idle)
    BY <1>5 DEF Share, Active
  <2> QED
    BY <2>1, MovesOn
<1>6. ASSUME NEW c \in Call, LoseCall(c) PROVE CallsGoOn
  <2>1. Active(c)
    BY <1>6 DEF LoseCall, Active
  <2>2. CASE Does(c, Idle)
    BY <2>1, <2>2, MovesOn
  <2>3. CASE Does(c, [call[c] EXCEPT !.waits = FALSE])
    <3>1. call[c] \in Flight
      BY <2>1, ActiveFlight
    <3>2. call' = [call EXCEPT ![c] = [call[c] EXCEPT !.waits = FALSE]]
      BY <2>3 DEF Does
    <3>3. \A d \in Call : call'[d] = IF d = c THEN [call[c] EXCEPT !.waits = FALSE] ELSE call[d]
      BY <3>2 DEF TypeOK
    <3> QED
      BY <2>1, <3>1, <3>3 DEF CallsGoOn, Active, Flight
  <2> QED
    BY <1>6, <2>2, <2>3 DEF LoseCall
<1>7. ASSUME NEW s \in Server, Crash(s) PROVE CallsGoOn
  <2>1. ASSUME NEW c \in Call, Active(c)'
        PROVE  call'[c] = call[c]
               \/ (Active(c) /\ call'[c] = [call[c] EXCEPT !.waits = FALSE])
    <3>1. call'[c] # Idle
      BY <2>1 DEF Active, Idle
    <3> QED
      BY <1>7, <3>1 DEF Crash, Active
  <2>2. ASSUME NEW c \in Call, Active(c)',
               Active(c), call'[c] = [call[c] EXCEPT !.waits = FALSE]
        PROVE  /\ call'[c].from = call[c].from /\ call'[c].invite = call[c].invite
               /\ call'[c].token = call[c].token /\ call'[c].step = call[c].step
    <3>1. call[c] \in Flight
      BY <2>2, ActiveFlight
    <3> QED
      BY <2>2, <3>1 DEF Flight
  <2> QED
    BY <2>1, <2>2 DEF CallsGoOn, Active
<1> QED
  BY <1>1, <1>2, <1>3, <1>4, <1>5, <1>6, <1>7 DEF Import, LoseImport, Delete, vars

LEMMA InitFlight == Init => FlightInv
BY DEF Init, FlightInv, Active, Idle

LEMMA NextFlight == TypeOK /\ FlightInv /\ [Next]_vars => FlightInv'
<1> SUFFICES ASSUME TypeOK, FlightInv, [Next]_vars PROVE FlightInv'
  OBVIOUS
<1>1. ASSUME CallsGoOn PROVE FlightInv'
  BY <1>1 DEF CallsGoOn, FlightInv, Active, Host
<1>2. ASSUME NEW c \in Call, NEW s \in Server, NEW i \in Invite, Connect(c, s, i) PROVE FlightInv'
  <2>1. /\ call'[c] = [step |-> "sent", from |-> s, invite |-> i, token |-> None, waits |-> TRUE]
        /\ \A d \in Call : d # c => call'[d] = call[d]
        /\ IssuedBy[i] # s
    BY <1>2 DEF Connect, Does, TypeOK
  <2> QED
    BY <2>1 DEF FlightInv, Active, Host
<1>3. ASSUME NEW c \in Call, Register(c) PROVE FlightInv'
  <2>1. Active(c) /\ call[c] \in Flight
    BY <1>3, ActiveFlight DEF Register, Active
  <2>2. \A d \in Call : d # c => call'[d] = call[d]
    BY <1>3 DEF Register, Does, TypeOK
  <2>3. \/ call'[c] = Idle
        \/ /\ call'[c] = [call[c] EXCEPT !.step = "answered", !.token = tokens']
           /\ tokens' # None
    <3>1. CASE Unknown(Host(c), call[c].from)
      <4>1. tokens' # None
        BY <1>3, <3>1, BoundAssumption DEF Register, TypeOK, None
      <4>2. call' = [call EXCEPT ![c] = IF call[c].waits
                        THEN [call[c] EXCEPT !.step = "answered", !.token = tokens'] ELSE Idle]
        BY <1>3, <3>1 DEF Register, Does
      <4> QED
        BY <4>1, <4>2 DEF TypeOK
    <3>2. CASE ~Unknown(Host(c), call[c].from)
      BY <1>3, <3>2 DEF Register, Does, TypeOK
    <3> QED
      BY <3>1, <3>2
  <2>4. ASSUME Active(c)'
        PROVE  /\ call'[c].from = call[c].from /\ call'[c].invite = call[c].invite
               /\ call'[c].token # None
    <3>1. /\ call'[c] = [call[c] EXCEPT !.step = "answered", !.token = tokens']
          /\ tokens' # None
      BY <2>3, <2>4 DEF Active, Idle
    <3> QED
      BY <2>1, <3>1 DEF Flight
  <2> QED
    BY <2>1, <2>2, <2>4 DEF FlightInv, Active, Host
<1> QED
  BY <1>1, <1>2, <1>3, GoOn DEF Next

-----------------------------------------------------------------------------
(* Peers agree                                                             *)

\* A pair whose rows and calls go on as they are stays even.
LEMMA StaysEven ==
    ASSUME CallsGoOn, NEW s \in Server, NEW p \in Server, Even(s, p),
           row'[s][p] = row[s][p], row'[p][s] = row[p][s]
    PROVE  Even(s, p)'
BY DEF CallsGoOn, Even, Active, Host

LEMMA StoreAgrees ==
    ASSUME TypeOK, FlightInv, JoinInv, NEW c \in Call, Store(c)
    PROVE  JoinInv'
<1>0. PICK f \in Server, h \in Server : f = call[c].from /\ h = Host(c)
  BY ActiveFlight DEF Store, Active
<1>1. Active(c) /\ f # h /\ call[c].token \in Tokens \cup {None}
  BY <1>0, ActiveFlight DEF Store, Active, FlightInv
<1>2. CallsGoOn /\ uneven' = uneven
  BY GoOn DEF Store, ghosts
<1>3. CASE UNCHANGED row
  BY <1>2, <1>3, StaysEven DEF JoinInv
<1>4. CASE row[f][h] = None /\ row' = [row EXCEPT ![f][h] = call[c].token]
  <2>1. OnlyRow(f, h, call[c].token)
    BY <1>1, <1>4, Entry
  <2>2. ASSUME {f, h} \notin uneven PROVE Even(f, h)' /\ Even(h, f)'
    <3>1. Even(f, h) /\ Even(h, f)
      BY <1>1, <2>2 DEF JoinInv
    <3>2. row[h][f] = call[c].token
      BY <1>0, <1>1, <3>1 DEF Even, Store
    <3>3. row'[f][h] = call[c].token /\ row'[h][f] = row[h][f]
      BY <1>1, <2>1 DEF OnlyRow
    <3>4. \A d \in Call : ~(Active(d) /\ call[d].from = h /\ Host(d) = f)
      BY <1>0, <1>1, <3>1 DEF Even
    <3> QED
      BY <1>1, <1>2, <3>1, <3>2, <3>3, <3>4 DEF Even, CallsGoOn, Active, Host
  <2>3. ASSUME NEW s \in Server, NEW p \in Server, {s, p} \notin uneven', {s, p} # {f, h}
        PROVE  Even(s, p)'
    <3>1. row'[s][p] = row[s][p] /\ row'[p][s] = row[p][s]
      BY <1>1, <2>1, <2>3 DEF OnlyRow
    <3>2. Even(s, p)
      BY <1>2, <2>3 DEF JoinInv
    <3> QED
      BY <1>2, <3>1, <3>2, StaysEven
  <2>4. ASSUME NEW s \in Server, NEW p \in Server, {s, p} \notin uneven', {s, p} = {f, h}
        PROVE  Even(s, p)'
    <3>1. (s = f /\ p = h) \/ (s = h /\ p = f)
      BY <2>4
    <3> QED
      BY <1>2, <2>2, <2>4, <3>1
  <2> QED
    BY <2>3, <2>4 DEF JoinInv
<1> QED
  BY <1>0, <1>3, <1>4 DEF Store

LEMMA RegisterAgrees ==
    ASSUME TypeOK, FlightInv, JoinInv, NEW c \in Call, Register(c)
    PROVE  JoinInv'
<1>0. PICK f \in Server, h \in Server : f = call[c].from /\ h = Host(c)
  BY ActiveFlight DEF Register, Active
<1>1. Active(c) /\ f # h /\ call[c] \in Flight /\ call[c].step = "counted" /\ uneven' = uneven
  BY <1>0, ActiveFlight DEF Register, Active, FlightInv
<1>2. CASE ~Unknown(h, f)
  <2>1. Does(c, Idle) /\ UNCHANGED row
    BY <1>0, <1>2 DEF Register
  <2>2. CallsGoOn
    BY <1>1, <2>1, MovesOn
  <2> QED
    BY <1>1, <2>1, <2>2, StaysEven DEF JoinInv
<1>3. CASE Unknown(h, f)
  <2>1. /\ tokens' \in Tokens
        /\ row' = [row EXCEPT ![h][f] = tokens']
        /\ call' = [call EXCEPT ![c] = IF call[c].waits
                      THEN [call[c] EXCEPT !.step = "answered", !.token = tokens'] ELSE Idle]
    BY <1>0, <1>3, BoundAssumption DEF Register, Does, TypeOK, Tokens
  <2>2. OnlyRow(h, f, tokens')
    <3>1. tokens' \in Tokens \cup {None}
      BY <2>1
    <3> QED
      BY <2>1, <3>1, Entry
  <2>3. \A d \in Call : d # c => call'[d] = call[d]
    BY <2>1 DEF TypeOK
  <2>4. ASSUME Active(c)'
        PROVE  /\ call'[c].from = f /\ call'[c].invite = call[c].invite
               /\ call'[c].token = tokens'
    <3>1. call'[c] = [call[c] EXCEPT !.step = "answered", !.token = tokens']
      BY <2>1, <2>4 DEF TypeOK, Active, Idle
    <3> QED
      BY <1>0, <1>1, <3>1 DEF Flight
  <2>5. ASSUME {f, h} \notin uneven PROVE Even(f, h)' /\ Even(h, f)'
    <3>1. Even(f, h) /\ Even(h, f)
      BY <1>1, <2>5 DEF JoinInv
    <3>2. row[h][f] = None /\ row[f][h] = None
      BY <1>0, <1>1, <1>3, <3>1 DEF Even, Unknown
    <3>3. row'[h][f] = tokens' /\ row'[f][h] = None
      BY <1>1, <2>2, <3>2 DEF OnlyRow
    <3>4. \A d \in Call : ~(Active(d) /\ call[d].from = h /\ Host(d) = f)
      BY <1>0, <1>1, <3>1 DEF Even
    <3>5. \A d \in Call : ~(Active(d)' /\ call'[d].from = h /\ Host(d)' = f)
      BY <1>0, <1>1, <2>3, <2>4, <3>4 DEF Active, Host
    <3>6. \A d \in Call : d # c /\ Active(d) /\ call[d].from = f /\ Host(d) = h
             => call[d].step # "answered"
      BY <3>1, <3>2 DEF Even, FlightInv
    <3>7. \A d \in Call : Active(d)' /\ call'[d].from = f /\ Host(d)' = h
             => (call'[d].step = "answered" => call'[d].token = tokens')
      BY <2>3, <2>4, <3>6 DEF Active, Host
    <3> QED
      BY <3>3, <3>5, <3>7 DEF Even
  <2>6. ASSUME NEW s \in Server, NEW p \in Server, {s, p} \notin uneven, {s, p} # {f, h}
        PROVE  Even(s, p)'
    <3>1. row'[s][p] = row[s][p] /\ row'[p][s] = row[p][s]
      BY <1>1, <2>2, <2>6 DEF OnlyRow
    <3>2. Even(s, p)
      BY <2>6 DEF JoinInv
    <3>3. \A d \in Call : Active(d)' /\ call'[d].from \in {s, p} /\ Host(d)' \in {s, p}
             /\ call'[d].from # Host(d)' => call'[d] = call[d]
      BY <1>0, <2>3, <2>4, <2>6 DEF Host
    <3>4. s # p => Even(s, p)'
      BY <3>1, <3>2, <3>3 DEF Even, Active, Host
    <3>5. FlightInv'
      BY NextFlight DEF Next
    <3>6. s = p => Even(s, p)'
      BY <3>5 DEF Even, FlightInv
    <3> QED
      BY <3>4, <3>6
  <2>7. ASSUME NEW s \in Server, NEW p \in Server, {s, p} \notin uneven, {s, p} = {f, h}
        PROVE  Even(s, p)'
    <3>1. (s = f /\ p = h) \/ (s = h /\ p = f)
      BY <2>7
    <3> QED
      BY <2>5, <2>7, <3>1
  <2> QED
    BY <1>1, <2>6, <2>7 DEF JoinInv
<1> QED
  BY <1>2, <1>3

LEMMA ConnectAgrees ==
    ASSUME TypeOK, FlightInv, JoinInv, NEW c \in Call, NEW f \in Server, NEW i \in Invite,
           Connect(c, f, i)
    PROVE  JoinInv'
<1>0. PICK h \in Server : h = IssuedBy[i]
  BY InviteAssumption
<1>1. /\ ~Active(c) /\ f # h /\ row' = row
      /\ call'[c] = [step |-> "sent", from |-> f, invite |-> i, token |-> None, waits |-> TRUE]
      /\ \A d \in Call : d # c => call'[d] = call[d]
  BY <1>0 DEF Connect, Active, Does, TypeOK, Idle
<1>2. Active(c)' /\ call'[c].from = f /\ Host(c)' = h /\ call'[c].step = "sent"
  BY <1>0, <1>1 DEF Active, Host
<1>3. ASSUME {f, h} \notin uneven' PROVE Even(f, h)' /\ Even(h, f)'
  <2>1. /\ row[f][h] = None
        /\ \A d \in Call : Joins(d, {f, h}) => call[d].from # h
        /\ {f, h} \notin uneven \/ (row[h][f] = None /\ \A d \in Call : ~Joins(d, {f, h}))
    BY <1>0, <1>3 DEF Connect
  <2>2. \A d \in Call : ~(Active(d) /\ call[d].from = h /\ Host(d) = f)
    BY <2>1 DEF Joins, Active
  <2>3. \A d \in Call : ~(Active(d)' /\ call'[d].from = h /\ Host(d)' = f)
    BY <1>1, <1>2, <2>2 DEF Active, Host
  <2>4. \A d \in Call : d # c /\ Active(d)' /\ call'[d].from = f /\ Host(d)' = h
           => (call'[d].step = "answered" => row[h][f] = call'[d].token)
    <3>1. CASE {f, h} \notin uneven
      BY <1>1, <3>1 DEF JoinInv, Even, Active, Host
    <3>2. CASE \A d \in Call : ~Joins(d, {f, h})
      BY <1>1, <3>2 DEF Joins, Active, Host
    <3> QED
      BY <2>1, <3>1, <3>2
  <2> QED
    BY <1>1, <1>2, <2>1, <2>3, <2>4 DEF Even
<1>4. ASSUME NEW s \in Server, NEW p \in Server, {s, p} \notin uneven', {s, p} # {f, h}
      PROVE  Even(s, p)'
  <2>1. {s, p} \notin uneven
    BY <1>0, <1>4 DEF Connect
  <2>2. Even(s, p)
    BY <2>1 DEF JoinInv
  <2>3. \A d \in Call : Active(d)' /\ call'[d].from \in {s, p} /\ Host(d)' \in {s, p}
           /\ call'[d].from # Host(d)' => call'[d] = call[d]
    BY <1>1, <1>2, <1>4 DEF Host
  <2>4. s # p => Even(s, p)'
    BY <1>1, <2>2, <2>3 DEF Even, Active, Host
  <2>5. FlightInv'
    BY NextFlight DEF Next
  <2>6. s = p => Even(s, p)'
    BY <2>5 DEF Even, FlightInv
  <2> QED
    BY <2>4, <2>6
<1>5. ASSUME NEW s \in Server, NEW p \in Server, {s, p} \notin uneven', {s, p} = {f, h}
      PROVE  Even(s, p)'
  <2>1. (s = f /\ p = h) \/ (s = h /\ p = f)
    BY <1>5
  <2> QED
    BY <1>3, <1>5, <2>1
<1> QED
  BY <1>4, <1>5 DEF JoinInv

LEMMA DeleteAgrees ==
    ASSUME TypeOK, FlightInv, JoinInv, NEW a \in Server, NEW b \in Server, Delete(a, b)
    PROVE  JoinInv'
<1>1. CallsGoOn /\ uneven \subseteq uneven'
  BY GoOn DEF Delete
<1>2. CASE UNCHANGED row
  BY <1>1, <1>2, StaysEven DEF JoinInv
<1>3. CASE row' = [row EXCEPT ![a][b] = None]
  <2>1. OnlyRow(a, b, None)
    <3>1. None \in Tokens \cup {None}
      OBVIOUS
    <3> QED
      BY <1>3, <3>1, Entry
  <2>2. SUFFICES ASSUME NEW s \in Server, NEW p \in Server, {s, p} \notin uneven'
                 PROVE  Even(s, p)'
    BY DEF JoinInv
  <2>3. Even(s, p)
    BY <1>1, <2>2 DEF JoinInv
  <2>4. CASE {s, p} # {a, b}
    <3>1. row'[s][p] = row[s][p] /\ row'[p][s] = row[p][s]
      BY <2>1, <2>4 DEF OnlyRow
    <3> QED
      BY <1>1, <2>3, <3>1, StaysEven
  <2>5. CASE {s, p} = {a, b}
    <3>1. \A d \in Call : ~(Active(d) /\ {call[d].from, Host(d)} = {s, p})
      BY <2>2, <2>5 DEF Delete, Joins, Active
    <3>2. \A d \in Call : ~(Active(d)' /\ call'[d].from = s /\ Host(d)' = p)
      BY <1>1, <3>1 DEF CallsGoOn, Host
    <3>3. (s = a /\ p = b) \/ (s = b /\ p = a)
      BY <2>5
    <3>4. row'[s][p] = None \/ row'[p][s] = None
      BY <2>1, <3>3 DEF OnlyRow
    <3> QED
      BY <3>2, <3>4 DEF Even
  <2> QED
    BY <2>4, <2>5
<1> QED
  BY <1>2, <1>3 DEF Delete

LEMMA InitAgrees == Init => JoinInv
BY DEF Init, JoinInv, Even, Active, Idle

LEMMA NextAgrees == TypeOK /\ FlightInv /\ JoinInv /\ [Next]_vars => JoinInv'
<1> SUFFICES ASSUME TypeOK, FlightInv, JoinInv, [Next]_vars PROVE JoinInv'
  OBVIOUS
<1>1. ASSUME CallsGoOn, UNCHANGED <<row, uneven>> PROVE JoinInv'
  BY <1>1, StaysEven DEF JoinInv
<1>2. ASSUME NEW c \in Call, Check(c) \/ Count(c) \/ Share(c) \/ LoseCall(c) PROVE JoinInv'
  <2>1. CallsGoOn
    BY <1>2, GoOn
  <2> QED
    BY <1>1, <1>2, <2>1 DEF Check, Count, Share, LoseCall, ghosts
<1>3. ASSUME NEW x \in imports, Import(x) \/ LoseImport(x) PROVE JoinInv'
  <2>1. CallsGoOn
    BY <1>3, GoOn
  <2> QED
    BY <1>1, <1>3, <2>1 DEF Import, LoseImport, ghosts
<1>4. ASSUME NEW s \in Server, Crash(s) PROVE JoinInv'
  <2>1. CallsGoOn
    BY <1>4, GoOn
  <2> QED
    BY <1>1, <1>4, <2>1 DEF Crash, ghosts
<1>5. CASE UNCHANGED vars
  <2>1. CallsGoOn
    BY <1>5, GoOn
  <2> QED
    BY <1>1, <1>5, <2>1 DEF vars
<1> QED
  BY <1>2, <1>3, <1>4, <1>5, ConnectAgrees, RegisterAgrees, StoreAgrees, DeleteAgrees DEF Next

\* The inductive invariant behind the agreement of peers.
JoinIndInv == TypeOK /\ FlightInv /\ JoinInv

\* A server and a peer that hold rows of each other hold the same token, whatever
\* is lost, crashes, or is tried again, but for the pairs that are uneven.
THEOREM PeersAgree == Spec => []TokensAgree
<1>1. Init => JoinIndInv
  BY InitTypes, InitFlight, InitAgrees DEF JoinIndInv
<1>2. JoinIndInv /\ [Next]_vars => JoinIndInv'
  BY NextTypes, NextFlight, NextAgrees DEF JoinIndInv
<1>3. JoinIndInv => TokensAgree
  BY DEF JoinIndInv, JoinInv, Even, TokensAgree
<1> QED
  BY <1>1, <1>2, <1>3, PTL DEF Spec

\* Every variable keeps its type, and users are only kept for a row that is there.
THEOREM JoinTypes == Spec => []TypeOK
<1>1. Init => TypeOK /\ FlightInv
  BY InitTypes, InitFlight
<1>2. TypeOK /\ FlightInv /\ [Next]_vars => (TypeOK /\ FlightInv)'
  BY NextTypes, NextFlight
<1> QED
  BY <1>1, <1>2, PTL DEF Spec

-----------------------------------------------------------------------------
(* Uses of an invite                                                       *)

\* The calls at a step are finitely many, no more than there are calls.
LEMMA InFinite ==
    ASSUME NEW i \in Invite, NEW st
    PROVE  /\ IsFiniteSet(In(i, st)) /\ Cardinality(In(i, st)) \in Nat
           /\ Cardinality(In(i, st)) <= Cardinality(Call) /\ Cardinality(Call) \in Nat
BY BoundAssumption, FS_Subset, FS_CardinalityType DEF In

\* When nothing is counted and no call comes to either step, the bounds stay.
LEMMA FewerWaiting ==
    ASSUME TypeOK, CountInv, UNCHANGED <<uses, admitted>>,
           \A i \in Invite : /\ In(i, "checked")' \subseteq In(i, "checked")
                             /\ In(i, "counted")' \subseteq In(i, "counted")
    PROVE  CountInv'
<1> SUFFICES ASSUME NEW i \in Invite
             PROVE  /\ admitted[i] + Cardinality(In(i, "counted")') <= uses[i]
                    /\ MaxUses > 0 => uses[i] + Cardinality(In(i, "checked")')
                                        < MaxUses + Cardinality(Call)
  BY DEF CountInv
<1>1. /\ Cardinality(In(i, "counted")') <= Cardinality(In(i, "counted"))
      /\ Cardinality(In(i, "checked")') <= Cardinality(In(i, "checked"))
      /\ Cardinality(In(i, "counted")') \in Nat /\ Cardinality(In(i, "checked")') \in Nat
  BY InFinite, FS_Subset, FS_CardinalityType
<1>2. uses[i] \in Nat /\ admitted[i] \in Nat /\ MaxUses \in Nat
  BY InviteAssumption DEF TypeOK
<1> QED
  BY <1>1, <1>2, InFinite DEF CountInv

\* The check leaves room for the calls that are past it.
LEMMA CheckBounded ==
    ASSUME TypeOK, CountInv, NEW c \in Call, Check(c)
    PROVE  CountInv'
<1>1. /\ Active(c) /\ call[c] \in Flight /\ call[c].step = "sent"
      /\ \A d \in Call : d # c => call'[d] = call[d]
      /\ UNCHANGED <<uses, admitted>>
  BY ActiveFlight DEF Check, Active, Steps, Does, TypeOK, ghosts
<1>2. CASE ~HasUses(call[c].invite)
  <2>1. call'[c] = Idle
    BY <1>2 DEF Check, Does, TypeOK
  <2>2. \A i \in Invite : /\ In(i, "checked")' \subseteq In(i, "checked")
                          /\ In(i, "counted")' \subseteq In(i, "counted")
    BY <1>1, <2>1 DEF In, Idle
  <2> QED
    BY <1>1, <2>2, FewerWaiting
<1>3. CASE HasUses(call[c].invite)
  <2>1. call'[c] = [call[c] EXCEPT !.step = "checked"]
    BY <1>3 DEF Check, Steps, Does, TypeOK
  <2>2. call'[c].step = "checked" /\ call'[c].invite = call[c].invite
    BY <1>1, <2>1, FlightStep
  <2> SUFFICES ASSUME NEW i \in Invite
               PROVE  /\ admitted[i] + Cardinality(In(i, "counted")') <= uses[i]
                      /\ MaxUses > 0 => uses[i] + Cardinality(In(i, "checked")')
                                          < MaxUses + Cardinality(Call)
    BY <1>1 DEF CountInv
  <2>3. In(i, "counted")' = In(i, "counted")
    BY <1>1, <2>2 DEF In
  <2>4. /\ In(i, "checked")' \subseteq Call
        /\ i # call[c].invite => In(i, "checked")' = In(i, "checked")
    BY <1>1, <2>2 DEF In
  <2>5. Cardinality(In(i, "checked")') <= Cardinality(Call) /\ Cardinality(In(i, "checked")') \in Nat
    BY <2>4, BoundAssumption, FS_Subset, FS_CardinalityType
  <2>6. i = call[c].invite /\ MaxUses > 0 => uses[i] < MaxUses
    BY <1>3, InviteAssumption DEF HasUses
  <2>7. uses[i] \in Nat /\ MaxUses \in Nat
    BY InviteAssumption DEF TypeOK
  <2> QED
    BY <2>3, <2>4, <2>5, <2>6, <2>7, InFinite DEF CountInv
<1> QED
  BY <1>2, <1>3

\* Counting a use moves a call from the one bound to the other.
LEMMA CountBounded ==
    ASSUME TypeOK, CountInv, NEW c \in Call, Count(c)
    PROVE  CountInv'
<1>1. /\ Active(c) /\ call[c] \in Flight /\ call[c].step = "checked"
      /\ call[c].invite \in Invite
      /\ \A d \in Call : d # c => call'[d] = call[d]
      /\ call'[c] = [call[c] EXCEPT !.step = "counted"]
      /\ uses' = [uses EXCEPT ![call[c].invite] = @ + 1] /\ admitted' = admitted
  BY ActiveFlight DEF Count, Active, Steps, Does, TypeOK, ghosts
<1>2. call'[c].step = "counted" /\ call'[c].invite = call[c].invite
  BY <1>1, FlightStep
<1> SUFFICES ASSUME NEW i \in Invite
             PROVE  /\ admitted[i] + Cardinality(In(i, "counted")') <= uses'[i]
                    /\ MaxUses > 0 => uses'[i] + Cardinality(In(i, "checked")')
                                        < MaxUses + Cardinality(Call)
  BY <1>1 DEF CountInv
<1>3. uses[i] \in Nat /\ admitted[i] \in Nat /\ MaxUses \in Nat
      /\ uses'[i] = IF i = call[c].invite THEN uses[i] + 1 ELSE uses[i]
  BY <1>1, InviteAssumption DEF TypeOK
<1>4. CASE i # call[c].invite
  <2>1. In(i, "counted")' = In(i, "counted") /\ In(i, "checked")' = In(i, "checked")
    BY <1>1, <1>2, <1>4 DEF In
  <2> QED
    BY <1>3, <1>4, <2>1 DEF CountInv
<1>5. CASE i = call[c].invite
  <2>1. /\ In(i, "counted")' = In(i, "counted") \cup {c} /\ c \notin In(i, "counted")
        /\ In(i, "checked")' = In(i, "checked") \ {c} /\ c \in In(i, "checked")
    BY <1>1, <1>2, <1>5 DEF In
  <2>2. Cardinality(In(i, "counted")') = Cardinality(In(i, "counted")) + 1
    BY <2>1, InFinite, FS_AddElement
  <2>3. Cardinality(In(i, "checked")') = Cardinality(In(i, "checked")) - 1
    BY <2>1, InFinite, FS_RemoveElement
  <2> QED
    BY <1>3, <1>5, <2>2, <2>3, InFinite DEF CountInv
<1> QED
  BY <1>4, <1>5

\* A peer is made of a call that has counted its use.
LEMMA RegisterBounded ==
    ASSUME TypeOK, CountInv, NEW c \in Call, Register(c)
    PROVE  CountInv'
<1>1. /\ Active(c) /\ call[c] \in Flight /\ call[c].step = "counted" /\ call[c].invite \in Invite
      /\ \A d \in Call : d # c => call'[d] = call[d]
      /\ uses' = uses
  BY ActiveFlight DEF Register, Active, Does, TypeOK
<1>2. call'[c].step \notin {"checked", "counted"}
  <2>1. call'[c] \in {Idle, [call[c] EXCEPT !.step = "answered", !.token = tokens']}
    BY DEF Register, Does, TypeOK
  <2>2. [call[c] EXCEPT !.step = "answered", !.token = tokens'].step = "answered"
    BY <1>1 DEF Flight
  <2>3. Idle.step = "idle"
    BY DEF Idle
  <2>4. call'[c].step = "answered" \/ call'[c].step = "idle"
    BY <2>1, <2>2, <2>3, Zenon
  <2> QED
    BY <2>4
<1>3. \A i \in Invite : /\ In(i, "checked")' = In(i, "checked")
                        /\ In(i, "counted")' = In(i, "counted") \ {c}
  BY <1>1, <1>2 DEF In
<1>4. admitted' = admitted \/ admitted' = [admitted EXCEPT ![call[c].invite] = @ + 1]
  BY DEF Register
<1> SUFFICES ASSUME NEW i \in Invite
             PROVE  /\ admitted'[i] + Cardinality(In(i, "counted")') <= uses[i]
                    /\ MaxUses > 0 => uses[i] + Cardinality(In(i, "checked")')
                                        < MaxUses + Cardinality(Call)
  BY <1>1 DEF CountInv
<1>5. uses[i] \in Nat /\ admitted[i] \in Nat
  BY DEF TypeOK
<1>6. admitted'[i] = admitted[i] \/ (i = call[c].invite /\ admitted'[i] = admitted[i] + 1)
  BY <1>1, <1>4 DEF TypeOK
<1>7. CASE i # call[c].invite
  <2>1. In(i, "counted")' = In(i, "counted")
    BY <1>1, <1>3, <1>7 DEF In
  <2> QED
    BY <1>3, <1>5, <1>6, <1>7, <2>1 DEF CountInv
<1>8. CASE i = call[c].invite
  <2>1. c \in In(i, "counted")
    BY <1>1, <1>8 DEF In
  <2>2. Cardinality(In(i, "counted")') = Cardinality(In(i, "counted")) - 1
    BY <1>3, <2>1, InFinite, FS_RemoveElement
  <2> QED
    BY <1>3, <1>5, <1>6, <2>2, InFinite DEF CountInv
<1> QED
  BY <1>7, <1>8

LEMMA InitBounded == Init => CountInv
<1> SUFFICES ASSUME Init, NEW i \in Invite
             PROVE  /\ admitted[i] + Cardinality(In(i, "counted")) <= uses[i]
                    /\ MaxUses > 0 => uses[i] + Cardinality(In(i, "checked"))
                                        < MaxUses + Cardinality(Call)
  BY DEF CountInv
<1>1. In(i, "counted") = {} /\ In(i, "checked") = {}
  BY DEF Init, In, Idle
<1>2. uses[i] = 0 /\ admitted[i] = 0 /\ MaxUses \in Nat
  BY InviteAssumption DEF Init
<1> QED
  BY <1>1, <1>2, FS_EmptySet, InFinite

LEMMA NextBounded == TypeOK /\ CountInv /\ [Next]_vars => CountInv'
<1> SUFFICES ASSUME TypeOK, CountInv, [Next]_vars PROVE CountInv'
  OBVIOUS
<1>1. ASSUME \A d \in Call : call'[d].step \in {"checked", "counted"}
                => call'[d].step = call[d].step /\ call'[d].invite = call[d].invite,
             UNCHANGED <<uses, admitted>>
      PROVE  CountInv'
  BY <1>1, FewerWaiting DEF In
<1>2. ASSUME NEW c \in Call,
             Store(c) \/ Share(c) \/ \E s \in Server, i \in Invite : Connect(c, s, i)
      PROVE  CountInv'
  <2>1. /\ \A d \in Call : d # c => call'[d] = call[d]
        /\ UNCHANGED <<uses, admitted>>
    BY <1>2 DEF Store, Share, Connect, Steps, Does, TypeOK, ghosts
  <2>2. call'[c].step \notin {"checked", "counted"}
    <3>1. CASE Store(c)
      <4>1. call[c] \in Flight
        BY <3>1, ActiveFlight DEF Store, Active
      <4>2. call'[c] \in {Idle, [call[c] EXCEPT !.step = "stored"]}
        BY <3>1 DEF Store, Steps, Does, TypeOK
      <4> QED
        BY <4>1, <4>2 DEF Flight, Idle
    <3>2. CASE Share(c)
      BY <3>2 DEF Share, Does, TypeOK, Idle
    <3>3. CASE \E s \in Server, i \in Invite : Connect(c, s, i)
      BY <3>3 DEF Connect, Does, TypeOK
    <3> QED
      BY <1>2, <3>1, <3>2, <3>3
  <2> QED
    BY <1>1, <2>1, <2>2
<1>3. ASSUME CallsGoOn, UNCHANGED <<uses, admitted>>,
             \A d \in Call : Active(d)' => call'[d].step = call[d].step
      PROVE  CountInv'
  BY <1>1, <1>3 DEF CallsGoOn, Active
<1>4. ASSUME NEW c \in Call, LoseCall(c) PROVE CountInv'
  <2>1. CallsGoOn
    BY <1>4, GoOn
  <2>2. \A d \in Call : Active(d)' => call'[d].step = call[d].step
    <3>1. CASE Does(c, Idle)
      BY <3>1 DEF Does, TypeOK, Active, Idle
    <3>2. CASE Does(c, [call[c] EXCEPT !.waits = FALSE])
      <4>1. call[c] \in Flight
        BY <1>4, ActiveFlight DEF LoseCall, Active
      <4> QED
        BY <3>2, <4>1 DEF Does, TypeOK, Flight
    <3> QED
      BY <1>4, <3>1, <3>2 DEF LoseCall
  <2> QED
    BY <1>3, <1>4, <2>1, <2>2 DEF LoseCall, ghosts
<1>5. ASSUME NEW s \in Server, Crash(s) PROVE CountInv'
  <2>1. CallsGoOn
    BY <1>5, GoOn
  <2>2. ASSUME NEW d \in Call, Active(d)' PROVE call'[d].step = call[d].step
    <3>1. call'[d] # Idle
      BY <2>2 DEF Active, Idle
    <3>2. call'[d] \in {call[d], [call[d] EXCEPT !.waits = FALSE]} /\ Active(d)
      BY <1>5, <2>1, <2>2, <3>1 DEF Crash, CallsGoOn
    <3>3. call[d] \in Flight
      BY <3>2, ActiveFlight
    <3> QED
      BY <3>2, <3>3 DEF Flight
  <2> QED
    BY <1>3, <1>5, <2>1, <2>2 DEF Crash, ghosts
<1>6. ASSUME UNCHANGED <<call, uses, admitted>> PROVE CountInv'
  BY <1>1, <1>6
<1> QED
  BY <1>2, <1>4, <1>5, <1>6, CheckBounded, CountBounded, RegisterBounded
     DEF Next, Import, LoseImport, Delete, vars, ghosts

\* An invite makes no more peers than uses it counts, and is used no further past
\* its limit than by the calls under way at one time.
THEOREM InvitesBounded == Spec => []InviteBound
<1>1. Init => TypeOK /\ FlightInv /\ CountInv
  BY InitTypes, InitFlight, InitBounded
<1>2. TypeOK /\ FlightInv /\ CountInv /\ [Next]_vars => (TypeOK /\ FlightInv /\ CountInv)'
  BY NextTypes, NextFlight, NextBounded
<1>3. TypeOK /\ CountInv => InviteBound
  <2> SUFFICES ASSUME TypeOK, CountInv, NEW i \in Invite
               PROVE  /\ admitted[i] <= uses[i]
                      /\ MaxUses > 0 => uses[i] < MaxUses + Cardinality(Call)
    BY DEF InviteBound
  <2>1. uses[i] \in Nat /\ admitted[i] \in Nat /\ MaxUses \in Nat
    BY InviteAssumption DEF TypeOK
  <2> QED
    BY <2>1, InFinite DEF CountInv
<1> QED
  BY <1>1, <1>2, <1>3, PTL DEF Spec

-----------------------------------------------------------------------------
(* Peers learn each other's users                                          *)

\* The calls but c are as they were.
OthersWait(c) == \A d \in Call : d # c => call'[d] = call[d]

\* A call that has not been answered goes on, and is not answered yet, or ends.
LEMMA UnheardGoesOn ==
    ASSUME UsersComing, UNCHANGED <<row, users, imports, tokens, early>>,
           NEW c \in Call, OthersWait(c), call[c].step \notin {"answered", "stored"},
           Active(c)' => call'[c].waits /\ call'[c].step \notin {"answered", "stored"}
    PROVE  UsersComing'
<1>1. call'[c].step \notin {"answered", "stored"}
  BY DEF Active
<1>2. ASSUME NEW d \in Call, Active(d)' PROVE Heard(d)'
  <2>1. CASE d = c
    BY <1>1, <1>2, <2>1 DEF Heard
  <2>2. CASE d # c
    BY <1>2, <2>2 DEF OthersWait, UsersComing, Active, Heard, Host, Importing
  <2> QED BY <2>1, <2>2
<1>3. \A x \in imports' : Refers(x)'
  BY DEF UsersComing, Refers
<1>4. ASSUME NEW s \in Server, NEW p \in Server PROVE Comes(s, p)'
  <2>1. Comes(s, p)
    BY DEF UsersComing
  <2>2. \A d \in Call : call[d].step \in {"answered", "stored"} => call'[d] = call[d]
    BY DEF OthersWait
  <2> QED BY <2>1, <2>2 DEF Comes, Peers, Sharing, Importing, Host
<1> QED BY <1>2, <1>3, <1>4 DEF UsersComing

LEMMA RegisterComes ==
    ASSUME TypeOK, FlightInv, UsersComing, NEW c \in Call, Register(c)
    PROVE  UsersComing'
<1>0. PICK f \in Server, h \in Server : f = call[c].from /\ h = Host(c)
  BY ActiveFlight DEF Register, Active
<1>1. /\ Active(c) /\ f # h /\ call[c] \in Flight /\ call[c].step = "counted"
      /\ call[c].waits /\ UNCHANGED <<users, early>>
  BY <1>0, ActiveFlight DEF Register, Active, FlightInv, UsersComing, Heard
<1>2. CASE ~Unknown(h, f)
  <2>1. Does(c, Idle) /\ UNCHANGED <<row, users, imports, tokens, early>>
    BY <1>0, <1>1, <1>2 DEF Register
  <2>2. OthersWait(c) /\ ~Active(c)'
    BY <2>1 DEF Does, OthersWait, TypeOK, Active, Idle
  <2> QED BY <1>1, <2>1, <2>2, UnheardGoesOn
<1>3. CASE Unknown(h, f)
  <2> DEFINE t == tokens + 1
             x == [at |-> h, of |-> f, token |-> t]
  <2>1. /\ t \in Tokens /\ tokens' = t
        /\ row' = [row EXCEPT ![h][f] = t]
        /\ imports' = imports \cup {x}
        /\ call' = [call EXCEPT ![c] = [call[c] EXCEPT !.step = "answered", !.token = t]]
    BY <1>0, <1>1, <1>3, BoundAssumption DEF Register, Does, TypeOK, Tokens
  <2>2. OnlyRow(h, f, t)
    <3>1. t \in Tokens \cup {None}
      BY <2>1
    <3> HIDE DEF t
    <3> QED BY <2>1, <3>1, Entry
  <2>3. OthersWait(c) /\ call'[c] = [call[c] EXCEPT !.step = "answered", !.token = t]
    BY <2>1 DEF OthersWait, TypeOK
  <2>4. /\ call'[c].from = f /\ Host(c)' = h /\ call'[c].token = t
        /\ call'[c].step = "answered" /\ call'[c].waits
    BY <1>0, <1>1, <2>3 DEF Flight, Host
  <2>5. t # None /\ tokens < t /\ row[h][f] = None
    BY <1>3, <2>1 DEF Tokens, None, TypeOK, Unknown
  <2>6. x \in imports' /\ \A y \in imports : y \in imports'
    BY <2>1
  <2>7. x.at = h /\ x.of = f /\ x.token = t
    OBVIOUS
  <2>8. imports' \subseteq imports \cup {x}
    BY <2>1
  <2> HIDE DEF t, x
  <2>9. ASSUME NEW d \in Call, Active(d)' PROVE Heard(d)'
    <3>1. CASE d = c
      BY <2>2, <2>4, <2>6, <2>7, <3>1 DEF Heard, OnlyRow, Importing
    <3>2. CASE d # c
      <4>1. call'[d] = call[d] /\ Active(d) /\ Heard(d) /\ Host(d)' = Host(d)
        BY <2>3, <2>9, <3>2 DEF OthersWait, Active, UsersComing, Host
      <4>2. call[d].from \in Server /\ Host(d) \in Server
        BY <4>1, ActiveFlight
      <4>3. ASSUME call[d].step = "answered"
            PROVE  /\ row'[Host(d)][call[d].from] = call[d].token
                   /\ {Host(d), call[d].from} \in early \/ Importing(Host(d), call[d].from)'
        <5>1. call[d].token # None /\ row[Host(d)][call[d].from] = call[d].token
          BY <4>1, <4>3 DEF FlightInv, Heard
        <5>2. Host(d) # h \/ call[d].from # f
          BY <2>5, <5>1
        <5> QED BY <2>2, <2>6, <4>1, <4>2, <4>3, <5>1, <5>2 DEF OnlyRow, Heard, Importing
      <4> QED BY <1>1, <4>1, <4>3 DEF Heard, Importing
    <3> QED BY <3>1, <3>2
  <2>10. ASSUME NEW y \in imports' PROVE Refers(y)'
    <3>1. CASE y = x
      BY <2>2, <2>7, <3>1 DEF Refers, OnlyRow
    <3>2. CASE y \in imports
      <4>1. row[y.at][y.of] = y.token /\ y.at \in Server /\ y.of \in Server /\ y.token # None
        BY <3>2 DEF UsersComing, Refers, TypeOK, Tokens, None
      <4>2. y.at # h \/ y.of # f
        BY <2>5, <4>1
      <4> QED BY <2>2, <4>1, <4>2 DEF OnlyRow, Refers
    <3> QED BY <2>8, <2>10, <3>1, <3>2
  <2>11. ASSUME NEW s \in Server, NEW p \in Server PROVE Comes(s, p)'
    <3>1. /\ Comes(s, p) /\ Comes(f, h) /\ row[s][p] \in Nat /\ row[f][h] \in Nat /\ tokens \in Nat
          /\ row[s][p] <= tokens /\ row[f][h] <= tokens
      <4>1. Comes(s, p) /\ Comes(f, h)
        BY DEF UsersComing
      <4>2. row \in [Server -> [Server -> Nat]] /\ tokens \in Nat
        BY BoundAssumption DEF TypeOK, Tokens, None
      <4> QED BY <4>1, <4>2 DEF Comes
    <3>2. /\ row'[h][f] = t /\ row'[f][h] = row[f][h]
          /\ s # h \/ p # f => row'[s][p] = row[s][p]
          /\ p # h \/ s # f => row'[p][s] = row[p][s]
      <4>1. row'[h][f] = t /\ \A y, z \in Server : y # h \/ z # f => row'[y][z] = row[y][z]
        BY <2>2 DEF OnlyRow
      <4> QED BY <1>1, <4>1
    <3>3. row'[s][p] <= tokens'
      <4>1. t \in Nat /\ tokens' = t
        BY <2>1 DEF Tokens
      <4> QED BY <2>5, <3>1, <3>2, <4>1
    <3>4. ASSUME row'[s][p] # None, row'[p][s] = None
          PROVE  \E d \in Call : call'[d].step = "answered" /\ call'[d].from = p /\ Host(d)' = s
      <4>1. CASE s = h /\ p = f
        BY <2>4, <4>1
      <4>2. CASE ~(s = h /\ p = f)
        <5>1. row[s][p] # None /\ row[p][s] = None
          BY <2>5, <3>2, <3>4, <4>2
        <5>2. PICK d \in Call : call[d].step = "answered" /\ call[d].from = p /\ Host(d) = s
          BY <3>1, <5>1 DEF Comes
        <5>3. d # c
          BY <1>1, <5>2
        <5> QED BY <2>3, <5>2, <5>3 DEF OthersWait, Host
      <4> QED BY <4>1, <4>2
    <3>5. ASSUME s # p, Peers(s, p)'
          PROVE  p \in users'[s] \/ {s, p} \in early' \/ Sharing(s, p)' \/ Importing(s, p)'
      <4>1. ~(s = h /\ p = f) /\ ~(s = f /\ p = h)
        BY <2>5, <3>1, <3>2, <3>5 DEF Peers
      <4>2. Peers(s, p)
        BY <3>2, <3>5, <4>1 DEF Peers
      <4>3. p \in users[s] \/ {s, p} \in early \/ Sharing(s, p) \/ Importing(s, p)
        BY <3>1, <3>5, <4>2 DEF Comes
      <4>4. Sharing(s, p) => Sharing(s, p)'
        BY <1>1, <2>3 DEF Sharing, OthersWait, Host
      <4>5. Importing(s, p) => Importing(s, p)'
        BY <2>6 DEF Importing
      <4> QED BY <1>1, <4>3, <4>4, <4>5
    <3> QED BY <3>3, <3>4, <3>5 DEF Comes
  <2> QED BY <2>9, <2>10, <2>11 DEF UsersComing
<1> QED BY <1>2, <1>3

LEMMA StoreComes ==
    ASSUME TypeOK, FlightInv, UsersComing, NEW c \in Call, Store(c)
    PROVE  UsersComing'
<1>0. PICK f \in Server, h \in Server : f = call[c].from /\ h = Host(c)
  BY ActiveFlight DEF Store, Active
<1>1. /\ Active(c) /\ f # h /\ call[c] \in Flight /\ call[c].step = "answered"
      /\ call[c].waits /\ UNCHANGED <<users, imports, tokens, early>>
      /\ row[h][f] = call[c].token /\ call[c].token # None
      /\ {h, f} \in early \/ Importing(h, f)
  BY <1>0, ActiveFlight DEF Store, Active, FlightInv, UsersComing, Heard, counters, ghosts
<1>2. CASE row[f][h] # None
  <2>1. UNCHANGED row /\ OthersWait(c) /\ call'[c] = Idle
    BY <1>0, <1>2 DEF Store, Does, OthersWait, TypeOK
  <2>2. call'[c].step = "idle"
    BY <2>1 DEF Idle
  <2>3. ASSUME NEW d \in Call, Active(d)' PROVE Heard(d)'
    <3>1. d # c
      BY <2>2, <2>3 DEF Active
    <3> QED BY <1>1, <2>1, <2>3, <3>1 DEF OthersWait, UsersComing, Active, Heard, Host, Importing
  <2>4. \A x \in imports' : Refers(x)'
    BY <1>1, <2>1 DEF UsersComing, Refers
  <2>5. ASSUME NEW s \in Server, NEW p \in Server PROVE Comes(s, p)'
    <3>1. Comes(s, p)
      BY DEF UsersComing
    <3>2. \A d \in Call : d # c => call'[d] = call[d]
      BY <2>1 DEF OthersWait
    <3>3. row[p][s] = None => ~(call[c].from = p /\ Host(c) = s)
      BY <1>0, <1>2
    <3>4. call[c].step # "stored"
      BY <1>1
    <3> QED BY <1>1, <2>1, <3>1, <3>2, <3>3, <3>4 DEF Comes, Peers, Sharing, Importing, Host
  <2> QED BY <2>3, <2>4, <2>5 DEF UsersComing
<1>3. CASE row[f][h] = None
  <2> DEFINE t == call[c].token
  <2>1. /\ row' = [row EXCEPT ![f][h] = t]
        /\ call' = [call EXCEPT ![c] = [call[c] EXCEPT !.step = "stored"]]
    BY <1>0, <1>3 DEF Store, Steps, Does
  <2>2. OnlyRow(f, h, t)
    <3>1. t \in Tokens \cup {None}
      BY <1>1 DEF Flight
    <3> QED BY <2>1, <3>1, Entry
  <2>3. OthersWait(c) /\ call'[c] = [call[c] EXCEPT !.step = "stored"]
    BY <2>1 DEF OthersWait, TypeOK
  <2>4. call'[c].from = f /\ Host(c)' = h /\ call'[c].step = "stored" /\ call'[c].waits
    BY <1>0, <1>1, <2>3 DEF Flight, Host
  <2> HIDE DEF t
  <2>5. t # None /\ row[h][f] = t
    BY <1>1 DEF t
  <2>9. ASSUME NEW d \in Call, Active(d)' PROVE Heard(d)'
    <3>1. CASE d = c
      BY <2>4, <3>1 DEF Heard
    <3>2. CASE d # c
      <4>1. call'[d] = call[d] /\ Active(d) /\ Heard(d) /\ Host(d)' = Host(d)
        BY <2>3, <2>9, <3>2 DEF OthersWait, Active, UsersComing, Host
      <4>2. call[d].from \in Server /\ Host(d) \in Server
        BY <4>1, ActiveFlight
      <4>3. ASSUME call[d].step = "answered"
            PROVE  /\ row'[Host(d)][call[d].from] = call[d].token
                   /\ {Host(d), call[d].from} \in early \/ Importing(Host(d), call[d].from)'
        <5>1. call[d].token # None /\ row[Host(d)][call[d].from] = call[d].token
          BY <4>1, <4>3 DEF FlightInv, Heard
        <5>2. Host(d) # f \/ call[d].from # h
          BY <1>3, <5>1
        <5> QED BY <1>1, <2>2, <4>1, <4>2, <4>3, <5>1, <5>2 DEF OnlyRow, Heard, Importing
      <4> QED BY <1>1, <4>1, <4>3 DEF Heard, Importing
    <3> QED BY <3>1, <3>2
  <2>10. ASSUME NEW y \in imports' PROVE Refers(y)'
    <3>1. row[y.at][y.of] = y.token /\ y.at \in Server /\ y.of \in Server /\ y.token # None
      BY <1>1, <2>10 DEF UsersComing, Refers, TypeOK, Tokens, None
    <3>2. y.at # f \/ y.of # h
      BY <1>3, <3>1
    <3> QED BY <2>2, <3>1, <3>2 DEF OnlyRow, Refers
  <2>11. ASSUME NEW s \in Server, NEW p \in Server PROVE Comes(s, p)'
    <3>1. /\ Comes(s, p) /\ row[s][p] <= tokens /\ row[h][f] <= tokens
      BY DEF UsersComing, Comes
    <3>2. /\ row'[f][h] = t /\ row'[h][f] = t
          /\ s # f \/ p # h => row'[s][p] = row[s][p]
          /\ p # f \/ s # h => row'[p][s] = row[p][s]
      BY <1>1, <2>2, <2>5 DEF OnlyRow
    <3>3. row'[s][p] <= tokens'
      BY <1>1, <2>5, <3>1, <3>2
    <3>4. ASSUME row'[s][p] # None, row'[p][s] = None
          PROVE  \E d \in Call : call'[d].step = "answered" /\ call'[d].from = p /\ Host(d)' = s
      <4>1. ~(s = f /\ p = h) /\ ~(s = h /\ p = f)
        BY <2>5, <3>2, <3>4
      <4>2. row[s][p] # None /\ row[p][s] = None
        BY <3>2, <3>4, <4>1
      <4>3. PICK d \in Call : call[d].step = "answered" /\ call[d].from = p /\ Host(d) = s
        BY <3>1, <4>2 DEF Comes
      <4>4. d # c
        BY <1>0, <4>1, <4>3
      <4> QED BY <2>3, <4>3, <4>4 DEF OthersWait, Host
    <3>5. ASSUME s # p, Peers(s, p)'
          PROVE  p \in users'[s] \/ {s, p} \in early' \/ Sharing(s, p)' \/ Importing(s, p)'
      <4>1. CASE s = f /\ p = h
        BY <2>4, <4>1 DEF Sharing
      <4>2. CASE s = h /\ p = f
        BY <1>1, <4>2 DEF Importing
      <4>3. CASE ~(s = h /\ p = f) /\ ~(s = f /\ p = h)
        <5>1. Peers(s, p)
          BY <3>2, <3>5, <4>3 DEF Peers
        <5>2. p \in users[s] \/ {s, p} \in early \/ Sharing(s, p) \/ Importing(s, p)
          BY <3>1, <3>5, <5>1 DEF Comes
        <5>3. Sharing(s, p) => Sharing(s, p)'
          BY <1>1, <2>3 DEF Sharing, OthersWait, Host
        <5> QED BY <1>1, <5>2, <5>3 DEF Importing
      <4> QED BY <4>1, <4>2, <4>3
    <3> QED BY <3>3, <3>4, <3>5 DEF Comes
  <2> QED BY <2>9, <2>10, <2>11 DEF UsersComing
<1> QED BY <1>2, <1>3

LEMMA ShareComes ==
    ASSUME TypeOK, FlightInv, UsersComing, NEW c \in Call, Share(c)
    PROVE  UsersComing'
<1>0. PICK f \in Server, h \in Server : f = call[c].from /\ h = Host(c)
  BY ActiveFlight DEF Share, Active
<1>1. /\ call[c].step = "stored" /\ OthersWait(c) /\ call'[c].step = "idle"
      /\ UNCHANGED <<row, imports, tokens, early>>
      /\ users' = IF Answers(f, h) THEN [users EXCEPT ![f] = @ \cup {h}] ELSE users
  BY <1>0 DEF Share, Does, OthersWait, TypeOK, Idle, counters, ghosts
<1>2. /\ \A s \in Server : users[s] \subseteq users'[s]
      /\ Answers(f, h) => h \in users'[f]
  BY <1>1 DEF TypeOK
<1>3. ASSUME NEW d \in Call, Active(d)' PROVE Heard(d)'
  <2>1. d # c
    BY <1>1, <1>3 DEF Active
  <2> QED BY <1>1, <1>3, <2>1 DEF OthersWait, UsersComing, Active, Heard, Host, Importing
<1>4. \A x \in imports' : Refers(x)'
  BY <1>1 DEF UsersComing, Refers
<1>5. ASSUME NEW s \in Server, NEW p \in Server PROVE Comes(s, p)'
  <2>1. Comes(s, p) /\ \A d \in Call : d # c => call'[d] = call[d]
    BY <1>1 DEF UsersComing, OthersWait
  <2>2. row'[s][p] <= tokens' /\ (Peers(s, p)' <=> Peers(s, p))
    BY <1>1, <2>1 DEF Comes, Peers
  <2>3. row'[s][p] # None /\ row'[p][s] = None =>
            \E d \in Call : call'[d].step = "answered" /\ call'[d].from = p /\ Host(d)' = s
    BY <1>1, <2>1 DEF Comes, Host
  <2>4. ASSUME s # p, Peers(s, p)
        PROVE  p \in users'[s] \/ {s, p} \in early' \/ Sharing(s, p)' \/ Importing(s, p)'
    <3>1. p \in users[s] \/ {s, p} \in early \/ Sharing(s, p) \/ Importing(s, p)
      BY <2>1, <2>4 DEF Comes
    <3>2. ASSUME Sharing(s, p) PROVE p \in users'[s] \/ Sharing(s, p)'
      <4>1. PICK d \in Call : call[d].step = "stored" /\ call[d].from = s /\ Host(d) = p
        BY <3>2 DEF Sharing
      <4>2. CASE d = c
        BY <1>0, <1>2, <2>4, <4>1, <4>2 DEF Answers, Admits, Peers
      <4>3. CASE d # c
        BY <2>1, <4>1, <4>3 DEF Sharing, Host
      <4> QED BY <4>2, <4>3
    <3> QED BY <1>1, <1>2, <3>1, <3>2 DEF Importing
  <2> QED BY <2>2, <2>3, <2>4 DEF Comes
<1> QED BY <1>3, <1>4, <1>5 DEF UsersComing

LEMMA ImportComes ==
    ASSUME TypeOK, FlightInv, UsersComing, NEW x \in imports, Import(x)
    PROVE  UsersComing'
<1>1. /\ imports' = imports \ {x} /\ UNCHANGED <<row, call, tokens>>
      /\ users' = IF Admits(x.of, x.at, x.token) /\ Refers(x)
                  THEN [users EXCEPT ![x.at] = @ \cup {x.of}] ELSE users
      /\ early' = IF \E c \in Call : call[c].step = "answered" /\ Joins(c, {x.at, x.of})
                  THEN early \cup {{x.at, x.of}} ELSE early
  BY DEF Import, counters
<1>2. x.at \in Server /\ x.of \in Server /\ x.token # None /\ Refers(x)
  BY DEF TypeOK, Tokens, None, UsersComing
<1>3. /\ early \subseteq early' /\ \A s \in Server : users[s] \subseteq users'[s]
      /\ Admits(x.of, x.at, x.token) => x.of \in users'[x.at]
  BY <1>1, <1>2 DEF TypeOK
<1>4. \A s, p \in Server : Importing(s, p) => Importing(s, p)' \/ (s = x.at /\ p = x.of)
  BY <1>1 DEF Importing
<1>5. ASSUME NEW d \in Call, Active(d)' PROVE Heard(d)'
  <2>1. Active(d) /\ Heard(d) /\ Host(d)' = Host(d) /\ call'[d] = call[d]
    BY <1>1, <1>5 DEF Active, UsersComing, Host
  <2>2. call[d].from \in Server /\ Host(d) \in Server
    BY <2>1, ActiveFlight
  <2>3. ASSUME call[d].step = "answered"
        PROVE  {Host(d), call[d].from} \in early' \/ Importing(Host(d), call[d].from)'
    <3>1. CASE Host(d) = x.at /\ call[d].from = x.of
      BY <1>1, <2>3, <3>1 DEF Joins
    <3>2. CASE ~(Host(d) = x.at /\ call[d].from = x.of)
      BY <1>3, <1>4, <2>1, <2>2, <2>3, <3>2 DEF Heard
    <3> QED BY <3>1, <3>2
  <2> QED BY <1>1, <2>1, <2>3 DEF Heard, Importing
<1>6. \A y \in imports' : Refers(y)'
  BY <1>1 DEF UsersComing, Refers
<1>7. ASSUME NEW s \in Server, NEW p \in Server PROVE Comes(s, p)'
  <2>1. Comes(s, p)
    BY DEF UsersComing
  <2>2. /\ row'[s][p] <= tokens' /\ (Peers(s, p)' <=> Peers(s, p)) /\ (Sharing(s, p)' <=> Sharing(s, p))
        /\ row'[s][p] # None /\ row'[p][s] = None =>
             \E d \in Call : call'[d].step = "answered" /\ call'[d].from = p /\ Host(d)' = s
    BY <1>1, <2>1 DEF Comes, Peers, Sharing, Host
  <2>3. ASSUME s # p, Peers(s, p)
        PROVE  p \in users'[s] \/ {s, p} \in early' \/ Sharing(s, p)' \/ Importing(s, p)'
    <3>1. p \in users[s] \/ {s, p} \in early \/ Sharing(s, p) \/ Importing(s, p)
      BY <2>1, <2>3 DEF Comes
    <3>2. s = x.at /\ p = x.of => p \in users'[s]
      BY <1>2, <1>3, <2>3 DEF Peers, Admits, Refers
    <3> QED BY <1>3, <1>4, <2>2, <3>1, <3>2
  <2> QED BY <2>2, <2>3 DEF Comes
<1> QED BY <1>5, <1>6, <1>7 DEF UsersComing

LEMMA InitUsers == Init => UsersInv
BY DEF Init, UsersInv, UsersComing, Comes, Peers, Heard, Active, Idle, None

LEMMA NextUsers == TypeOK /\ FlightInv /\ UsersInv /\ [Next]_vars => UsersInv'
<1> SUFFICES ASSUME TypeOK, FlightInv, UsersInv, [Next]_vars, faults' = 0, deletes' = 0
             PROVE  UsersComing'
  BY DEF UsersInv
<1>1. faults \in Nat /\ deletes \in Nat
  BY BoundAssumption DEF TypeOK
<1>2. CASE UNCHANGED vars
  <2>1. UsersComing
    BY <1>2 DEF UsersInv, vars
  <2> QED BY <1>2, <2>1 DEF vars, UsersComing, Heard, Comes, Peers, Sharing, Importing, Refers, Active, Host
<1>3. ASSUME NEW c \in Call, NEW s \in Server, NEW i \in Invite, Connect(c, s, i) PROVE UsersComing'
  <2>1. /\ UsersComing /\ UNCHANGED <<row, users, imports, tokens, early>>
        /\ call[c].step = "idle" /\ OthersWait(c)
        /\ call'[c] = [step |-> "sent", from |-> s, invite |-> i, token |-> None, waits |-> TRUE]
    BY <1>3 DEF Connect, UsersInv, counters, Idle, OthersWait, Does, TypeOK
  <2>2. call'[c].waits /\ call'[c].step = "sent"
    BY <2>1
  <2> QED BY <2>1, <2>2, UnheardGoesOn
<1>4. ASSUME NEW c \in Call, Check(c) \/ Count(c) PROVE UsersComing'
  <2>1. /\ UsersComing /\ UNCHANGED <<row, users, imports, tokens, early>>
        /\ call[c].step \in {"sent", "checked"} /\ OthersWait(c) /\ Active(c)
        /\ \/ call'[c] = Idle
           \/ \E st \in {"checked", "counted"} : call'[c] = [call[c] EXCEPT !.step = st]
    BY <1>4 DEF Check, Count, UsersInv, counters, ghosts, OthersWait, Does, Steps, TypeOK, Active
  <2>2. call[c] \in Flight /\ call[c].waits
    BY <2>1, ActiveFlight DEF UsersComing, Heard
  <2>3. Active(c)' => call'[c].waits /\ call'[c].step \notin {"answered", "stored"}
    BY <2>1, <2>2 DEF Active, Idle, Flight
  <2> QED BY <2>1, <2>3, UnheardGoesOn
<1>5. ASSUME NEW c \in Call, Register(c) PROVE UsersComing'
  BY <1>5, RegisterComes DEF UsersInv, Register
<1>6. ASSUME NEW c \in Call, Store(c) PROVE UsersComing'
  BY <1>6, StoreComes DEF UsersInv, Store, counters
<1>7. ASSUME NEW c \in Call, Share(c) PROVE UsersComing'
  BY <1>7, ShareComes DEF UsersInv, Share, counters
<1>8. ASSUME NEW x \in imports, Import(x) PROVE UsersComing'
  BY <1>8, ImportComes DEF UsersInv, Import, counters
<1>9. ~Fault /\ \A s, p \in Server : ~Delete(s, p)
  BY <1>1 DEF Fault, Delete
<1> QED
  BY <1>2, <1>3, <1>4, <1>5, <1>6, <1>7, <1>8, <1>9 DEF Next, LoseCall, LoseImport, Crash

\* While no message is lost and nobody is disconnected, AdminConnectFederation
\* and the goroutine of HandleJoinInvite leave no pair of peers that accept each
\* other and have not fetched each other's users, but for a goroutine that asked
\* before the joining side had stored its row.
THEOREM PeersKnowUsers == Spec => []UsersKnown
<1>1. Init => TypeOK /\ FlightInv /\ UsersInv
  BY InitTypes, InitFlight, InitUsers
<1>2. TypeOK /\ FlightInv /\ UsersInv /\ [Next]_vars => (TypeOK /\ FlightInv /\ UsersInv)'
  BY NextTypes, NextFlight, NextUsers
<1>3. UsersInv => UsersKnown
  <2> SUFFICES ASSUME UsersInv, NEW s \in Server, NEW p \in Server, Quiet(s, p),
                      faults = 0, deletes = 0, s # p, Admits(p, s, row[s][p])
               PROVE  p \in users[s] \/ {s, p} \in early
    BY DEF UsersKnown
  <2>1. Comes(s, p) /\ Peers(s, p)
    BY DEF UsersInv, UsersComing, Admits, Peers
  <2>2. ~Sharing(s, p)
    BY DEF Sharing, Quiet, Joins
  <2>3. ~Importing(s, p)
    BY DEF Importing, Quiet
  <2> QED BY <2>1, <2>2, <2>3 DEF Comes
<1> QED
  BY <1>1, <1>2, <1>3, PTL DEF Spec
=============================================================================
