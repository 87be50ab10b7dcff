--------------------------- MODULE FederationJoin ---------------------------
(***************************************************************************)
(* How two servers become peers: the administrator of one redeems an       *)
(* invite of the other (AdminConnectFederation), the other counts the use, *)
(* makes a token and a row (HandleJoinInvite), and the first stores the    *)
(* answer; then each fetches the other's users once.                       *)
(*                                                                         *)
(* A row is its token: tokens are never made twice.  Rows are active here; *)
(* blocking and pings are FederationDelivery's.  An invite has not expired, *)
(* versions are compatible, and nobody redeems an invite of their own      *)
(* server.  Gossip and recovery are not here: nothing calls them.          *)
(***************************************************************************)
EXTENDS Naturals, FiniteSets

CONSTANTS
    Server,
    Invite,
    IssuedBy,   \* the server of an invite
    MaxUses,    \* max_uses; 0 is no limit
    Call,       \* calls of AdminConnectFederation at one time
    MaxTokens,  \* bound: rows made for joining servers
    MaxFaults,  \* bound: lost messages and crashes
    MaxDeletes  \* bound: peers disconnected

ASSUME InviteAssumption == IssuedBy \in [Invite -> Server] /\ MaxUses \in Nat
ASSUME BoundAssumption == MaxTokens \in Nat /\ MaxFaults \in Nat /\ MaxDeletes \in Nat
                          /\ IsFiniteSet(Call)

VARIABLES
    row,      \* federation_servers: per server and peer, the server_token
    users,    \* federation_users: the peers whose users a server has
    uses,     \* use_count
    call,     \* the calls, each with the handler it started
    imports,  \* HandleJoinInvite's goroutines
    tokens, faults, deletes,
    admitted, \* ghost: the rows an invite has made
    uneven,   \* ghost: pairs that joined each other at once, that joined while the
              \* joining side held a row, or that lost a row during a join
    early     \* ghost: pairs whose users were fetched before the joining side had its row

vars == <<row, users, uses, call, imports, tokens, faults, deletes, admitted, uneven, early>>
counters == <<tokens, faults, deletes>>
ghosts == <<admitted, uneven, early>>

None == 0
Tokens == 1..MaxTokens
Pairs == {{s, p} : s, p \in Server}
Idle == [step |-> "idle"]
Flight == [step : {"sent", "checked", "counted", "answered", "stored"}, from : Server,
           invite : Invite, token : Tokens \cup {None}, waits : BOOLEAN]

TypeOK ==
    /\ row \in [Server -> [Server -> Tokens \cup {None}]]
    /\ users \in [Server -> SUBSET Server]
    /\ uses \in [Invite -> Nat]
    /\ call \in [Call -> Flight \cup {Idle}]
    /\ imports \subseteq [at : Server, of : Server, token : Tokens]
    /\ tokens \in 0..MaxTokens /\ faults \in 0..MaxFaults /\ deletes \in 0..MaxDeletes
    /\ admitted \in [Invite -> Nat]
    /\ uneven \subseteq Pairs /\ early \subseteq Pairs
    /\ \A s, p \in Server : p \in users[s] => row[s][p] # None  \* the foreign key

Init ==
    /\ row = [s \in Server |-> [p \in Server |-> None]]
    /\ users = [s \in Server |-> {}]
    /\ uses = [i \in Invite |-> 0]
    /\ call = [c \in Call |-> Idle]
    /\ imports = {}
    /\ tokens = 0 /\ faults = 0 /\ deletes = 0
    /\ admitted = [i \in Invite |-> 0]
    /\ uneven = {} /\ early = {}

Does(c, r) == call' = [call EXCEPT ![c] = r]
Steps(c, s) == Does(c, [call[c] EXCEPT !.step = s])
Host(c) == IssuedBy[call[c].invite]
Joins(c, pair) == call[c].step # "idle" /\ {call[c].from, Host(c)} = pair

-----------------------------------------------------------------------------
(* The join                                                                *)

\* AdminConnectFederation up to its request.
Connect(c, s, i) ==
    LET p == IssuedBy[i]
        joins == {d \in Call : Joins(d, {s, p})}
    IN /\ call[c] = Idle /\ p # s
       /\ Does(c, [step |-> "sent", from |-> s, invite |-> i, token |-> None, waits |-> TRUE])
       /\ uneven' = IF row[s][p] # None \/ \E d \in joins : call[d].from = p THEN uneven \cup {{s, p}}
                    ELSE IF row[p][s] = None /\ joins = {} THEN uneven \ {{s, p}} ELSE uneven
       /\ UNCHANGED <<row, users, uses, imports, counters, admitted, early>>

\* Mutant: the limit is not asked for.
NoLimit(i) == TRUE

HasUses(i) == MaxUses = 0 \/ uses[i] < MaxUses

\* HandleJoinInvite looks the invite up.
Check(c) ==
    /\ call[c].step = "sent"
    /\ IF HasUses(call[c].invite) THEN Steps(c, "checked") ELSE Does(c, Idle)
    /\ UNCHANGED <<row, users, uses, imports, counters, ghosts>>

\* The use counts, whatever comes of it.
Count(c) ==
    /\ call[c].step = "checked" /\ Steps(c, "counted")
    /\ uses' = [uses EXCEPT ![call[c].invite] = @ + 1]
    /\ UNCHANGED <<row, users, imports, counters, ghosts>>

\* Mutant: a server that is known already gets a new token.
Reissues(s, p) == TRUE

Unknown(s, p) == row[s][p] = None

\* A server that is known, by the SELECT or by UNIQUE(base_url), is refused; any
\* other gets a row and a token.  The caller may no longer be there to hear it.
Register(c) ==
    /\ call[c].step = "counted"
    /\ IF Unknown(Host(c), call[c].from)
       THEN /\ tokens < MaxTokens /\ tokens' = tokens + 1
            /\ row' = [row EXCEPT ![Host(c)][call[c].from] = tokens']
            /\ imports' = imports \cup {[at |-> Host(c), of |-> call[c].from, token |-> tokens']}
            /\ admitted' = [admitted EXCEPT ![call[c].invite] = @ + 1]
            /\ Does(c, IF call[c].waits THEN [call[c] EXCEPT !.step = "answered", !.token = tokens'] ELSE Idle)
       ELSE Does(c, Idle) /\ UNCHANGED <<tokens, row, imports, admitted>>
    /\ UNCHANGED <<users, uses, faults, deletes, uneven, early>>

\* The answer is stored, or UNIQUE(base_url) refuses it.
Store(c) ==
    LET s == call[c].from
    IN /\ call[c].step = "answered"
       /\ IF row[s][Host(c)] = None
          THEN row' = [row EXCEPT ![s][Host(c)] = call[c].token] /\ Steps(c, "stored")
          ELSE Does(c, Idle) /\ UNCHANGED row
       /\ UNCHANGED <<users, uses, imports, counters, ghosts>>

-----------------------------------------------------------------------------
(* The users of the other side                                             *)

\* AuthMiddleware lets a request of s with a token through at p.
Admits(p, s, token) == token # None /\ row[p][s] = token

\* Mutant: the joining side leaves it to the other to ask.
NeverAsks(s, p) == FALSE

Answers(s, p) == Admits(p, s, row[s][p])

\* AdminConnectFederation's request for them.
Share(c) ==
    LET s == call[c].from
    IN /\ call[c].step = "stored" /\ Does(c, Idle)
       /\ users' = IF Answers(s, Host(c)) THEN [users EXCEPT ![s] = @ \cup {Host(c)}] ELSE users
       /\ UNCHANGED <<row, uses, imports, counters, ghosts>>

Refers(x) == row[x.at][x.of] = x.token

\* HandleJoinInvite's goroutine, half a second later: the joining side answers if
\* it has the row by now, and a row that is gone takes no users.
Import(x) ==
    /\ x \in imports /\ imports' = imports \ {x}
    /\ users' = IF Admits(x.of, x.at, x.token) /\ Refers(x)
                THEN [users EXCEPT ![x.at] = @ \cup {x.of}] ELSE users
    /\ early' = IF \E c \in Call : call[c].step = "answered" /\ Joins(c, {x.at, x.of})
                THEN early \cup {{x.at, x.of}} ELSE early
    /\ UNCHANGED <<row, uses, call, counters, admitted, uneven>>

-----------------------------------------------------------------------------
(* Faults and the administrator                                            *)

Fault == faults < MaxFaults /\ faults' = faults + 1

\* The request is lost, the caller gives up on a handler that runs on, or the
\* answer is lost.
LoseCall(c) ==
    /\ Fault
    /\ \/ call[c].step \in {"sent", "answered", "stored"} /\ Does(c, Idle)
       \/ /\ call[c].step \in {"sent", "checked", "counted"} /\ call[c].waits
          /\ Does(c, [call[c] EXCEPT !.waits = FALSE])
    /\ UNCHANGED <<row, users, uses, imports, tokens, deletes, ghosts>>

LoseImport(x) ==
    /\ Fault /\ x \in imports /\ imports' = imports \ {x}
    /\ UNCHANGED <<row, users, uses, call, tokens, deletes, ghosts>>

\* A server stops: its handlers, its calls and its goroutines with it.  A caller
\* whose peer stops hears an error.
Crash(s) ==
    LET stops(c) == \/ call[c].step \in {"sent", "checked", "counted"} /\ Host(c) = s
                    \/ call[c].step \in {"answered", "stored"} /\ call[c].from = s
    IN /\ Fault
       /\ call' = [c \in Call |-> CASE stops(c) -> Idle
                                    [] ~stops(c) /\ call[c].step \in {"sent", "checked", "counted"}
                                         /\ call[c].from = s -> [call[c] EXCEPT !.waits = FALSE]
                                    [] OTHER -> call[c]]
       /\ imports' = {x \in imports : x.at # s}
       /\ UNCHANGED <<row, users, uses, tokens, deletes, ghosts>>

\* AdminDeleteFederationServer: the users go; the row goes too, unless messages,
\* posts or sticker packs refer to it, which nobody is told.
Delete(s, p) ==
    /\ deletes < MaxDeletes /\ row[s][p] # None
    /\ deletes' = deletes + 1
    /\ users' = [users EXCEPT ![s] = @ \ {p}]
    /\ row' \in {row, [row EXCEPT ![s][p] = None]}
    /\ uneven' = IF \E c \in Call : Joins(c, {s, p}) THEN uneven \cup {{s, p}} ELSE uneven
    /\ UNCHANGED <<uses, call, imports, tokens, faults, admitted, early>>

Next ==
    \/ \E c \in Call :
         \/ \E s \in Server, i \in Invite : Connect(c, s, i)
         \/ Check(c) \/ Count(c) \/ Register(c) \/ Store(c) \/ Share(c) \/ LoseCall(c)
    \/ \E x \in imports : Import(x) \/ LoseImport(x)
    \/ \E s \in Server : Crash(s)
    \/ \E s, p \in Server : Delete(s, p)

Spec == Init /\ [][Next]_vars

-----------------------------------------------------------------------------
(* Properties                                                              *)

\* Two servers that hold a row of each other hold one token, so that each admits
\* the other, unless both redeemed an invite at once, the joining side still held a
\* row of a peer that had deleted it, or one deleted the other during a join.  A
\* lost answer and a second try do not do it.
TokensAgree ==
    \A s, p \in Server : row[s][p] # None /\ row[p][s] # None => row[s][p] = row[p][s] \/ {s, p} \in uneven

\* An invite makes no more peers than uses it counts, and counts no more above
\* its limit than there are calls to pass the check at one time.
InviteBound ==
    \A i \in Invite : /\ admitted[i] <= uses[i]
                      /\ MaxUses > 0 => uses[i] < MaxUses + Cardinality(Call)

\* No call or goroutine is at work between the two.
Quiet(s, p) == /\ \A c \in Call : ~Joins(c, {s, p})
               /\ \A x \in imports : {x.at, x.of} # {s, p}

\* Without faults and deletions, peers have each other's users once the join is
\* through, unless one asked before the other had its row.
UsersKnown ==
    \A s, p \in Server :
        (Quiet(s, p) /\ faults = 0 /\ deletes = 0 /\ s # p /\ Admits(p, s, row[s][p]))
            => p \in users[s] \/ {s, p} \in early
=============================================================================
