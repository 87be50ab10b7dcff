------------------------- MODULE FederationDelivery -------------------------
(***************************************************************************)
(* How a message reaches another household's server: SendOrQueue with its  *)
(* quick attempt, the queue table with its two kinds of drain, the health  *)
(* checker that decides which peers are active, and the receiving side.    *)
(* backend/federation: queue.go, health.go, transport.go, handler.go.      *)
(*                                                                         *)
(* Statuses, queue and messages are rows of SQLite and survive a crash;    *)
(* requests, batches and goroutines do not.  A request and its answer are  *)
(* separate steps, and the sender may give up between them.                *)
(***************************************************************************)
EXTENDS Integers, Sequences, FiniteSets, SequencesExt

CONSTANTS
    Server,        \* the households; every one runs this code
    Msg,           \* messages, each handed to SendOrQueue once
    From, To,      \* the servers of its sender and of its reader
    Poison,        \* messages whose INSERT always fails on the other side
    Worker,        \* goroutines that drain one server's queue
    Tick,          \* the one among them that the 30 s ticker runs
    Direct,        \* SendOrQueue itself, as the maker of a request
    NoCall,        \* no request is being made
    BatchSize,     \* LIMIT 50
    MaxAttempts,   \* max_attempts, 3 in the schema
    MaxFaults,     \* bound: failing statements and lost pings
    MaxLosses,     \* bound: requests whose sender gave up
    MaxCrashes,    \* bound: crashes of all servers together
    MaxBlocks      \* bound: an administrator's uses of block

ASSUME RouteAssumption ==
    /\ From \in [Msg -> Server] /\ To \in [Msg -> Server]
    /\ \A m \in Msg : From[m] # To[m]
ASSUME MsgAssumption == IsFiniteSet(Msg) /\ Poison \subseteq Msg
ASSUME WorkerAssumption ==
    /\ Tick \in Worker
    /\ Direct \notin Worker /\ NoCall \notin Worker /\ Direct # NoCall
ASSUME LimitAssumption ==
    /\ BatchSize \in Nat \ {0} /\ MaxAttempts \in Nat \ {0}
    /\ MaxFaults \in Nat /\ MaxLosses \in Nat /\ MaxCrashes \in Nat /\ MaxBlocks \in Nat

VARIABLES
    up,           \* servers whose process runs
    status,       \* status[a][b]: b's row in a's federation_servers
    pinged,       \* pinged[a][b]: what a's ping of b is about to write
    stage,        \* how far each message has come at its sender
    queue,        \* federation_queue of each server, oldest row first
    attempts,     \* the attempts column of a message's row
    batch,        \* batch[s][w]: the rows a drain has read and not yet tried
    woken,        \* servers with a drain started by a recovered ping
    call,         \* who waits for the answer to a request for the message
    answer,       \* that answer, once the other side has given it
    stray,        \* requests whose sender gave up, not yet handled
    inbox,        \* rows inserted into messages on the other side
    lostAnswers,  \* ghost: insertions the sender never heard of
    turnedAway,   \* ghost: messages answered 403
    faults, losses, crashes, blocks

peers == <<up, status, pinged>>
rows == <<stage, queue, attempts>>
drains == <<batch, woken>>
requests == <<call, answer, stray>>
received == <<inbox, lostAnswers, turnedAway>>
budget == <<faults, losses, crashes, blocks>>
vars == <<peers, rows, drains, requests, received, budget>>

\* What an answer can be: 201, 403, 500, or a broken connection.
Answer == {"created", "refused", "error", "reset"}
NoAnswer == "none"

Init ==
    /\ up = Server
    /\ status = [a \in Server |-> [b \in Server |-> "active"]]
    /\ pinged = [a \in Server |-> [b \in Server |-> "nothing"]]
    /\ stage = [m \in Msg |-> "unsent"]
    /\ queue = [s \in Server |-> << >>]
    /\ attempts = [m \in Msg |-> 0]
    /\ batch = [s \in Server |-> [w \in Worker |-> << >>]]
    /\ woken = {}
    /\ call = [m \in Msg |-> NoCall]
    /\ answer = [m \in Msg |-> NoAnswer]
    /\ stray = {}
    /\ inbox = [m \in Msg |-> 0]
    /\ lostAnswers = [m \in Msg |-> 0]
    /\ turnedAway = {}
    /\ faults = 0 /\ losses = 0 /\ crashes = 0 /\ blocks = 0

Fault == faults < MaxFaults /\ faults' = faults + 1
NoFault == UNCHANGED faults

Queued(s) == {queue[s][i] : i \in 1..Len(queue[s])}
ActivePeer(m) == status[From[m]][To[m]] = "active"

-----------------------------------------------------------------------------
(* Mutated forms of the operators below, for the sensitivity of the runs.  *)

KeepsRow(m) == queue[From[m]]

NoMutex(s) == TRUE

NeverRearms(s) == attempts

AnythingButSilence == Answer \ {"reset"}

-----------------------------------------------------------------------------
(* The sending side.                                                       *)

\* err == nil && resp.StatusCode < 500
Delivered == {"created", "refused"}

WithRow(m) == Append(queue[From[m]], m)

PlaceOf(m) == CHOOSE i \in 1..Len(queue[From[m]]) : queue[From[m]][i] = m

Without(m) ==
    IF m \in Queued(From[m]) THEN RemoveAt(queue[From[m]], PlaceOf(m)) ELSE queue[From[m]]

\* enqueue.  When the INSERT fails too SendOrQueue returns an error, which
\* none of its three callers looks at.
Enqueue(m) ==
    \/ /\ stage' = [stage EXCEPT ![m] = "queued"]
       /\ queue' = [queue EXCEPT ![From[m]] = WithRow(m)]
       /\ attempts' = [attempts EXCEPT ![m] = 0]
       /\ NoFault
    \/ /\ Fault
       /\ stage' = [stage EXCEPT ![m] = "failed"]
       /\ UNCHANGED <<queue, attempts>>

\* SendOrQueue.  getServerToken refuses a peer that is not active before any
\* request is made.
Send(m) ==
    /\ stage[m] = "unsent"
    /\ From[m] \in up
    /\ \/ /\ ActivePeer(m)
          /\ stage' = [stage EXCEPT ![m] = "sending"]
          /\ call' = [call EXCEPT ![m] = Direct]
          /\ UNCHANGED <<queue, attempts, faults>>
       \/ /\ ~ActivePeer(m)
          /\ Enqueue(m)
          /\ UNCHANGED call
    /\ UNCHANGED <<peers, drains, answer, stray, received,
                   losses, crashes, blocks>>

\* drainMu is free.
MutexFree(s) == \A w \in Worker : batch[s][w] = << >>

\* rearmExhausted.
Rearmed(s) ==
    [m \in Msg |->
        IF m \in Queued(s) /\ attempts[m] >= MaxAttempts /\ ActivePeer(m)
        THEN 0 ELSE attempts[m]]

\* The rows a drain may take, the oldest of them, and these in their order.
Eligible(s, tries) ==
    {i \in 1..Len(queue[s]) :
        tries[queue[s][i]] < MaxAttempts /\ ActivePeer(queue[s][i])}

Oldest(places) == {i \in places : Cardinality({j \in places : j < i}) < BatchSize}

InOrder(places) ==
    {f \in [1..Cardinality(places) -> places] : \A i, j \in DOMAIN f : i < j => f[i] < f[j]}

\* processPending up to the point where the batch has been read, as a tick or
\* as the goroutine a recovered ping has started.
DrainStart(s, w) ==
    /\ s \in up
    /\ w = Tick \/ s \in woken
    /\ batch[s][w] = << >>
    /\ MutexFree(s)
    /\ attempts' = Rearmed(s)
    /\ \E f \in InOrder(Oldest(Eligible(s, Rearmed(s)))) :
            batch' = [batch EXCEPT ![s][w] = [i \in DOMAIN f |-> queue[s][f[i]]]]
    /\ woken' = IF w = Tick THEN woken ELSE woken \ {s}
    /\ UNCHANGED <<peers, stage, queue, requests, received, budget>>

\* What a drain does with an item it could not deliver, and with one it could.
Failed(m, w) ==
    /\ attempts' = [attempts EXCEPT ![m] = @ + 1]
    /\ batch' = [batch EXCEPT ![From[m]][w] = Tail(@)]
    /\ UNCHANGED <<stage, queue>>

Settled(m, w) ==
    /\ stage' = [stage EXCEPT ![m] = "settled"]
    /\ queue' = [queue EXCEPT ![From[m]] = Without(m)]
    /\ batch' = [batch EXCEPT ![From[m]][w] = Tail(@)]
    /\ UNCHANGED attempts

\* processItem makes its request, or none if the peer is no longer active.
DrainSend(m, w) ==
    /\ From[m] \in up
    /\ batch[From[m]][w] # << >>
    /\ m = Head(batch[From[m]][w])
    /\ call[m] = NoCall
    /\ \/ /\ ActivePeer(m)
          /\ call' = [call EXCEPT ![m] = w]
          /\ answer' = [answer EXCEPT ![m] = NoAnswer]
          /\ UNCHANGED <<rows, batch>>
       \/ /\ ~ActivePeer(m)
          /\ Failed(m, w)
          /\ UNCHANGED <<call, answer>>
    /\ UNCHANGED <<peers, woken, stray, received, budget>>

\* The caller learns how its request ended.
Conclude(m, delivered) ==
    /\ call' = [call EXCEPT ![m] = NoCall]
    /\ answer' = [answer EXCEPT ![m] = NoAnswer]
    /\ \/ /\ call[m] = Direct
          /\ UNCHANGED batch
          /\ \/ /\ delivered
                /\ stage' = [stage EXCEPT ![m] = "settled"]
                /\ UNCHANGED <<queue, attempts, faults>>
             \/ /\ ~delivered
                /\ Enqueue(m)
       \/ /\ call[m] \in Worker
          /\ UNCHANGED faults
          /\ IF delivered THEN Settled(m, call[m]) ELSE Failed(m, call[m])

Return(m) ==
    /\ From[m] \in up
    /\ answer[m] # NoAnswer
    /\ Conclude(m, answer[m] \in Delivered)
    /\ UNCHANGED <<peers, woken, stray, received, losses, crashes, blocks>>

\* quickTimeout, the 30 s timeout, or a broken connection: the request, if it
\* is still on its way, may be handled later or never.
GiveUp(m) ==
    /\ From[m] \in up
    /\ call[m] # NoCall
    /\ answer[m] # "reset"
    /\ losses < MaxLosses
    /\ losses' = losses + 1
    /\ Conclude(m, FALSE)
    /\ IF answer[m] = NoAnswer THEN stray' \in {stray, stray \cup {m}}
       ELSE UNCHANGED stray
    /\ lostAnswers' = [lostAnswers EXCEPT ![m] =
            IF answer[m] = "created" THEN @ + 1 ELSE @]
    /\ UNCHANGED <<peers, woken, inbox, turnedAway, crashes, blocks>>

-----------------------------------------------------------------------------
(* The receiving side.                                                     *)

\* AuthMiddleware and HandleSendMessage: the row of the sending server must be
\* active here as well, and the INSERT must succeed.
Handle(m, code) ==
    /\ To[m] \in up
    /\ \/ /\ status[To[m]][From[m]] # "active"
          /\ code = "refused" /\ UNCHANGED inbox /\ NoFault
          /\ turnedAway' = turnedAway \cup {m}
       \/ /\ status[To[m]][From[m]] = "active"
          /\ UNCHANGED turnedAway
          /\ \/ /\ m \notin Poison
                /\ code = "created"
                /\ inbox' = [inbox EXCEPT ![m] = @ + 1]
                /\ NoFault
             \/ /\ m \in Poison
                /\ code = "error" /\ UNCHANGED inbox /\ NoFault
             \/ /\ code = "error" /\ UNCHANGED inbox /\ Fault

Serve(m) ==
    /\ call[m] # NoCall
    /\ answer[m] = NoAnswer
    /\ \E code \in Answer :
        /\ \/ Handle(m, code)
           \/ To[m] \notin up /\ code = "reset" /\ UNCHANGED <<inbox, turnedAway, faults>>
        /\ answer' = [answer EXCEPT ![m] = code]
    /\ UNCHANGED <<peers, rows, drains, call, stray, lostAnswers,
                   losses, crashes, blocks>>

\* A request is handled after its sender gave up on it.
ServeStray(m) ==
    /\ m \in stray
    /\ stray' = stray \ {m}
    /\ \E code \in Answer : Handle(m, code)
    /\ lostAnswers' = [lostAnswers EXCEPT ![m] = @ + inbox'[m] - inbox[m]]
    /\ UNCHANGED <<peers, rows, drains, call, answer, losses, crashes, blocks>>

-----------------------------------------------------------------------------
(* The health checker and the administrator.                               *)

\* pingOne up to its SELECT, when what it read is worth an UPDATE.  Any
\* answer below 500 is a success, the 403 of a peer that holds this server
\* inactive included.
PingAnswered(a, b) ==
    /\ a # b /\ a \in up /\ b \in up
    /\ pinged[a][b] = "nothing"
    /\ status[a][b] = "unreachable"
    /\ pinged' = [pinged EXCEPT ![a][b] = "recovered"]
    /\ UNCHANGED <<up, status, rows, drains, requests, received, budget>>

PingFails(a, b) ==
    /\ a # b /\ a \in up
    /\ pinged[a][b] = "nothing"
    /\ status[a][b] = "active"
    /\ pinged' = [pinged EXCEPT ![a][b] = "gone"]
    /\ \/ b \notin up /\ NoFault
       \/ b \in up /\ Fault
    /\ UNCHANGED <<up, status, rows, drains, requests, received, losses,
                   crashes, blocks>>

\* The UPDATE that follows, whatever the row says by then; on recovery also
\* DrainFailed and, if anything is pending, one more drain.
PingWrites(a, b) ==
    /\ a \in up
    /\ pinged[a][b] # "nothing"
    /\ pinged' = [pinged EXCEPT ![a][b] = "nothing"]
    /\ LET mine == {m \in Queued(a) : To[m] = b}
       IN \/ /\ pinged[a][b] = "recovered"
             /\ status' = [status EXCEPT ![a][b] = "active"]
             /\ attempts' = [m \in Msg |->
                    IF m \in mine /\ attempts[m] >= MaxAttempts THEN 0
                    ELSE attempts[m]]
             /\ woken' = IF mine = {} THEN woken ELSE woken \cup {a}
          \/ /\ pinged[a][b] = "gone"
             /\ status' = [status EXCEPT ![a][b] = "unreachable"]
             /\ UNCHANGED <<attempts, woken>>
    /\ UNCHANGED <<up, stage, queue, batch, requests, received, budget>>

Block(a, b) ==
    /\ a # b /\ a \in up /\ blocks < MaxBlocks
    /\ blocks' = blocks + 1
    /\ status' = [status EXCEPT ![a][b] = "blocked"]
    /\ UNCHANGED <<up, pinged, rows, drains, requests, received, faults, losses,
                   crashes>>

Unblock(a, b) ==
    /\ a # b /\ a \in up
    /\ status' = [status EXCEPT ![a][b] = "active"]
    /\ UNCHANGED <<up, pinged, rows, drains, requests, received, budget>>

-----------------------------------------------------------------------------
(* Crashes.                                                                *)

\* The process dies: its goroutines and the requests it was making are gone,
\* and so are the connections it was answering on.  A message whose first
\* attempt was under way is in no queue.
Crash(s) ==
    /\ s \in up /\ crashes < MaxCrashes
    /\ crashes' = crashes + 1
    /\ up' = up \ {s}
    /\ pinged' = [pinged EXCEPT ![s] = [b \in Server |-> "nothing"]]
    /\ batch' = [batch EXCEPT ![s] = [w \in Worker |-> << >>]]
    /\ woken' = woken \ {s}
    /\ stage' = [m \in Msg |->
            IF From[m] = s /\ stage[m] = "sending" THEN "orphaned" ELSE stage[m]]
    /\ call' = [m \in Msg |-> IF From[m] = s THEN NoCall ELSE call[m]]
    /\ answer' = [m \in Msg |->
            IF From[m] = s THEN NoAnswer
            ELSE IF To[m] = s /\ call[m] # NoCall THEN "reset"
            ELSE answer[m]]
    /\ lostAnswers' = [m \in Msg |->
            IF s \in {From[m], To[m]} /\ answer[m] = "created"
            THEN lostAnswers[m] + 1 ELSE lostAnswers[m]]
    /\ LET sent == {m \in Msg : From[m] = s /\ call[m] # NoCall
                                /\ answer[m] = NoAnswer}
       IN \E late \in SUBSET sent :
            stray' = {m \in stray : To[m] # s} \cup late
    /\ UNCHANGED <<status, queue, attempts, inbox, turnedAway, faults, losses,
                   blocks>>

Restart(s) ==
    /\ s \notin up
    /\ up' = up \cup {s}
    /\ UNCHANGED <<status, pinged, rows, drains, requests, received, budget>>

-----------------------------------------------------------------------------
Next ==
    \/ \E m \in Msg : Send(m) \/ Return(m) \/ GiveUp(m) \/ Serve(m) \/ ServeStray(m)
    \/ \E m \in Msg, w \in Worker : DrainSend(m, w)
    \/ \E s \in Server, w \in Worker : DrainStart(s, w)
    \/ \E a, b \in Server :
        \/ PingAnswered(a, b) \/ PingFails(a, b) \/ PingWrites(a, b)
        \/ Block(a, b) \/ Unblock(a, b)
    \/ \E s \in Server : Crash(s) \/ Restart(s)

Spec == Init /\ [][Next]_vars

(***************************************************************************)
(* Timers tick, goroutines run, an up server answers, a crashed one comes  *)
(* back, and pings that can succeed do.  Nothing makes requests fail.      *)
(***************************************************************************)
Fairness ==
    /\ \A m \in Msg : WF_vars(Return(m)) /\ WF_vars(Serve(m))
    /\ \A m \in Msg, w \in Worker : WF_vars(DrainSend(m, w))
    /\ \A s \in Server : WF_vars(DrainStart(s, Tick)) /\ WF_vars(Restart(s))
    /\ \A a, b \in Server : WF_vars(PingAnswered(a, b)) /\ WF_vars(PingWrites(a, b))

FairSpec == Spec /\ Fairness

-----------------------------------------------------------------------------
(* Properties.                                                             *)

\* Every variable keeps its shape, and no row is tried more often than
\* max_attempts allows before it is re-armed.
TypeOK ==
    /\ up \in SUBSET Server
    /\ status \in [Server -> [Server -> {"active", "unreachable", "blocked"}]]
    /\ pinged \in [Server -> [Server -> {"nothing", "recovered", "gone"}]]
    /\ stage \in [Msg ->
            {"unsent", "sending", "queued", "settled", "failed", "orphaned"}]
    /\ queue \in [Server -> Seq(Msg)]
    /\ attempts \in [Msg -> 0..MaxAttempts]
    /\ batch \in [Server -> [Worker -> Seq(Msg)]]
    /\ woken \in SUBSET Server
    /\ call \in [Msg -> Worker \cup {Direct, NoCall}]
    /\ answer \in [Msg -> Answer \cup {NoAnswer}]
    /\ stray \in SUBSET Msg
    /\ inbox \in [Msg -> Nat] /\ lostAnswers \in [Msg -> Nat]
    /\ turnedAway \in SUBSET Msg
    /\ faults \in 0..MaxFaults /\ losses \in 0..MaxLosses
    /\ crashes \in 0..MaxCrashes /\ blocks \in 0..MaxBlocks

\* federation_queue holds the messages still owed to a peer, each in one row
\* of its sender's queue: none was queued twice, none was dropped.
QueueIsOwed ==
    /\ \A m \in Msg, s \in Server :
            m \in Queued(s) <=> s = From[m] /\ stage[m] = "queued"
    /\ \A s \in Server : Len(queue[s]) = Cardinality(Queued(s))

\* What a drain has read stays true while it waits for answers: every item of
\* a batch still has its row when its turn comes.
BatchIsQueued ==
    \A s \in Server, w \in Worker :
        \A i \in 1..Len(batch[s][w]) : batch[s][w][i] \in Queued(s)

\* The reader gets a second copy only where the answer to a first one was
\* lost: drains never overlap, and a delivered row is never sent again.
OnlyLostAnswersDuplicate == \A m \in Msg : inbox[m] <= 1 + lostAnswers[m]

\* A message the sender is done with has arrived, or was turned away with a
\* 403: no other answer makes a row go.
OnlyRefusalsLose ==
    \A m \in Msg : stage[m] = "settled" => inbox[m] > 0 \/ m \in turnedAway

\* Whatever flaps, times out or crashes on the way, a queued message leaves
\* the queue, unless its peer is blocked or keeps failing to store it.
QueueDrains ==
    \A m \in Msg \ Poison :
        stage[m] = "queued" ~>
            (stage[m] # "queued" \/ status[From[m]][To[m]] = "blocked")

\* CHANGELOG.md: a message to an unreachable peer is no longer lost.  The code
\* breaks it (a peer that holds the sender inactive answers 403, and 403 is
\* below 500).
SettledIsDelivered == \A m \in Msg : stage[m] = "settled" => inbox[m] > 0

\* TestPingServer_Blocked: a ping leaves a blocked server blocked.  The code
\* breaks it (block may come between pingOne's SELECT and its UPDATE).
BlockSticks ==
    [][\A a, b \in Server : status[a][b] = "blocked" /\ status'[a][b] # "blocked"
            => pinged' = pinged]_vars
=============================================================================
