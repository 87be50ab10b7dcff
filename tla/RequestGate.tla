----------------------------- MODULE RequestGate -----------------------------
(***************************************************************************)
(* The adaptive gate every API request of the client passes through:       *)
(* frontend/src/app/services/concurrency.interceptor.ts.  The gate starts  *)
(* with one slot, opens another after a run of deliveries and falls back   *)
(* to one when a request never reaches the server.                         *)
(*                                                                         *)
(* JavaScript runs one task at a time, so each callback is an action.  A   *)
(* granted request starts in a later microtask, when its promise resolves, *)
(* and may be unsubscribed at any point.  Uploads and the sign-in paths    *)
(* bypass the gate and are no requests of this module.                     *)
(***************************************************************************)
EXTENDS Integers, FiniteSets, Sequences, SequencesExt

CONSTANTS
    Request,        \* requests; each is subscribed to at most once
    MaxRequests,    \* MAX_CONCURRENT_REQUESTS, 6 in the code
    Initial,        \* INITIAL_CONCURRENT_REQUESTS, 1 in the code
    PerStep         \* SUCCESSES_PER_STEP, 2 in the code

ASSUME RequestAssumption == IsFiniteSet(Request)
ASSUME GateAssumption ==
    /\ Initial \in Nat \ {0}
    /\ MaxRequests \in Nat /\ Initial <= MaxRequests
    /\ PerStep \in Nat \ {0}

VARIABLES
    limit,     \* slots open now
    streak,    \* deliveries in a row since the last slot was opened
    active,    \* slots the gate believes are taken
    waiting,   \* queue of requests without a slot
    request,   \* where each request is
    answered   \* ghost: responses since the limit last changed

gateVars == <<limit, streak, active, waiting, request, answered>>

GateInit ==
    /\ limit = Initial
    /\ streak = 0
    /\ active = 0
    /\ waiting = << >>
    /\ request = [r \in Request |-> "idle"]
    /\ answered = 0

\* Requests that have a slot: about to start, or in flight.
Holders == {r \in Request : request[r] \in {"granted", "flying"}}

-----------------------------------------------------------------------------
(* Mutated forms of the operators below, for the sensitivity of the runs.  *)

KeepsSlot(queue) == active

-----------------------------------------------------------------------------
(* Operators the callbacks share.                                          *)

\* `active` once a slot has been released: handOver shifts the queue first,
\* and the test that follows looks at what is left of it.
ActiveAfterRelease(queue) ==
    IF queue = << >> \/ Tail(queue) = << >> THEN active - 1 ELSE active

\* releaseSlot for a request that ends: the head of the queue, if any, is
\* handed the slot.
Release(r) ==
    /\ active' = ActiveAfterRelease(waiting)
    /\ \/ /\ waiting = << >>
          /\ request' = [request EXCEPT ![r] = "done"]
          /\ UNCHANGED waiting
       \/ /\ waiting # << >>
          /\ request' = [request EXCEPT ![r] = "done", ![Head(waiting)] = "granted"]
          /\ waiting' = Tail(waiting)

\* waiting.splice(waiting.indexOf(entry), 1)
WithoutWaiter(r) ==
    {RemoveAt(waiting, i) : i \in {j \in 1..Len(waiting) : waiting[j] = r}}

OnDelivered ==
    IF streak + 1 < PerStep \/ limit >= MaxRequests
    THEN /\ streak' = streak + 1
         /\ UNCHANGED <<limit, answered>>
    ELSE /\ limit' = limit + 1
         /\ streak' = 0
         /\ answered' = 0

OnLost ==
    /\ limit' = Initial
    /\ streak' = 0
    /\ answered' = 0

-----------------------------------------------------------------------------
(* The life of a request.                                                  *)

\* acquire: a free slot at once, or a place in the queue.
Acquire(r) ==
    /\ request[r] = "idle"
    /\ \/ /\ active < limit
          /\ active' = active + 1
          /\ request' = [request EXCEPT ![r] = "granted"]
          /\ UNCHANGED waiting
       \/ /\ active >= limit
          /\ waiting' = Append(waiting, r)
          /\ request' = [request EXCEPT ![r] = "waiting"]
          /\ UNCHANGED active
    /\ UNCHANGED <<limit, streak, answered>>

\* The slot's promise resolves and the request goes out.  HttpClient reports
\* HttpEventType.Sent at once, the first event tap sees, and it counts.
Dispatch(r) ==
    /\ request[r] = "granted"
    /\ request' = [request EXCEPT ![r] = "flying"]
    /\ OnDelivered
    /\ UNCHANGED <<active, waiting>>

\* A response of any status.  The request was counted when it was sent.
Answer(r) ==
    /\ request[r] = "flying"
    /\ Release(r)
    /\ answered' = answered + 1
    /\ UNCHANGED <<limit, streak>>

\* No response: a timeout or a dropped connection.
Lose(r) ==
    /\ request[r] = "flying"
    /\ OnLost
    /\ Release(r)

\* Unsubscribed: a waiter leaves the queue, a holder gives its slot back.
Cancel(r) ==
    /\ \/ /\ request[r] = "waiting"
          /\ waiting' \in WithoutWaiter(r)
          /\ request' = [request EXCEPT ![r] = "done"]
          /\ UNCHANGED active
       \/ /\ request[r] \in {"granted", "flying"}
          /\ Release(r)
    /\ UNCHANGED <<limit, streak, answered>>

GateNext ==
    \E r \in Request :
        Acquire(r) \/ Dispatch(r) \/ Answer(r) \/ Lose(r) \/ Cancel(r)

GateSpec == GateInit /\ [][GateNext]_gateVars

\* Microtasks run, and timeoutInterceptor ends every request that is left
\* without an answer.  Nothing obliges a component to send or to cancel.
FairSpec ==
    /\ GateSpec
    /\ \A r \in Request : WF_gateVars(Dispatch(r)) /\ WF_gateVars(Answer(r) \/ Lose(r))

-----------------------------------------------------------------------------
(* Properties.                                                             *)

\* Every variable keeps its shape.  `active` is an integer, not a natural:
\* the code does drive it below zero.
GateTypeOK ==
    /\ limit \in Initial..MaxRequests
    /\ streak \in Nat
    /\ active \in Int
    /\ waiting \in Seq(Request)
    /\ request \in [Request -> {"idle", "waiting", "granted", "flying", "done"}]
    /\ answered \in Nat

\* The queue holds the waiting requests, each once: a cancelled request never
\* stays behind to be handed a slot it cannot use.
QueueIsWaiters ==
    /\ \A r \in Request : request[r] = "waiting" <=>
            \E i \in 1..Len(waiting) : waiting[i] = r
    /\ \A i, j \in 1..Len(waiting) : waiting[i] = waiting[j] => i = j

\* The gate never loses a slot: it counts no more slots than requests hold.
\* This is the question BACKLOG.md leaves open about cancelled waiters.
NoSlotLost == active <= Cardinality(Holders)

\* Whenever a request waits, another one holds a slot and will pass it on.
NoWaiterStranded == waiting # << >> => Holders # {}

\* Every request that waits is granted a slot or cancelled.
WaiterServed ==
    \A r \in Request : request[r] = "waiting" ~> request[r] # "waiting"

\* "After a run of successes": a slot is opened only after as many responses.
\* The code breaks it (the Sent event counts as a delivery).
GrowsOnAnswers == [][limit' > limit => answered >= PerStep]_gateVars
=============================================================================
