--------------------------- MODULE ClientHttpProofs ---------------------------
(***************************************************************************)
(* Proofs about the two halves of the client's HTTP pipeline.  RequestGate,*)
(* for any number of requests and any ceiling: the gate never loses a slot *)
(* and strands no waiter.  Session, for any tabs and any bound: tabs of    *)
(* one storage do not sign each other out, and the storage keeps no        *)
(* refresh token the server will refuse.                                   *)
(***************************************************************************)
EXTENDS Session, RequestGate, FiniteSetTheorems, SequenceTheorems, TLAPS

-----------------------------------------------------------------------------
(* The gate.                                                               *)

QueueInv == GateTypeOK /\ QueueIsWaiters /\ NoSlotLost /\ NoWaiterStranded

-----------------------------------------------------------------------------
\* The holders are finitely many.
LEMMA HoldersFinite == IsFiniteSet(Holders) /\ Cardinality(Holders) \in Nat
BY RequestAssumption, FS_Subset, FS_CardinalityType DEF Holders

\* The elements of a sequence without its first one.
LEMMA TailFacts ==
    ASSUME NEW S, NEW q \in Seq(S), q # << >>
    PROVE  /\ Len(q) \in Nat /\ Tail(q) \in Seq(S) /\ Len(Tail(q)) = Len(q) - 1
           /\ \A i \in 1..Len(Tail(q)) : Tail(q)[i] = q[i + 1]
           /\ Head(q) = q[1] /\ 1 \in 1..Len(q) /\ q[1] \in S
OBVIOUS

\* The elements of a sequence without its n-th one.
LEMMA RemoveAtFacts ==
    ASSUME NEW S, NEW q \in Seq(S), NEW n \in 1..Len(q)
    PROVE  /\ Len(q) \in Nat
           /\ RemoveAt(q, n) \in Seq(S)
           /\ Len(RemoveAt(q, n)) = Len(q) - 1
           /\ \A i \in 1..Len(q) - 1 :
                 RemoveAt(q, n)[i] = IF i < n THEN q[i] ELSE q[i + 1]
<1> DEFINE front == SubSeq(q, 1, n - 1)
           back == SubSeq(q, n + 1, Len(q))
<1>1. Len(q) \in Nat
  OBVIOUS
<1>2. /\ front \in Seq(S) /\ Len(front) = n - 1
      /\ \A i \in 1..n - 1 : front[i] = q[i]
  BY <1>1
<1>3. /\ back \in Seq(S) /\ Len(back) = Len(q) - n
      /\ \A i \in 1..Len(q) - n : back[i] = q[n + i]
  BY <1>1
<1> HIDE DEF front, back
<1>4. /\ front \o back \in Seq(S)
      /\ Len(front \o back) = Len(front) + Len(back)
      /\ \A i \in 1..Len(front) + Len(back) :
            (front \o back)[i] =
                IF i <= Len(front) THEN front[i] ELSE back[i - Len(front)]
  BY <1>2, <1>3, ConcatProperties
<1>5. RemoveAt(q, n) = front \o back
  BY DEF RemoveAt, front, back
<1>6. ASSUME NEW i \in 1..Len(q) - 1
      PROVE  (front \o back)[i] = IF i < n THEN q[i] ELSE q[i + 1]
  <2>1. i \in 1..Len(front) + Len(back)
    BY <1>1, <1>2, <1>3
  <2>2. CASE i < n
    BY <1>1, <1>2, <1>4, <2>1, <2>2
  <2>3. CASE ~(i < n)
    <3>1. /\ i - Len(front) \in 1..Len(q) - n
          /\ n + (i - Len(front)) = i + 1
      BY <1>1, <1>2, <2>3
    <3> QED
      BY <1>2, <1>3, <1>4, <2>1, <2>3, <3>1
  <2> QED
    BY <2>2, <2>3
<1>7. Len(front \o back) = Len(q) - 1
  BY <1>1, <1>2, <1>3, <1>4
<1> HIDE DEF front, back
<1> QED
  BY <1>1, <1>4, <1>5, <1>6, <1>7

-----------------------------------------------------------------------------
\* The initial states.
LEMMA GateInitInv == GateInit => QueueInv
<1> SUFFICES ASSUME GateInit PROVE QueueInv
  OBVIOUS
<1>1. GateTypeOK
  BY GateAssumption DEF GateInit, GateTypeOK
<1>2. QueueIsWaiters
  BY DEF GateInit, QueueIsWaiters
<1>3. Holders = {}
  BY DEF GateInit, Holders
<1>4. NoSlotLost
  BY <1>3, FS_EmptySet DEF GateInit, NoSlotLost
<1>5. NoWaiterStranded
  BY DEF GateInit, NoWaiterStranded
<1> QED
  BY <1>1, <1>2, <1>4, <1>5 DEF QueueInv

\* A gate without a holder believes no slot is taken.
LEMMA HoldersWhenFull ==
    ASSUME QueueInv, active >= limit
    PROVE  Holders # {}
<1>1. active >= 1 /\ active \in Int
  BY GateAssumption DEF QueueInv, GateTypeOK
<1> SUFFICES ASSUME Holders = {} PROVE FALSE
  OBVIOUS
<1> QED
  BY <1>1, FS_EmptySet DEF QueueInv, NoSlotLost

\* A holder that ends takes its slot with it, or hands it to the first
\* waiter; the invariant survives both, and what the gate counts stays at or
\* below what is held.
LEMMA ReleaseKeeps ==
    ASSUME QueueInv, NEW r \in Request, request[r] \in {"granted", "flying"},
           Release(r)
    PROVE  /\ waiting' \in Seq(Request) /\ active' \in Int
           /\ request' \in [Request ->
                    {"idle", "waiting", "granted", "flying", "done"}]
           /\ QueueIsWaiters' /\ NoSlotLost' /\ NoWaiterStranded'
<1> DEFINE h == Head(waiting)
<1>1. /\ waiting \in Seq(Request) /\ active \in Int
      /\ request \in [Request -> {"idle", "waiting", "granted", "flying", "done"}]
  BY DEF QueueInv, GateTypeOK
<1>2. /\ IsFiniteSet(Holders) /\ Cardinality(Holders) \in Nat
      /\ active <= Cardinality(Holders) /\ r \in Holders
  BY HoldersFinite DEF QueueInv, NoSlotLost, Holders
<1>3. /\ IsFiniteSet(Holders \ {r})
      /\ Cardinality(Holders \ {r}) = Cardinality(Holders) - 1
  BY <1>2, FS_RemoveElement
<1>4. CASE waiting = << >>
  <2>1. /\ request' = [request EXCEPT ![r] = "done"]
        /\ waiting' = << >> /\ active' = active - 1
    BY <1>4 DEF Release, ActiveAfterRelease
  <2>2. Holders' = Holders \ {r}
    BY <1>1, <2>1 DEF Holders
  <2>3. QueueIsWaiters'
    BY <1>1, <1>4, <2>1 DEF QueueInv, QueueIsWaiters
  <2>4. NoSlotLost'
    BY <1>1, <1>2, <1>3, <2>1, <2>2 DEF NoSlotLost
  <2> QED
    BY <1>1, <2>1, <2>3, <2>4 DEF NoWaiterStranded
<1>5. CASE waiting # << >>
  <2>1. /\ request' = [request EXCEPT ![r] = "done", ![h] = "granted"]
        /\ waiting' = Tail(waiting)
        /\ active' \in {active, active - 1}
    BY <1>5 DEF Release, ActiveAfterRelease
  <2>2. /\ Len(waiting) \in Nat /\ waiting' \in Seq(Request)
        /\ Len(waiting') = Len(waiting) - 1
        /\ \A i \in 1..Len(waiting') : waiting'[i] = waiting[i + 1]
        /\ h = waiting[1] /\ 1 \in 1..Len(waiting) /\ h \in Request
    BY <1>1, <1>5, <2>1, TailFacts
  <2>3. request[h] = "waiting" /\ h # r /\ h \notin Holders
    BY <2>2 DEF QueueInv, QueueIsWaiters, Holders
  <2>4. Holders' = (Holders \ {r}) \cup {h}
    BY <1>1, <2>1, <2>2, <2>3 DEF Holders
  <2>5. Cardinality(Holders') = Cardinality(Holders)
    <3> DEFINE left == Holders \ {r}
    <3>1. h \notin left
      BY <2>3
    <3> HIDE DEF left, h
    <3>2. Cardinality(left \cup {h}) = Cardinality(left) + 1
      BY <1>3, <3>1, FS_AddElement DEF left
    <3>3. Holders' = left \cup {h}
      BY <2>4 DEF left, h
    <3>4. Cardinality(left) + 1 = Cardinality(Holders)
      BY <1>2, <1>3 DEF left
    <3> QED
      BY <3>2, <3>3, <3>4
  <2>6. NoSlotLost'
    BY <1>1, <1>2, <2>1, <2>5 DEF NoSlotLost
  <2>7. NoWaiterStranded'
    BY <2>4 DEF NoWaiterStranded
  <2>8. ASSUME NEW x \in Request
        PROVE  request'[x] = "waiting" <=>
                    \E i \in 1..Len(waiting') : waiting'[i] = x
    <3>1. request'[x] = "waiting" <=> request[x] = "waiting" /\ x # h
      BY <1>1, <2>1, <2>2, <2>3
    <3>2. ASSUME NEW j \in 1..Len(waiting), waiting[j] = x, x # h
          PROVE  j - 1 \in 1..Len(waiting') /\ waiting'[j - 1] = x
      <4>1. j # 1
        BY <2>2, <3>2
      <4>2. j - 1 \in 1..Len(waiting') /\ (j - 1) + 1 = j
        BY <2>2, <4>1
      <4> QED
        BY <2>2, <3>2, <4>2
    <3>3. ASSUME NEW i \in 1..Len(waiting'), waiting'[i] = x
          PROVE  request[x] = "waiting" /\ x # h
      <4>1. i + 1 \in 1..Len(waiting) /\ i + 1 # 1 /\ waiting[i + 1] = x
        BY <2>2, <3>3
      <4> QED
        BY <2>2, <4>1 DEF QueueInv, QueueIsWaiters
    <3> QED
      BY <3>1, <3>2, <3>3 DEF QueueInv, QueueIsWaiters
  <2>9. ASSUME NEW i \in 1..Len(waiting'), NEW j \in 1..Len(waiting'),
               waiting'[i] = waiting'[j]
        PROVE  i = j
    <3>1. /\ i + 1 \in 1..Len(waiting) /\ j + 1 \in 1..Len(waiting)
          /\ waiting[i + 1] = waiting[j + 1]
      BY <2>2, <2>9
    <3>2. i + 1 = j + 1
      BY <3>1 DEF QueueInv, QueueIsWaiters
    <3> QED
      BY <3>2
  <2>10. QueueIsWaiters'
    BY <2>8, <2>9 DEF QueueIsWaiters
  <2>11. request' \in [Request -> {"idle", "waiting", "granted", "flying", "done"}]
    BY <1>1, <2>1
  <2> QED
    BY <1>1, <2>1, <2>2, <2>6, <2>7, <2>10, <2>11
<1> QED
  BY <1>4, <1>5

\* A request that only leaves the queue takes nobody's place: the others
\* keep theirs, and no slot changes hands.
LEMMA LeavingQueueKeeps ==
    ASSUME QueueInv, NEW r \in Request, request[r] = "waiting",
           waiting' \in WithoutWaiter(r),
           request' = [request EXCEPT ![r] = "done"], active' = active
    PROVE  /\ waiting' \in Seq(Request) /\ active' \in Int
           /\ request' \in [Request ->
                    {"idle", "waiting", "granted", "flying", "done"}]
           /\ QueueIsWaiters' /\ NoSlotLost' /\ NoWaiterStranded'
<1>1. /\ waiting \in Seq(Request) /\ active \in Int
      /\ request \in [Request -> {"idle", "waiting", "granted", "flying", "done"}]
  BY DEF QueueInv, GateTypeOK
<1>2. PICK n \in 1..Len(waiting) : waiting[n] = r /\ waiting' = RemoveAt(waiting, n)
  BY DEF WithoutWaiter
<1>3. /\ Len(waiting) \in Nat /\ waiting' \in Seq(Request)
      /\ Len(waiting') = Len(waiting) - 1
      /\ \A i \in 1..Len(waiting) - 1 :
            waiting'[i] = IF i < n THEN waiting[i] ELSE waiting[i + 1]
  BY <1>1, <1>2, RemoveAtFacts
<1>4. Holders' = Holders
  BY <1>1 DEF Holders
<1>5. NoSlotLost'
  BY <1>4 DEF QueueInv, NoSlotLost
<1>6. waiting # << >>
  BY <1>1, <1>2
<1>7. NoWaiterStranded'
  BY <1>4, <1>6 DEF QueueInv, NoWaiterStranded
<1>8. ASSUME NEW x \in Request
      PROVE  request'[x] = "waiting" <=>
                  \E i \in 1..Len(waiting') : waiting'[i] = x
  <2>1. request'[x] = "waiting" <=> request[x] = "waiting" /\ x # r
    BY <1>1
  <2>2. ASSUME NEW j \in 1..Len(waiting), waiting[j] = x, x # r
        PROVE  \E i \in 1..Len(waiting') : waiting'[i] = x
    <3>1. j # n
      BY <1>2, <2>2
    <3>2. CASE j < n
      <4>1. j \in 1..Len(waiting') /\ j \in 1..Len(waiting) - 1
        BY <1>3, <3>2
      <4>2. waiting'[j] = x
        BY <1>3, <2>2, <3>2, <4>1
      <4> QED
        BY <4>1, <4>2
    <3>3. CASE j > n
      <4>1. /\ j - 1 \in 1..Len(waiting') /\ j - 1 \in 1..Len(waiting) - 1
            /\ ~(j - 1 < n) /\ (j - 1) + 1 = j
        BY <1>3, <3>3
      <4>2. waiting'[j - 1] = x
        BY <1>3, <2>2, <4>1
      <4> QED
        BY <4>1, <4>2
    <3> QED
      BY <3>1, <3>2, <3>3
  <2>3. ASSUME NEW i \in 1..Len(waiting'), waiting'[i] = x
        PROVE  request[x] = "waiting" /\ x # r
    <3>1. PICK j \in 1..Len(waiting) : waiting[j] = x /\ j # n
      BY <1>3, <2>3
    <3> QED
      BY <1>2, <3>1 DEF QueueInv, QueueIsWaiters
  <2> QED
    BY <2>1, <2>2, <2>3 DEF QueueInv, QueueIsWaiters
<1>9. ASSUME NEW i \in 1..Len(waiting'), NEW j \in 1..Len(waiting'),
             waiting'[i] = waiting'[j]
      PROVE  i = j
  <2> DEFINE old(k) == IF k < n THEN k ELSE k + 1
  <2>1. old(i) \in 1..Len(waiting) /\ old(j) \in 1..Len(waiting)
    BY <1>3
  <2>2. waiting[old(i)] = waiting[old(j)]
    BY <1>3, <1>9
  <2>3. old(i) = old(j)
    BY <2>1, <2>2 DEF QueueInv, QueueIsWaiters
  <2> QED
    BY <2>3
<1>10. QueueIsWaiters'
  BY <1>8, <1>9 DEF QueueIsWaiters
<1>11. request' \in [Request -> {"idle", "waiting", "granted", "flying", "done"}]
  BY <1>1
<1> QED
  BY <1>1, <1>3, <1>5, <1>7, <1>10, <1>11

\* A new request takes a free slot, or the last place of the queue - which
\* it only does while somebody holds a slot.
LEMMA AcquireKeeps ==
    ASSUME QueueInv, NEW r \in Request, Acquire(r)
    PROVE  QueueInv'
<1>1. GateTypeOK /\ r \notin Holders
  BY DEF QueueInv, Acquire, Holders
<1>2. CASE active < limit /\ active' = active + 1 /\ UNCHANGED waiting
           /\ request' = [request EXCEPT ![r] = "granted"]
  <2>1. Holders' = Holders \cup {r}
    BY <1>1, <1>2 DEF Holders, GateTypeOK
  <2>2. Cardinality(Holders') = Cardinality(Holders) + 1
    BY <1>1, <2>1, HoldersFinite, FS_AddElement
  <2>3. GateTypeOK'
    BY <1>1, <1>2 DEF Acquire, GateTypeOK
  <2>4. NoSlotLost'
    BY <1>1, <1>2, <2>2, HoldersFinite DEF QueueInv, NoSlotLost, GateTypeOK
  <2>5. QueueIsWaiters'
    BY <1>1, <1>2 DEF QueueInv, QueueIsWaiters, Acquire, GateTypeOK
  <2>6. NoWaiterStranded'
    BY <2>1 DEF NoWaiterStranded
  <2> QED
    BY <2>3, <2>4, <2>5, <2>6 DEF QueueInv
<1>3. CASE active >= limit /\ waiting' = Append(waiting, r) /\ UNCHANGED active
           /\ request' = [request EXCEPT ![r] = "waiting"]
  <2>1. Holders' = Holders
    BY <1>1, <1>3 DEF Holders, GateTypeOK
  <2>2. GateTypeOK'
    BY <1>1, <1>3 DEF Acquire, GateTypeOK
  <2>3. NoSlotLost'
    BY <1>3, <2>1 DEF QueueInv, NoSlotLost
  <2>4. NoWaiterStranded'
    BY <1>3, <2>1, HoldersWhenFull DEF NoWaiterStranded
  <2>5. /\ Len(waiting) \in Nat /\ Len(waiting') = Len(waiting) + 1
        /\ waiting'[Len(waiting) + 1] = r
        /\ \A i \in 1..Len(waiting) : waiting'[i] = waiting[i]
    BY <1>1, <1>3 DEF GateTypeOK
  <2>6. \A i \in 1..Len(waiting) : waiting[i] # r
    BY DEF QueueInv, QueueIsWaiters, Acquire
  <2>7. \A x \in Request : request'[x] = "waiting" <=>
            \E i \in 1..Len(waiting') : waiting'[i] = x
    <3> SUFFICES ASSUME NEW x \in Request
                 PROVE  request'[x] = "waiting" <=>
                            \E i \in 1..Len(waiting') : waiting'[i] = x
      OBVIOUS
    <3>1. request'[x] = "waiting" <=> request[x] = "waiting" \/ x = r
      BY <1>1, <1>3 DEF GateTypeOK
    <3>2. (\E i \in 1..Len(waiting') : waiting'[i] = x)
            <=> (\E i \in 1..Len(waiting) : waiting[i] = x) \/ x = r
      BY <2>5
    <3> QED
      BY <3>1, <3>2 DEF QueueInv, QueueIsWaiters
  <2>8. \A i, j \in 1..Len(waiting') : waiting'[i] = waiting'[j] => i = j
    <3> SUFFICES ASSUME NEW i \in 1..Len(waiting'), NEW j \in 1..Len(waiting'),
                        waiting'[i] = waiting'[j]
                 PROVE  i = j
      OBVIOUS
    <3>1. CASE i \in 1..Len(waiting) /\ j \in 1..Len(waiting)
      BY <2>5, <3>1 DEF QueueInv, QueueIsWaiters
    <3>2. CASE i = Len(waiting) + 1 \/ j = Len(waiting) + 1
      BY <2>5, <2>6, <3>2
    <3> QED
      BY <2>5, <3>1, <3>2
  <2>9. QueueIsWaiters'
    BY <2>7, <2>8 DEF QueueIsWaiters
  <2> QED
    BY <2>2, <2>3, <2>4, <2>9 DEF QueueInv
<1> QED
  BY <1>2, <1>3 DEF Acquire

\* Every step keeps the invariant.
LEMMA GateStep == QueueInv /\ [GateNext]_gateVars => QueueInv'
<1> SUFFICES ASSUME QueueInv, [GateNext]_gateVars PROVE QueueInv'
  OBVIOUS
<1>1. /\ limit \in Initial..MaxRequests /\ streak \in Nat /\ answered \in Nat
      /\ Initial \in Nat /\ MaxRequests \in Nat /\ Initial <= MaxRequests
  BY GateAssumption DEF QueueInv, GateTypeOK
<1>2. ASSUME NEW r \in Request, Acquire(r) PROVE QueueInv'
  BY <1>2, AcquireKeeps
<1>3. ASSUME NEW r \in Request, Dispatch(r) PROVE QueueInv'
  <2>1. GateTypeOK'
    BY <1>1, <1>3 DEF QueueInv, GateTypeOK, Dispatch, OnDelivered
  <2>2. Holders' = Holders
    BY <1>3 DEF Holders, Dispatch, QueueInv, GateTypeOK
  <2>3. QueueIsWaiters'
    BY <1>3 DEF QueueInv, QueueIsWaiters, Dispatch, GateTypeOK
  <2> QED
    BY <1>3, <2>1, <2>2, <2>3 DEF QueueInv, NoSlotLost, NoWaiterStranded, Dispatch
<1>4. ASSUME NEW r \in Request, Answer(r) PROVE QueueInv'
  <2>1. request[r] = "flying" /\ Release(r)
    BY <1>4 DEF Answer
  <2> QED
    BY <1>1, <1>4, <2>1, ReleaseKeeps DEF QueueInv, GateTypeOK, Answer
<1>5. ASSUME NEW r \in Request, Lose(r) PROVE QueueInv'
  <2>1. request[r] = "flying" /\ Release(r)
    BY <1>5 DEF Lose
  <2> QED
    BY <1>1, <1>5, <2>1, ReleaseKeeps DEF QueueInv, GateTypeOK, Lose, OnLost
<1>6. ASSUME NEW r \in Request, Cancel(r) PROVE QueueInv'
  <2>1. CASE request[r] \in {"granted", "flying"} /\ Release(r)
    BY <1>1, <1>6, <2>1, ReleaseKeeps DEF QueueInv, GateTypeOK, Cancel
  <2>2. CASE /\ request[r] = "waiting" /\ waiting' \in WithoutWaiter(r)
             /\ request' = [request EXCEPT ![r] = "done"] /\ active' = active
    BY <1>1, <1>6, <2>2, LeavingQueueKeeps DEF QueueInv, GateTypeOK, Cancel
  <2> QED
    BY <1>6, <2>1, <2>2 DEF Cancel
<1>7. CASE UNCHANGED gateVars
  BY <1>7 DEF QueueInv, GateTypeOK, QueueIsWaiters, NoSlotLost, NoWaiterStranded,
              Holders, gateVars
<1> QED
  BY <1>2, <1>3, <1>4, <1>5, <1>6, <1>7 DEF GateNext

-----------------------------------------------------------------------------
\* Whatever answers, losses and cancellations happen, in whatever order: the
\* queue of acquire holds the waiting requests and nobody else, releaseSlot
\* never leaves a slot counted that nobody holds, and no waiter is left
\* without a holder to hand it a slot.
THEOREM GateSafe ==
    GateSpec => [](GateTypeOK /\ QueueIsWaiters /\ NoSlotLost /\ NoWaiterStranded)
<1>1. QueueInv => GateTypeOK /\ QueueIsWaiters /\ NoSlotLost /\ NoWaiterStranded
  BY DEF QueueInv
<1> QED
  BY <1>1, GateInitInv, GateStep, PTL DEF GateSpec

-----------------------------------------------------------------------------
(* The session.                                                            *)

LiveRow == {"fresh", "used"}

\* A call presents a token from its start to its end, and has a new one exactly
\* while its answer is under way.
CallShape ==
    \A t \in Tabs : /\ call[t].step = "idle" <=> call[t].token = None
                    /\ call[t].step = "answered" <=> call[t].new # None

\* The token of an answer under way is known to nobody else, in no request that
\* was given up either, and lives.
NewIsSecret ==
    \A t \in Tabs : call[t].new # None =>
        /\ store.token # call[t].new /\ call[t].new \notin stray
        /\ \A u \in Tabs : call[u].token # call[t].new /\ (u # t => call[u].new # call[t].new)
        /\ rows[call[t].new] = "fresh" \/ excused

\* A token that is presented lives; its refusal is excused.
PresentedLives ==
    \A t \in Tabs : /\ call[t].token # None => rows[call[t].token] \in LiveRow \/ excused
                    /\ call[t].step = "refused" => excused

\* A token the storage keeps after its exchange has that exchange under way, so
\* that its window is not over.
StoredInWindow ==
    store.token # None /\ rows[store.token] = "used" => excused \/ \E t \in Tabs : call[t].token = store.token

\* Nobody is signed in on an empty storage, unless somebody logged out.
StoredForUsers == store.token = None => excused \/ \A t \in Tabs : ~user[t]

SessionInv ==
    /\ CallShape /\ NewIsSecret /\ PresentedLives /\ StoredInWindow /\ StoredForUsers
    /\ StoredTokenLives /\ KeptSignedIn

SessionIndInv == TypeOK /\ SessionInv

CallType == [step : {"idle", "sent", "claimed", "answered", "refused"},
             token : Tokens \cup {None}, new : Tokens \cup {None}, retries : 0..1]

-----------------------------------------------------------------------------
\* A new token is one nobody remembers.
LEMMA NewTokenType == ASSUME Unused # {} PROVE NewToken \in Tokens /\ NewToken \notin Remembered
BY DEF NewToken, Unused

LEMMA NoneIsNoToken == None \notin Tokens
BY TokensAssumption DEF None

LEMMA InitIndInv == ASSUME Init PROVE SessionIndInv
<1>1. \A t \in Tabs : ~user[t]
  BY Zenon DEF Init
<1>2. TypeOK
  <2>1. call \in [Tabs -> CallType]
    BY DEF Init, Idle, CallType, None
  <2>2. /\ user \in [Tabs -> BOOLEAN] /\ ending \in [Tabs -> BOOLEAN]
        /\ access \in [Tabs -> {"none", "valid", "expired"}]
        /\ rows \in [Tokens -> {"gone", "fresh", "used"}]
    BY DEF Init
  <2>3. store \in [token : Tokens \cup {None}, user : BOOLEAN]
    BY DEF Init
  <2>4. events \in 0..MaxEvents
    BY EventsAssumption DEF Init, EventsAssumption
  <2>5. excused \in BOOLEAN /\ ousted \in BOOLEAN /\ stray \subseteq Tokens
    BY Zenon DEF Init
  <2> QED BY <1>1, <2>1, <2>2, <2>3, <2>4, <2>5, Zenon DEF TypeOK, CallType
<1>3. SessionInv
  BY <1>1 DEF Init, SessionInv, CallShape, NewIsSecret, PresentedLives, StoredInWindow, StoredForUsers,
         StoredTokenLives, KeptSignedIn, Idle, None
<1> QED BY <1>2, <1>3 DEF SessionIndInv

USE DEF None

\* An action leaves the rows r of the tokens still remembered.
LEMMA RowsLeft ==
    ASSUME TypeOK, NEW r \in [Tokens -> {"gone", "fresh", "used"}], RowsBecome(r), call' \in [Tabs -> CallType],
           store' \in [token : Tokens \cup {None}, user : BOOLEAN]
    PROVE  /\ rows' \in [Tokens -> {"gone", "fresh", "used"}]
           /\ store'.token # None => rows'[store'.token] = r[store'.token]
           /\ \A u \in Tabs : /\ call'[u].token # None => rows'[call'[u].token] = r[call'[u].token]
                              /\ call'[u].new # None => rows'[call'[u].new] = r[call'[u].new]
<1>1. rows' \in [Tokens -> {"gone", "fresh", "used"}] /\ \A n \in Tokens : n \in Remembered' => rows'[n] = r[n]
  BY DEF RowsBecome
<1>2. /\ store'.token \in Remembered'
      /\ \A u \in Tabs : call'[u].token \in Remembered' /\ call'[u].new \in Remembered'
  BY DEF Remembered
<1>3. /\ store'.token # None => store'.token \in Tokens
      /\ \A u \in Tabs : /\ call'[u].token # None => call'[u].token \in Tokens
                         /\ call'[u].new # None => call'[u].new \in Tokens
  BY DEF CallType
<1> QED BY <1>1, <1>2, <1>3

\* One that only forgets tokens keeps the rows of the others.
LEMMA RowsStay ==
    ASSUME TypeOK, RowsBecome(rows), call' \in [Tabs -> CallType],
           store' \in [token : Tokens \cup {None}, user : BOOLEAN]
    PROVE  /\ rows' \in [Tokens -> {"gone", "fresh", "used"}]
           /\ store'.token # None => rows'[store'.token] = rows[store'.token]
           /\ \A u \in Tabs : /\ call'[u].token # None => rows'[call'[u].token] = rows[call'[u].token]
                              /\ call'[u].new # None => rows'[call'[u].new] = rows[call'[u].new]
<1>1. rows \in [Tokens -> {"gone", "fresh", "used"}]
  BY DEF TypeOK
<1> QED BY <1>1, RowsLeft

\* So does one that makes a token k, whose row is fresh.
LEMMA RowsGain ==
    ASSUME TypeOK, NEW k \in Tokens, RowsBecome([rows EXCEPT ![k] = "fresh"]), call' \in [Tabs -> CallType],
           store' \in [token : Tokens \cup {None}, user : BOOLEAN]
    PROVE  /\ rows' \in [Tokens -> {"gone", "fresh", "used"}]
           /\ k \in Remembered' => rows'[k] = "fresh"
           /\ store'.token \notin {None, k} => rows'[store'.token] = rows[store'.token]
           /\ \A u \in Tabs : /\ call'[u].token \notin {None, k} => rows'[call'[u].token] = rows[call'[u].token]
                              /\ call'[u].new \notin {None, k} => rows'[call'[u].new] = rows[call'[u].new]
<1>1. /\ rows' \in [Tokens -> {"gone", "fresh", "used"}]
      /\ \A n \in Tokens : n \in Remembered' => rows'[n] = IF n = k THEN "fresh" ELSE rows[n]
  BY DEF TypeOK, RowsBecome
<1>2. /\ store'.token \in Remembered'
      /\ \A u \in Tabs : call'[u].token \in Remembered' /\ call'[u].new \in Remembered'
  BY DEF Remembered
<1>3. /\ store'.token # None => store'.token \in Tokens
      /\ \A u \in Tabs : /\ call'[u].token # None => call'[u].token \in Tokens
                         /\ call'[u].new # None => call'[u].new \in Tokens
  BY DEF CallType
<1> QED BY <1>1, <1>2, <1>3

\* What nobody signs in by leaves the last conjunct of the type alone.
LEMMA UsersHaveAccess ==
    ASSUME TypeOK, NEW t \in Tabs, NEW b \in BOOLEAN, NEW a \in {"none", "valid", "expired"},
           user' = [user EXCEPT ![t] = b], access' = [access EXCEPT ![t] = a], b => a # "none"
    PROVE  /\ user' \in [Tabs -> BOOLEAN] /\ access' \in [Tabs -> {"none", "valid", "expired"}]
           /\ \A u \in Tabs : user'[u] => access'[u] # "none"
<1>1. user' \in [Tabs -> BOOLEAN] /\ access' \in [Tabs -> {"none", "valid", "expired"}]
  BY DEF TypeOK
<1>2. ASSUME NEW u \in Tabs, user'[u] PROVE access'[u] # "none"
  <2>1. CASE u = t
    BY <1>2, <2>1 DEF TypeOK
  <2>2. CASE u # t
    <3>1. user'[u] = user[u] /\ access'[u] = access[u]
      BY <2>2 DEF TypeOK
    <3> QED BY <1>2, <3>1 DEF TypeOK
  <2> QED BY <2>1, <2>2
<1> QED BY <1>1, <1>2

\* A request that is given up leaves no other token than its own.
LEMMA AbandonsKeeps ==
    ASSUME TypeOK, NEW t \in Tabs, Abandons(t), CallShape
    PROVE  stray' \subseteq Tokens /\ stray' \subseteq stray \cup {call[t].token}
<1>1. call[t].step = "sent" => call[t].token \in Tokens
  BY DEF TypeOK, CallShape
<1> QED BY <1>1 DEF TypeOK, Abandons

-----------------------------------------------------------------------------
LEMMA LoginStep ==
    ASSUME SessionIndInv, NEW t \in Tabs, Login(t)
    PROVE  SessionIndInv'
<1> DEFINE k == NewToken
<1>1. k \in Tokens /\ k \notin Remembered
  BY NewTokenType DEF Login
<1>2. /\ store' = [token |-> k, user |-> TRUE] /\ RowsBecome([rows EXCEPT ![k] = "fresh"])
      /\ user' = [user EXCEPT ![t] = TRUE] /\ access' = [access EXCEPT ![t] = "valid"]
      /\ call' = call /\ stray' = stray /\ ending' = ending /\ excused' = excused /\ ousted' = ousted
      /\ events < MaxEvents /\ events' = events + 1
  BY DEF Login, Event
<1> HIDE DEF k
<1>3. store'.token = k /\ store'.token # None
  BY <1>1, <1>2, NoneIsNoToken
<1>4. k \notin stray /\ \A u \in Tabs : call[u].token # k /\ call[u].new # k
  BY <1>1 DEF Remembered
<1>5. store' \in [token : Tokens \cup {None}, user : BOOLEAN] /\ call' \in [Tabs -> CallType]
  BY <1>1, <1>2 DEF SessionIndInv, TypeOK, CallType
<1>6. /\ rows' \in [Tokens -> {"gone", "fresh", "used"}] /\ rows'[k] = "fresh"
      /\ \A u \in Tabs : /\ call[u].token # None => rows'[call[u].token] = rows[call[u].token]
                         /\ call[u].new # None => rows'[call[u].new] = rows[call[u].new]
  <2>1. k \in Remembered'
    BY <1>3 DEF Remembered
  <2>2. /\ rows' \in [Tokens -> {"gone", "fresh", "used"}] /\ rows'[k] = "fresh"
        /\ \A u \in Tabs : /\ call'[u].token \notin {None, k} => rows'[call'[u].token] = rows[call'[u].token]
                           /\ call'[u].new \notin {None, k} => rows'[call'[u].new] = rows[call'[u].new]
    BY <1>1, <1>2, <1>5, <2>1, RowsGain DEF SessionIndInv
  <2> QED BY <1>2, <1>4, <2>2
<1>7. TypeOK'
  <2>1. events' \in 0..MaxEvents
    BY <1>2, EventsAssumption DEF SessionIndInv, TypeOK, EventsAssumption
  <2>2. /\ user' \in [Tabs -> BOOLEAN] /\ access' \in [Tabs -> {"none", "valid", "expired"}]
        /\ \A u \in Tabs : user'[u] => access'[u] # "none"
    BY <1>2, UsersHaveAccess DEF SessionIndInv
  <2> QED BY <1>2, <1>5, <1>6, <2>1, <2>2 DEF SessionIndInv, TypeOK
<1>8. CallShape' /\ NewIsSecret' /\ PresentedLives'
  BY <1>2, <1>3, <1>4, <1>6 DEF SessionIndInv, SessionInv, CallShape, NewIsSecret, PresentedLives
<1>9. StoredInWindow' /\ StoredForUsers' /\ StoredTokenLives'
  BY <1>3, <1>6 DEF StoredInWindow, StoredForUsers, StoredTokenLives
<1>10. KeptSignedIn'
  BY <1>2 DEF SessionIndInv, SessionInv, KeptSignedIn
<1> QED BY <1>7, <1>8, <1>9, <1>10 DEF SessionIndInv, SessionInv

\* Signing out forgets the stored token; the circumstances must excuse it.
LEMMA SignsOutKeeps ==
    ASSUME SessionIndInv, NEW t \in Tabs, SignsOut(t), RowsBecome(rows), call' \in [Tabs -> CallType], 
           excused', stray' = stray, events' \in 0..MaxEvents, ousted' \in BOOLEAN,
           \A u \in Tabs : call'[u] = call[u] \/ call'[u] = Idle
    PROVE  SessionIndInv'
<1>1. /\ ending' = [ending EXCEPT ![t] = @ \/ access[t] # "none"]
      /\ store' = [token |-> None, user |-> FALSE]
      /\ user' = [user EXCEPT ![t] = FALSE] /\ access' = [access EXCEPT ![t] = "none"]
  BY DEF SignsOut
<1>2. store' \in [token : Tokens \cup {None}, user : BOOLEAN] /\ store'.token = None
  BY <1>1
<1>3. rows' \in [Tokens -> {"gone", "fresh", "used"}]
  BY <1>2, RowsStay DEF SessionIndInv
<1>4. TypeOK'
  <2>1. /\ user' \in [Tabs -> BOOLEAN] /\ access' \in [Tabs -> {"none", "valid", "expired"}]
        /\ \A u \in Tabs : user'[u] => access'[u] # "none"
    BY <1>1, UsersHaveAccess DEF SessionIndInv
  <2>2. ending' \in [Tabs -> BOOLEAN]
    BY <1>1 DEF SessionIndInv, TypeOK
  <2>3. excused' \in BOOLEAN
    BY Zenon DEF SessionIndInv
  <2>4. stray' \subseteq Tokens
    BY DEF SessionIndInv, TypeOK
  <2> QED BY <1>2, <1>3, <2>1, <2>2, <2>3, <2>4 DEF TypeOK, CallType
<1>5. CallShape' /\ NewIsSecret' /\ PresentedLives'
  BY <1>2, NoneIsNoToken DEF SessionIndInv, SessionInv, TypeOK, CallShape, NewIsSecret, PresentedLives, Idle
<1>6. StoredInWindow' /\ StoredForUsers' /\ StoredTokenLives' /\ KeptSignedIn'
  BY <1>2 DEF StoredInWindow, StoredForUsers, StoredTokenLives, KeptSignedIn
<1> QED BY <1>4, <1>5, <1>6 DEF SessionIndInv, SessionInv

LEMMA LogsOutStep ==
    ASSUME SessionIndInv, NEW t \in Tabs, LogsOut(t)
    PROVE  SessionIndInv'
<1>1. events' \in 0..MaxEvents
  BY EventsAssumption DEF SessionIndInv, TypeOK, EventsAssumption, LogsOut, Event
<1>2. excused' /\ SignsOut(t) /\ RowsBecome(rows) /\ call' = call /\ stray' = stray /\ ousted' = ousted
  BY DEF LogsOut
<1>3. call' \in [Tabs -> CallType] /\ ousted' \in BOOLEAN
  BY <1>2 DEF SessionIndInv, TypeOK, CallType
<1>4. \A u \in Tabs : call'[u] = call[u] \/ call'[u] = Idle
  BY <1>2
<1> QED BY <1>1, <1>2, <1>3, <1>4, SignsOutKeeps

LEMMA RefusedStep ==
    ASSUME SessionIndInv, NEW t \in Tabs, Refused(t)
    PROVE  SessionIndInv'
<1>1. /\ SignsOut(t) /\ RowsBecome(rows) /\ call' = [call EXCEPT ![t] = Idle] /\ stray' = stray /\ excused' = excused
      /\ events' = events /\ ousted' = (ousted \/ user[t]) /\ call[t].step = "refused"
  BY DEF Refused
<1>2. excused'
  BY <1>1 DEF SessionIndInv, SessionInv, PresentedLives
<1>3. events' \in 0..MaxEvents /\ ousted' \in BOOLEAN
  BY <1>1 DEF SessionIndInv, TypeOK
<1>4. /\ call' \in [Tabs -> CallType]
      /\ \A u \in Tabs : call'[u] = call[u] \/ call'[u] = Idle
  BY <1>1 DEF SessionIndInv, TypeOK, CallType, Idle
<1> QED BY <1>1, <1>2, <1>3, <1>4, SignsOutKeeps

\* POST /logout takes the rows, or does nothing.
LEMMA LogoutServedStep ==
    ASSUME SessionIndInv, NEW t \in Tabs, LogoutServed(t)
    PROVE  SessionIndInv'
<1>1. /\ ending' = [ending EXCEPT ![t] = FALSE]
      /\ UNCHANGED <<user, access, store, call, stray, events, ousted>>
      /\ rows' = (IF access[t] = "valid" THEN [n \in Tokens |-> "gone"] ELSE rows)
      /\ excused' = (excused \/ access[t] = "valid")
  BY DEF LogoutServed
<1>2. TypeOK'
  <2>1. /\ ending' \in [Tabs -> BOOLEAN] /\ rows' \in [Tokens -> {"gone", "fresh", "used"}]
        /\ excused' \in BOOLEAN
    BY <1>1 DEF SessionIndInv, TypeOK
  <2> QED BY <1>1, <2>1 DEF SessionIndInv, TypeOK
<1>3. (excused' <=> TRUE) \/ (rows' = rows /\ excused' = excused)
  BY <1>1 DEF SessionIndInv, TypeOK
<1>4. CallShape' /\ NewIsSecret' /\ PresentedLives'
  BY <1>1, <1>3 DEF SessionIndInv, SessionInv, CallShape, NewIsSecret, PresentedLives
<1>5. StoredInWindow' /\ StoredForUsers' /\ StoredTokenLives' /\ KeptSignedIn'
  BY <1>1, <1>3
  DEF SessionIndInv, SessionInv, StoredInWindow, StoredForUsers, StoredTokenLives, KeptSignedIn
<1> QED BY <1>2, <1>4, <1>5 DEF SessionIndInv, SessionInv

LEMMA AccessExpiresStep ==
    ASSUME SessionIndInv, NEW t \in Tabs, AccessExpires(t)
    PROVE  SessionIndInv'
<1>1. /\ access' = [access EXCEPT ![t] = "expired"]
      /\ UNCHANGED <<user, store, call, stray, ending, rows, events, excused, ousted>>
  BY DEF AccessExpires
<1>2. /\ access' \in [Tabs -> {"none", "valid", "expired"}]
      /\ \A u \in Tabs : access[u] # "none" => access'[u] # "none"
  BY <1>1 DEF SessionIndInv, TypeOK
<1>3. \A u \in Tabs : user'[u] => access'[u] # "none"
  BY <1>1, <1>2, Zenon DEF SessionIndInv, TypeOK
<1>4. TypeOK'
  BY <1>1, <1>2, <1>3 DEF SessionIndInv, TypeOK
<1>5. SessionInv'
  BY <1>1 DEF SessionIndInv, SessionInv, CallShape, NewIsSecret, PresentedLives, StoredInWindow, StoredForUsers,
              StoredTokenLives, KeptSignedIn
<1> QED BY <1>4, <1>5 DEF SessionIndInv

LEMMA StartRefreshStep ==
    ASSUME SessionIndInv, NEW t \in Tabs, StartRefresh(t)
    PROVE  SessionIndInv'
<1>1. user[t] /\ call[t].step = "idle" /\ UNCHANGED <<stray, events, excused>> /\ RowsBecome(rows)
  BY DEF StartRefresh
<1>2. CASE store.token = None
  <2>1. SignsOut(t) /\ ousted' = TRUE /\ call' = call
    BY <1>2 DEF StartRefresh
  <2>2. excused'
    BY <1>1, <1>2 DEF SessionIndInv, SessionInv, StoredForUsers
  <2>3. /\ events' \in 0..MaxEvents /\ ousted' \in BOOLEAN /\ call' \in [Tabs -> CallType]
        /\ \A u \in Tabs : call'[u] = call[u] \/ call'[u] = Idle
    BY <1>1, <2>1 DEF SessionIndInv, TypeOK, CallType
  <2> QED BY <1>1, <2>1, <2>2, <2>3, SignsOutKeeps
<1>3. CASE store.token # None
  <2>1. /\ call' = [call EXCEPT ![t] = Sent(store.token, 0)]
        /\ UNCHANGED <<user, access, store, ending, ousted>>
    BY <1>3 DEF StartRefresh
  <2>2. /\ Sent(store.token, 0) \in CallType
        /\ call'[t].step = "sent" /\ call'[t].token = store.token /\ call'[t].new = None
    BY <2>1 DEF Sent, CallType, SessionIndInv, TypeOK
  <2>3. /\ call' \in [Tabs -> CallType]
        /\ \A u \in Tabs : u # t => call'[u] = call[u]
    BY <2>1, <2>2 DEF SessionIndInv, TypeOK, CallType
  <2>4. /\ rows' \in [Tokens -> {"gone", "fresh", "used"}]
        /\ rows'[store.token] = rows[store.token]
        /\ \A u \in Tabs : /\ call'[u].token # None => rows'[call'[u].token] = rows[call'[u].token]
                           /\ call'[u].new # None => rows'[call'[u].new] = rows[call'[u].new]
    BY <1>1, <1>3, <2>1, <2>3, RowsStay DEF SessionIndInv, TypeOK
  <2>5. TypeOK'
    BY <1>1, <2>1, <2>3, <2>4 DEF SessionIndInv, TypeOK, CallType
  <2>6. CallShape' /\ PresentedLives'
    BY <1>1, <1>3, <2>1, <2>2, <2>3, <2>4
    DEF SessionIndInv, SessionInv, CallShape, PresentedLives, StoredTokenLives, LiveRow
  <2>7. NewIsSecret'
    BY <1>1, <1>3, <2>1, <2>2, <2>3, <2>4 DEF SessionIndInv, SessionInv, NewIsSecret
  <2>8. StoredInWindow' /\ StoredForUsers' /\ StoredTokenLives' /\ KeptSignedIn'
    BY <1>1, <1>3, <2>1, <2>2, <2>4
    DEF SessionIndInv, SessionInv, StoredInWindow, StoredForUsers, StoredTokenLives, KeptSignedIn
  <2> QED BY <2>5, <2>6, <2>7, <2>8 DEF SessionIndInv, SessionInv
<1> QED BY <1>2, <1>3

LEMMA ClaimStep ==
    ASSUME SessionIndInv, NEW t \in Tabs, Claim(t)
    PROVE  SessionIndInv'
<1> DEFINE token == call[t].token
           ok == Honoured(rows[token])
<1>1. /\ call[t].step = "sent"
      /\ call' = [call EXCEPT ![t].step = IF ok THEN "claimed" ELSE "refused"]
      /\ rows' = [rows EXCEPT ![token] = IF ok THEN "used" ELSE "gone"]
      /\ UNCHANGED <<user, access, store, stray, ending, events, excused, ousted>>
  BY DEF Claim
<1>2. /\ token \in Tokens /\ call[t].new = None
      /\ rows[token] \in LiveRow \/ excused
  BY <1>1 DEF SessionIndInv, TypeOK, SessionInv, CallShape, PresentedLives
<1>3. ok <=> rows[token] \in LiveRow
  BY DEF Honoured, LiveRow
<1> DEFINE step == IF ok THEN "claimed" ELSE "refused"
<1>a. step \in {"claimed", "refused"} /\ (ok => step = "claimed") /\ (~ok => step = "refused")
  OBVIOUS
<1>b. call' = [call EXCEPT ![t].step = step]
  BY <1>1
<1> HIDE DEF step
<1>4. /\ call' \in [Tabs -> CallType]
      /\ call'[t].token = token /\ call'[t].new = None
      /\ call'[t].step = step
      /\ \A u \in Tabs : u # t => call'[u] = call[u]
      /\ \A u \in Tabs : call'[u].token = call[u].token /\ call'[u].new = call[u].new
  <2>1. call \in [Tabs -> CallType]
    BY DEF SessionIndInv, TypeOK, CallType
  <2> DEFINE c == [call[t] EXCEPT !.step = step]
  <2>2. call[t] \in CallType /\ call' = [call EXCEPT ![t] = c]
    BY <1>b, <2>1
  <2>3. c \in CallType /\ c.step = step /\ c.token = call[t].token /\ c.new = call[t].new
    BY <1>a, <2>2 DEF CallType
  <2> HIDE DEF c
  <2>4. call' \in [Tabs -> CallType] /\ call'[t] = c /\ \A u \in Tabs : u # t => call'[u] = call[u]
    BY <2>1, <2>2, <2>3
  <2> QED BY <1>2, <2>3, <2>4
<1>5. /\ rows' \in [Tokens -> {"gone", "fresh", "used"}]
      /\ rows'[token] = IF ok THEN "used" ELSE "gone"
      /\ \A n \in Tokens : n # token => rows'[n] = rows[n]
  BY <1>1, <1>2 DEF SessionIndInv, TypeOK
<1> HIDE DEF token, ok
<1>6. TypeOK'
  BY <1>1, <1>4, <1>5 DEF SessionIndInv, TypeOK, CallType
<1>7. \A u \in Tabs : call[u].new # token
  BY <1>2, NoneIsNoToken DEF SessionIndInv, SessionInv, NewIsSecret, token
<1>8. CallShape'
  BY <1>1, <1>2, <1>4, <1>a, NoneIsNoToken DEF SessionIndInv, SessionInv, CallShape
<1>9. NewIsSecret'
  <2>1. \A u \in Tabs : call[u].new # None => call[u].new \in Tokens
    BY DEF SessionIndInv, TypeOK
  <2> QED BY <1>1, <1>4, <1>5, <1>7, <2>1 DEF SessionIndInv, SessionInv, NewIsSecret
<1>10. PresentedLives'
  <2>1. \A u \in Tabs : call[u].token # None => call[u].token \in Tokens
    BY DEF SessionIndInv, TypeOK
  <2> QED BY <1>1, <1>2, <1>3, <1>4, <1>5, <1>a, <2>1 DEF SessionIndInv, SessionInv, PresentedLives, LiveRow
<1>11. StoredInWindow' /\ StoredTokenLives'
  <2>1. store.token # None => store.token \in Tokens
    BY DEF SessionIndInv, TypeOK
  <2>2. store.token # token \/ call'[t].token = store.token
    BY <1>4
  <2> QED BY <1>1, <1>2, <1>3, <1>4, <1>5, <2>1, <2>2
          DEF SessionIndInv, SessionInv, StoredInWindow, StoredTokenLives, LiveRow
<1>12. StoredForUsers' /\ KeptSignedIn'
  BY <1>1 DEF SessionIndInv, SessionInv, StoredForUsers, KeptSignedIn
<1> QED BY <1>6, <1>8, <1>9, <1>10, <1>11, <1>12 DEF SessionIndInv, SessionInv

LEMMA SaveStep ==
    ASSUME SessionIndInv, NEW t \in Tabs, Save(t)
    PROVE  SessionIndInv'
<1> DEFINE k == NewToken
<1>1. k \in Tokens /\ k \notin Remembered
  BY NewTokenType DEF Save
<1>2. /\ call[t].step = "claimed"
      /\ call' = [call EXCEPT ![t].step = "answered", ![t].new = k]
      /\ UNCHANGED <<user, access, store, stray, ending, events, excused, ousted>>
      /\ RowsBecome([rows EXCEPT ![k] = "fresh"])
  BY DEF Save
<1> HIDE DEF k
<1>3. /\ store.token # k /\ k # None /\ k \notin stray
      /\ \A u \in Tabs : call[u].token # k /\ call[u].new # k
  BY <1>1, NoneIsNoToken DEF Remembered
<1>4. call[t].token # None /\ call[t].new = None
  BY <1>2 DEF SessionIndInv, SessionInv, CallShape
<1>5. /\ call' \in [Tabs -> CallType]
      /\ call'[t].step = "answered" /\ call'[t].new = k
      /\ \A u \in Tabs : u # t => call'[u] = call[u]
      /\ \A u \in Tabs : call'[u].token = call[u].token
  <2>1. call \in [Tabs -> CallType]
    BY DEF SessionIndInv, TypeOK, CallType
  <2> DEFINE c == [call[t] EXCEPT !.step = "answered", !.new = k]
  <2>2. call[t] \in CallType /\ call' = [call EXCEPT ![t] = c]
    BY <1>2, <2>1
  <2>3. c \in CallType /\ c.step = "answered" /\ c.token = call[t].token /\ c.new = k
    BY <1>1, <2>2 DEF CallType
  <2> HIDE DEF c
  <2>4. call' \in [Tabs -> CallType] /\ call'[t] = c /\ \A u \in Tabs : u # t => call'[u] = call[u]
    BY <2>1, <2>2, <2>3
  <2> QED BY <2>3, <2>4
<1>6. /\ rows' \in [Tokens -> {"gone", "fresh", "used"}] /\ rows'[k] = "fresh"
      /\ store.token # None => rows'[store.token] = rows[store.token]
      /\ \A u \in Tabs : /\ call[u].token # None => rows'[call[u].token] = rows[call[u].token]
                         /\ call[u].new # None => rows'[call[u].new] = rows[call[u].new]
  <2>1. k \in Remembered'
    BY <1>5 DEF Remembered
  <2>2. store' \in [token : Tokens \cup {None}, user : BOOLEAN] /\ store' = store
    BY <1>2 DEF SessionIndInv, TypeOK
  <2>3. /\ rows' \in [Tokens -> {"gone", "fresh", "used"}] /\ rows'[k] = "fresh"
        /\ store'.token \notin {None, k} => rows'[store'.token] = rows[store'.token]
        /\ \A u \in Tabs : /\ call'[u].token \notin {None, k} => rows'[call'[u].token] = rows[call'[u].token]
                           /\ call'[u].new \notin {None, k} => rows'[call'[u].new] = rows[call'[u].new]
    BY <1>1, <1>2, <1>5, <2>1, <2>2, RowsGain DEF SessionIndInv
  <2> QED BY <1>3, <1>4, <1>5, <2>2, <2>3
<1>7. TypeOK'
  BY <1>2, <1>5, <1>6 DEF SessionIndInv, TypeOK, CallType
<1>8. CallShape' /\ PresentedLives'
  BY <1>2, <1>3, <1>4, <1>5, <1>6 DEF SessionIndInv, SessionInv, CallShape, PresentedLives
<1>9. NewIsSecret'
  BY <1>2, <1>3, <1>4, <1>5, <1>6 DEF SessionIndInv, SessionInv, NewIsSecret
<1>10. StoredInWindow' /\ StoredForUsers' /\ StoredTokenLives' /\ KeptSignedIn'
  BY <1>2, <1>5, <1>6
  DEF SessionIndInv, SessionInv, StoredInWindow, StoredForUsers, StoredTokenLives, KeptSignedIn
<1> QED BY <1>7, <1>8, <1>9, <1>10 DEF SessionIndInv, SessionInv

LEMMA AnsweredStep ==
    ASSUME SessionIndInv, NEW t \in Tabs, Answered(t)
    PROVE  SessionIndInv'
<1> DEFINE k == call[t].new
<1>1. /\ call[t].step = "answered" /\ store' = [store EXCEPT !.token = k]
      /\ access' = [access EXCEPT ![t] = "valid"] /\ call' = [call EXCEPT ![t] = Idle]
      /\ UNCHANGED <<user, stray, ending, events, excused, ousted>> /\ RowsBecome(rows)
  BY DEF Answered, Stored
<1>2. k \in Tokens /\ k # None /\ (rows[k] = "fresh" \/ excused)
  BY <1>1 DEF SessionIndInv, SessionInv, TypeOK, CallShape, NewIsSecret
<1>3. \A u \in Tabs : call[u].token # k /\ (u # t => call[u].new # k)
  BY <1>2 DEF SessionIndInv, SessionInv, NewIsSecret
<1> HIDE DEF k
<1>4. /\ call' \in [Tabs -> CallType] /\ call'[t] = Idle
      /\ \A u \in Tabs : u # t => call'[u] = call[u]
      /\ store' \in [token : Tokens \cup {None}, user : BOOLEAN] /\ store'.token = k
  BY <1>1, <1>2 DEF SessionIndInv, TypeOK, CallType, Idle
<1>5. /\ rows' \in [Tokens -> {"gone", "fresh", "used"}] /\ rows'[k] = rows[k]
      /\ \A u \in Tabs : /\ call'[u].token # None => rows'[call'[u].token] = rows[call'[u].token]
                         /\ call'[u].new # None => rows'[call'[u].new] = rows[call'[u].new]
  BY <1>1, <1>2, <1>4, RowsStay DEF SessionIndInv
<1>6. TypeOK'
  <2>1. access' \in [Tabs -> {"none", "valid", "expired"}] /\ user' = user
    BY <1>1 DEF SessionIndInv, TypeOK
  <2>2. \A u \in Tabs : access[u] # "none" => access'[u] # "none"
    BY <1>1 DEF SessionIndInv, TypeOK
  <2>3. \A u \in Tabs : user'[u] => access'[u] # "none"
    BY <2>1, <2>2, Zenon DEF SessionIndInv, TypeOK
  <2> QED BY <1>1, <1>4, <1>5, <2>1, <2>3 DEF SessionIndInv, TypeOK, CallType
<1>7. Idle.token = None /\ Idle.new = None /\ Idle.step = "idle"
  BY DEF Idle
<1>8. CallShape' /\ PresentedLives'
  BY <1>1, <1>4, <1>5, <1>7 DEF SessionIndInv, SessionInv, CallShape, PresentedLives
<1>9. NewIsSecret'
  BY <1>1, <1>2, <1>3, <1>4, <1>5, <1>7 DEF SessionIndInv, SessionInv, NewIsSecret
<1>10. StoredInWindow' /\ StoredForUsers' /\ StoredTokenLives' /\ KeptSignedIn'
  BY <1>1, <1>2, <1>4, <1>5
  DEF SessionIndInv, SessionInv, StoredInWindow, StoredForUsers, StoredTokenLives, KeptSignedIn
<1> QED BY <1>6, <1>8, <1>9, <1>10 DEF SessionIndInv, SessionInv

LEMMA TimesOutStep ==
    ASSUME SessionIndInv, NEW t \in Tabs, TimesOut(t)
    PROVE  SessionIndInv'
<1>1. /\ call[t].step \in {"sent", "answered", "refused"} /\ RowsBecome(rows)
      /\ UNCHANGED <<user, access, store, ending, ousted>>
      /\ \/ call' = [call EXCEPT ![t] = Sent(call[t].token, 1)] /\ excused' = excused
         \/ call' = [call EXCEPT ![t] = Idle] /\ excused' = (excused \/ rows[call[t].token] # "fresh")
      /\ Abandons(t)
  BY DEF TimesOut
<1>b. events' \in 0..MaxEvents
  <2>1. events' = events \/ (events < MaxEvents /\ events' = events + 1)
    BY DEF TimesOut, Event
  <2> QED BY <2>1, EventsAssumption DEF SessionIndInv, TypeOK, EventsAssumption
<1>2. call[t].token \in Tokens /\ call[t].token # None
  BY <1>1 DEF SessionIndInv, TypeOK, SessionInv, CallShape
<1>3. /\ Sent(call[t].token, 1) \in CallType /\ Idle \in CallType
      /\ Idle.step = "idle" /\ Idle.token = None /\ Idle.new = None
      /\ Sent(call[t].token, 1).step = "sent" /\ Sent(call[t].token, 1).token = call[t].token
      /\ Sent(call[t].token, 1).new = None
  BY <1>2 DEF Sent, Idle, CallType
<1>4. /\ call' \in [Tabs -> CallType] /\ \A u \in Tabs : u # t => call'[u] = call[u]
      /\ \/ call'[t] = Sent(call[t].token, 1) /\ excused' = excused
         \/ call'[t] = Idle /\ excused' = (excused \/ rows[call[t].token] # "fresh")
      /\ excused' \in BOOLEAN /\ (excused => excused')
  <2>1. call \in [Tabs -> CallType]
    BY DEF SessionIndInv, TypeOK, CallType
  <2>2. excused \in BOOLEAN
    BY DEF SessionIndInv, TypeOK
  <2>3. excused' \in BOOLEAN /\ (excused => excused')
    <3>1. excused' = excused \/ excused' = (excused \/ rows[call[t].token] # "fresh")
      BY <1>1
    <3> QED BY <2>2, <3>1
  <2>4. CASE call' = [call EXCEPT ![t] = Sent(call[t].token, 1)] /\ excused' = excused
    BY <1>3, <2>1, <2>3, <2>4
  <2>5. CASE call' = [call EXCEPT ![t] = Idle] /\ excused' = (excused \/ rows[call[t].token] # "fresh")
    BY <1>3, <2>1, <2>3, <2>5
  <2> QED BY <1>1, <2>4, <2>5
<1>5. /\ rows' \in [Tokens -> {"gone", "fresh", "used"}]
      /\ store.token # None => rows'[store.token] = rows[store.token]
      /\ \A u \in Tabs : /\ call'[u].token # None => rows'[call'[u].token] = rows[call'[u].token]
                         /\ call'[u].new # None => rows'[call'[u].new] = rows[call'[u].new]
  <2>1. store' \in [token : Tokens \cup {None}, user : BOOLEAN]
    BY <1>1 DEF SessionIndInv, TypeOK
  <2> QED BY <1>1, <1>4, <2>1, RowsStay DEF SessionIndInv
<1>a. stray' \subseteq Tokens /\ stray' \subseteq stray \cup {call[t].token}
  BY <1>1, AbandonsKeeps DEF SessionIndInv, SessionInv
<1>6. TypeOK'
  BY <1>1, <1>4, <1>5, <1>a, <1>b DEF SessionIndInv, TypeOK, CallType
<1>7. CallShape' /\ PresentedLives'
  BY <1>2, <1>3, <1>4, <1>5 DEF SessionIndInv, SessionInv, CallShape, PresentedLives
<1>8. NewIsSecret'
  BY <1>1, <1>2, <1>3, <1>4, <1>5, <1>a DEF SessionIndInv, SessionInv, NewIsSecret
<1>9. StoredInWindow'
  <2>1. CASE call'[t] = Sent(call[t].token, 1)
    BY <1>1, <1>3, <1>4, <1>5, <2>1 DEF SessionIndInv, SessionInv, StoredInWindow
  <2>2. CASE call'[t] = Idle
    <3>1. excused' = (excused \/ rows[call[t].token] # "fresh")
      BY <1>3, <1>4, <2>2
    <3> SUFFICES ASSUME store.token # None, rows[store.token] = "used", ~excused'
                 PROVE  \E u \in Tabs : call'[u].token = store.token
      BY <1>1, <1>5 DEF StoredInWindow
    <3>2. PICK u \in Tabs : call[u].token = store.token
      BY <1>4 DEF SessionIndInv, SessionInv, StoredInWindow
    <3>3. u # t
      BY <3>1, <3>2
    <3> QED BY <1>4, <3>2, <3>3
  <2> QED BY <1>4, <2>1, <2>2
<1>10. StoredForUsers' /\ StoredTokenLives' /\ KeptSignedIn'
  BY <1>1, <1>4, <1>5 DEF SessionIndInv, SessionInv, StoredForUsers, StoredTokenLives, KeptSignedIn
<1> QED BY <1>6, <1>7, <1>8, <1>9, <1>10 DEF SessionIndInv, SessionInv

LEMMA ReloadStep ==
    ASSUME SessionIndInv, NEW t \in Tabs, Reload(t)
    PROVE  SessionIndInv'
<1>1. /\ user' = [user EXCEPT ![t] = store.user /\ store.token # None]
      /\ \E a \in {"valid", "expired"} : access' = [access EXCEPT ![t] = IF user'[t] THEN a ELSE "none"]
      /\ call' = [call EXCEPT ![t] = Idle] /\ ending' = [ending EXCEPT ![t] = FALSE]
      /\ excused' = (excused \/ (call[t].step # "idle" /\ rows[call[t].token] # "fresh"))
      /\ UNCHANGED <<store, ousted>> /\ Abandons(t) /\ RowsBecome(rows) /\ events < MaxEvents /\ events' = events + 1
  BY DEF Reload, Event
<1>2. Idle \in CallType /\ Idle.step = "idle" /\ Idle.token = None /\ Idle.new = None
  BY DEF Idle, CallType
<1>3. /\ call' \in [Tabs -> CallType] /\ call'[t] = Idle /\ \A u \in Tabs : u # t => call'[u] = call[u]
      /\ excused' \in BOOLEAN /\ (excused => excused')
  BY <1>1, <1>2 DEF SessionIndInv, TypeOK, CallType
<1>4. /\ rows' \in [Tokens -> {"gone", "fresh", "used"}]
      /\ store.token # None => rows'[store.token] = rows[store.token]
      /\ \A u \in Tabs : /\ call'[u].token # None => rows'[call'[u].token] = rows[call'[u].token]
                         /\ call'[u].new # None => rows'[call'[u].new] = rows[call'[u].new]
  <2>1. store' \in [token : Tokens \cup {None}, user : BOOLEAN]
    BY <1>1 DEF SessionIndInv, TypeOK
  <2> QED BY <1>1, <1>3, <2>1, RowsStay DEF SessionIndInv
<1>a. stray' \subseteq Tokens /\ stray' \subseteq stray \cup {call[t].token}
  BY <1>1, AbandonsKeeps DEF SessionIndInv, SessionInv
<1>5. PICK b \in BOOLEAN : b = (store.user /\ store.token # None)
  BY DEF SessionIndInv, TypeOK
<1>6. user' = [user EXCEPT ![t] = b] /\ user'[t] = b
  BY <1>1, <1>5 DEF SessionIndInv, TypeOK
<1>7. PICK a \in {"none", "valid", "expired"} : /\ access' = [access EXCEPT ![t] = a] /\ (b => a # "none")
  BY <1>1, <1>6
<1>8. TypeOK'
  <2>1. /\ user' \in [Tabs -> BOOLEAN] /\ access' \in [Tabs -> {"none", "valid", "expired"}]
        /\ \A u \in Tabs : user'[u] => access'[u] # "none"
    BY <1>6, <1>7, UsersHaveAccess DEF SessionIndInv
  <2>2. events' \in 0..MaxEvents /\ ending' \in [Tabs -> BOOLEAN]
    BY <1>1, EventsAssumption DEF SessionIndInv, TypeOK, EventsAssumption
  <2> QED BY <1>1, <1>3, <1>4, <1>a, <2>1, <2>2 DEF SessionIndInv, TypeOK, CallType
<1>9. CallShape' /\ PresentedLives' /\ NewIsSecret'
  BY <1>1, <1>2, <1>3, <1>4, <1>a DEF SessionIndInv, SessionInv, CallShape, PresentedLives, NewIsSecret
<1>10. StoredInWindow'
  <2>1. call[t].step = "idle" => call[t].token = None
    BY DEF SessionIndInv, SessionInv, CallShape
  <2> SUFFICES ASSUME store.token # None, rows[store.token] = "used", ~excused'
               PROVE  \E u \in Tabs : call'[u].token = store.token
    BY <1>1, <1>4 DEF StoredInWindow
  <2>2. PICK u \in Tabs : call[u].token = store.token
    BY <1>3 DEF SessionIndInv, SessionInv, StoredInWindow
  <2>3. u # t
    BY <1>1, <2>1, <2>2
  <2> QED BY <1>3, <2>2, <2>3
<1>11. StoredForUsers'
  <2>1. store.token = None => \A u \in Tabs : user'[u] => user[u]
    BY <1>5, <1>6 DEF SessionIndInv, TypeOK
  <2> QED BY <1>1, <1>3, <2>1, Zenon DEF SessionIndInv, SessionInv, StoredForUsers
<1>12. StoredTokenLives' /\ KeptSignedIn'
  BY <1>1, <1>3, <1>4 DEF SessionIndInv, SessionInv, StoredTokenLives, KeptSignedIn
<1> QED BY <1>8, <1>9, <1>10, <1>11, <1>12 DEF SessionIndInv, SessionInv

\* The window closes over tokens nobody presents; a stored one is presented.
LEMMA GraceOverStep ==
    ASSUME SessionIndInv, NEW n \in Tokens, GraceOver(n)
    PROVE  SessionIndInv'
<1>1. /\ rows[n] = "used" /\ \A t \in Tabs : call[t].token # n
      /\ rows' = [rows EXCEPT ![n] = "gone"]
      /\ UNCHANGED <<user, access, store, call, stray, ending, events, excused, ousted>>
  BY DEF GraceOver
<1>2. /\ rows' \in [Tokens -> {"gone", "fresh", "used"}]
      /\ \A m \in Tokens : m # n => rows'[m] = rows[m]
  BY <1>1 DEF SessionIndInv, TypeOK
<1>3. TypeOK'
  BY <1>1, <1>2 DEF SessionIndInv, TypeOK
<1>4. CallShape' /\ StoredForUsers' /\ KeptSignedIn'
  BY <1>1 DEF SessionIndInv, SessionInv, CallShape, StoredForUsers, KeptSignedIn
<1>5. NewIsSecret' /\ PresentedLives'
  <2>1. \A t \in Tabs : /\ call[t].new # None => call[t].new \in Tokens
                        /\ call[t].token # None => call[t].token \in Tokens
    BY DEF SessionIndInv, TypeOK
  <2>2. \A t \in Tabs : call[t].new = n => excused
    BY <1>1, NoneIsNoToken DEF SessionIndInv, SessionInv, NewIsSecret
  <2> QED BY <1>1, <1>2, <2>1, <2>2 DEF SessionIndInv, SessionInv, NewIsSecret, PresentedLives
<1>6. StoredInWindow' /\ StoredTokenLives'
  <2>1. store.token = n => excused
    BY <1>1, NoneIsNoToken DEF SessionIndInv, SessionInv, StoredInWindow
  <2>2. store.token # None => store.token \in Tokens
    BY DEF SessionIndInv, TypeOK
  <2> QED BY <1>1, <1>2, <2>1, <2>2 DEF SessionIndInv, SessionInv, StoredInWindow, StoredTokenLives
<1> QED BY <1>3, <1>4, <1>5, <1>6 DEF SessionIndInv, SessionInv

\* A request served late is a claim: a call that presents the same token finds it
\* in its window, and a stored token nobody presents is excused.
LEMMA StrayServedStep ==
    ASSUME SessionIndInv, NEW n \in Tokens, StrayServed(n)
    PROVE  SessionIndInv'
<1> DEFINE r == [rows EXCEPT ![n] = IF Honoured(@) THEN "used" ELSE "gone"]
<1>1. /\ n \in stray /\ stray' \subseteq stray /\ RowsBecome(r)
      /\ excused' = (excused \/ (rows[n] = "fresh" /\ \A t \in Tabs : call[t].token # n))
      /\ UNCHANGED <<user, access, store, call, ending, events, ousted>>
  BY DEF StrayServed
<1>2. /\ r \in [Tokens -> {"gone", "fresh", "used"}] /\ \A m \in Tokens : m # n => r[m] = rows[m]
      /\ rows[n] \in LiveRow => r[n] = "used"
      /\ rows[n] \notin LiveRow => r[n] = rows[n]
  BY DEF SessionIndInv, TypeOK, Honoured, LiveRow
<1> HIDE DEF r
<1>3. excused' \in BOOLEAN /\ (excused => excused')
  BY <1>1 DEF SessionIndInv, TypeOK
<1>4. /\ call' \in [Tabs -> CallType] /\ store' \in [token : Tokens \cup {None}, user : BOOLEAN]
      /\ store.token # None => store.token \in Tokens
      /\ \A u \in Tabs : /\ call[u].token # None => call[u].token \in Tokens
                         /\ call[u].new # None => call[u].new \in Tokens /\ call[u].new # n
  BY <1>1 DEF SessionIndInv, SessionInv, TypeOK, CallType, NewIsSecret
<1>5. /\ rows' \in [Tokens -> {"gone", "fresh", "used"}]
      /\ store.token # None => rows'[store.token] = r[store.token]
      /\ \A u \in Tabs : /\ call[u].token # None => rows'[call[u].token] = r[call[u].token]
                         /\ call[u].new # None => rows'[call[u].new] = r[call[u].new]
  <2>1. /\ rows' \in [Tokens -> {"gone", "fresh", "used"}]
        /\ store'.token # None => rows'[store'.token] = r[store'.token]
        /\ \A u \in Tabs : /\ call'[u].token # None => rows'[call'[u].token] = r[call'[u].token]
                           /\ call'[u].new # None => rows'[call'[u].new] = r[call'[u].new]
    BY <1>1, <1>2, <1>4, RowsLeft DEF SessionIndInv
  <2> QED BY <1>1, <2>1
<1>6. TypeOK'
  BY <1>1, <1>3, <1>5 DEF SessionIndInv, TypeOK
<1>7. CallShape' /\ StoredForUsers' /\ KeptSignedIn'
  BY <1>1, <1>3 DEF SessionIndInv, SessionInv, CallShape, StoredForUsers, KeptSignedIn
<1>8. NewIsSecret'
  BY <1>1, <1>2, <1>3, <1>4, <1>5 DEF SessionIndInv, SessionInv, NewIsSecret
<1>9. PresentedLives' /\ StoredTokenLives'
  BY <1>1, <1>2, <1>3, <1>4, <1>5
  DEF SessionIndInv, SessionInv, PresentedLives, StoredTokenLives, LiveRow
<1>10. StoredInWindow'
  <2>1. CASE store.token = n
    BY <1>1, <1>2, <1>3, <1>5, <2>1, NoneIsNoToken
    DEF SessionIndInv, SessionInv, TypeOK, StoredInWindow, StoredTokenLives, LiveRow
  <2>2. CASE store.token # n
    BY <1>1, <1>2, <1>3, <1>4, <1>5, <2>2 DEF SessionIndInv, SessionInv, StoredInWindow
  <2> QED BY <2>1, <2>2
<1> QED BY <1>6, <1>7, <1>8, <1>9, <1>10 DEF SessionIndInv, SessionInv

-----------------------------------------------------------------------------
LEMMA NextIndInv == ASSUME SessionIndInv, [Next]_vars PROVE SessionIndInv'
<1>1. CASE UNCHANGED vars
  BY <1>1 DEF vars, SessionIndInv, TypeOK, SessionInv, CallShape, NewIsSecret, PresentedLives, StoredInWindow,
              StoredForUsers, StoredTokenLives, KeptSignedIn
<1>2. CASE \E n \in Tokens : GraceOver(n) \/ StrayServed(n)
  BY <1>2, GraceOverStep, StrayServedStep
<1>3. ASSUME NEW t \in Tabs,
             \/ Login(t) \/ LogsOut(t) \/ LogoutServed(t) \/ AccessExpires(t) \/ StartRefresh(t) \/ Reload(t)
             \/ CallStep(t)
      PROVE  SessionIndInv'
  BY <1>3, LoginStep, LogsOutStep, LogoutServedStep, AccessExpiresStep, StartRefreshStep, ReloadStep,
     ClaimStep, SaveStep, AnsweredStep, RefusedStep, TimesOutStep DEF CallStep
<1> QED BY <1>1, <1>2, <1>3 DEF Next

\* Session.TypeOK: fields, tokens and rows stay in their sets, and a user who is
\* signed in has an access token.
THEOREM SessionTypes == Spec => []TypeOK
<1>1. SessionIndInv => TypeOK
  BY DEF SessionIndInv
<1> QED BY <1>1, InitIndInv, NextIndInv, PTL DEF Spec

\* KeptSignedIn: a tab is signed out unasked only after a logout somewhere, or
\* after an exchange whose answer reached no tab.
THEOREM NoTabSignsAnotherOut == Spec => []KeptSignedIn
<1>1. SessionIndInv => KeptSignedIn
  BY DEF SessionIndInv, SessionInv
<1> QED BY <1>1, InitIndInv, NextIndInv, PTL DEF Spec

\* StoredTokenLives: the stored refresh token is one the server honours, short of
\* the same two.
THEOREM TheStoredTokenLives == Spec => []StoredTokenLives
<1>1. SessionIndInv => StoredTokenLives
  BY DEF SessionIndInv, SessionInv
<1> QED BY <1>1, InitIndInv, NextIndInv, PTL DEF Spec
=============================================================================
