----------------------- MODULE FederationDeliveryProofs -----------------------
(***************************************************************************)
(* Proofs about FederationDelivery, for any households, messages, drains,  *)
(* batch size and number of crashes: a message is in one row of its        *)
(* sender's queue exactly as long as it is owed, it is stored twice only   *)
(* where an answer was lost, and lost only where it was refused.           *)
(***************************************************************************)
EXTENDS FederationDelivery, FiniteSetTheorems, SequenceTheorems, TLAPS

Elements(q) == {q[i] : i \in 1..Len(q)}
Distinct(q) == \A i, j \in 1..Len(q) : q[i] = q[j] => i = j

\* Every row is of a message its server still owes, and of no message twice.
RowsAreOwed ==
    \A s \in Server :
        /\ Distinct(queue[s])
        /\ \A m \in Elements(queue[s]) : From[m] = s /\ stage[m] = "queued"

OwedHaveRows == \A m \in Msg : stage[m] = "queued" => m \in Elements(queue[From[m]])

\* One drain at a time; the rows it has read are still there, and may be tried.
BatchesAreLive ==
    \A s \in Server, w \in Worker :
        /\ Distinct(batch[s][w])
        /\ \A m \in Elements(batch[s][w]) : m \in Elements(queue[s]) /\ attempts[m] < MaxAttempts
        /\ \A v \in Worker : batch[s][v] # << >> /\ batch[s][w] # << >> => v = w

\* A request is SendOrQueue's first attempt or that of a drain for its next row.
CallersWait ==
    \A m \in Msg :
        /\ call[m] = Direct => stage[m] = "sending"
        /\ call[m] \in Worker => /\ batch[From[m]][call[m]] # << >>
                                 /\ m = Head(batch[From[m]][call[m]])
        /\ call[m] = NoCall => answer[m] = NoAnswer

\* A copy the sender has not heard of is one it lost the answer to; it has heard
\* of at most one, and then it is done with the message or about to be.
CopiesCounted(m) ==
    /\ inbox[m] <= lostAnswers[m] + IF stage[m] = "settled" \/ answer[m] = "created" THEN 1 ELSE 0
    /\ answer[m] = "created" => inbox[m] > 0
    /\ answer[m] = "refused" => m \in turnedAway

CopiesAreCounted == \A m \in Msg : CopiesCounted(m)

DeliveryInv ==
    /\ TypeOK /\ RowsAreOwed /\ OwedHaveRows /\ BatchesAreLive /\ CallersWait
    /\ CopiesAreCounted /\ OnlyRefusalsLose

-----------------------------------------------------------------------------
(* Sequences without repetition.                                           *)

LEMMA AppendNew ==
    ASSUME NEW S, NEW q \in Seq(S), NEW m \in S, Distinct(q), m \notin Elements(q)
    PROVE  /\ Append(q, m) \in Seq(S) /\ Distinct(Append(q, m))
           /\ Elements(Append(q, m)) = Elements(q) \cup {m}
<1>1. /\ Append(q, m) \in Seq(S) /\ Len(q) \in Nat /\ Len(Append(q, m)) = Len(q) + 1
      /\ \A i \in 1..Len(q) : Append(q, m)[i] = q[i]
      /\ Append(q, m)[Len(q) + 1] = m
  BY AppendProperties
<1> DEFINE a == Append(q, m)
<1> HIDE DEF a
<1>2. \A i \in 1..Len(a) : i \in 1..Len(q) \/ i = Len(q) + 1
  BY <1>1 DEF a
<1>3. \A i \in 1..Len(q) : i \in 1..Len(a) /\ a[i] = q[i] /\ q[i] # m
  BY <1>1 DEF a, Elements
<1>4. Len(q) + 1 \in 1..Len(a) /\ a[Len(q) + 1] = m
  BY <1>1 DEF a
<1>5. Distinct(a)
  BY <1>2, <1>3, <1>4 DEF Distinct
<1>6. Elements(a) = Elements(q) \cup {m}
  BY <1>2, <1>3, <1>4 DEF Elements
<1> QED BY <1>1, <1>5, <1>6 DEF a

LEMMA TailDrops ==
    ASSUME NEW S, NEW q \in Seq(S), q # << >>, Distinct(q)
    PROVE  /\ Tail(q) \in Seq(S) /\ Distinct(Tail(q)) /\ Head(q) \in Elements(q)
           /\ Elements(Tail(q)) = Elements(q) \ {Head(q)}
<1>1. /\ Tail(q) \in Seq(S) /\ Len(q) \in Nat /\ Len(Tail(q)) = Len(q) - 1
      /\ \A i \in 1..Len(Tail(q)) : Tail(q)[i] = q[i + 1]
      /\ Head(q) = q[1] /\ 1 \in 1..Len(q)
  OBVIOUS
<1> DEFINE t == Tail(q)
<1> HIDE DEF t
<1>2. \A i \in 1..Len(t) : i + 1 \in 1..Len(q) /\ i + 1 # 1 /\ t[i] = q[i + 1]
  BY <1>1 DEF t
<1>3. \A i \in 1..Len(q) : i = 1 \/ (i - 1 \in 1..Len(t) /\ (i - 1) + 1 = i)
  BY <1>1 DEF t
<1>4. \A i, j \in 1..Len(t) : t[i] = t[j] => i = j
  <2> SUFFICES ASSUME NEW i \in 1..Len(t), NEW j \in 1..Len(t), t[i] = t[j] PROVE i = j
    OBVIOUS
  <2>1. i + 1 = j + 1
    BY <1>2 DEF Distinct
  <2> QED BY <2>1
<1>5. ASSUME NEW m \in Elements(t) PROVE m \in Elements(q) \ {q[1]}
  <2>1. PICK i \in 1..Len(t) : m = t[i]
    BY <1>5 DEF Elements
  <2> QED BY <1>1, <1>2, <2>1 DEF Elements, Distinct
<1>6. ASSUME NEW m \in Elements(q) \ {q[1]} PROVE m \in Elements(t)
  <2>1. PICK i \in 1..Len(q) : m = q[i]
    BY <1>6 DEF Elements
  <2>2. i # 1
    BY <1>6, <2>1
  <2>3. i - 1 \in 1..Len(t) /\ t[i - 1] = m
    BY <1>2, <1>3, <2>1, <2>2
  <2> QED BY <2>3 DEF Elements
<1>7. Elements(t) = Elements(q) \ {q[1]}
  BY <1>5, <1>6
<1> QED BY <1>1, <1>4, <1>7 DEF t, Distinct, Elements

\* Without closes the one place a message has.
LEMMA WithoutDrops ==
    ASSUME NEW S, NEW q \in Seq(S), Distinct(q), NEW n \in 1..Len(q), NEW m, q[n] = m
    PROVE  /\ RemoveAt(q, n) \in Seq(S) /\ Distinct(RemoveAt(q, n))
           /\ Elements(RemoveAt(q, n)) = Elements(q) \ {m}
<1> DEFINE front == SubSeq(q, 1, n - 1)
           back == SubSeq(q, n + 1, Len(q))
           r == front \o back
<1>1. /\ Len(q) \in Nat
      /\ front \in Seq(S) /\ Len(front) = n - 1 /\ \A i \in 1..n - 1 : front[i] = q[i]
      /\ back \in Seq(S) /\ Len(back) = Len(q) - n /\ \A i \in 1..Len(q) - n : back[i] = q[n + i]
  OBVIOUS
<1> HIDE DEF front, back
<1>2. /\ r \in Seq(S) /\ Len(r) = Len(front) + Len(back)
      /\ \A i \in 1..Len(front) + Len(back) :
              r[i] = IF i <= Len(front) THEN front[i] ELSE back[i - Len(front)]
  BY <1>1, ConcatProperties
<1> HIDE DEF r
<1>3. /\ Len(r) = Len(q) - 1
      /\ \A i \in 1..Len(r) : r[i] = IF i < n THEN q[i] ELSE q[i + 1]
  <2>1. Len(r) = Len(q) - 1
    BY <1>1, <1>2
  <2>2. ASSUME NEW i \in 1..Len(r) PROVE r[i] = IF i < n THEN q[i] ELSE q[i + 1]
    <3>1. r[i] = IF i <= Len(front) THEN front[i] ELSE back[i - Len(front)]
      BY <1>2, <2>1, <1>1
    <3>2. CASE i < n
      BY <1>1, <3>1, <3>2
    <3>3. CASE ~(i < n)
      <4>1. i - Len(front) \in 1..Len(q) - n /\ n + (i - Len(front)) = i + 1
        BY <1>1, <2>1, <3>3
      <4> QED BY <1>1, <3>1, <3>3, <4>1
    <3> QED BY <3>2, <3>3
  <2> QED BY <2>1, <2>2
<1> DEFINE old(i) == IF i < n THEN i ELSE i + 1
<1>4. /\ \A i \in 1..Len(r) : old(i) \in 1..Len(q) /\ old(i) # n /\ r[i] = q[old(i)]
      /\ \A j \in 1..Len(q) : j # n => \E i \in 1..Len(r) : old(i) = j
  <2>1. \A i \in 1..Len(r) : old(i) \in 1..Len(q) /\ old(i) # n /\ r[i] = q[old(i)]
    BY <1>1, <1>3
  <2>2. ASSUME NEW j \in 1..Len(q), j # n PROVE \E i \in 1..Len(r) : old(i) = j
    <3> DEFINE i == IF j < n THEN j ELSE j - 1
    <3>1. i \in 1..Len(r) /\ old(i) = j
      BY <1>1, <1>3, <2>2
    <3> QED BY <3>1
  <2> QED BY <2>1, <2>2
<1>5. \A i, j \in 1..Len(r) : old(i) = old(j) => i = j
  BY <1>1, <1>3
<1> HIDE DEF old
<1>6. Distinct(r)
  BY <1>4, <1>5 DEF Distinct
<1>7. Elements(r) = Elements(q) \ {m}
  <2>1. ASSUME NEW x \in Elements(r) PROVE x \in Elements(q) \ {m}
    <3>1. PICK i \in 1..Len(r) : x = r[i]
      BY <2>1 DEF Elements
    <3> QED BY <1>4, <3>1 DEF Elements, Distinct
  <2>2. ASSUME NEW x \in Elements(q) \ {m} PROVE x \in Elements(r)
    <3>1. PICK j \in 1..Len(q) : x = q[j]
      BY <2>2 DEF Elements
    <3>2. j # n
      BY <2>2, <3>1
    <3>3. PICK i \in 1..Len(r) : old(i) = j
      BY <1>4, <3>2
    <3> QED BY <1>4, <3>1, <3>3 DEF Elements
  <2> QED BY <2>1, <2>2
<1>8. RemoveAt(q, n) = r
  BY DEF RemoveAt, r, front, back
<1> QED BY <1>2, <1>6, <1>7, <1>8

\* The messages of a batch are rows of the queue that may be tried, each once.
LEMMA BatchRead ==
    ASSUME TypeOK, NEW s \in Server, Distinct(queue[s]), NEW tries \in [Msg -> Nat],
           NEW f \in InOrder(Oldest(Eligible(s, tries))),
           NEW b, b = [i \in DOMAIN f |-> queue[s][f[i]]]
    PROVE  /\ b \in Seq(Msg) /\ Distinct(b)
           /\ \A m \in Elements(b) : m \in Elements(queue[s]) /\ tries[m] < MaxAttempts
<1> DEFINE q == queue[s]
           places == Oldest(Eligible(s, tries))
           n == Cardinality(places)
<1>1. q \in Seq(Msg) /\ Len(q) \in Nat
  BY DEF TypeOK
<1>2. /\ places \subseteq 1..Len(q)
      /\ \A i \in places : tries[q[i]] < MaxAttempts
  BY DEF Oldest, Eligible
<1>3. /\ f \in [1..n -> places]
      /\ \A i, j \in 1..n : i < j => f[i] < f[j]
  BY DEF InOrder
<1>4. Distinct(q) /\ b = [i \in 1..n |-> q[f[i]]]
  BY <1>3
<1> HIDE DEF q, places
<1>5. n \in Nat
  <2>1. IsFiniteSet(1..Len(q))
    BY <1>1, FS_Interval
  <2>2. IsFiniteSet(places)
    BY <1>2, <2>1, FS_Subset
  <2> QED BY <2>2, FS_CardinalityType
<1> HIDE DEF n
<1>6. \A i \in 1..n : f[i] \in 1..Len(q) /\ q[f[i]] \in Msg /\ tries[q[f[i]]] < MaxAttempts
  <2> SUFFICES ASSUME NEW i \in 1..n PROVE f[i] \in 1..Len(q) /\ q[f[i]] \in Msg /\ tries[q[f[i]]] < MaxAttempts
    OBVIOUS
  <2>1. f[i] \in places
    BY <1>3
  <2>2. f[i] \in 1..Len(q)
    BY <1>2, <2>1
  <2>3. tries[q[f[i]]] < MaxAttempts
    BY <1>2, <2>1
  <2>4. q[f[i]] \in Msg
    BY <1>1, <2>2
  <2> QED BY <2>2, <2>3, <2>4
<1>7. b \in Seq(Msg) /\ Len(b) = n /\ \A i \in 1..n : b[i] = q[f[i]]
  <2>1. b \in [1..n -> Msg]
    BY <1>4, <1>6
  <2>2. b \in Seq(Msg) /\ Len(b) = n
    BY <1>5, <2>1
  <2> QED BY <1>4, <2>2
<1>8. ASSUME NEW i \in 1..Len(b), NEW j \in 1..Len(b), b[i] = b[j] PROVE i = j
  <2>1. i \in 1..n /\ j \in 1..n /\ q[f[i]] = q[f[j]]
    BY <1>7, <1>8
  <2>2. f[i] = f[j]
    BY <1>4, <1>6, <2>1 DEF Distinct
  <2>3. ~(i < j) /\ ~(j < i)
    BY <1>1, <1>3, <1>6, <2>1, <2>2
  <2> QED BY <1>5, <2>1, <2>3
<1>9. ASSUME NEW m \in Elements(b) PROVE m \in Elements(queue[s]) /\ tries[m] < MaxAttempts
  <2>1. PICK i \in 1..n : m = q[f[i]]
    BY <1>7, <1>9 DEF Elements
  <2> QED BY <1>6, <2>1 DEF Elements, q
<1> QED BY <1>7, <1>8, <1>9 DEF Distinct

\* A row that is there is taken out, and no other.
LEMMA WithoutRow ==
    ASSUME TypeOK, RowsAreOwed, NEW m \in Msg, m \in Elements(queue[From[m]])
    PROVE  /\ Without(m) \in Seq(Msg) /\ Distinct(Without(m))
           /\ Elements(Without(m)) = Elements(queue[From[m]]) \ {m}
<1> DEFINE q == queue[From[m]]
<1>1. From[m] \in Server /\ q \in Seq(Msg) /\ Distinct(q)
  BY RouteAssumption DEF RouteAssumption, TypeOK, RowsAreOwed
<1>2. PICK i \in 1..Len(q) : q[i] = m
  BY DEF Elements
<1>3. PlaceOf(m) \in 1..Len(q) /\ q[PlaceOf(m)] = m
  BY <1>2 DEF PlaceOf
<1>4. Without(m) = RemoveAt(q, PlaceOf(m))
  BY DEF Without, Queued, Elements
<1> HIDE DEF q
<1> QED BY <1>1, <1>3, <1>4, WithoutDrops DEF q

-----------------------------------------------------------------------------
(* The steps.                                                              *)

LEMMA MessageTypes ==
    ASSUME TypeOK, NEW m \in Msg
    PROVE  /\ From[m] \in Server /\ To[m] \in Server /\ From[m] # To[m]
           /\ queue[From[m]] \in Seq(Msg) /\ attempts[m] \in 0..MaxAttempts
           /\ \A w \in Worker : batch[From[m]][w] \in Seq(Msg)
           /\ inbox[m] \in Nat /\ lostAnswers[m] \in Nat
           /\ call[m] \in Worker \/ call[m] = Direct \/ call[m] = NoCall
           /\ Direct \notin Worker /\ NoCall \notin Worker /\ Direct # NoCall
<1>1. /\ From[m] \in Server /\ To[m] \in Server /\ From[m] # To[m]
      /\ Direct \notin Worker /\ NoCall \notin Worker /\ Direct # NoCall
  BY RouteAssumption, WorkerAssumption DEF RouteAssumption, WorkerAssumption
<1>2. /\ queue[From[m]] \in Seq(Msg) /\ attempts[m] \in 0..MaxAttempts
      /\ inbox[m] \in Nat /\ lostAnswers[m] \in Nat
      /\ call[m] \in Worker \/ call[m] = Direct \/ call[m] = NoCall
  BY <1>1 DEF TypeOK
<1>3. \A w \in Worker : batch[From[m]][w] \in Seq(Msg)
  BY <1>1 DEF TypeOK
<1> QED BY <1>1, <1>2, <1>3

\* The batches of drains that are not at work stay live while no row goes and
\* no message runs out of attempts.
LEMMA BatchesStay ==
    ASSUME BatchesAreLive, batch' = batch,
           \A s \in Server : Elements(queue[s]) \subseteq Elements(queue'[s]),
           \A m \in Msg : attempts[m] < MaxAttempts => attempts'[m] < MaxAttempts,
           \A s \in Server : Elements(queue[s]) \subseteq Msg
    PROVE  BatchesAreLive'
<1> SUFFICES ASSUME NEW s \in Server, NEW w \in Worker
             PROVE  /\ Distinct(batch'[s][w])
                    /\ \A m \in Elements(batch'[s][w]) :
                            m \in Elements(queue'[s]) /\ attempts'[m] < MaxAttempts
                    /\ \A v \in Worker : batch'[s][v] # << >> /\ batch'[s][w] # << >> => v = w
  BY DEF BatchesAreLive
<1>1. /\ Distinct(batch[s][w])
      /\ \A m \in Elements(batch[s][w]) : m \in Elements(queue[s]) /\ attempts[m] < MaxAttempts
      /\ \A v \in Worker : batch[s][v] # << >> /\ batch[s][w] # << >> => v = w
  BY DEF BatchesAreLive
<1> QED BY <1>1

\* A message that has no row yet gets one, or SendOrQueue fails.
LEMMA EnqueueKeeps ==
    ASSUME DeliveryInv, NEW m \in Msg, stage[m] \in {"unsent", "sending"}, Enqueue(m)
    PROVE  /\ stage' \in [Msg -> {"unsent", "sending", "queued", "settled", "failed", "orphaned"}]
           /\ queue' \in [Server -> Seq(Msg)] /\ attempts' \in [Msg -> 0..MaxAttempts]
           /\ faults' \in 0..MaxFaults
           /\ RowsAreOwed' /\ OwedHaveRows'
           /\ \A s \in Server : Elements(queue[s]) \subseteq Elements(queue'[s])
           /\ \A x \in Msg : attempts'[x] \in {attempts[x], 0}
           /\ stage'[m] \in {"queued", "failed"} /\ \A x \in Msg \ {m} : stage'[x] = stage[x]
<1>1. /\ TypeOK /\ RowsAreOwed /\ OwedHaveRows
      /\ \A s \in Server : m \notin Elements(queue[s])
  BY DEF DeliveryInv, RowsAreOwed
<1>2. /\ From[m] \in Server /\ \A s \in Server : queue[s] \in Seq(Msg)
      /\ \A x \in Msg : attempts[x] \in 0..MaxAttempts /\ 0 \in 0..MaxAttempts
  BY <1>1, MessageTypes, LimitAssumption DEF TypeOK, LimitAssumption
<1>3. CASE /\ stage' = [stage EXCEPT ![m] = "queued"] /\ NoFault
           /\ queue' = [queue EXCEPT ![From[m]] = WithRow(m)]
           /\ attempts' = [attempts EXCEPT ![m] = 0]
  <2> DEFINE q == WithRow(m)
  <2>1. /\ q \in Seq(Msg) /\ Distinct(q)
        /\ Elements(q) = Elements(queue[From[m]]) \cup {m}
    BY <1>1, <1>2, AppendNew DEF RowsAreOwed, WithRow
  <2> HIDE DEF q
  <2>2. queue' \in [Server -> Seq(Msg)] /\ \A s \in Server : queue'[s] = IF s = From[m] THEN q ELSE queue[s]
    BY <1>1, <1>3, <2>1 DEF TypeOK, q
  <2>3. \A s \in Server : /\ Distinct(queue'[s])
                            /\ Elements(queue'[s]) = Elements(queue[s]) \cup IF s = From[m] THEN {m} ELSE {}
    BY <1>1, <2>1, <2>2 DEF RowsAreOwed
  <2>4. /\ stage' \in [Msg -> {"unsent", "sending", "queued", "settled", "failed", "orphaned"}]
        /\ \A x \in Msg : stage'[x] = IF x = m THEN "queued" ELSE stage[x]
    BY <1>1, <1>3 DEF TypeOK
  <2>5. attempts' \in [Msg -> 0..MaxAttempts] /\ \A x \in Msg : attempts'[x] \in {attempts[x], 0}
    BY <1>1, <1>2, <1>3 DEF TypeOK
  <2>6. \A s \in Server : Elements(queue[s]) \subseteq Msg
    BY <1>2 DEF Elements
  <2>7. RowsAreOwed'
    BY <1>1, <2>3, <2>4, <2>6 DEF RowsAreOwed
  <2>8. OwedHaveRows'
    BY <1>1, <1>2, <2>3, <2>4, RouteAssumption DEF OwedHaveRows, RouteAssumption
  <2>9. faults' \in 0..MaxFaults
    BY <1>1, <1>3 DEF NoFault, TypeOK
  <2> QED BY <2>2, <2>3, <2>4, <2>5, <2>7, <2>8, <2>9
<1>4. CASE Fault /\ stage' = [stage EXCEPT ![m] = "failed"] /\ UNCHANGED <<queue, attempts>>
  <2>1. /\ stage' \in [Msg -> {"unsent", "sending", "queued", "settled", "failed", "orphaned"}]
        /\ \A x \in Msg : stage'[x] = IF x = m THEN "failed" ELSE stage[x]
    BY <1>1, <1>4 DEF TypeOK
  <2>2. faults' \in 0..MaxFaults
    BY <1>1, <1>4, LimitAssumption DEF Fault, TypeOK, LimitAssumption
  <2>3. \A s \in Server : Elements(queue[s]) \subseteq Msg
    BY <1>2 DEF Elements
  <2>4. RowsAreOwed' /\ OwedHaveRows'
    BY <1>1, <1>4, <2>1, <2>3 DEF RowsAreOwed, OwedHaveRows
  <2> QED BY <1>1, <1>4, <2>1, <2>2, <2>4 DEF TypeOK
<1> QED BY <1>3, <1>4 DEF Enqueue

\* A drain is at m's row, and goes on to the next.
IsNext(m, w) == batch[From[m]][w] # << >> /\ m = Head(batch[From[m]][w])
Advance(m, w) == batch' = [batch EXCEPT ![From[m]][w] = Tail(@)]

\* No batch but that one changes, and none has m's row any more.
Advanced(m, w) ==
    \A s \in Server, v \in Worker :
        /\ Distinct(batch'[s][v]) /\ Elements(batch'[s][v]) \subseteq Elements(batch[s][v]) \ {m}
        /\ batch'[s][v] # << >> => batch[s][v] # << >>
        /\ s # From[m] \/ v # w => batch'[s][v] = batch[s][v]

\* The row a drain is at is in its sender's queue, may be tried, and is in no
\* other batch.
LEMMA TakesNext ==
    ASSUME DeliveryInv, NEW m \in Msg, NEW w \in Worker, IsNext(m, w), Advance(m, w)
    PROVE  /\ batch' \in [Server -> [Worker -> Seq(Msg)]]
           /\ m \in Elements(queue[From[m]]) /\ stage[m] = "queued"
           /\ attempts[m] \in Nat /\ attempts[m] < MaxAttempts
           /\ Advanced(m, w)
<1> DEFINE b == batch[From[m]][w]
           t == Tail(b)
<1>1. /\ From[m] \in Server /\ b \in Seq(Msg) /\ Distinct(b)
      /\ \A s \in Server, v \in Worker : Distinct(batch[s][v])
      /\ batch \in [Server -> [Worker -> Seq(Msg)]]
  BY MessageTypes DEF DeliveryInv, BatchesAreLive, TypeOK
<1>2. /\ t \in Seq(Msg) /\ Distinct(t) /\ m \in Elements(b)
      /\ Elements(t) = Elements(b) \ {m}
  BY <1>1, TailDrops DEF IsNext
<1>3. m \in Elements(queue[From[m]]) /\ attempts[m] < MaxAttempts /\ stage[m] = "queued" /\ attempts[m] \in Nat
  BY <1>1, <1>2 DEF DeliveryInv, BatchesAreLive, RowsAreOwed, TypeOK
<1>4. batch' = [batch EXCEPT ![From[m]] = [batch[From[m]] EXCEPT ![w] = t]]
  BY DEF Advance
<1> DEFINE row == [batch[From[m]] EXCEPT ![w] = t]
<1> HIDE DEF t
<1>5. row \in [Worker -> Seq(Msg)] /\ row[w] = t /\ \A v \in Worker : v # w => row[v] = batch[From[m]][v]
  BY <1>1, <1>2
<1> HIDE DEF row
<1>6. /\ batch' \in [Server -> [Worker -> Seq(Msg)]]
      /\ batch'[From[m]] = row /\ \A s \in Server : s # From[m] => batch'[s] = batch[s]
  <2>1. batch' = [batch EXCEPT ![From[m]] = row]
    BY <1>4 DEF row
  <2> QED BY <1>1, <1>5, <2>1
<1>7. ASSUME NEW s \in Server, NEW v \in Worker, s # From[m] \/ v # w PROVE m \notin Elements(batch[s][v])
  <2>1. CASE s # From[m]
    BY <2>1 DEF DeliveryInv, BatchesAreLive, RowsAreOwed
  <2>2. CASE s = From[m] /\ v # w
    <3>1. batch[s][v] = << >>
      BY <2>2 DEF DeliveryInv, BatchesAreLive, IsNext
    <3> QED BY <3>1 DEF Elements
  <2> QED BY <1>7, <2>1, <2>2
<1>8. ASSUME NEW s \in Server, NEW v \in Worker
      PROVE  /\ Distinct(batch'[s][v]) /\ Elements(batch'[s][v]) \subseteq Elements(batch[s][v]) \ {m}
             /\ batch'[s][v] # << >> => batch[s][v] # << >>
             /\ s # From[m] \/ v # w => batch'[s][v] = batch[s][v]
  <2>1. CASE s = From[m] /\ v = w
    BY <1>2, <1>5, <1>6, <2>1 DEF IsNext
  <2>2. CASE s # From[m] \/ v # w
    <3>1. batch'[s][v] = batch[s][v]
      BY <1>5, <1>6, <2>2
    <3> QED BY <1>1, <1>7, <2>2, <3>1
  <2> QED BY <2>1, <2>2
<1> QED BY <1>3, <1>6, <1>8 DEF Advanced

LEMMA FailedKeeps ==
    ASSUME DeliveryInv, NEW m \in Msg, NEW w \in Worker, IsNext(m, w), Failed(m, w)
    PROVE  /\ attempts' \in [Msg -> 0..MaxAttempts] /\ batch' \in [Server -> [Worker -> Seq(Msg)]]
           /\ BatchesAreLive' /\ stage[m] = "queued"
           /\ Advanced(m, w)
<1>1. /\ attempts' = [attempts EXCEPT ![m] = @ + 1] /\ UNCHANGED <<stage, queue>>
      /\ Advance(m, w)
  BY DEF Failed, Advance
<1>2. /\ batch' \in [Server -> [Worker -> Seq(Msg)]]
      /\ m \in Elements(queue[From[m]]) /\ stage[m] = "queued"
      /\ attempts[m] \in Nat /\ attempts[m] < MaxAttempts
      /\ Advanced(m, w)
  BY <1>1, TakesNext
<1>3. /\ attempts' \in [Msg -> 0..MaxAttempts]
      /\ \A x \in Msg : x # m => attempts'[x] = attempts[x]
  <2>1. attempts \in [Msg -> 0..MaxAttempts] /\ attempts[m] + 1 \in 0..MaxAttempts
    BY <1>2, LimitAssumption DEF DeliveryInv, TypeOK, LimitAssumption
  <2> QED BY <1>1, <2>1
<1>4. BatchesAreLive'
  <2> SUFFICES ASSUME NEW s \in Server, NEW v \in Worker
               PROVE  /\ Distinct(batch'[s][v])
                      /\ \A x \in Elements(batch'[s][v]) : x \in Elements(queue'[s]) /\ attempts'[x] < MaxAttempts
                      /\ \A u \in Worker : batch'[s][u] # << >> /\ batch'[s][v] # << >> => u = v
    BY DEF BatchesAreLive
  <2>1. ASSUME NEW x \in Elements(batch'[s][v]) PROVE x \in Elements(queue'[s]) /\ attempts'[x] < MaxAttempts
    <3>1. x \in Elements(batch[s][v]) /\ x # m
      BY <1>2, <2>1 DEF Advanced
    <3>2. x \in Elements(queue[s]) /\ attempts[x] < MaxAttempts
      BY <3>1 DEF DeliveryInv, BatchesAreLive
    <3>3. x \in Msg
      <4>1. batch[s][v] \in Seq(Msg)
        BY DEF DeliveryInv, TypeOK
      <4> QED BY <3>1, <4>1 DEF Elements
    <3> QED BY <1>1, <1>3, <3>1, <3>2, <3>3
  <2>2. \A u \in Worker : batch'[s][u] # << >> /\ batch'[s][v] # << >> => u = v
    BY <1>2 DEF DeliveryInv, BatchesAreLive, Advanced
  <2> QED BY <1>2, <2>1, <2>2 DEF Advanced
<1> QED BY <1>2, <1>3, <1>4 

LEMMA SettledKeeps ==
    ASSUME DeliveryInv, NEW m \in Msg, NEW w \in Worker, IsNext(m, w), Settled(m, w)
    PROVE  /\ stage' \in [Msg -> {"unsent", "sending", "queued", "settled", "failed", "orphaned"}]
           /\ queue' \in [Server -> Seq(Msg)] /\ batch' \in [Server -> [Worker -> Seq(Msg)]]
           /\ RowsAreOwed' /\ OwedHaveRows' /\ BatchesAreLive' /\ stage[m] = "queued"
           /\ stage'[m] = "settled" /\ \A x \in Msg \ {m} : stage'[x] = stage[x]
           /\ Advanced(m, w)
<1>1. /\ stage' = [stage EXCEPT ![m] = "settled"] /\ UNCHANGED attempts
      /\ queue' = [queue EXCEPT ![From[m]] = Without(m)]
      /\ Advance(m, w)
  BY DEF Settled, Advance
<1>2. /\ batch' \in [Server -> [Worker -> Seq(Msg)]]
      /\ m \in Elements(queue[From[m]]) /\ stage[m] = "queued"
      /\ attempts[m] \in Nat /\ attempts[m] < MaxAttempts
      /\ Advanced(m, w)
  BY <1>1, TakesNext
<1>3. TypeOK /\ RowsAreOwed /\ OwedHaveRows /\ From[m] \in Server
  BY MessageTypes DEF DeliveryInv
<1> DEFINE q == Without(m)
<1>4. q \in Seq(Msg) /\ Distinct(q) /\ Elements(q) = Elements(queue[From[m]]) \ {m}
  BY <1>2, <1>3, WithoutRow
<1> HIDE DEF q
<1>5. /\ queue' \in [Server -> Seq(Msg)]
      /\ \A s \in Server : queue'[s] = IF s = From[m] THEN q ELSE queue[s]
  BY <1>1, <1>3, <1>4 DEF q, TypeOK
<1>6. \A s \in Server : Distinct(queue'[s]) /\ Elements(queue'[s]) = Elements(queue[s]) \ {m}
  BY <1>3, <1>4, <1>5 DEF RowsAreOwed
<1>7. /\ stage' \in [Msg -> {"unsent", "sending", "queued", "settled", "failed", "orphaned"}]
      /\ \A x \in Msg : stage'[x] = IF x = m THEN "settled" ELSE stage[x]
  BY <1>1, <1>3 DEF TypeOK
<1>8. \A s \in Server : Elements(queue[s]) \subseteq Msg
  <2>1. \A s \in Server : queue[s] \in Seq(Msg)
    BY <1>3 DEF TypeOK
  <2> QED BY <2>1 DEF Elements
<1>9. RowsAreOwed'
  BY <1>3, <1>6, <1>7, <1>8 DEF RowsAreOwed
<1>10. OwedHaveRows'
  <2> SUFFICES ASSUME NEW x \in Msg, stage'[x] = "queued" PROVE x \in Elements(queue'[From[x]])
    BY DEF OwedHaveRows
  <2>1. x # m /\ x \in Elements(queue[From[x]]) /\ From[x] \in Server
    BY <1>3, <1>7, MessageTypes DEF OwedHaveRows
  <2> QED BY <1>6, <2>1
<1>11. BatchesAreLive'
  <2> SUFFICES ASSUME NEW s \in Server, NEW v \in Worker
               PROVE  /\ Distinct(batch'[s][v])
                      /\ \A x \in Elements(batch'[s][v]) : x \in Elements(queue'[s]) /\ attempts'[x] < MaxAttempts
                      /\ \A u \in Worker : batch'[s][u] # << >> /\ batch'[s][v] # << >> => u = v
    BY DEF BatchesAreLive
  <2>1. ASSUME NEW x \in Elements(batch'[s][v]) PROVE x \in Elements(queue'[s]) /\ attempts'[x] < MaxAttempts
    <3>1. x \in Elements(batch[s][v]) /\ x # m
      BY <1>2, <2>1 DEF Advanced
    <3>2. x \in Elements(queue[s]) /\ attempts[x] < MaxAttempts
      BY <3>1 DEF DeliveryInv, BatchesAreLive
    <3> QED BY <1>1, <1>6, <3>1, <3>2
  <2>2. \A u \in Worker : batch'[s][u] # << >> /\ batch'[s][v] # << >> => u = v
    BY <1>2 DEF DeliveryInv, BatchesAreLive, Advanced
  <2> QED BY <1>2, <2>1, <2>2 DEF Advanced
<1> QED BY <1>2, <1>5, <1>7, <1>9, <1>10, <1>11 DEF Advanced
\* The caller of a request for m goes; every other one waits on as before.
LEMMA CallersStay ==
    ASSUME DeliveryInv, NEW m \in Msg,
           call' = [call EXCEPT ![m] = NoCall], answer' = [answer EXCEPT ![m] = NoAnswer],
           \A x \in Msg \ {m} : stage'[x] = stage[x],
           \A s \in Server, v \in Worker : s # From[m] \/ v # call[m] => batch'[s][v] = batch[s][v]
    PROVE  /\ call' \in [Msg -> Worker \cup {Direct, NoCall}]
           /\ answer' \in [Msg -> Answer \cup {NoAnswer}]
           /\ answer'[m] = NoAnswer /\ \A x \in Msg \ {m} : answer'[x] = answer[x]
           /\ CallersWait'
<1>1. /\ call \in [Msg -> Worker \cup {Direct, NoCall}] /\ answer \in [Msg -> Answer \cup {NoAnswer}]
      /\ NoCall \notin Worker /\ Direct # NoCall
  BY WorkerAssumption DEF DeliveryInv, TypeOK, WorkerAssumption
<1>2. call' \in [Msg -> Worker \cup {Direct, NoCall}] /\ call'[m] = NoCall
  BY <1>1
<1>3. answer' \in [Msg -> Answer \cup {NoAnswer}] /\ answer'[m] = NoAnswer
  BY <1>1
<1>4. \A x \in Msg \ {m} : call'[x] = call[x] /\ answer'[x] = answer[x]
  BY <1>1
<1>5. ASSUME NEW x \in Msg
      PROVE  /\ call'[x] = Direct => stage'[x] = "sending"
             /\ call'[x] \in Worker => /\ batch'[From[x]][call'[x]] # << >>
                                       /\ x = Head(batch'[From[x]][call'[x]])
             /\ call'[x] = NoCall => answer'[x] = NoAnswer
  <2>1. CASE x = m
    BY <1>1, <1>2, <1>3, <2>1
  <2>2. CASE x # m
    <3>1. /\ call'[x] = call[x] /\ answer'[x] = answer[x] /\ stage'[x] = stage[x]
          /\ From[x] \in Server
      BY <1>4, <2>2, RouteAssumption DEF RouteAssumption
    <3>2. ASSUME call[x] \in Worker
          PROVE  /\ batch[From[x]][call[x]] # << >> /\ x = Head(batch[From[x]][call[x]])
                 /\ batch'[From[x]][call[x]] = batch[From[x]][call[x]]
      <4>1. batch[From[x]][call[x]] # << >> /\ x = Head(batch[From[x]][call[x]])
        BY <3>2 DEF DeliveryInv, CallersWait
      <4>2. CASE From[x] = From[m] /\ call[x] = call[m]
        <5>1. m = Head(batch[From[m]][call[m]])
          BY <3>2, <4>2 DEF DeliveryInv, CallersWait
        <5> QED BY <2>2, <4>1, <4>2, <5>1
      <4>3. CASE From[x] # From[m] \/ call[x] # call[m]
        BY <3>1, <3>2, <4>1, <4>3
      <4> QED BY <4>2, <4>3
    <3> QED BY <3>1, <3>2 DEF DeliveryInv, CallersWait
  <2> QED BY <2>1, <2>2
<1> QED BY <1>2, <1>3, <1>4, <1>5 DEF CallersWait

\* What a request leaves behind, however it ended.
Concluded(m, delivered) ==
    /\ stage \in [Msg -> {"unsent", "sending", "queued", "settled", "failed", "orphaned"}]
    /\ queue \in [Server -> Seq(Msg)] /\ attempts \in [Msg -> 0..MaxAttempts]
    /\ batch \in [Server -> [Worker -> Seq(Msg)]] /\ faults \in 0..MaxFaults
    /\ call \in [Msg -> Worker \cup {Direct, NoCall}] /\ answer \in [Msg -> Answer \cup {NoAnswer}]
    /\ RowsAreOwed /\ OwedHaveRows /\ BatchesAreLive /\ CallersWait
    /\ answer[m] = NoAnswer
    /\ stage[m] = "settled" <=> delivered

LEMMA AskedForIsOwed ==
    ASSUME DeliveryInv, NEW m \in Msg, call[m] # NoCall
    PROVE  /\ stage[m] \in {"sending", "queued"}
           /\ call[m] = Direct => stage[m] = "sending"
           /\ call[m] # Direct => call[m] \in Worker /\ IsNext(m, call[m])
<1>1. /\ call[m] \in Worker \/ call[m] = Direct
      /\ From[m] \in Server /\ Direct \notin Worker
  BY MessageTypes DEF DeliveryInv
<1>2. CASE call[m] = Direct
  BY <1>2 DEF DeliveryInv, CallersWait
<1>3. CASE call[m] \in Worker
  <2>1. IsNext(m, call[m])
    BY <1>3 DEF DeliveryInv, CallersWait, IsNext
  <2>2. batch[From[m]][call[m]] \in Seq(Msg) /\ Distinct(batch[From[m]][call[m]])
    BY <1>1, <1>3 DEF DeliveryInv, TypeOK, BatchesAreLive
  <2>3. m \in Elements(batch[From[m]][call[m]])
    BY <2>1, <2>2, TailDrops DEF IsNext
  <2>4. m \in Elements(queue[From[m]])
    BY <1>1, <1>3, <2>3 DEF DeliveryInv, BatchesAreLive
  <2>5. stage[m] = "queued"
    BY <1>1, <2>4 DEF DeliveryInv, RowsAreOwed
  <2> QED BY <1>1, <1>3, <2>1, <2>5
<1> QED BY <1>1, <1>2, <1>3

LEMMA ConcludeKeeps ==
    ASSUME DeliveryInv, NEW m \in Msg, NEW delivered \in BOOLEAN, call[m] # NoCall,
           Conclude(m, delivered)
    PROVE  /\ Concluded(m, delivered)'
           /\ \A x \in Msg \ {m} : stage'[x] = stage[x] /\ answer'[x] = answer[x]
<1>1. /\ stage[m] \in {"sending", "queued"}
      /\ call[m] = Direct => stage[m] = "sending"
      /\ call[m] # Direct => call[m] \in Worker /\ IsNext(m, call[m])
      /\ Direct \notin Worker
  BY AskedForIsOwed, WorkerAssumption DEF WorkerAssumption
<1>2. call' = [call EXCEPT ![m] = NoCall] /\ answer' = [answer EXCEPT ![m] = NoAnswer]
  BY DEF Conclude
<1>3. /\ stage \in [Msg -> {"unsent", "sending", "queued", "settled", "failed", "orphaned"}]
      /\ queue \in [Server -> Seq(Msg)] /\ attempts \in [Msg -> 0..MaxAttempts]
      /\ batch \in [Server -> [Worker -> Seq(Msg)]] /\ faults \in 0..MaxFaults
      /\ RowsAreOwed /\ OwedHaveRows /\ BatchesAreLive
      /\ From[m] \in Server /\ \A s \in Server : Elements(queue[s]) \subseteq Msg
  <2>1. TypeOK /\ RowsAreOwed /\ OwedHaveRows /\ BatchesAreLive /\ From[m] \in Server
    BY MessageTypes DEF DeliveryInv
  <2>2. \A s \in Server : queue[s] \in Seq(Msg)
    BY <2>1 DEF TypeOK
  <2>3. \A s \in Server : Elements(queue[s]) \subseteq Msg
    BY <2>2 DEF Elements
  <2> QED BY <2>1, <2>3 DEF TypeOK
<1>4. CASE call[m] = Direct /\ delivered
  <2>1. /\ stage' = [stage EXCEPT ![m] = "settled"] /\ UNCHANGED <<queue, attempts, batch, faults>>
    BY <1>1, <1>4 DEF Conclude
  <2>2. /\ stage' \in [Msg -> {"unsent", "sending", "queued", "settled", "failed", "orphaned"}]
        /\ stage'[m] = "settled" /\ \A x \in Msg \ {m} : stage'[x] = stage[x]
    BY <1>3, <2>1
  <2>3. /\ call' \in [Msg -> Worker \cup {Direct, NoCall}] /\ answer' \in [Msg -> Answer \cup {NoAnswer}]
        /\ answer'[m] = NoAnswer /\ \A x \in Msg \ {m} : answer'[x] = answer[x]
        /\ CallersWait'
    BY <1>2, <2>1, <2>2, CallersStay
  <2>4. stage[m] # "queued"
    BY <1>1, <1>4
  <2>5. RowsAreOwed'
    BY <1>3, <2>1, <2>2, <2>4 DEF RowsAreOwed
  <2>6. OwedHaveRows'
    BY <1>3, <2>1, <2>2 DEF OwedHaveRows
  <2>7. BatchesAreLive'
    BY <1>3, <2>1, BatchesStay
  <2> QED BY <1>3, <1>4, <2>1, <2>2, <2>3, <2>5, <2>6, <2>7 DEF Concluded
<1>5. CASE call[m] = Direct /\ ~delivered
  <2>1. Enqueue(m) /\ UNCHANGED batch /\ stage[m] = "sending"
    BY <1>1, <1>5 DEF Conclude
  <2>2. /\ stage' \in [Msg -> {"unsent", "sending", "queued", "settled", "failed", "orphaned"}]
        /\ queue' \in [Server -> Seq(Msg)] /\ attempts' \in [Msg -> 0..MaxAttempts]
        /\ faults' \in 0..MaxFaults
        /\ RowsAreOwed' /\ OwedHaveRows'
        /\ \A s \in Server : Elements(queue[s]) \subseteq Elements(queue'[s])
        /\ \A x \in Msg : attempts'[x] \in {attempts[x], 0}
        /\ stage'[m] \in {"queued", "failed"} /\ \A x \in Msg \ {m} : stage'[x] = stage[x]
    BY <2>1, EnqueueKeeps
  <2>3. /\ call' \in [Msg -> Worker \cup {Direct, NoCall}] /\ answer' \in [Msg -> Answer \cup {NoAnswer}]
        /\ answer'[m] = NoAnswer /\ \A x \in Msg \ {m} : answer'[x] = answer[x]
        /\ CallersWait'
    BY <1>2, <2>1, <2>2, CallersStay
  <2>4. \A x \in Msg : attempts[x] < MaxAttempts => attempts'[x] < MaxAttempts
    <3>1. MaxAttempts \in Nat \ {0}
      BY LimitAssumption DEF LimitAssumption
    <3>2. ASSUME NEW x \in Msg, attempts[x] < MaxAttempts PROVE attempts'[x] < MaxAttempts
      <4>1. attempts'[x] = attempts[x] \/ attempts'[x] = 0
        BY <2>2
      <4> QED BY <3>1, <3>2, <4>1
    <3> QED BY <3>2
  <2>5. BatchesAreLive'
    BY <1>3, <2>1, <2>2, <2>4, BatchesStay
  <2> QED BY <1>3, <1>5, <2>1, <2>2, <2>3, <2>5 DEF Concluded
<1>6. CASE call[m] \in Worker /\ delivered
  <2>1. Settled(m, call[m]) /\ UNCHANGED faults /\ IsNext(m, call[m])
    BY <1>1, <1>6 DEF Conclude
  <2>2. /\ stage' \in [Msg -> {"unsent", "sending", "queued", "settled", "failed", "orphaned"}]
        /\ queue' \in [Server -> Seq(Msg)] /\ batch' \in [Server -> [Worker -> Seq(Msg)]]
        /\ RowsAreOwed' /\ OwedHaveRows' /\ BatchesAreLive'
        /\ stage'[m] = "settled" /\ \A x \in Msg \ {m} : stage'[x] = stage[x]
        /\ Advanced(m, call[m])
    BY <1>6, <2>1, SettledKeeps
  <2>3. attempts' = attempts
    BY <2>1 DEF Settled
  <2>4. /\ call' \in [Msg -> Worker \cup {Direct, NoCall}] /\ answer' \in [Msg -> Answer \cup {NoAnswer}]
        /\ answer'[m] = NoAnswer /\ \A x \in Msg \ {m} : answer'[x] = answer[x]
        /\ CallersWait'
    <3>1. \A s \in Server, v \in Worker : s # From[m] \/ v # call[m] => batch'[s][v] = batch[s][v]
      BY <2>2 DEF Advanced
    <3> QED BY <1>2, <2>2, <3>1, CallersStay
  <2> QED BY <1>3, <1>6, <2>1, <2>2, <2>3, <2>4 DEF Concluded
<1>7. CASE call[m] \in Worker /\ ~delivered
  <2>1. Failed(m, call[m]) /\ UNCHANGED faults /\ IsNext(m, call[m])
    BY <1>1, <1>7 DEF Conclude
  <2>2. /\ attempts' \in [Msg -> 0..MaxAttempts] /\ batch' \in [Server -> [Worker -> Seq(Msg)]]
        /\ BatchesAreLive' /\ stage[m] = "queued" /\ Advanced(m, call[m])
    BY <1>7, <2>1, FailedKeeps
  <2>3. UNCHANGED <<stage, queue>>
    BY <2>1 DEF Failed
  <2>4. /\ call' \in [Msg -> Worker \cup {Direct, NoCall}] /\ answer' \in [Msg -> Answer \cup {NoAnswer}]
        /\ answer'[m] = NoAnswer /\ \A x \in Msg \ {m} : answer'[x] = answer[x]
        /\ CallersWait'
    <3>1. \A s \in Server, v \in Worker : s # From[m] \/ v # call[m] => batch'[s][v] = batch[s][v]
      BY <2>2 DEF Advanced
    <3>2. \A x \in Msg \ {m} : stage'[x] = stage[x]
      BY <2>3
    <3> QED BY <1>2, <3>1, <3>2, CallersStay
  <2>5. RowsAreOwed' /\ OwedHaveRows'
    BY <1>3, <2>3 DEF RowsAreOwed, OwedHaveRows
  <2> QED BY <1>3, <1>7, <2>1, <2>2, <2>3, <2>4, <2>5 DEF Concluded
<1> QED BY <1>1, <1>4, <1>5, <1>6, <1>7
\* The answer to a message's request is not given, or its sender is not done
\* with the message.
LEMMA AnsweredIsOwed ==
    ASSUME DeliveryInv, NEW m \in Msg, answer[m] # NoAnswer
    PROVE  call[m] # NoCall /\ stage[m] # "settled"
<1>1. call[m] # NoCall
  BY DEF DeliveryInv, CallersWait
<1> QED BY <1>1, AskedForIsOwed

LEMMA InitInv == Init => DeliveryInv
<1> SUFFICES ASSUME Init PROVE DeliveryInv
  OBVIOUS
<1>1. TypeOK
  <2>1. /\ 0 \in 0..MaxAttempts /\ 0 \in 0..MaxFaults /\ 0 \in 0..MaxLosses
        /\ 0 \in 0..MaxCrashes /\ 0 \in 0..MaxBlocks
    BY LimitAssumption DEF LimitAssumption
  <2>2. << >> \in Seq(Msg)
    OBVIOUS
  <2> QED BY <2>1, <2>2 DEF Init, TypeOK
<1>2. Elements(<< >>) = {} /\ Distinct(<< >>)
  BY DEF Elements, Distinct
<1>3. RowsAreOwed /\ OwedHaveRows
  BY <1>2 DEF Init, RowsAreOwed, OwedHaveRows
<1>4. BatchesAreLive
  BY <1>2 DEF Init, BatchesAreLive
<1>5. CallersWait
  BY WorkerAssumption DEF Init, CallersWait, WorkerAssumption
<1>6. CopiesAreCounted
  BY DEF Init, CopiesAreCounted, CopiesCounted, NoAnswer
<1>7. OnlyRefusalsLose
  BY DEF Init, OnlyRefusalsLose
<1> QED BY <1>1, <1>3, <1>4, <1>5, <1>6, <1>7 DEF DeliveryInv

LEMMA SendInv == ASSUME DeliveryInv, NEW m \in Msg, Send(m) PROVE DeliveryInv'
<1>1. /\ TypeOK /\ RowsAreOwed /\ OwedHaveRows /\ BatchesAreLive /\ CallersWait
      /\ CopiesAreCounted /\ OnlyRefusalsLose
  BY DEF DeliveryInv
<1>2. /\ stage[m] = "unsent"
      /\ UNCHANGED <<peers, drains, answer, stray, received, losses, crashes, blocks>>
  BY DEF Send
<1>3. /\ \A s \in Server : Elements(queue[s]) \subseteq Msg
      /\ call[m] = NoCall /\ answer[m] = NoAnswer
  <2>1. \A s \in Server : queue[s] \in Seq(Msg)
    BY <1>1 DEF TypeOK
  <2>2. \A s \in Server : Elements(queue[s]) \subseteq Msg
    BY <2>1 DEF Elements
  <2>3. call[m] = NoCall
    BY <1>2, AskedForIsOwed
  <2> QED BY <1>1, <2>2, <2>3 DEF CallersWait
<1>4. CASE ActivePeer(m) /\ stage' = [stage EXCEPT ![m] = "sending"]
           /\ call' = [call EXCEPT ![m] = Direct] /\ UNCHANGED <<queue, attempts, faults>>
  <2>1. /\ stage' \in [Msg -> {"unsent", "sending", "queued", "settled", "failed", "orphaned"}]
        /\ \A x \in Msg : stage'[x] = IF x = m THEN "sending" ELSE stage[x]
    BY <1>1, <1>4 DEF TypeOK
  <2>2. /\ call' \in [Msg -> Worker \cup {Direct, NoCall}]
        /\ \A x \in Msg : call'[x] = IF x = m THEN Direct ELSE call[x]
    BY <1>1, <1>4 DEF TypeOK
  <2>3. TypeOK'
    BY <1>1, <1>2, <1>4, <2>1, <2>2 DEF TypeOK, peers, drains, received
  <2>4. RowsAreOwed' /\ OwedHaveRows'
    BY <1>1, <1>2, <1>3, <1>4, <2>1 DEF RowsAreOwed, OwedHaveRows
  <2>5. BatchesAreLive'
    BY <1>1, <1>2, <1>3, <1>4, BatchesStay DEF drains
  <2>6. CallersWait'
    BY <1>1, <1>2, <2>1, <2>2, WorkerAssumption DEF CallersWait, drains, WorkerAssumption
  <2>7. CopiesAreCounted' /\ OnlyRefusalsLose'
    BY <1>1, <1>2, <2>1 DEF CopiesAreCounted, CopiesCounted, OnlyRefusalsLose, received
  <2> QED BY <2>3, <2>4, <2>5, <2>6, <2>7 DEF DeliveryInv
<1>5. CASE Enqueue(m) /\ UNCHANGED call
  <2>1. /\ stage' \in [Msg -> {"unsent", "sending", "queued", "settled", "failed", "orphaned"}]
        /\ queue' \in [Server -> Seq(Msg)] /\ attempts' \in [Msg -> 0..MaxAttempts]
        /\ faults' \in 0..MaxFaults
        /\ RowsAreOwed' /\ OwedHaveRows'
        /\ \A s \in Server : Elements(queue[s]) \subseteq Elements(queue'[s])
        /\ \A x \in Msg : attempts'[x] \in {attempts[x], 0}
        /\ stage'[m] \in {"queued", "failed"} /\ \A x \in Msg \ {m} : stage'[x] = stage[x]
    BY <1>2, <1>5, EnqueueKeeps
  <2>2. TypeOK'
    BY <1>1, <1>2, <1>5, <2>1 DEF TypeOK, peers, drains, received
  <2>3. BatchesAreLive'
    <3>1. ASSUME NEW x \in Msg, attempts[x] < MaxAttempts PROVE attempts'[x] < MaxAttempts
      <4>1. MaxAttempts \in Nat \ {0} /\ (attempts'[x] = attempts[x] \/ attempts'[x] = 0)
        BY <2>1, LimitAssumption DEF LimitAssumption
      <4> QED BY <3>1, <4>1
    <3>2. batch' = batch
      BY <1>2 DEF drains
    <3> QED BY <1>1, <1>3, <2>1, <3>1, <3>2, BatchesStay
  <2>4. CallersWait'
    BY <1>1, <1>2, <1>3, <1>5, <2>1, WorkerAssumption DEF CallersWait, drains, WorkerAssumption
  <2>5. CopiesAreCounted' /\ OnlyRefusalsLose'
    BY <1>1, <1>2, <2>1 DEF CopiesAreCounted, CopiesCounted, OnlyRefusalsLose, received
  <2> QED BY <2>1, <2>2, <2>3, <2>4, <2>5 DEF DeliveryInv
<1> QED BY <1>4, <1>5 DEF Send

LEMMA ReturnInv == ASSUME DeliveryInv, NEW m \in Msg, Return(m) PROVE DeliveryInv'
<1>1. TypeOK /\ CopiesAreCounted /\ OnlyRefusalsLose
  BY DEF DeliveryInv
<1>2. /\ answer[m] # NoAnswer /\ Conclude(m, answer[m] \in Delivered)
      /\ UNCHANGED <<peers, woken, stray, received, losses, crashes, blocks>>
  BY DEF Return
<1>3. call[m] # NoCall /\ stage[m] # "settled"
  BY <1>2, AnsweredIsOwed
<1>4. PICK delivered \in BOOLEAN : delivered <=> answer[m] \in Delivered
  OBVIOUS
<1>5. /\ Concluded(m, delivered)'
      /\ \A x \in Msg \ {m} : stage'[x] = stage[x] /\ answer'[x] = answer[x]
  <2>1. Conclude(m, delivered)
    BY <1>2, <1>4 DEF Conclude
  <2> QED BY <1>3, <2>1, ConcludeKeeps
<1>6. TypeOK'
  BY <1>1, <1>2, <1>5 DEF TypeOK, Concluded, peers, received
<1>7. answer'[m] = NoAnswer /\ (stage'[m] = "settled" <=> answer[m] \in Delivered)
  BY <1>4, <1>5 DEF Concluded
<1>8. inbox' = inbox /\ lostAnswers' = lostAnswers /\ turnedAway' = turnedAway
  BY <1>2 DEF received
<1>9. CopiesCounted(m)' /\ (stage'[m] = "settled" => inbox'[m] > 0 \/ m \in turnedAway')
  BY <1>1, <1>3, <1>7, <1>8, MessageTypes DEF CopiesAreCounted, CopiesCounted, Delivered, NoAnswer
<1>10. CopiesAreCounted' /\ OnlyRefusalsLose'
  BY <1>1, <1>5, <1>8, <1>9 DEF CopiesAreCounted, CopiesCounted, OnlyRefusalsLose
<1> QED BY <1>5, <1>6, <1>10 DEF DeliveryInv, Concluded

LEMMA GiveUpInv == ASSUME DeliveryInv, NEW m \in Msg, GiveUp(m) PROVE DeliveryInv'
<1>1. TypeOK /\ CopiesAreCounted /\ OnlyRefusalsLose
  BY DEF DeliveryInv
<1>2. /\ call[m] # NoCall /\ answer[m] # "reset" /\ Conclude(m, FALSE)
      /\ losses < MaxLosses /\ losses' = losses + 1
      /\ stray' \in {stray, stray \cup {m}}
      /\ lostAnswers' = [lostAnswers EXCEPT ![m] = IF answer[m] = "created" THEN @ + 1 ELSE @]
      /\ UNCHANGED <<peers, woken, inbox, turnedAway, crashes, blocks>>
  BY DEF GiveUp
<1>3. stage[m] # "settled"
  BY <1>2, AskedForIsOwed
<1>4. /\ Concluded(m, FALSE)'
      /\ \A x \in Msg \ {m} : stage'[x] = stage[x] /\ answer'[x] = answer[x]
  BY <1>2, ConcludeKeeps
<1>5. lostAnswers' \in [Msg -> Nat] /\ losses' \in 0..MaxLosses
  <2>1. lostAnswers \in [Msg -> Nat] /\ lostAnswers[m] \in Nat
    BY <1>1 DEF TypeOK
  <2>2. lostAnswers' \in [Msg -> Nat]
    BY <1>2, <2>1
  <2>3. losses' \in 0..MaxLosses
    BY <1>1, <1>2, LimitAssumption DEF TypeOK, LimitAssumption
  <2> QED BY <2>2, <2>3
<1>6. TypeOK'
  BY <1>1, <1>2, <1>4, <1>5 DEF TypeOK, Concluded, peers
<1>7. answer'[m] = NoAnswer /\ stage'[m] # "settled"
  BY <1>4 DEF Concluded
<1>8. \A x \in Msg : lostAnswers'[x] = IF x = m /\ answer[m] = "created" THEN lostAnswers[x] + 1 ELSE lostAnswers[x]
  BY <1>1, <1>2 DEF TypeOK
<1>9. CopiesCounted(m)'
  BY <1>1, <1>2, <1>3, <1>7, <1>8, MessageTypes DEF CopiesAreCounted, CopiesCounted, NoAnswer
<1>10. ASSUME NEW x \in Msg, x # m PROVE CopiesCounted(x)'
  BY <1>1, <1>2, <1>4, <1>8, <1>10 DEF CopiesAreCounted, CopiesCounted
<1>11. CopiesAreCounted' /\ OnlyRefusalsLose'
  BY <1>1, <1>2, <1>4, <1>7, <1>9, <1>10 DEF CopiesAreCounted, OnlyRefusalsLose
<1> QED BY <1>4, <1>6, <1>11 DEF DeliveryInv, Concluded

\* The sender's side is as it was: no row, batch or waiting caller changes.
LEMMA SenderStays ==
    ASSUME DeliveryInv, UNCHANGED <<stage, queue, attempts, batch, call>>,
           \A x \in Msg : call[x] = NoCall => answer'[x] = NoAnswer
    PROVE  RowsAreOwed' /\ OwedHaveRows' /\ BatchesAreLive' /\ CallersWait'
<1>1. RowsAreOwed' /\ OwedHaveRows'
  BY DEF DeliveryInv, RowsAreOwed, OwedHaveRows
<1>2. BatchesAreLive'
  BY DEF DeliveryInv, BatchesAreLive
<1>3. CallersWait'
  BY DEF DeliveryInv, CallersWait
<1> QED BY <1>1, <1>2, <1>3

\* A request is answered 201 with a new copy, and 403 after it was turned away.
LEMMA HandleCounts ==
    ASSUME TypeOK, NEW m \in Msg, NEW code \in Answer, Handle(m, code)
    PROVE  /\ inbox' \in [Msg -> Nat] /\ turnedAway' \in SUBSET Msg /\ faults' \in 0..MaxFaults
           /\ \A x \in Msg : inbox'[x] = IF x = m /\ code = "created" THEN inbox[x] + 1 ELSE inbox[x]
           /\ turnedAway \subseteq turnedAway' /\ (code = "refused" => m \in turnedAway')
<1>1. /\ inbox \in [Msg -> Nat] /\ inbox[m] \in Nat /\ turnedAway \in SUBSET Msg
      /\ faults \in 0..MaxFaults /\ MaxFaults \in Nat
  BY LimitAssumption DEF TypeOK, LimitAssumption
<1>2. CASE code = "refused" /\ UNCHANGED inbox /\ NoFault /\ turnedAway' = turnedAway \cup {m}
  BY <1>1, <1>2 DEF NoFault
<1>3. CASE code = "created" /\ inbox' = [inbox EXCEPT ![m] = @ + 1] /\ NoFault /\ UNCHANGED turnedAway
  BY <1>1, <1>3 DEF NoFault
<1>4. CASE code = "error" /\ UNCHANGED inbox /\ (NoFault \/ Fault) /\ UNCHANGED turnedAway
  BY <1>1, <1>4 DEF NoFault, Fault
<1> QED BY <1>2, <1>3, <1>4 DEF Handle

LEMMA ServeInv == ASSUME DeliveryInv, NEW m \in Msg, Serve(m) PROVE DeliveryInv'
<1>1. TypeOK /\ CopiesAreCounted /\ OnlyRefusalsLose
  BY DEF DeliveryInv
<1>2. PICK code \in Answer :
        /\ \/ Handle(m, code)
           \/ To[m] \notin up /\ code = "reset" /\ UNCHANGED <<inbox, turnedAway, faults>>
        /\ answer' = [answer EXCEPT ![m] = code]
  BY DEF Serve
<1>3. /\ call[m] # NoCall /\ answer[m] = NoAnswer /\ stage[m] # "settled"
      /\ UNCHANGED <<peers, rows, drains, call, stray, lostAnswers, losses, crashes, blocks>>
  BY AskedForIsOwed DEF Serve
<1>4. /\ inbox' \in [Msg -> Nat] /\ turnedAway' \in SUBSET Msg /\ faults' \in 0..MaxFaults
      /\ \A x \in Msg : inbox'[x] = IF x = m /\ code = "created" THEN inbox[x] + 1 ELSE inbox[x]
      /\ turnedAway \subseteq turnedAway' /\ (code = "refused" => m \in turnedAway')
  <2>1. CASE Handle(m, code)
    BY <1>1, <2>1, HandleCounts
  <2>2. CASE code = "reset" /\ UNCHANGED <<inbox, turnedAway, faults>>
    BY <1>1, <2>2 DEF TypeOK
  <2> QED BY <1>2, <2>1, <2>2
<1>5. /\ answer' \in [Msg -> Answer \cup {NoAnswer}]
      /\ \A x \in Msg : answer'[x] = IF x = m THEN code ELSE answer[x]
  BY <1>1, <1>2 DEF TypeOK
<1>6. TypeOK'
  BY <1>1, <1>3, <1>4, <1>5 DEF TypeOK, peers, rows, drains
<1>7. \A x \in Msg : call[x] = NoCall => answer'[x] = NoAnswer
  BY <1>3, <1>5 DEF DeliveryInv, CallersWait
<1>8. RowsAreOwed' /\ OwedHaveRows' /\ BatchesAreLive' /\ CallersWait'
  BY <1>3, <1>7, SenderStays DEF rows, drains
<1>9. stage' = stage /\ lostAnswers' = lostAnswers
  BY <1>3 DEF rows
<1>10. ASSUME NEW x \in Msg PROVE CopiesCounted(x)' /\ inbox'[x] \in Nat /\ inbox'[x] >= inbox[x]
  <2>1. CopiesCounted(x) /\ inbox[x] \in Nat /\ lostAnswers[x] \in Nat
    BY <1>1, MessageTypes DEF CopiesAreCounted
  <2> QED BY <1>3, <1>4, <1>5, <1>9, <2>1 DEF CopiesCounted, NoAnswer
<1>11. CopiesAreCounted' /\ OnlyRefusalsLose'
  <2>1. ASSUME NEW x \in Msg, stage'[x] = "settled" PROVE inbox'[x] > 0 \/ x \in turnedAway'
    <3>1. inbox[x] \in Nat /\ (inbox[x] > 0 \/ x \in turnedAway)
      BY <1>1, <1>9, <2>1, MessageTypes DEF OnlyRefusalsLose
    <3> QED BY <1>4, <1>10, <3>1
  <2> QED BY <1>10, <2>1 DEF CopiesAreCounted, OnlyRefusalsLose
<1> QED BY <1>6, <1>8, <1>11 DEF DeliveryInv

LEMMA ServeStrayInv == ASSUME DeliveryInv, NEW m \in Msg, ServeStray(m) PROVE DeliveryInv'
<1>1. TypeOK /\ CopiesAreCounted /\ OnlyRefusalsLose
  BY DEF DeliveryInv
<1>2. PICK code \in Answer : Handle(m, code)
  BY DEF ServeStray
<1>3. /\ stray' = stray \ {m}
      /\ lostAnswers' = [lostAnswers EXCEPT ![m] = @ + inbox'[m] - inbox[m]]
      /\ UNCHANGED <<peers, rows, drains, call, answer, losses, crashes, blocks>>
  BY DEF ServeStray
<1>4. /\ inbox' \in [Msg -> Nat] /\ turnedAway' \in SUBSET Msg /\ faults' \in 0..MaxFaults
      /\ \A x \in Msg : inbox'[x] = IF x = m /\ code = "created" THEN inbox[x] + 1 ELSE inbox[x]
      /\ turnedAway \subseteq turnedAway'
  BY <1>1, <1>2, HandleCounts
<1>5. /\ lostAnswers' \in [Msg -> Nat]
      /\ \A x \in Msg : lostAnswers'[x] = lostAnswers[x] + (inbox'[x] - inbox[x])
      /\ \A x \in Msg : inbox'[x] \in Nat /\ inbox'[x] >= inbox[x] /\ inbox[x] \in Nat /\ lostAnswers[x] \in Nat
  <2>1. /\ inbox \in [Msg -> Nat] /\ lostAnswers \in [Msg -> Nat]
    BY <1>1 DEF TypeOK
  <2>2. \A x \in Msg : inbox'[x] \in Nat /\ inbox'[x] >= inbox[x] /\ inbox[x] \in Nat /\ lostAnswers[x] \in Nat
    BY <1>4, <2>1
  <2>3. lostAnswers[m] + inbox'[m] - inbox[m] \in Nat
    BY <2>2
  <2>4. \A x \in Msg : x # m => inbox'[x] = inbox[x]
    BY <1>4
  <2>5. /\ lostAnswers'[m] = lostAnswers[m] + inbox'[m] - inbox[m]
        /\ \A x \in Msg : x # m => lostAnswers'[x] = lostAnswers[x]
    BY <1>3, <2>1
  <2>6. lostAnswers' \in [Msg -> Nat]
    BY <1>3, <2>1, <2>3
  <2> QED BY <2>2, <2>4, <2>5, <2>6
<1>6. TypeOK'
  BY <1>1, <1>3, <1>4, <1>5 DEF TypeOK, peers, rows, drains
<1>7. \A x \in Msg : call[x] = NoCall => answer'[x] = NoAnswer
  BY <1>3 DEF DeliveryInv, CallersWait
<1>8. RowsAreOwed' /\ OwedHaveRows' /\ BatchesAreLive' /\ CallersWait'
  BY <1>3, <1>7, SenderStays DEF rows, drains
<1>9. stage' = stage /\ answer' = answer
  BY <1>3 DEF rows
<1>10. ASSUME NEW x \in Msg PROVE CopiesCounted(x)'
  <2>1. CopiesCounted(x)
    BY <1>1 DEF CopiesAreCounted
  <2> QED BY <1>4, <1>5, <1>9, <2>1 DEF CopiesCounted
<1>11. CopiesAreCounted' /\ OnlyRefusalsLose'
  <2>1. ASSUME NEW x \in Msg, stage'[x] = "settled" PROVE inbox'[x] > 0 \/ x \in turnedAway'
    <3>1. inbox[x] > 0 \/ x \in turnedAway
      BY <1>1, <1>9, <2>1 DEF OnlyRefusalsLose
    <3> QED BY <1>4, <1>5, <3>1
  <2> QED BY <1>10, <2>1 DEF CopiesAreCounted, OnlyRefusalsLose
<1> QED BY <1>6, <1>8, <1>11 DEF DeliveryInv
\* Nothing reaches a reader, and no answer a sender.
LEMMA CopiesStay ==
    ASSUME DeliveryInv, UNCHANGED <<stage, answer, received>>
    PROVE  CopiesAreCounted' /\ OnlyRefusalsLose'
<1>1. UNCHANGED <<stage, answer, inbox, lostAnswers, turnedAway>>
  BY DEF received
<1> QED BY <1>1 DEF DeliveryInv, CopiesAreCounted, CopiesCounted, OnlyRefusalsLose

\* Re-arming gives attempts back and takes none.
LEMMA RearmGives ==
    ASSUME TypeOK, NEW Rows,
           attempts' = [m \in Msg |-> IF m \in Rows /\ attempts[m] >= MaxAttempts THEN 0 ELSE attempts[m]]
    PROVE  /\ attempts' \in [Msg -> 0..MaxAttempts]
           /\ \A m \in Msg : attempts[m] < MaxAttempts => attempts'[m] < MaxAttempts
<1>1. attempts \in [Msg -> 0..MaxAttempts] /\ MaxAttempts \in Nat /\ 0 \in 0..MaxAttempts
  BY LimitAssumption DEF TypeOK, LimitAssumption
<1>2. attempts' \in [Msg -> 0..MaxAttempts]
  BY <1>1
<1>3. \A m \in Msg : attempts[m] < MaxAttempts => attempts'[m] < MaxAttempts
  BY <1>1
<1> QED BY <1>2, <1>3

LEMMA DrainStartInv ==
    ASSUME DeliveryInv, NEW s \in Server, NEW w \in Worker, DrainStart(s, w)
    PROVE  DeliveryInv'
<1>1. /\ TypeOK /\ RowsAreOwed /\ OwedHaveRows /\ BatchesAreLive /\ CallersWait
      /\ Distinct(queue[s])
  BY DEF DeliveryInv, RowsAreOwed
<1>2. PICK f \in InOrder(Oldest(Eligible(s, Rearmed(s)))) :
            batch' = [batch EXCEPT ![s][w] = [i \in DOMAIN f |-> queue[s][f[i]]]]
  BY DEF DrainStart
<1>3. /\ attempts' = Rearmed(s) /\ MutexFree(s)
      /\ woken' = IF w = Tick THEN woken ELSE woken \ {s}
      /\ UNCHANGED <<peers, stage, queue, requests, received, budget>>
  BY DEF DrainStart
<1>4. /\ attempts' \in [Msg -> 0..MaxAttempts]
      /\ \A m \in Msg : attempts[m] < MaxAttempts => attempts'[m] < MaxAttempts
  <2> DEFINE Rows == {m \in Queued(s) : ActivePeer(m)}
  <2>1. attempts' = [m \in Msg |-> IF m \in Rows /\ attempts[m] >= MaxAttempts THEN 0 ELSE attempts[m]]
    BY <1>3 DEF Rearmed
  <2> HIDE DEF Rows
  <2> QED BY <1>1, <2>1, RearmGives
<1> DEFINE b == [i \in DOMAIN f |-> queue[s][f[i]]]
<1>5. /\ b \in Seq(Msg) /\ Distinct(b)
      /\ \A m \in Elements(b) : m \in Elements(queue[s]) /\ attempts'[m] < MaxAttempts
  <2>1. Rearmed(s) \in [Msg -> Nat]
    BY <1>3, <1>4, LimitAssumption DEF LimitAssumption
  <2>2. /\ b \in Seq(Msg) /\ Distinct(b)
        /\ \A m \in Elements(b) : m \in Elements(queue[s]) /\ Rearmed(s)[m] < MaxAttempts
    BY <1>1, <2>1, BatchRead
  <2> QED BY <1>3, <2>2
<1> HIDE DEF b
<1>6. /\ batch' \in [Server -> [Worker -> Seq(Msg)]]
      /\ \A t \in Server, v \in Worker : batch'[t][v] = IF t = s /\ v = w THEN b ELSE batch[t][v]
  <2>1. batch \in [Server -> [Worker -> Seq(Msg)]]
    BY <1>1 DEF TypeOK
  <2>2. batch' = [batch EXCEPT ![s] = [batch[s] EXCEPT ![w] = b]]
    BY <1>2 DEF b
  <2> DEFINE row == [batch[s] EXCEPT ![w] = b]
  <2>3. row \in [Worker -> Seq(Msg)] /\ \A v \in Worker : row[v] = IF v = w THEN b ELSE batch[s][v]
    BY <1>5, <2>1
  <2> HIDE DEF row
  <2>4. batch' \in [Server -> [Worker -> Seq(Msg)]] /\ \A t \in Server : batch'[t] = IF t = s THEN row ELSE batch[t]
    BY <2>1, <2>2, <2>3 DEF row
  <2> QED BY <2>3, <2>4
<1>7. TypeOK'
  BY <1>1, <1>3, <1>4, <1>6 DEF TypeOK, peers, requests, received, budget
<1>8. RowsAreOwed' /\ OwedHaveRows'
  BY <1>1, <1>3 DEF RowsAreOwed, OwedHaveRows
<1>9. BatchesAreLive'
  <2> SUFFICES ASSUME NEW t \in Server, NEW v \in Worker
               PROVE  /\ Distinct(batch'[t][v])
                      /\ \A m \in Elements(batch'[t][v]) : m \in Elements(queue'[t]) /\ attempts'[m] < MaxAttempts
                      /\ \A u \in Worker : batch'[t][u] # << >> /\ batch'[t][v] # << >> => u = v
    BY DEF BatchesAreLive
  <2>1. CASE t = s
    <3>1. \A u \in Worker : batch'[t][u] = IF u = w THEN b ELSE << >>
      BY <1>3, <1>6, <2>1 DEF MutexFree
    <3>2. Distinct(<< >>) /\ Elements(<< >>) = {}
      BY DEF Distinct, Elements
    <3>3. \A m \in Elements(b) : m \in Elements(queue'[t]) /\ attempts'[m] < MaxAttempts
      BY <1>3, <1>5, <2>1
    <3>4. \A u \in Worker : batch'[t][u] # << >> /\ batch'[t][v] # << >> => u = v
      BY <3>1
    <3>5. CASE v = w
      BY <1>5, <3>1, <3>3, <3>4, <3>5
    <3>6. CASE v # w
      BY <3>1, <3>2, <3>4, <3>6
    <3> QED BY <3>5, <3>6
  <2>2. CASE t # s
    <3>1. \A u \in Worker : batch'[t][u] = batch[t][u]
      BY <1>6, <2>2
    <3>2. batch[t][v] \in Seq(Msg)
      BY <1>1 DEF TypeOK
    <3>3. ASSUME NEW m \in Elements(batch[t][v]) PROVE m \in Elements(queue'[t]) /\ attempts'[m] < MaxAttempts
      <4>1. m \in Msg
        BY <3>2 DEF Elements
      <4> QED BY <1>1, <1>3, <1>4, <4>1 DEF BatchesAreLive
    <3> QED BY <1>1, <3>1, <3>3 DEF BatchesAreLive
  <2> QED BY <2>1, <2>2
<1>10. CallersWait'
  <2>1. \A m \in Msg : call[m] \in Worker => From[m] # s
    BY <1>1, <1>3 DEF CallersWait, MutexFree
  <2>2. \A m \in Msg : call[m] \in Worker => batch'[From[m]][call[m]] = batch[From[m]][call[m]]
    BY <1>6, <2>1, RouteAssumption DEF RouteAssumption
  <2>3. UNCHANGED <<call, answer, stage>>
    BY <1>3 DEF requests
  <2> QED BY <1>1, <2>2, <2>3 DEF CallersWait
<1>11. CopiesAreCounted' /\ OnlyRefusalsLose'
  BY <1>3, CopiesStay DEF requests
<1> QED BY <1>7, <1>8, <1>9, <1>10, <1>11 DEF DeliveryInv

LEMMA DrainSendInv ==
    ASSUME DeliveryInv, NEW m \in Msg, NEW w \in Worker, DrainSend(m, w)
    PROVE  DeliveryInv'
<1>1. /\ TypeOK /\ RowsAreOwed /\ OwedHaveRows /\ CallersWait
      /\ IsNext(m, w) /\ call[m] = NoCall /\ answer[m] = NoAnswer
      /\ UNCHANGED <<peers, woken, stray, received, budget>>
  BY DEF DeliveryInv, DrainSend, IsNext, CallersWait
<1>2. CASE /\ call' = [call EXCEPT ![m] = w] /\ answer' = [answer EXCEPT ![m] = NoAnswer]
           /\ UNCHANGED <<rows, batch>>
  <2>1. /\ call' \in [Msg -> Worker \cup {Direct, NoCall}]
        /\ \A x \in Msg : call'[x] = IF x = m THEN w ELSE call[x]
    BY <1>1, <1>2 DEF TypeOK
  <2>2. answer' = answer
    BY <1>1, <1>2 DEF TypeOK
  <2>3. UNCHANGED <<stage, queue, attempts, batch>>
    BY <1>2 DEF rows
  <2>4. TypeOK'
    BY <1>1, <2>1, <2>2, <2>3 DEF TypeOK, peers, received, budget
  <2>5. RowsAreOwed' /\ OwedHaveRows' /\ BatchesAreLive'
    BY <2>3 DEF DeliveryInv, RowsAreOwed, OwedHaveRows, BatchesAreLive
  <2>6. CallersWait'
    BY <1>1, <2>1, <2>2, <2>3, WorkerAssumption DEF CallersWait, IsNext, WorkerAssumption
  <2>7. CopiesAreCounted' /\ OnlyRefusalsLose'
    BY <1>1, <2>2, <2>3, CopiesStay
  <2> QED BY <2>4, <2>5, <2>6, <2>7 DEF DeliveryInv
<1>3. CASE Failed(m, w) /\ UNCHANGED <<call, answer>>
  <2>1. /\ attempts' \in [Msg -> 0..MaxAttempts] /\ batch' \in [Server -> [Worker -> Seq(Msg)]]
        /\ BatchesAreLive' /\ Advanced(m, w)
    BY <1>1, <1>3, FailedKeeps
  <2>2. UNCHANGED <<stage, queue>>
    BY <1>3 DEF Failed
  <2>3. TypeOK'
    BY <1>1, <1>3, <2>1, <2>2 DEF TypeOK, peers, received, budget
  <2>4. RowsAreOwed' /\ OwedHaveRows'
    BY <1>1, <2>2 DEF RowsAreOwed, OwedHaveRows
  <2>5. CallersWait'
    <3>1. ASSUME NEW x \in Msg, call[x] \in Worker
          PROVE  batch'[From[x]][call[x]] = batch[From[x]][call[x]]
      <4>1. From[x] \in Server /\ x = Head(batch[From[x]][call[x]])
        BY <1>1, <3>1, RouteAssumption DEF CallersWait, RouteAssumption
      <4>2. From[x] # From[m] \/ call[x] # w
        BY <1>1, <3>1, <4>1, WorkerAssumption DEF IsNext, WorkerAssumption
      <4> QED BY <2>1, <3>1, <4>1, <4>2 DEF Advanced
    <3> QED BY <1>1, <1>3, <2>2, <3>1 DEF CallersWait
  <2>6. CopiesAreCounted' /\ OnlyRefusalsLose'
    BY <1>1, <1>3, <2>2, CopiesStay
  <2> QED BY <2>1, <2>3, <2>4, <2>5, <2>6 DEF DeliveryInv
<1> QED BY <1>2, <1>3 DEF DrainSend

\* The rows may be re-armed; the messages, drains and requests are as they were.
LEMMA PeersChange ==
    ASSUME DeliveryInv, TypeOK', UNCHANGED <<stage, queue, batch, requests, received>>,
           \A m \in Msg : attempts[m] < MaxAttempts => attempts'[m] < MaxAttempts
    PROVE  DeliveryInv'
<1>1. /\ TypeOK /\ RowsAreOwed /\ OwedHaveRows /\ BatchesAreLive /\ CallersWait
      /\ UNCHANGED <<call, answer>>
  BY DEF DeliveryInv, requests
<1>2. \A s \in Server : Elements(queue[s]) \subseteq Msg /\ Elements(queue'[s]) = Elements(queue[s])
  <2>1. \A s \in Server : queue[s] \in Seq(Msg) /\ queue'[s] = queue[s]
    BY <1>1 DEF TypeOK
  <2> QED BY <2>1 DEF Elements
<1>3. RowsAreOwed' /\ OwedHaveRows'
  BY <1>1 DEF RowsAreOwed, OwedHaveRows
<1>4. BatchesAreLive'
  BY <1>1, <1>2, BatchesStay
<1>5. CallersWait'
  BY <1>1 DEF CallersWait
<1>6. CopiesAreCounted' /\ OnlyRefusalsLose'
  BY <1>1, CopiesStay
<1> QED BY <1>3, <1>4, <1>5, <1>6 DEF DeliveryInv

LEMMA PeersInv ==
    ASSUME DeliveryInv, NEW a \in Server, NEW b \in Server,
           PingAnswered(a, b) \/ PingFails(a, b) \/ PingWrites(a, b) \/ Block(a, b) \/ Unblock(a, b)
    PROVE  DeliveryInv'
<1>1. /\ TypeOK
      /\ status \in [Server -> [Server -> {"active", "unreachable", "blocked"}]]
      /\ pinged \in [Server -> [Server -> {"nothing", "recovered", "gone"}]]
  BY DEF DeliveryInv, TypeOK
<1>2. ASSUME NEW v \in {"active", "unreachable", "blocked"}, status' = [status EXCEPT ![a][b] = v]
      PROVE  status' \in [Server -> [Server -> {"active", "unreachable", "blocked"}]]
  BY <1>1, <1>2
<1>3. ASSUME NEW v \in {"nothing", "recovered", "gone"}, pinged' = [pinged EXCEPT ![a][b] = v]
      PROVE  pinged' \in [Server -> [Server -> {"nothing", "recovered", "gone"}]]
  BY <1>1, <1>3
<1>4. CASE PingAnswered(a, b)
  <2>1. TypeOK' /\ UNCHANGED <<stage, queue, attempts, batch, requests, received>>
    BY <1>1, <1>3, <1>4 DEF PingAnswered, TypeOK, rows, drains, requests, received, budget
  <2> QED BY <2>1, PeersChange
<1>5. CASE PingFails(a, b)
  <2>1. faults' \in 0..MaxFaults
    BY <1>1, <1>5, LimitAssumption DEF PingFails, NoFault, Fault, TypeOK, LimitAssumption
  <2>2. TypeOK' /\ UNCHANGED <<stage, queue, attempts, batch, requests, received>>
    BY <1>1, <1>3, <1>5, <2>1 DEF PingFails, TypeOK, rows, drains, requests, received
  <2> QED BY <2>2, PeersChange
<1>6. CASE PingWrites(a, b)
  <2> DEFINE mine == {m \in Queued(a) : To[m] = b}
  <2>1. /\ pinged' = [pinged EXCEPT ![a][b] = "nothing"]
        /\ UNCHANGED <<up, stage, queue, batch, requests, received, budget>>
        /\ \/ /\ status' = [status EXCEPT ![a][b] = "active"]
              /\ attempts' = [m \in Msg |-> IF m \in mine /\ attempts[m] >= MaxAttempts THEN 0 ELSE attempts[m]]
              /\ woken' = IF mine = {} THEN woken ELSE woken \cup {a}
           \/ /\ status' = [status EXCEPT ![a][b] = "unreachable"]
              /\ UNCHANGED <<attempts, woken>>
    BY <1>6 DEF PingWrites
  <2> HIDE DEF mine
  <2>2. /\ pinged' \in [Server -> [Server -> {"nothing", "recovered", "gone"}]]
        /\ status' \in [Server -> [Server -> {"active", "unreachable", "blocked"}]]
    BY <1>2, <1>3, <2>1
  <2>3. woken' \in SUBSET Server
    BY <1>1, <2>1 DEF TypeOK
  <2>4. /\ attempts' \in [Msg -> 0..MaxAttempts]
        /\ \A m \in Msg : attempts[m] < MaxAttempts => attempts'[m] < MaxAttempts
    <3>1. CASE attempts' = [m \in Msg |-> IF m \in mine /\ attempts[m] >= MaxAttempts THEN 0 ELSE attempts[m]]
      BY <1>1, <3>1, RearmGives
    <3>2. CASE attempts' = attempts
      BY <1>1, <3>2 DEF TypeOK
    <3> QED BY <2>1, <3>1, <3>2
  <2>5. TypeOK'
    BY <1>1, <2>1, <2>2, <2>3, <2>4 DEF TypeOK, requests, received, budget
  <2> QED BY <2>1, <2>4, <2>5, PeersChange
<1>7. CASE Block(a, b)
  <2>1. blocks' \in 0..MaxBlocks
    BY <1>1, <1>7, LimitAssumption DEF Block, TypeOK, LimitAssumption
  <2>2. TypeOK' /\ UNCHANGED <<stage, queue, attempts, batch, requests, received>>
    BY <1>1, <1>2, <1>7, <2>1 DEF Block, TypeOK, rows, drains, requests, received
  <2> QED BY <2>2, PeersChange
<1>8. CASE Unblock(a, b)
  <2>1. TypeOK' /\ UNCHANGED <<stage, queue, attempts, batch, requests, received>>
    BY <1>1, <1>2, <1>8 DEF Unblock, TypeOK, rows, drains, requests, received, budget
  <2> QED BY <2>1, PeersChange
<1> QED BY <1>4, <1>5, <1>6, <1>7, <1>8
LEMMA CrashInv == ASSUME DeliveryInv, NEW s \in Server, Crash(s) PROVE DeliveryInv'
<1>1. /\ TypeOK /\ RowsAreOwed /\ OwedHaveRows /\ BatchesAreLive /\ CallersWait
      /\ CopiesAreCounted /\ OnlyRefusalsLose
  BY DEF DeliveryInv
<1>2. /\ up' = up \ {s} /\ woken' = woken \ {s}
      /\ crashes < MaxCrashes /\ crashes' = crashes + 1
      /\ pinged' = [pinged EXCEPT ![s] = [b \in Server |-> "nothing"]]
      /\ batch' = [batch EXCEPT ![s] = [w \in Worker |-> << >>]]
      /\ stage' = [m \in Msg |-> IF From[m] = s /\ stage[m] = "sending" THEN "orphaned" ELSE stage[m]]
      /\ call' = [m \in Msg |-> IF From[m] = s THEN NoCall ELSE call[m]]
      /\ answer' = [m \in Msg |-> IF From[m] = s THEN NoAnswer
                                  ELSE IF To[m] = s /\ call[m] # NoCall THEN "reset"
                                  ELSE answer[m]]
      /\ lostAnswers' = [m \in Msg |-> IF s \in {From[m], To[m]} /\ answer[m] = "created"
                                       THEN lostAnswers[m] + 1 ELSE lostAnswers[m]]
      /\ UNCHANGED <<status, queue, attempts, inbox, turnedAway, faults, losses, blocks>>
  BY DEF Crash
<1>3. stray' \in SUBSET Msg
  <2>1. PICK late \in SUBSET {m \in Msg : From[m] = s /\ call[m] # NoCall /\ answer[m] = NoAnswer} :
            stray' = {m \in stray : To[m] # s} \cup late
    BY DEF Crash
  <2> QED BY <1>1, <2>1 DEF TypeOK
<1>4. \A m \in Msg :
        /\ stage'[m] = IF From[m] = s /\ stage[m] = "sending" THEN "orphaned" ELSE stage[m]
        /\ call'[m] = IF From[m] = s THEN NoCall ELSE call[m]
        /\ answer'[m] = IF From[m] = s THEN NoAnswer
                        ELSE IF To[m] = s /\ call[m] # NoCall THEN "reset" ELSE answer[m]
        /\ lostAnswers'[m] = IF s \in {From[m], To[m]} /\ answer[m] = "created"
                             THEN lostAnswers[m] + 1 ELSE lostAnswers[m]
        /\ inbox'[m] = inbox[m]
  BY <1>2
<1>5. TypeOK'
  <2>1. /\ up' \in SUBSET Server /\ woken' \in SUBSET Server /\ crashes' \in 0..MaxCrashes
    BY <1>1, <1>2, LimitAssumption DEF TypeOK, LimitAssumption
  <2>2. pinged' \in [Server -> [Server -> {"nothing", "recovered", "gone"}]]
    <3>1. [b \in Server |-> "nothing"] \in [Server -> {"nothing", "recovered", "gone"}]
      OBVIOUS
    <3> QED BY <1>1, <1>2, <3>1 DEF TypeOK
  <2>3. batch' \in [Server -> [Worker -> Seq(Msg)]]
    <3>1. [w \in Worker |-> << >>] \in [Worker -> Seq(Msg)]
      OBVIOUS
    <3> QED BY <1>1, <1>2, <3>1 DEF TypeOK
  <2>4. stage' \in [Msg -> {"unsent", "sending", "queued", "settled", "failed", "orphaned"}]
    BY <1>1, <1>2 DEF TypeOK
  <2>5. call' \in [Msg -> Worker \cup {Direct, NoCall}]
    BY <1>1, <1>2 DEF TypeOK
  <2>6. answer' \in [Msg -> Answer \cup {NoAnswer}]
    BY <1>1, <1>2 DEF TypeOK, Answer
  <2>7. lostAnswers' \in [Msg -> Nat]
    BY <1>1, <1>2 DEF TypeOK
  <2> QED BY <1>1, <1>2, <1>3, <2>1, <2>2, <2>3, <2>4, <2>5, <2>6, <2>7 DEF TypeOK
<1>6. \A x \in Server : Elements(queue[x]) \subseteq Msg
  <2>1. \A x \in Server : queue[x] \in Seq(Msg)
    BY <1>1 DEF TypeOK
  <2> QED BY <2>1 DEF Elements
<1>7. RowsAreOwed' /\ OwedHaveRows'
  BY <1>1, <1>2, <1>4, <1>6 DEF RowsAreOwed, OwedHaveRows
<1>8. BatchesAreLive'
  <2>1. \A x \in Server : batch'[x] = IF x = s THEN [w \in Worker |-> << >>] ELSE batch[x]
    BY <1>1, <1>2 DEF TypeOK
  <2>2. Distinct(<< >>) /\ Elements(<< >>) = {}
    BY DEF Distinct, Elements
  <2>3. ASSUME NEW x \in Server, NEW v \in Worker
        PROVE  /\ Distinct(batch'[x][v])
               /\ \A m \in Elements(batch'[x][v]) : m \in Elements(queue[x]) /\ attempts[m] < MaxAttempts
               /\ \A u \in Worker : batch'[x][u] # << >> /\ batch'[x][v] # << >> => u = v
    BY <1>1, <2>1, <2>2 DEF BatchesAreLive
  <2> QED BY <1>2, <2>3 DEF BatchesAreLive
<1>9. CallersWait'
  <2>1. ASSUME NEW m \in Msg
        PROVE  /\ call'[m] = Direct => stage'[m] = "sending"
               /\ call'[m] \in Worker => /\ batch'[From[m]][call'[m]] # << >>
                                         /\ m = Head(batch'[From[m]][call'[m]])
               /\ call'[m] = NoCall => answer'[m] = NoAnswer
    <3>1. CASE From[m] = s
      BY <1>4, <3>1, WorkerAssumption DEF WorkerAssumption
    <3>2. CASE From[m] # s
      <4>1. batch'[From[m]] = batch[From[m]]
        BY <1>1, <1>2, <3>2, MessageTypes DEF TypeOK
      <4>2. call'[m] = call[m] /\ stage'[m] = stage[m] /\ (call[m] = NoCall => answer'[m] = answer[m])
        BY <1>4, <3>2
      <4> QED BY <1>1, <4>1, <4>2 DEF CallersWait
    <3> QED BY <3>1, <3>2
  <2> QED BY <2>1 DEF CallersWait
<1>10. ASSUME NEW m \in Msg PROVE CopiesCounted(m)'
  <2>1. CopiesCounted(m) /\ inbox[m] \in Nat /\ lostAnswers[m] \in Nat /\ From[m] \in Server
    BY <1>1, MessageTypes DEF CopiesAreCounted
  <2>2. answer[m] = "created" => call[m] # NoCall
    BY <1>1 DEF CallersWait, NoAnswer
  <2>3. stage'[m] = "settled" <=> stage[m] = "settled"
    BY <1>4
  <2>4. answer'[m] \in {"created", "refused"} => answer'[m] = answer[m] /\ ~(s \in {From[m], To[m]} /\ answer[m] = "created")
    BY <1>4, <2>2 DEF NoAnswer
  <2> QED BY <1>2, <1>4, <2>1, <2>3, <2>4 DEF CopiesCounted
<1>11. CopiesAreCounted' /\ OnlyRefusalsLose'
  BY <1>1, <1>2, <1>4, <1>10 DEF CopiesAreCounted, OnlyRefusalsLose
<1> QED BY <1>5, <1>7, <1>8, <1>9, <1>11 DEF DeliveryInv

LEMMA NextInv == DeliveryInv /\ [Next]_vars => DeliveryInv'
<1> SUFFICES ASSUME DeliveryInv, [Next]_vars PROVE DeliveryInv'
  OBVIOUS
<1>1. ASSUME NEW m \in Msg, Send(m) \/ Return(m) \/ GiveUp(m) \/ Serve(m) \/ ServeStray(m)
      PROVE  DeliveryInv'
  BY <1>1, SendInv, ReturnInv, GiveUpInv, ServeInv, ServeStrayInv
<1>2. ASSUME NEW m \in Msg, NEW w \in Worker, DrainSend(m, w) PROVE DeliveryInv'
  BY <1>2, DrainSendInv
<1>3. ASSUME NEW s \in Server, NEW w \in Worker, DrainStart(s, w) PROVE DeliveryInv'
  BY <1>3, DrainStartInv
<1>4. ASSUME NEW a \in Server, NEW b \in Server,
             PingAnswered(a, b) \/ PingFails(a, b) \/ PingWrites(a, b) \/ Block(a, b) \/ Unblock(a, b)
      PROVE  DeliveryInv'
  BY <1>4, PeersInv
<1>5. ASSUME NEW s \in Server, Crash(s) PROVE DeliveryInv'
  BY <1>5, CrashInv
<1>6. ASSUME NEW s \in Server, Restart(s) PROVE DeliveryInv'
  <2>1. UNCHANGED <<stage, queue, attempts, batch, requests, received>> /\ TypeOK'
    BY <1>6 DEF Restart, DeliveryInv, TypeOK, rows, drains, requests, received, budget
  <2> QED BY <2>1, PeersChange
<1>7. ASSUME UNCHANGED vars PROVE DeliveryInv'
  <2>1. UNCHANGED <<stage, queue, attempts, batch, requests, received>> /\ TypeOK'
    BY <1>7 DEF vars, DeliveryInv, TypeOK, peers, rows, drains, requests, received, budget
  <2> QED BY <2>1, PeersChange
<1> QED BY <1>1, <1>2, <1>3, <1>4, <1>5, <1>6, <1>7 DEF Next

-----------------------------------------------------------------------------
(* The theorems.                                                           *)

LEMMA DeliveryInvariant == Spec => []DeliveryInv
<1>1. Init => DeliveryInv
  BY InitInv
<1>2. DeliveryInv /\ [Next]_vars => DeliveryInv'
  BY NextInv
<1> QED BY <1>1, <1>2, PTL DEF Spec

\* A queue in which no message is twice is as long as it has messages.
LEMMA DistinctCounts ==
    ASSUME NEW S, NEW q \in Seq(S), Distinct(q)
    PROVE  Len(q) = Cardinality(Elements(q))
<1>1. Len(q) \in Nat /\ DOMAIN q = 1..Len(q)
  OBVIOUS
<1>2. q \in [1..Len(q) -> Elements(q)]
  BY <1>1 DEF Elements
<1>3. q \in Injection(1..Len(q), Elements(q))
  BY <1>2 DEF Injection, IsInjective, Distinct
<1>4. q \in Surjection(1..Len(q), Elements(q))
  BY <1>2 DEF Surjection, Elements
<1>5. ExistsBijection(1..Len(q), Elements(q))
  BY <1>3, <1>4 DEF ExistsBijection, Bijection
<1> QED BY <1>1, <1>5, FS_CountingElements

LEMMA RowsMatchMessages == DeliveryInv => QueueIsOwed
<1> SUFFICES ASSUME DeliveryInv PROVE QueueIsOwed
  OBVIOUS
<1>1. ASSUME NEW s \in Server PROVE Queued(s) = Elements(queue[s]) /\ queue[s] \in Seq(Msg) /\ Distinct(queue[s])
  BY DEF Queued, Elements, DeliveryInv, TypeOK, RowsAreOwed
<1>2. ASSUME NEW s \in Server PROVE Len(queue[s]) = Cardinality(Queued(s))
  BY <1>1, DistinctCounts
<1>3. ASSUME NEW m \in Msg, NEW s \in Server
      PROVE  m \in Queued(s) <=> s = From[m] /\ stage[m] = "queued"
  <2>1. Queued(s) = Elements(queue[s])
    BY <1>1
  <2> QED BY <2>1 DEF DeliveryInv, RowsAreOwed, OwedHaveRows
<1> QED BY <1>2, <1>3 DEF QueueIsOwed

\* Every variable of the delivery keeps its shape, through every crash, block
\* and lost request, and no row is tried more than max_attempts times before
\* rearmExhausted or a recovered ping gives it back its attempts.
THEOREM DeliveryTypes == Spec => []TypeOK
<1>1. DeliveryInv => TypeOK
  BY DEF DeliveryInv
<1> QED BY <1>1, DeliveryInvariant, PTL

\* federation_queue is exactly what the servers owe each other, one row for
\* each message: SendOrQueue queues no message twice, and the DELETE of
\* processItem takes the row of a delivered message and no other.
THEOREM QueueIsWhatIsOwed == Spec => []QueueIsOwed
<1>1. DeliveryInv => QueueIsOwed
  BY RowsMatchMessages
<1> QED BY <1>1, DeliveryInvariant, PTL

\* Whatever drains, tickers and recovered pings do at once (drainMu), every row
\* a batch has read is in the queue until the drain itself has answered for it.
THEOREM BatchStaysQueued == Spec => []BatchIsQueued
<1>1. DeliveryInv => BatchIsQueued
  <2> SUFFICES ASSUME DeliveryInv, NEW s \in Server, NEW w \in Worker, NEW i \in 1..Len(batch[s][w])
               PROVE  batch[s][w][i] \in Queued(s)
    BY DEF BatchIsQueued
  <2>1. batch[s][w][i] \in Elements(batch[s][w])
    BY DEF Elements
  <2>2. batch[s][w][i] \in Elements(queue[s])
    BY <2>1 DEF DeliveryInv, BatchesAreLive
  <2> QED BY <2>2 DEF Elements, Queued
<1> QED BY <1>1, DeliveryInvariant, PTL

\* HandleSendMessage does not look for a copy it has, yet the reader gets no
\* more copies than one and those whose answer the sender never heard: a
\* delivered message is not sent again, and two drains never send the same row.
THEOREM CopiesNeedLostAnswers == Spec => []OnlyLostAnswersDuplicate
<1>1. DeliveryInv => OnlyLostAnswersDuplicate
  <2> SUFFICES ASSUME DeliveryInv, NEW m \in Msg PROVE inbox[m] <= 1 + lostAnswers[m]
    BY DEF OnlyLostAnswersDuplicate
  <2>1. inbox[m] \in Nat /\ lostAnswers[m] \in Nat
    BY MessageTypes DEF DeliveryInv
  <2> QED BY <2>1 DEF DeliveryInv, CopiesAreCounted, CopiesCounted
<1> QED BY <1>1, DeliveryInvariant, PTL

\* SendOrQueue and processItem give a message up only for an answer below 500:
\* it was stored on the other side, or refused there with a 403.
THEOREM LossesAreRefusals == Spec => []OnlyRefusalsLose
<1>1. DeliveryInv => OnlyRefusalsLose
  BY DEF DeliveryInv
<1> QED BY <1>1, DeliveryInvariant, PTL
=============================================================================
