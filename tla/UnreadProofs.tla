----------------------------- MODULE UnreadProofs -----------------------------
(***************************************************************************)
(* Proofs about Unread, for any users and groups and any number of         *)
(* messages: whatever frames, loads, marks and refreshes cross, the server *)
(* counts no direct message as read that the page has not shown, and the   *)
(* badge of a thread at rest shows the server's number.                    *)
(*                                                                         *)
(* The badge is compared with the messages that are due (Due): unread, and *)
(* neither in a frame the page has yet to receive nor, in a direct thread, *)
(* in a mark under way.  BadgeOf says how it relates to them while frames, *)
(* marks and loads are still to come; at rest what is due is what is       *)
(* unread.                                                                 *)
(***************************************************************************)
EXTENDS Unread, FiniteSetTheorems, WellFoundedInduction, TLAPS

FrameType == [thread : Threads, id : Nat]

Shapes ==
    /\ sent \in [Threads -> Nat]
    /\ read \in [Threads -> SUBSET Nat] /\ known \in [Threads -> SUBSET Nat]
    /\ frames \in Seq(FrameType)
    /\ open \in Threads \cup {None}
    /\ marks \subseteq [thread : Threads, ids : SUBSET Nat]

\* A frame is about a message that has been written.
FramesAreSent == \A i \in 1..Len(frames) : frames[i].id \in 1..sent[frames[i].thread]

KnownIsSent == \A t \in Threads : known[t] \subseteq 1..sent[t]

\* A mark on its way is about messages the page has shown.
MarksAreKnown == \A m \in marks : m.thread.kind = "direct" => m.ids \subseteq known[m.thread]

ReadInv == Shapes /\ FramesAreSent /\ KnownIsSent /\ MarksAreKnown /\ ReadWasShown

-----------------------------------------------------------------------------
LEMMA InitReadInv == ASSUME Init PROVE ReadInv
<1>1. Shapes
  BY DEF Init, Shapes
<1>2. FramesAreSent /\ KnownIsSent /\ MarksAreKnown /\ ReadWasShown
  BY DEF Init, FramesAreSent, KnownIsSent, MarksAreKnown, ReadWasShown
<1> QED BY <1>1, <1>2 DEF ReadInv

\* A step that leaves the tables, the frames, the marks and what is shown alone.
LEMMA QuietStep ==
    ASSUME ReadInv, UNCHANGED <<server, frames, known, marks>>, open' \in Threads \cup {None}
    PROVE  ReadInv'
BY DEF ReadInv, Shapes, FramesAreSent, KnownIsSent, MarksAreKnown, ReadWasShown, server

LEMMA WriteStep == ASSUME ReadInv, NEW t \in Threads, Write(t) PROVE ReadInv'
<1>1. /\ sent' = [sent EXCEPT ![t] = @ + 1]
      /\ frames' \in {frames, Append(frames, [thread |-> t, id |-> sent[t] + 1])}
      /\ UNCHANGED <<read, page, marks>>
  BY DEF Write
<1>2. /\ sent' \in [Threads -> Nat] /\ sent'[t] = sent[t] + 1 /\ sent[t] \in Nat
      /\ \A u \in Threads : sent[u] \in Nat /\ sent'[u] \in Nat /\ sent'[u] >= sent[u]
  BY <1>1 DEF ReadInv, Shapes
<1>3. \A u \in Threads : 1..sent[u] \subseteq 1..sent'[u]
  BY <1>2
<1> DEFINE f == [thread |-> t, id |-> sent[t] + 1]
<1>4. f \in FrameType /\ f.id \in 1..sent'[f.thread]
  BY <1>2 DEF FrameType
<1> HIDE DEF f
<1>5. frames' \in Seq(FrameType) /\ FramesAreSent'
  <2>1. CASE frames' = frames
    <3>1. ASSUME NEW i \in 1..Len(frames) PROVE frames[i].id \in 1..sent'[frames[i].thread]
      <4>1. frames[i] \in FrameType /\ frames[i].id \in 1..sent[frames[i].thread]
        BY DEF ReadInv, Shapes, FramesAreSent
      <4>2. frames[i].thread \in Threads
        BY <4>1 DEF FrameType
      <4> QED BY <1>3, <4>1, <4>2
    <3> QED BY <2>1, <3>1 DEF ReadInv, Shapes, FramesAreSent
  <2>2. CASE frames' = Append(frames, f)
    <3>1. /\ frames' \in Seq(FrameType) /\ Len(frames') = Len(frames) + 1
          /\ \A i \in 1..Len(frames') : frames'[i] = IF i = Len(frames) + 1 THEN f ELSE frames[i]
      <4>1. frames \in Seq(FrameType)
        BY DEF ReadInv, Shapes
      <4> QED BY <1>4, <2>2, <4>1
    <3>2. \A i \in 1..Len(frames) : frames[i] \in FrameType
      BY DEF ReadInv, Shapes
    <3>3. ASSUME NEW i \in 1..Len(frames') PROVE frames'[i].id \in 1..sent'[frames'[i].thread]
      <4>1. CASE i = Len(frames) + 1
        BY <1>4, <3>1, <4>1
      <4>2. CASE i # Len(frames) + 1
        <5>1. i \in 1..Len(frames) /\ frames'[i] = frames[i]
          BY <3>1, <4>2 DEF ReadInv, Shapes
        <5>2. frames[i].id \in 1..sent[frames[i].thread] /\ frames[i].thread \in Threads
          BY <3>2, <5>1 DEF ReadInv, FramesAreSent, FrameType
        <5> QED BY <1>3, <5>1, <5>2
      <4> QED BY <4>1, <4>2
    <3> QED BY <3>1, <3>3 DEF FramesAreSent
  <2> QED BY <1>1, <2>1, <2>2 DEF f
<1>6. known' = known /\ open' = open
  BY <1>1 DEF page
<1>7. KnownIsSent' /\ MarksAreKnown' /\ ReadWasShown'
  BY <1>1, <1>3, <1>6 DEF ReadInv, KnownIsSent, MarksAreKnown, ReadWasShown
<1> QED BY <1>1, <1>2, <1>5, <1>6, <1>7 DEF ReadInv, Shapes

\* The server marks what a mark says, of a group up to the newest message.
LEMMA MarkStep == ASSUME ReadInv, NEW m \in marks, MarkServed(m) PROVE ReadInv'
<1>1. /\ marks' = marks \ {m} /\ UNCHANGED <<sent, frames, page>>
      /\ read' \in {read, [read EXCEPT ![m.thread] = Marked(m)]}
  BY DEF MarkServed
<1>2. m \in [thread : Threads, ids : SUBSET Nat]
  BY DEF ReadInv, Shapes
<1>3. /\ Marked(m) \subseteq Nat
      /\ m.thread.kind = "direct" => Marked(m) \subseteq known[m.thread]
  BY <1>2 DEF ReadInv, Shapes, MarksAreKnown, ReadWasShown, Marked
<1>4. known' = known /\ open' = open
  BY <1>1 DEF page
<1> DEFINE n == Marked(m)
<1>5. /\ read' \in [Threads -> SUBSET Nat]
      /\ \A t \in Threads : t.kind = "direct" => read'[t] \subseteq known[t]
  <2> HIDE DEF n
  <2>1. CASE read' = read
    BY <2>1 DEF ReadInv, Shapes, ReadWasShown
  <2>2. CASE read' = [read EXCEPT ![m.thread] = n]
    BY <1>2, <1>3, <2>2 DEF ReadInv, Shapes, ReadWasShown, n
  <2> QED BY <1>1, <2>1, <2>2 DEF n
<1>6. ReadWasShown' /\ MarksAreKnown'
  BY <1>1, <1>4, <1>5 DEF ReadInv, ReadWasShown, MarksAreKnown
<1>7. KnownIsSent' /\ FramesAreSent'
  BY <1>1, <1>4 DEF ReadInv, KnownIsSent, FramesAreSent
<1> QED BY <1>1, <1>4, <1>5, <1>6, <1>7 DEF ReadInv, Shapes

\* A frame is shown first and marked then.
LEMMA ReceiveStep == ASSUME ReadInv, Receive PROVE ReadInv'
<1> DEFINE t == Head(frames).thread
           i == Head(frames).id
<1>1. /\ frames # <<>> /\ frames' = Tail(frames) /\ UNCHANGED <<server, open>>
      /\ \/ known' = known /\ marks' = marks
         \/ known' = [known EXCEPT ![t] = @ \cup {i}] /\ marks' \in {marks, marks \cup {[thread |-> t, ids |-> {i}]}}
  BY DEF Receive, SeenNow
<1>2. /\ Head(frames) \in FrameType /\ i \in 1..sent[t]
  BY <1>1 DEF ReadInv, Shapes, FramesAreSent
<1>3. t \in Threads /\ i \in Nat
  BY <1>2 DEF FrameType
<1> HIDE DEF t, i
<1>4. /\ frames' \in Seq(FrameType) /\ \A k \in 1..Len(frames') : k + 1 \in 1..Len(frames) /\ frames'[k] = frames[k + 1]
  BY <1>1 DEF ReadInv, Shapes
<1>5. FramesAreSent'
  BY <1>1, <1>4 DEF ReadInv, FramesAreSent, server
<1>6. CASE known' = known /\ marks' = marks
  BY <1>1, <1>4, <1>5, <1>6 DEF ReadInv, Shapes, KnownIsSent, MarksAreKnown, ReadWasShown, server
<1>7. CASE /\ known' = [known EXCEPT ![t] = @ \cup {i}]
           /\ marks' \in {marks, marks \cup {[thread |-> t, ids |-> {i}]}}
  <2>1. /\ known' \in [Threads -> SUBSET Nat] /\ i \in known'[t] /\ known'[t] = known[t] \cup {i}
        /\ \A u \in Threads : known[u] \subseteq known'[u] /\ (u # t => known'[u] = known[u])
    BY <1>3, <1>7 DEF ReadInv, Shapes
  <2>2. KnownIsSent'
    BY <1>1, <1>2, <2>1 DEF ReadInv, KnownIsSent, server
  <2>3. marks' \subseteq [thread : Threads, ids : SUBSET Nat]
    BY <1>3, <1>7 DEF ReadInv, Shapes
  <2>4. ASSUME NEW m \in marks', m.thread.kind = "direct" PROVE m.ids \subseteq known'[m.thread]
    <3>1. CASE m \in marks
      <4>1. m.thread \in Threads /\ m.ids \subseteq known[m.thread]
        BY <2>4, <3>1 DEF ReadInv, Shapes, MarksAreKnown
      <4> QED BY <2>1, <4>1
    <3>2. CASE m = [thread |-> t, ids |-> {i}]
      BY <2>1, <3>2
    <3> QED BY <1>7, <2>4, <3>1, <3>2
  <2>5. ReadWasShown'
    BY <1>1, <2>1 DEF ReadInv, ReadWasShown, server
  <2>6. Shapes'
    BY <1>1, <1>4, <2>1, <2>3 DEF ReadInv, Shapes, server
  <2> QED BY <1>5, <2>2, <2>4, <2>5, <2>6 DEF ReadInv, MarksAreKnown
<1> QED BY <1>1, <1>6, <1>7

\* Opening a group marks it before anything is shown; a group only.
LEMMA OpenStep == ASSUME ReadInv, NEW t \in Threads, Open(t) PROVE ReadInv'
<1>1. /\ open' = t /\ UNCHANGED <<server, frames, known>>
      /\ marks' = marks \cup IF t.kind = "group" THEN {[thread |-> t, ids |-> {}]} ELSE {}
  BY DEF Open
<1>2. marks' \subseteq [thread : Threads, ids : SUBSET Nat]
  BY <1>1 DEF ReadInv, Shapes
<1>3. MarksAreKnown'
  BY <1>1 DEF ReadInv, MarksAreKnown
<1> QED BY <1>1, <1>2, <1>3 DEF ReadInv, Shapes, FramesAreSent, KnownIsSent, ReadWasShown, server

\* A load shows all there is and marks what of it is unread.
LEMMA LoadStep == ASSUME ReadInv, NEW t \in Threads, LoadAnswered(t) PROVE ReadInv'
<1>1. /\ known' = [known EXCEPT ![t] = 1..sent[t]] /\ UNCHANGED <<server, frames, open>>
      /\ marks' \subseteq marks \cup {[thread |-> t, ids |-> ToMark(t)], [thread |-> t, ids |-> {}]}
  BY DEF LoadAnswered
<1>2. ToMark(t) \subseteq 1..sent[t] /\ sent[t] \in Nat
  BY DEF ReadInv, Shapes, ToMark, UnreadOf
<1> DEFINE n == 1..sent[t]
           a == ToMark(t)
<1>3. n \in SUBSET Nat /\ a \in SUBSET Nat /\ a \subseteq n /\ known[t] \subseteq n
  BY <1>2 DEF ReadInv, KnownIsSent
<1> HIDE DEF a
<1>4. /\ known' \in [Threads -> SUBSET Nat] /\ known'[t] = n
      /\ \A u \in Threads : known[u] \subseteq known'[u] /\ (u # t => known'[u] = known[u])
  BY <1>1, <1>3 DEF ReadInv, Shapes
<1>5. KnownIsSent'
  BY <1>1, <1>4 DEF ReadInv, KnownIsSent, server
<1>6. marks' \subseteq [thread : Threads, ids : SUBSET Nat]
  BY <1>1, <1>3 DEF ReadInv, Shapes, a
<1>7. ASSUME NEW m \in marks', m.thread.kind = "direct" PROVE m.ids \subseteq known'[m.thread]
  <2>1. CASE m \in marks
    <3>1. m.thread \in Threads /\ m.ids \subseteq known[m.thread]
      BY <1>7, <2>1 DEF ReadInv, Shapes, MarksAreKnown
    <3> QED BY <1>4, <3>1
  <2>2. CASE m \in {[thread |-> t, ids |-> a], [thread |-> t, ids |-> {}]}
    <3>1. m.thread = t /\ m.ids \in {a, {}}
      BY <2>2
    <3> QED BY <1>3, <1>4, <3>1
  <2> QED BY <1>1, <1>7, <2>1, <2>2 DEF a
<1>8. ReadWasShown'
  BY <1>1, <1>4 DEF ReadInv, ReadWasShown, server
<1>9. Shapes' /\ FramesAreSent'
  BY <1>1, <1>4, <1>6 DEF ReadInv, Shapes, FramesAreSent, server
<1> QED BY <1>5, <1>7, <1>8, <1>9 DEF ReadInv, MarksAreKnown

LEMMA NextReadInv == ASSUME ReadInv, [Next]_vars PROVE ReadInv'
<1>1. CASE UNCHANGED vars
  BY <1>1 DEF vars, page, server, ReadInv, Shapes, FramesAreSent, KnownIsSent, MarksAreKnown, ReadWasShown
<1>2. ASSUME NEW t \in Threads, Write(t) \/ Open(t) \/ LoadAnswered(t) \/ LoadFails(t)
      PROVE  ReadInv'
  <2>1. CASE LoadFails(t)
    BY <2>1, QuietStep DEF LoadFails, page, ReadInv, Shapes
  <2> QED BY <1>2, <2>1, WriteStep, OpenStep, LoadStep
<1>3. ASSUME NEW m \in marks, MarkServed(m) PROVE ReadInv'
  BY <1>3, MarkStep
<1>4. ASSUME NEW f \in fetches, UnreadAnswered(f) PROVE ReadInv'
  BY <1>4, QuietStep DEF UnreadAnswered, page, ReadInv, Shapes
<1>5. CASE Receive
  BY <1>5, ReceiveStep
<1>6. CASE GetUnread \/ Leave \/ Hide \/ Show \/ Focus \/ Reconnected \/ BoundaryTimer
  BY <1>6, QuietStep DEF GetUnread, Leave, Hide, Show, Focus, Reconnected, BoundaryTimer, page, ReadInv, Shapes
<1> QED BY <1>1, <1>2, <1>3, <1>4, <1>5, <1>6 DEF Next

\* ReadWasShown: the server counts as read only direct messages the page has
\* shown; MarkMessagesRead gets the ids, where MarkGroupRead takes the newest.
THEOREM ReadsAreShown == Spec => []ReadWasShown
<1>1. ReadInv => ReadWasShown
  BY DEF ReadInv
<1> QED BY <1>1, InitReadInv, NextReadInv, PTL DEF Spec

-----------------------------------------------------------------------------
\* The frames of a thread come in the order in which their messages were written.
FramesInOrder ==
    \A i, j \in 1..Len(frames) :
        i < j /\ frames[i].thread = frames[j].thread => frames[i].id < frames[j].id

\* What of a thread is still to be counted, and what is about to be read.
ComingIn(q, t) == {q[i].id : i \in {j \in 1..Len(q) : q[j].thread = t}}
Coming(t) == ComingIn(frames, t)
MarkingIn(S, t) == UNION {m.ids : m \in {n \in S : n.thread = t}}
Marking(t) == MarkingIn(marks, t)

\* The unread messages whose badge and boundary are due.
Due(t) == UnreadOf(t) \ (Coming(t) \cup IF t.kind = "direct" THEN Marking(t) ELSE {})

\* Nothing is on its way that makes up for the difference.
Settled(t) ==
    IF t.kind = "direct" THEN loads[t] = "none" ELSE \A m \in marks : m.thread # t

FirstOf(S, b) == \A i \in S : b # 0 /\ b <= i

BadgeOf(t) ==
    /\ Settled(t) => counts[t] = Cardinality(Due(t))
    /\ t.kind = "direct" => counts[t] <= Cardinality(Due(t))
    /\ t.kind = "direct" => Coming(t) \cap known[t] \subseteq Marking(t) \cup read[t]
    /\ Settled(t) /\ t \notin cut => FirstOf(Due(t), boundary[t])
    /\ \A i \in Coming(t) : boundary[t] < i

FetchType ==
    [step : {"asked", "served"}, changed : SUBSET Threads,
     count : [Threads -> Nat], first : [Threads -> Nat]]

\* An answer has the numbers of the tables, but of the threads that changed since.
FetchIsTrue(f) ==
    \A t \in Threads \ f.changed :
        /\ f.count[t] = Cardinality(UnreadOf(t))
        /\ FirstOf(UnreadOf(t), f.first[t])

BadgeTypes ==
    /\ hidden \in BOOLEAN /\ timer \in Threads \cup {None} /\ loads \in [Threads -> LoadKind]
    /\ counts \in [Threads -> Nat] /\ boundary \in [Threads -> Nat]
    /\ fetches \subseteq FetchType
    /\ events \in 0..MaxEvents /\ drifted \subseteq Threads /\ cut \subseteq Threads

FirstIsSent == \A t \in Threads : boundary[t] <= sent[t] /\ \A f \in fetches : f.first[t] <= sent[t]

ReadIsSent ==
    /\ \A t \in Threads : read[t] \subseteq 1..sent[t]
    /\ \A m \in marks : m.ids \subseteq 1..sent[m.thread]

Bounded ==
    /\ IsFiniteSet(Written)
    /\ \A t \in Threads : sent[t] <= MaxMessages /\ \A f \in fetches : f.count[t] <= MaxMessages

\* What the tables and the answers hold, whatever the page does.
TablesInv == BadgeTypes /\ FirstIsSent /\ ReadIsSent /\ Bounded

BadgeInv ==
    /\ FramesInOrder
    /\ \A f \in fetches : f.step = "served" => FetchIsTrue(f)
    /\ \A t \in Threads \ drifted : BadgeOf(t)

-----------------------------------------------------------------------------
LEMMA MinIsLeast ==
    ASSUME NEW S \in SUBSET Nat, S # {}
    PROVE  Min(S) \in S /\ \A y \in S : Min(S) <= y
<1>1. PICK x \in S : \A y \in S : ~ <<y, x>> \in OpToRel(<, Nat)
  BY NatLessThanWellFounded, WFMin
<1>2. ASSUME NEW y \in S PROVE ~ y < x
  BY <1>1, Zenon DEF OpToRel
<1>3. \A y \in S : x <= y
  BY <1>2
<1> QED BY <1>3 DEF Min

LEMMA UnreadIsFinite ==
    ASSUME ReadInv, NEW t \in Threads
    PROVE  /\ IsFiniteSet(UnreadOf(t)) /\ UnreadOf(t) \subseteq 1..sent[t]
           /\ Cardinality(UnreadOf(t)) \in Nat /\ Cardinality(UnreadOf(t)) <= sent[t]
<1>1. sent[t] \in Nat
  BY DEF ReadInv, Shapes
<1>2. IsFiniteSet(1..sent[t]) /\ Cardinality(1..sent[t]) = sent[t]
  <2>1. /\ IsFiniteSet(1..sent[t])
        /\ Cardinality(1..sent[t]) = IF 1 > sent[t] THEN 0 ELSE sent[t] - 1 + 1
    BY <1>1, FS_Interval
  <2> QED BY <1>1, <2>1
<1>3. UnreadOf(t) \in SUBSET (1..sent[t])
  BY DEF UnreadOf
<1>4. IsFiniteSet(UnreadOf(t)) /\ Cardinality(UnreadOf(t)) <= Cardinality(1..sent[t])
  BY <1>2, <1>3, FS_Subset
<1> QED BY <1>2, <1>3, <1>4, FS_CardinalityType

LEMMA DueIsFinite ==
    ASSUME ReadInv, NEW t \in Threads
    PROVE  IsFiniteSet(Due(t)) /\ Due(t) \subseteq UnreadOf(t) /\ Cardinality(Due(t)) \in Nat
<1>1. Due(t) \in SUBSET UnreadOf(t)
  BY DEF Due
<1>2. IsFiniteSet(Due(t))
  BY <1>1, UnreadIsFinite, FS_Subset
<1> QED BY <1>1, <1>2, FS_CardinalityType

\* A change of the tables leaves the numbers of the answers under way alone.
LEMMA ChangesFetches ==
    ASSUME fetches \subseteq FetchType, NEW t \in Threads, Changes(t)
    PROVE  /\ fetches' \subseteq FetchType
           /\ \A g \in fetches' : \E f \in fetches :
                 /\ g.step = f.step /\ g.count = f.count /\ g.first = f.first
                 /\ f.changed \subseteq g.changed /\ (g.step = "served" => t \in g.changed)
<1> SUFFICES ASSUME NEW g \in fetches'
             PROVE  /\ g \in FetchType
                    /\ \E f \in fetches :
                          /\ g.step = f.step /\ g.count = f.count /\ g.first = f.first
                          /\ f.changed \subseteq g.changed /\ (g.step = "served" => t \in g.changed)
  OBVIOUS
<1>1. PICK f \in fetches : g = IF f.step = "served" THEN [f EXCEPT !.changed = @ \cup {t}] ELSE f
  BY DEF Changes
<1>2. f \in FetchType
  OBVIOUS
<1>3. CASE f.step = "served"
  <2>1. g = [f EXCEPT !.changed = f.changed \cup {t}]
    BY <1>1, <1>3
  <2>2. g \in FetchType /\ g.step = f.step /\ g.count = f.count /\ g.first = f.first /\ g.changed = f.changed \cup {t}
    BY <1>2, <2>1 DEF FetchType
  <2> QED BY <2>2
<1>4. CASE f.step # "served"
  BY <1>1, <1>2, <1>4
<1> QED BY <1>3, <1>4

LEMMA AskedType == Asked \in FetchType /\ Asked.step = "asked" /\ \A t \in Threads : Asked.count[t] = 0 /\ Asked.first[t] = 0
BY DEF Asked, FetchType

LEMMA InitTables == ASSUME Init PROVE TablesInv
<1>1. BadgeTypes
  <2>1. fetches \subseteq FetchType /\ events \in 0..MaxEvents
    BY AskedType, BoundsAssumption DEF Init
  <2> QED BY <2>1 DEF Init, BadgeTypes, LoadKind
<1>5. FirstIsSent
  BY AskedType DEF Init, FirstIsSent
<1>2. ReadIsSent
  BY DEF Init, ReadIsSent
<1>3. Written = {}
  BY DEF Init, Written
<1>4. Bounded
  BY <1>3, AskedType, BoundsAssumption, FS_EmptySet DEF Init, Bounded
<1> QED BY <1>1, <1>2, <1>4, <1>5 DEF TablesInv

\* The bound on the messages of all threads bounds those of one.
LEMMA WrittenBounds ==
    ASSUME ReadInv, IsFiniteSet(Written), NEW t \in Threads
    PROVE  sent[t] <= Cardinality(Written) /\ Cardinality(Written) \in Nat
<1> DEFINE S == 1..sent[t]
           g == [i \in S |-> <<t, i>>]
<1>1. sent[t] \in Nat
  BY DEF ReadInv, Shapes
<1>2. IsFiniteSet(S) /\ Cardinality(S) = sent[t]
  <2>1. IsFiniteSet(S) /\ Cardinality(S) = IF 1 > sent[t] THEN 0 ELSE sent[t] - 1 + 1
    BY <1>1, FS_Interval
  <2> QED BY <1>1, <2>1
<1>3. g \in Injection(S, Written)
  BY DEF Written, Injection, IsInjective
<1>4. Cardinality(S) <= Cardinality(Written)
  BY <1>3, FS_Injection
<1> QED BY <1>2, <1>4, FS_CardinalityType
\* A step that leaves the tables alone and brings no number they do not have.
LEMMA TablesStep ==
    ASSUME TablesInv, BadgeTypes', UNCHANGED server,
           \A t \in Threads : boundary'[t] <= sent[t],
           \A m \in marks' : m.ids \subseteq 1..sent[m.thread],
           \A g \in fetches' \ fetches : \A t \in Threads : g.first[t] <= sent[t] /\ g.count[t] <= MaxMessages
    PROVE  TablesInv'
<1>1. sent' = sent /\ read' = read
  BY DEF server
<1>2. FirstIsSent'
  BY <1>1 DEF TablesInv, FirstIsSent
<1>3. ReadIsSent'
  BY <1>1 DEF TablesInv, ReadIsSent
<1>4. Bounded'
  BY <1>1 DEF TablesInv, Bounded, Written
<1> QED BY <1>2, <1>3, <1>4 DEF TablesInv

LEMMA TablesFacts ==
    ASSUME TablesInv
    PROVE  /\ \A t \in Threads : boundary[t] <= sent[t]
           /\ \A m \in marks : m.ids \subseteq 1..sent[m.thread]
BY DEF TablesInv, FirstIsSent, ReadIsSent

LEMMA WriteTables == ASSUME ReadInv, TablesInv, NEW t \in Threads, Write(t) PROVE TablesInv'
<1>1. /\ Cardinality(Written) < MaxMessages /\ sent' = [sent EXCEPT ![t] = @ + 1] /\ Changes(t)
      /\ UNCHANGED <<read, page, loads, marks, badges, cut>>
      /\ drifted' \in {drifted, drifted \cup {t}} /\ (Event \/ UNCHANGED events)
  BY DEF Write
<1>2. sent[t] <= Cardinality(Written) /\ Cardinality(Written) \in Nat
  BY WrittenBounds DEF TablesInv, Bounded
<1>3. /\ sent \in [Threads -> Nat] /\ sent'[t] = sent[t] + 1
      /\ \A u \in Threads : sent[u] \in Nat /\ sent'[u] \in Nat /\ sent[u] <= sent'[u] /\ (u # t => sent'[u] = sent[u])
  BY <1>1 DEF ReadInv, Shapes
<1>4. /\ fetches' \subseteq FetchType
      /\ \A g \in fetches' : \E f \in fetches : g.count = f.count /\ g.first = f.first
  BY <1>1, ChangesFetches DEF TablesInv, BadgeTypes
<1>5. BadgeTypes'
  <2>1. events' \in 0..MaxEvents
    BY <1>1, BoundsAssumption DEF TablesInv, BadgeTypes, Event
  <2> QED BY <1>1, <1>4, <2>1 DEF TablesInv, BadgeTypes, page, badges
<1>6. FirstIsSent'
  <2>1. \A u \in Threads : boundary'[u] <= sent'[u]
    BY <1>1, <1>3 DEF TablesInv, BadgeTypes, FirstIsSent, badges
  <2>2. ASSUME NEW u \in Threads, NEW g \in fetches' PROVE g.first[u] <= sent'[u]
    <3>1. PICK f \in fetches : g.first = f.first
      BY <1>4
    <3>2. f \in FetchType
      BY DEF TablesInv, BadgeTypes
    <3>3. f.first[u] \in Nat
      BY <3>2 DEF FetchType
    <3> QED BY <1>3, <3>1, <3>3 DEF TablesInv, FirstIsSent
  <2> QED BY <2>1, <2>2 DEF FirstIsSent
<1>7. ReadIsSent'
  <2>1. \A u \in Threads : 1..sent[u] \subseteq 1..sent'[u]
    BY <1>3
  <2>2. \A m \in marks : m.thread \in Threads
    BY DEF ReadInv, Shapes
  <2> QED BY <1>1, <2>1, <2>2 DEF TablesInv, ReadIsSent
<1>8. Bounded'
  <2>1. 1..sent'[t] = (1..sent[t]) \cup {sent[t] + 1}
    BY <1>3
  <2>2. Written' = Written \cup {<<t, sent[t] + 1>>}
    BY <1>3, <2>1 DEF Written
  <2>3. IsFiniteSet(Written')
    BY <2>2, FS_AddElement DEF TablesInv, Bounded
  <2>4. \A u \in Threads : sent'[u] <= MaxMessages
    BY <1>1, <1>2, <1>3, BoundsAssumption DEF TablesInv, Bounded
  <2>5. \A u \in Threads : \A g \in fetches' : g.count[u] <= MaxMessages
    BY <1>4 DEF TablesInv, Bounded
  <2> QED BY <2>3, <2>4, <2>5 DEF Bounded
<1> QED BY <1>5, <1>6, <1>7, <1>8 DEF TablesInv

LEMMA MarkTables == ASSUME ReadInv, TablesInv, NEW m \in marks, MarkServed(m) PROVE TablesInv'
<1> DEFINE t == m.thread
<1>1. /\ marks' = marks \ {m} /\ UNCHANGED <<sent, page, loads, badges, cut>>
      /\ \/ UNCHANGED events /\ read' = [read EXCEPT ![t] = Marked(m)] /\ Changes(t)
         \/ Event /\ UNCHANGED <<read, fetches>>
      /\ drifted' \subseteq drifted \cup {t}
  BY DEF MarkServed, NoEvent
<1>2. t \in Threads /\ m.ids \subseteq 1..sent[t] /\ read[t] \subseteq 1..sent[t]
  BY DEF ReadInv, Shapes, TablesInv, ReadIsSent
<1>3. Marked(m) \subseteq 1..sent[t]
  BY <1>2 DEF Marked
<1>4. /\ fetches' \subseteq FetchType
      /\ \A g \in fetches' : \E f \in fetches : g.count = f.count /\ g.first = f.first
  BY <1>1, <1>2, ChangesFetches DEF TablesInv, BadgeTypes
<1>5. BadgeTypes'
  <2>1. events' \in 0..MaxEvents
    BY <1>1, BoundsAssumption DEF TablesInv, BadgeTypes, Event
  <2> QED BY <1>1, <1>2, <1>4, <2>1 DEF TablesInv, BadgeTypes, page, badges
<1>6. FirstIsSent'
  BY <1>1, <1>4 DEF TablesInv, FirstIsSent, badges
<1>7. ReadIsSent'
  <2> DEFINE n == Marked(m)
  <2> HIDE DEF n, t
  <2>1. ASSUME NEW u \in Threads PROVE read'[u] \subseteq 1..sent[u]
    BY <1>1, <1>2, <1>3, <2>1 DEF ReadInv, Shapes, TablesInv, ReadIsSent, n, t
  <2> QED BY <1>1, <2>1 DEF TablesInv, ReadIsSent
<1>8. Bounded'
  <2>1. Written' = Written
    BY <1>1 DEF Written
  <2> QED BY <1>1, <1>4, <2>1 DEF TablesInv, Bounded
<1> QED BY <1>5, <1>6, <1>7, <1>8 DEF TablesInv

LEMMA GetTables == ASSUME ReadInv, TablesInv, GetUnread PROVE TablesInv'
<1> DEFINE c == [t \in Threads |-> Cardinality(UnreadOf(t))]
           m == [t \in Threads |-> IF UnreadOf(t) = {} THEN 0 ELSE Min(UnreadOf(t))]
           g == [step |-> "served", changed |-> {}, count |-> c, first |-> m]
<1>1. fetches' = (fetches \ {Asked}) \cup {g}
      /\ UNCHANGED <<server, frames, page, loads, marks, badges, events, drifted, cut>>
  BY DEF GetUnread
<1>2. ASSUME NEW t \in Threads PROVE c[t] \in Nat /\ c[t] <= MaxMessages /\ m[t] \in Nat /\ m[t] <= sent[t]
  <2>1. /\ UnreadOf(t) \subseteq 1..sent[t] /\ Cardinality(UnreadOf(t)) \in Nat /\ Cardinality(UnreadOf(t)) <= sent[t]
        /\ sent[t] \in Nat /\ sent[t] <= MaxMessages
    BY UnreadIsFinite DEF ReadInv, Shapes, TablesInv, Bounded
  <2>2. UnreadOf(t) # {} => Min(UnreadOf(t)) \in UnreadOf(t)
    <3>1. UnreadOf(t) \in SUBSET Nat
      BY <2>1
    <3> QED BY <3>1, MinIsLeast
  <2> QED BY <2>1, <2>2, BoundsAssumption
<1>3. c \in [Threads -> Nat] /\ m \in [Threads -> Nat]
  BY <1>2
<1>4. g \in FetchType /\ g.count = c /\ g.first = m
  BY <1>3 DEF FetchType
<1> HIDE DEF c, m, g
<1>5. BadgeTypes'
  BY <1>1, <1>4 DEF TablesInv, BadgeTypes, page, badges
<1> QED BY <1>1, <1>2, <1>4, <1>5, TablesStep, TablesFacts DEF badges

LEMMA AnswerTables == ASSUME ReadInv, TablesInv, NEW f \in fetches, UnreadAnswered(f) PROVE TablesInv'
<1>1. /\ fetches' = fetches \ {f} /\ UNCHANGED <<server, frames, page, loads, marks>>
      /\ \/ /\ UNCHANGED events /\ counts' = f.count /\ boundary' = f.first
            /\ drifted' = f.changed \cup {t \in Threads : Busy(t)} /\ cut' = {}
         \/ Event /\ UNCHANGED <<badges, drifted, cut>>
  BY DEF UnreadAnswered, HydrateUnread, NoEvent
<1>2. f \in FetchType
  BY DEF TablesInv, BadgeTypes
<1>3. BadgeTypes'
  <2>1. f.count \in [Threads -> Nat] /\ f.first \in [Threads -> Nat] /\ f.changed \subseteq Threads
    BY <1>2 DEF FetchType
  <2>2. events' \in 0..MaxEvents
    BY <1>1, BoundsAssumption DEF TablesInv, BadgeTypes, Event
  <2> QED BY <1>1, <2>1, <2>2 DEF TablesInv, BadgeTypes, page, badges
<1>4. \A t \in Threads : boundary'[t] <= sent[t]
  BY <1>1 DEF TablesInv, FirstIsSent, badges
<1> QED BY <1>1, <1>3, <1>4, TablesStep, TablesFacts

LEMMA ReceiveTables == ASSUME ReadInv, TablesInv, Receive PROVE TablesInv'
<1> DEFINE t == Head(frames).thread
           i == Head(frames).id
<1>1. /\ frames # <<>> /\ UNCHANGED <<server, open, hidden, timer, loads, fetches, events, cut>>
      /\ marks' \in {marks, marks \cup {[thread |-> t, ids |-> {i}]}}
      /\ drifted' \in {drifted, drifted \cup {t}}
      /\ counts' \in {counts, [counts EXCEPT ![t] = @ + 1], [counts EXCEPT ![t] = 0]}
      /\ boundary' \in {boundary, [boundary EXCEPT ![t] = IF @ = 0 THEN i ELSE @]}
  BY DEF Receive, SeenNow, IncrementUnread
<1>2. Head(frames) \in FrameType /\ i \in 1..sent[t]
  BY <1>1 DEF ReadInv, Shapes, FramesAreSent
<1>3. t \in Threads /\ i \in Nat /\ sent[t] \in Nat
  BY <1>2 DEF FrameType, ReadInv, Shapes
<1> HIDE DEF t, i
<1>4. BadgeTypes' /\ \A u \in Threads : boundary'[u] <= sent[u]
  <2>1. counts' \in [Threads -> Nat]
    <3>1. counts \in [Threads -> Nat] /\ counts[t] \in Nat
      BY <1>3 DEF TablesInv, BadgeTypes
    <3>2. CASE counts' = [counts EXCEPT ![t] = @ + 1]
      BY <1>3, <3>1, <3>2
    <3>3. CASE counts' \in {counts, [counts EXCEPT ![t] = 0]}
      BY <3>1, <3>3
    <3> QED BY <1>1, <3>2, <3>3
  <2>2. boundary' \in [Threads -> Nat] /\ \A u \in Threads : boundary'[u] <= sent[u]
    <3>1. boundary \in [Threads -> Nat] /\ \A u \in Threads : boundary[u] <= sent[u]
      BY DEF TablesInv, BadgeTypes, FirstIsSent
    <3>2. CASE boundary' = [boundary EXCEPT ![t] = IF @ = 0 THEN i ELSE @]
      BY <1>2, <1>3, <3>1, <3>2
    <3>3. CASE boundary' = boundary
      BY <3>1, <3>3
    <3> QED BY <1>1, <3>2, <3>3
  <2> QED BY <1>1, <1>3, <2>1, <2>2 DEF TablesInv, BadgeTypes
<1>5. \A n \in marks' : n.ids \subseteq 1..sent[n.thread]
  BY <1>1, <1>2, TablesFacts
<1> QED BY <1>1, <1>4, <1>5, TablesStep

LEMMA OpenTables == ASSUME ReadInv, TablesInv, NEW t \in Threads, Open(t) PROVE TablesInv'
<1>1. /\ Event /\ timer' \in {timer, None} /\ counts' = [counts EXCEPT ![t] = 0]
      /\ loads' \in {[loads EXCEPT ![t] = "plain"], [loads EXCEPT ![t] = "divider"]}
      /\ marks' \subseteq marks \cup {[thread |-> t, ids |-> {}]}
      /\ UNCHANGED <<server, hidden, boundary, fetches, drifted, cut>>
  BY DEF Open, ClearUnread
<1>2. BadgeTypes'
  <2>1. events' \in 0..MaxEvents
    BY <1>1, BoundsAssumption DEF TablesInv, BadgeTypes, Event
  <2>2. counts' \in [Threads -> Nat] /\ loads' \in [Threads -> LoadKind]
    BY <1>1 DEF TablesInv, BadgeTypes, LoadKind
  <2> QED BY <1>1, <2>1, <2>2 DEF TablesInv, BadgeTypes
<1>3. \A n \in marks' : n.ids \subseteq 1..sent[n.thread]
  BY <1>1, TablesFacts
<1> QED BY <1>1, <1>2, <1>3, TablesStep, TablesFacts

LEMMA LoadTables == ASSUME ReadInv, TablesInv, NEW t \in Threads, LoadAnswered(t) PROVE TablesInv'
<1>1. /\ loads' = [loads EXCEPT ![t] = "none"] /\ timer' \in {timer, t}
      /\ marks' \subseteq marks \cup {[thread |-> t, ids |-> ToMark(t)], [thread |-> t, ids |-> {}]}
      /\ counts' \in {counts, [counts EXCEPT ![t] = 0]} /\ drifted' \subseteq drifted \cup {t}
      /\ UNCHANGED <<server, hidden, boundary, fetches, events, cut>>
  BY DEF LoadAnswered, ClearUnread
<1>2. BadgeTypes'
  <2>1. counts' \in [Threads -> Nat] /\ loads' \in [Threads -> LoadKind]
    BY <1>1 DEF TablesInv, BadgeTypes, LoadKind
  <2> QED BY <1>1, <2>1 DEF TablesInv, BadgeTypes
<1>3. \A n \in marks' : n.ids \subseteq 1..sent[n.thread]
  BY <1>1, TablesFacts DEF ToMark, UnreadOf
<1> QED BY <1>1, <1>2, <1>3, TablesStep, TablesFacts

LEMMA PageTables ==
    ASSUME ReadInv, TablesInv,
           (\E t \in Threads : LoadFails(t)) \/ Leave \/ Hide \/ Show \/ Focus \/ Reconnected \/ BoundaryTimer
    PROVE  TablesInv'
<1>1. ASSUME NEW t \in Threads, LoadFails(t) PROVE TablesInv'
  <2>1. /\ Event /\ loads' = [loads EXCEPT ![t] = "none"] /\ drifted' \subseteq drifted \cup {t}
        /\ UNCHANGED <<server, page, marks, badges, fetches, cut>>
    BY <1>1 DEF LoadFails
  <2>2. BadgeTypes'
    BY <2>1, BoundsAssumption DEF TablesInv, BadgeTypes, LoadKind, Event, page, badges
  <2> QED BY <2>1, <2>2, TablesStep, TablesFacts DEF badges
<1>2. CASE Leave \/ Hide \/ Show \/ Focus \/ Reconnected
  <2>1. /\ Event /\ hidden' \in BOOLEAN /\ timer' \in {timer, None} /\ loads' \in {loads, Reloading}
        /\ fetches' \in {fetches, fetches \cup {Asked}}
        /\ UNCHANGED <<server, marks, badges, drifted, cut>>
    BY <1>2 DEF Leave, Hide, Show, Focus, Reconnected, TablesInv, BadgeTypes, page
  <2>2. Reloading \in [Threads -> LoadKind]
    BY DEF Reloading, TablesInv, BadgeTypes, LoadKind
  <2>3. BadgeTypes'
    BY <2>1, <2>2, AskedType, BoundsAssumption DEF TablesInv, BadgeTypes, Event, badges
  <2>4. \A t \in Threads : Asked.first[t] <= sent[t] /\ Asked.count[t] <= MaxMessages
    BY AskedType, BoundsAssumption DEF ReadInv, Shapes
  <2> QED BY <2>1, <2>3, <2>4, TablesStep, TablesFacts DEF badges
<1>3. CASE BoundaryTimer
  <2>1. /\ timer \in Threads /\ timer' = None /\ boundary' = [boundary EXCEPT ![timer] = 0]
        /\ cut' \subseteq cut \cup {timer}
        /\ UNCHANGED <<server, hidden, loads, marks, counts, fetches, events, drifted>>
    BY <1>3 DEF BoundaryTimer, TablesInv, BadgeTypes
  <2>2. BadgeTypes'
    BY <2>1 DEF TablesInv, BadgeTypes
  <2>3. \A t \in Threads : boundary'[t] <= sent[t]
    BY <2>1, TablesFacts DEF TablesInv, BadgeTypes, ReadInv, Shapes
  <2> QED BY <2>1, <2>2, <2>3, TablesStep, TablesFacts
<1> QED BY <1>1, <1>2, <1>3

LEMMA NextTables == ASSUME ReadInv, TablesInv, [Next]_vars PROVE TablesInv'
<1>1. CASE UNCHANGED vars
  <2>1. UNCHANGED <<server, marks, badges, fetches>> /\ BadgeTypes'
    BY <1>1 DEF vars, page, badges, TablesInv, BadgeTypes
  <2> QED BY <2>1, TablesStep, TablesFacts DEF badges
<1> QED BY <1>1, WriteTables, OpenTables, LoadTables, MarkTables, AnswerTables, GetTables, ReceiveTables, PageTables DEF Next
-----------------------------------------------------------------------------
(* The frames and the marks of a thread.                                   *)

LEMMA ComingIsSent == ASSUME ReadInv, NEW t \in Threads PROVE ComingIn(frames, t) \subseteq 1..sent[t]
BY DEF ReadInv, Shapes, FramesAreSent, ComingIn

LEMMA FrameSent ==
    ASSUME ReadInv, FramesInOrder, NEW t \in Threads,
           frames' = Append(frames, [thread |-> t, id |-> sent[t] + 1])
    PROVE  /\ FramesInOrder'
           /\ ComingIn(frames', t) = ComingIn(frames, t) \cup {sent[t] + 1}
           /\ \A u \in Threads \ {t} : ComingIn(frames', u) = ComingIn(frames, u)
<1> DEFINE f == [thread |-> t, id |-> sent[t] + 1]
           n == Len(frames)
<1>1. /\ frames \in Seq(FrameType) /\ n \in Nat /\ sent[t] \in Nat
      /\ \A i \in 1..n : frames[i].id \in 1..sent[frames[i].thread]
  BY DEF ReadInv, Shapes, FramesAreSent
<1>2. f \in FrameType /\ f.thread = t /\ f.id = sent[t] + 1
  BY <1>1 DEF FrameType
<1> HIDE DEF f
<1>3. frames' = Append(frames, f)
  BY DEF f
<1>4. Len(frames') = n + 1 /\ frames'[n + 1] = f /\ \A i \in 1..n : frames'[i] = frames[i]
  BY <1>1, <1>2, <1>3
<1> HIDE DEF n
<1>5. FramesInOrder'
  <2> SUFFICES ASSUME NEW i \in 1..(n + 1), NEW j \in 1..(n + 1), i < j, frames'[i].thread = frames'[j].thread
               PROVE  frames'[i].id < frames'[j].id
    BY <1>4 DEF FramesInOrder
  <2>1. i \in 1..n
    BY <1>1
  <2>2. CASE j \in 1..n
    BY <1>1, <1>4, <2>1, <2>2 DEF FramesInOrder, n
  <2>3. CASE j = n + 1
    <3>1. frames[i].thread = t /\ frames[i].id \in 1..sent[t]
      BY <1>1, <1>2, <1>4, <2>1, <2>3
    <3> QED BY <1>1, <1>2, <1>4, <2>1, <2>3, <3>1
  <2>4. j \in 1..n \/ j = n + 1
    BY <1>1
  <2> QED BY <2>2, <2>3, <2>4
<1>6. ASSUME NEW u \in Threads PROVE ComingIn(frames', u) = ComingIn(frames, u) \cup IF u = t THEN {sent[t] + 1} ELSE {}
  <2>1. {j \in 1..Len(frames') : frames'[j].thread = u}
          = {j \in 1..n : frames[j].thread = u} \cup IF u = t THEN {n + 1} ELSE {}
    BY <1>1, <1>2, <1>4
  <2>2. ComingIn(frames', u) = {frames'[i].id : i \in {j \in 1..Len(frames') : frames'[j].thread = u}}
    BY DEF ComingIn
  <2>3. ComingIn(frames, u) = {frames[i].id : i \in {j \in 1..n : frames[j].thread = u}}
    BY DEF ComingIn, n
  <2>4. CASE u = t
    BY <1>1, <1>2, <1>4, <2>1, <2>2, <2>3, <2>4
  <2>5. CASE u # t
    BY <1>1, <1>2, <1>4, <2>1, <2>2, <2>3, <2>5
  <2> QED BY <2>4, <2>5
<1> QED BY <1>5, <1>6

LEMMA FrameReceived ==
    ASSUME ReadInv, FramesInOrder, frames # <<>>, frames' = Tail(frames),
           NEW t, NEW i, t = Head(frames).thread, i = Head(frames).id
    PROVE  /\ FramesInOrder'
           /\ t \in Threads /\ i \in 1..sent[t] /\ i \in Nat /\ i \in ComingIn(frames, t)
           /\ ComingIn(frames', t) = ComingIn(frames, t) \ {i} /\ \A j \in ComingIn(frames', t) : i < j
           /\ \A u \in Threads \ {t} : ComingIn(frames', u) = ComingIn(frames, u)
<1> DEFINE n == Len(frames)
<1>1. /\ frames \in Seq(FrameType) /\ n \in Nat /\ n > 0
      /\ \A k \in 1..n : frames[k] \in FrameType /\ frames[k].id \in 1..sent[frames[k].thread]
  BY DEF ReadInv, Shapes, FramesAreSent
<1>2. t = frames[1].thread /\ i = frames[1].id /\ 1 \in 1..n
  BY <1>1
<1>3. t \in Threads /\ i \in 1..sent[t] /\ i \in Nat
  BY <1>1, <1>2 DEF FrameType
<1>4. Len(frames') = n - 1 /\ \A k \in 1..(n - 1) : frames'[k] = frames[k + 1]
  BY <1>1
<1> HIDE DEF n
<1>5. FramesInOrder'
  BY <1>1, <1>4 DEF FramesInOrder, n
<1>6. \A u \in Threads : \A c \in ComingIn(frames', u) : \E k \in 1..(n - 1) : frames'[k].thread = u /\ c = frames'[k].id
  <2> SUFFICES ASSUME NEW u \in Threads, NEW c \in ComingIn(frames', u)
               PROVE  \E k \in 1..(n - 1) : frames'[k].thread = u /\ c = frames'[k].id
    OBVIOUS
  <2>1. c \in {frames'[k].id : k \in {j \in 1..Len(frames') : frames'[j].thread = u}}
    BY DEF ComingIn
  <2> QED BY <1>4, <2>1
<1>7. ASSUME NEW u \in Threads
      PROVE  ComingIn(frames, u) = ComingIn(frames', u) \cup IF u = t THEN {i} ELSE {}
  <2>1. ASSUME NEW c \in ComingIn(frames, u) PROVE c \in ComingIn(frames', u) \cup IF u = t THEN {i} ELSE {}
    <3>1. PICK k \in 1..n : frames[k].thread = u /\ c = frames[k].id
      BY DEF ComingIn, n
    <3>2. CASE k = 1
      BY <1>2, <3>1, <3>2
    <3>3. CASE k # 1
      <4>1. k - 1 \in 1..(n - 1) /\ frames'[k - 1] = frames[k]
        BY <1>1, <1>4, <3>1, <3>3
      <4> QED BY <1>4, <3>1, <4>1 DEF ComingIn
    <3> QED BY <3>2, <3>3
  <2>2. ASSUME NEW c \in ComingIn(frames', u) PROVE c \in ComingIn(frames, u)
    <3>1. PICK k \in 1..(n - 1) : frames'[k].thread = u /\ c = frames'[k].id
      BY <1>3, <1>6
    <3>2. k + 1 \in 1..n /\ frames'[k] = frames[k + 1]
      BY <1>1, <1>4
    <3> QED BY <3>1, <3>2 DEF ComingIn, n
  <2>3. u = t => i \in ComingIn(frames, u)
    BY <1>2 DEF ComingIn, n
  <2> QED BY <2>1, <2>2, <2>3
<1>8. \A c \in ComingIn(frames', t) : i < c
  <2> SUFFICES ASSUME NEW c \in ComingIn(frames', t) PROVE i < c
    OBVIOUS
  <2>1. PICK k \in 1..(n - 1) : frames'[k].thread = t /\ c = frames'[k].id
    BY <1>3, <1>6
  <2>2. k + 1 \in 1..n /\ frames'[k] = frames[k + 1] /\ 1 < k + 1
    BY <1>1, <1>4
  <2> QED BY <1>2, <2>1, <2>2 DEF FramesInOrder, n
<1>9. i \in ComingIn(frames, t) /\ ComingIn(frames', t) = ComingIn(frames, t) \ {i}
  <2>1. i \notin ComingIn(frames', t)
    BY <1>3, <1>8
  <2>2. ComingIn(frames, t) = ComingIn(frames', t) \cup {i}
    BY <1>3, <1>7
  <2> QED BY <2>1, <2>2
<1>10. ASSUME NEW u \in Threads \ {t} PROVE ComingIn(frames', u) = ComingIn(frames, u)
  <2>1. ComingIn(frames, u) = ComingIn(frames', u) \cup {}
    BY <1>7
  <2> QED BY <2>1
<1> QED BY <1>3, <1>5, <1>8, <1>9, <1>10

LEMMA SameFrames == ASSUME UNCHANGED frames PROVE (FramesInOrder => FramesInOrder') /\ \A t \in Threads : ComingIn(frames', t) = ComingIn(frames, t)
BY DEF FramesInOrder, ComingIn

LEMMA MarkSent ==
    ASSUME NEW t \in Threads, NEW a, marks' = marks \cup {[thread |-> t, ids |-> a]}
    PROVE  /\ MarkingIn(marks', t) = MarkingIn(marks, t) \cup a
           /\ \A u \in Threads \ {t} : MarkingIn(marks', u) = MarkingIn(marks, u)
           /\ \A u \in Threads \ {t} : (\A m \in marks' : m.thread # u) <=> \A m \in marks : m.thread # u
           /\ ~ \A m \in marks' : m.thread # t
<1> DEFINE n == [thread |-> t, ids |-> a]
<1>1. n.thread = t /\ n.ids = a
  OBVIOUS
<1> HIDE DEF n
<1>2. marks' = marks \cup {n}
  BY DEF n
<1> QED BY <1>1, <1>2 DEF MarkingIn

LEMMA MarkTaken ==
    ASSUME NEW m \in marks, marks' = marks \ {m}
    PROVE  /\ MarkingIn(marks, m.thread) = MarkingIn(marks', m.thread) \cup m.ids
           /\ \A u \in Threads \ {m.thread} : MarkingIn(marks', u) = MarkingIn(marks, u)
           /\ \A u \in Threads \ {m.thread} : (\A n \in marks' : n.thread # u) <=> \A n \in marks : n.thread # u
BY DEF MarkingIn

LEMMA SameMarks ==
    ASSUME UNCHANGED marks
    PROVE  \A u \in Threads : MarkingIn(marks', u) = MarkingIn(marks, u) /\ ((\A m \in marks' : m.thread # u) <=> \A m \in marks : m.thread # u)
BY DEF MarkingIn

LEMMA MarkingIsKnown == ASSUME ReadInv, NEW t \in Threads, t.kind = "direct" PROVE MarkingIn(marks, t) \subseteq known[t]
BY DEF ReadInv, MarksAreKnown, MarkingIn
-----------------------------------------------------------------------------
(* The badge of a thread, step by step.                                    *)

LEMMA SameBadge ==
    ASSUME NEW t \in Threads, BadgeOf(t),
           sent'[t] = sent[t], read'[t] = read[t], t.kind = "direct" => known'[t] = known[t],
           ComingIn(frames', t) = ComingIn(frames, t), MarkingIn(marks', t) = MarkingIn(marks, t),
           counts'[t] = counts[t], boundary'[t] = boundary[t], t \in cut => t \in cut',
           IF t.kind = "direct" THEN loads'[t] = "none" => loads[t] = "none"
           ELSE (\A m \in marks' : m.thread # t) => \A m \in marks : m.thread # t
    PROVE  BadgeOf(t)'
<1>1. Due(t)' = Due(t)
  BY DEF Due, UnreadOf, Coming, Marking
<1>2. Settled(t)' => Settled(t)
  BY DEF Settled
<1> QED BY <1>1, <1>2 DEF BadgeOf, Coming, Marking

LEMMA BadgeFacts ==
    ASSUME ReadInv, TablesInv, NEW t \in Threads
    PROVE  /\ sent[t] \in Nat /\ counts[t] \in Nat /\ boundary[t] \in Nat /\ boundary[t] <= sent[t]
           /\ t.kind \in {"direct", "group"}
           /\ read[t] \subseteq 1..sent[t] /\ known[t] \subseteq 1..sent[t]
           /\ ComingIn(frames, t) \subseteq 1..sent[t]
           /\ t.kind = "direct" => MarkingIn(marks, t) \subseteq known[t]
<1>1. sent[t] \in Nat /\ counts[t] \in Nat /\ boundary[t] \in Nat /\ boundary[t] <= sent[t]
  BY DEF ReadInv, Shapes, TablesInv, BadgeTypes, FirstIsSent
<1>2. t.kind \in {"direct", "group"}
  BY DEF Threads
<1>3. read[t] \subseteq 1..sent[t] /\ known[t] \subseteq 1..sent[t]
  BY DEF TablesInv, ReadIsSent, ReadInv, KnownIsSent
<1> QED BY <1>1, <1>2, <1>3, ComingIsSent, MarkingIsKnown

\* A message written is coming before it is due.
LEMMA WriteBadge ==
    ASSUME ReadInv, TablesInv, BadgeInv, NEW t \in Threads, Write(t), NEW u \in Threads \ drifted'
    PROVE  BadgeOf(u)'
<1>1. /\ sent' = [sent EXCEPT ![t] = @ + 1] /\ UNCHANGED <<read, page, loads, marks, badges, cut>>
      /\ \/ frames' = Append(frames, [thread |-> t, id |-> sent[t] + 1]) /\ drifted' = drifted
         \/ drifted' = drifted \cup {t} /\ frames' = frames
  BY DEF Write
<1>2. BadgeOf(u) /\ u \in Threads
  BY <1>1 DEF BadgeInv
<1>3. /\ sent'[t] = sent[t] + 1 /\ (u # t => sent'[u] = sent[u])
      /\ known' = known /\ read' = read /\ counts' = counts /\ boundary' = boundary
  BY <1>1 DEF ReadInv, Shapes, page, badges
<1>4. CASE u # t
  <2>1. ComingIn(frames', u) = ComingIn(frames, u)
    BY <1>1, <1>2, <1>4, FrameSent, SameFrames DEF BadgeInv
  <2> QED BY <1>1, <1>2, <1>3, <1>4, <2>1, SameBadge
<1>5. CASE u = t
  <2> DEFINE s == sent[t] + 1
  <2>1. frames' = Append(frames, [thread |-> t, id |-> sent[t] + 1])
    BY <1>1, <1>5
  <2>2. ComingIn(frames', t) = ComingIn(frames, t) \cup {s}
    BY <2>1, FrameSent DEF BadgeInv
  <2>3. /\ boundary[t] < s /\ s \notin read[t] /\ s \notin known[t] /\ s \notin ComingIn(frames, t)
        /\ 1..sent'[t] = (1..sent[t]) \cup {s}
    BY <1>3, BadgeFacts
  <2> HIDE DEF s
  <2>4. UnreadOf(t)' = UnreadOf(t) \cup {s}
    BY <1>3, <2>3 DEF UnreadOf
  <2>5. Due(t)' = Due(t)
    <3>1. s \notin UnreadOf(t)
      BY <1>3, BadgeFacts DEF UnreadOf, s
    <3> QED BY <1>1, <2>2, <2>4, <3>1 DEF Due, Coming, Marking
  <2>6. Settled(t)' <=> Settled(t)
    BY <1>1 DEF Settled
  <2>7. t.kind = "direct" => ComingIn(frames', t) \cap known'[t] \subseteq MarkingIn(marks', t) \cup read'[t]
    BY <1>1, <1>2, <1>3, <1>5, <2>2, <2>3 DEF BadgeOf, Coming, Marking
  <2>8. \A i \in ComingIn(frames', t) : boundary'[t] < i
    BY <1>2, <1>3, <1>5, <2>2, <2>3 DEF BadgeOf, Coming
  <2>9. BadgeOf(t)'
    BY <1>1, <1>2, <1>3, <1>5, <2>5, <2>6, <2>7, <2>8 DEF BadgeOf, Coming, Marking
  <2> QED BY <1>5, <2>9
<1> QED BY <1>4, <1>5

\* A mark of a direct thread reads what was not due any more; a group's reads
\* everything, which is right if nothing has been counted since.
LEMMA MarkBadge ==
    ASSUME ReadInv, TablesInv, BadgeInv, NEW m \in marks, MarkServed(m), NEW u \in Threads \ drifted'
    PROVE  BadgeOf(u)'
<1>1. PICK t \in Threads : t = m.thread
  BY DEF ReadInv, Shapes
<1>2. /\ marks' = marks \ {m} /\ UNCHANGED <<sent, frames, page, loads, badges, cut>>
      /\ \/ /\ read' = [read EXCEPT ![t] = Marked(m)]
            /\ drifted' = drifted \cup IF t.kind = "group" /\ counts[t] # 0 THEN {t} ELSE {}
         \/ drifted' = drifted \cup {t} /\ UNCHANGED read
  BY <1>1 DEF MarkServed
<1>3. BadgeOf(u) /\ u \in Threads
  BY <1>2 DEF BadgeInv
<1>4. sent' = sent /\ frames' = frames /\ known' = known /\ loads' = loads /\ counts' = counts /\ boundary' = boundary /\ cut' = cut
  BY <1>2 DEF page, badges
<1>5. CASE u # t
  <2>1. MarkingIn(marks', u) = MarkingIn(marks, u) /\ ((\A n \in marks' : n.thread # u) <=> \A n \in marks : n.thread # u)
    BY <1>1, <1>2, <1>3, <1>5, MarkTaken
  <2>2. read'[u] = read[u]
    BY <1>2, <1>3, <1>5 DEF ReadInv, Shapes
  <2> QED BY <1>3, <1>4, <2>1, <2>2, SameBadge
<1>6. CASE u = t
  <2>1. read'[t] = Marked(m)
    BY <1>2, <1>6 DEF ReadInv, Shapes
  <2>2. CASE t.kind = "direct"
    <3>1. read'[t] = read[t] \cup m.ids
      BY <1>1, <2>1, <2>2 DEF Marked
    <3>2. MarkingIn(marks, t) = MarkingIn(marks', t) \cup m.ids
      BY <1>1, <1>2, MarkTaken
    <3>3. Due(t)' = Due(t)
      BY <1>4, <2>2, <3>1, <3>2 DEF Due, UnreadOf, Coming, Marking
    <3>4. Settled(t)' <=> Settled(t)
      BY <1>4, <2>2 DEF Settled
    <3>5. ComingIn(frames', t) \cap known'[t] \subseteq MarkingIn(marks', t) \cup read'[t]
      BY <1>3, <1>4, <1>6, <2>2, <3>1, <3>2 DEF BadgeOf, Coming, Marking
    <3>6. BadgeOf(t)'
      BY <1>3, <1>4, <1>6, <3>3, <3>4, <3>5 DEF BadgeOf, Coming, Marking
    <3> QED BY <1>6, <3>6
  <2>3. CASE t.kind = "group"
    <3>1. read'[t] = 1..sent[t] /\ counts[t] = 0
      BY <1>1, <1>2, <1>6, <2>1, <2>3 DEF Marked
    <3>2. Due(t)' = {}
      BY <1>4, <3>1 DEF Due, UnreadOf
    <3>3. Cardinality(Due(t)') = 0 /\ FirstOf(Due(t), boundary[t])'
      BY <3>2, FS_EmptySet DEF FirstOf
    <3>4. BadgeOf(t)'
      BY <1>3, <1>4, <1>6, <2>3, <3>1, <3>3 DEF BadgeOf, Coming
    <3> QED BY <1>6, <3>4
  <2> QED BY <1>1, <2>2, <2>3, BadgeFacts
<1> QED BY <1>5, <1>6
\* An answer has the server's numbers for what is at rest and has not changed.
LEMMA AnswerBadge ==
    ASSUME ReadInv, TablesInv, BadgeInv, NEW f \in fetches, UnreadAnswered(f), NEW u \in Threads \ drifted'
    PROVE  BadgeOf(u)'
<1>1. /\ f.step = "served" /\ UNCHANGED <<server, frames, page, loads, marks>>
      /\ \/ /\ counts' = f.count /\ boundary' = f.first
            /\ drifted' = f.changed \cup {t \in Threads : Busy(t)}
         \/ UNCHANGED <<badges, drifted, cut>>
  BY DEF UnreadAnswered, HydrateUnread
<1>2. sent' = sent /\ read' = read /\ known' = known /\ frames' = frames /\ loads' = loads /\ marks' = marks
  BY <1>1 DEF server, page
<1>3. CASE UNCHANGED <<badges, drifted, cut>>
  BY <1>2, <1>3, SameBadge DEF BadgeInv, badges
<1>4. CASE /\ counts' = f.count /\ boundary' = f.first
           /\ drifted' = f.changed \cup {t \in Threads : Busy(t)}
  <2>1. u \notin f.changed /\ ~Busy(u)
    BY <1>4
  <2>2. f.count[u] = Cardinality(UnreadOf(u)) /\ FirstOf(UnreadOf(u), f.first[u])
    BY <1>1, <2>1 DEF BadgeInv, FetchIsTrue
  <2>3. ComingIn(frames, u) = {}
    BY <2>1 DEF Busy, ComingIn, ToSet
  <2>4. MarkingIn(marks, u) = {}
    BY <2>1 DEF Busy, MarkingIn
  <2>5. Due(u)' = UnreadOf(u)
    BY <1>2, <2>3, <2>4 DEF Due, UnreadOf, Coming, Marking
  <2>6. Cardinality(UnreadOf(u)) \in Nat
    BY UnreadIsFinite
  <2> QED BY <1>2, <1>4, <2>2, <2>3, <2>5, <2>6 DEF BadgeOf, Coming
<1> QED BY <1>1, <1>3, <1>4

\* A frame that is counted becomes due; one that is not is about to be read.
LEMMA ReceiveBadge ==
    ASSUME ReadInv, TablesInv, BadgeInv, Receive, NEW u \in Threads \ drifted'
    PROVE  BadgeOf(u)'
<1>1. PICK t, i : t = Head(frames).thread /\ i = Head(frames).id
  OBVIOUS
<1> DEFINE counted == hidden \/ ~IsCorrectChat(t)
           shown == open = t /\ i \notin known[t]
           unmarked == t.kind = "group" /\ i \in known[t] \ read[t] /\ \A m \in marks : m.thread # t
<1>2. /\ frames # <<>> /\ frames' = Tail(frames)
      /\ UNCHANGED <<server, open, hidden, timer, loads, fetches, events, cut>>
      /\ known' = IF shown THEN [known EXCEPT ![t] = @ \cup {i}] ELSE known
      /\ marks' = marks \cup IF shown THEN SeenNow(t, i) ELSE {}
      /\ drifted' = drifted \cup
           IF (counted /\ i \in known[t] \cup read[t]) \/ (~counted /\ (open # t \/ unmarked)) THEN {t} ELSE {}
  BY <1>1 DEF Receive
<1>3. /\ counted => IncrementUnread(t, i)
      /\ ~counted => boundary' = boundary /\ counts' \in {counts, [counts EXCEPT ![t] = 0]}
      /\ ~counted /\ t.kind = "direct" => counts' = counts
      /\ ~counted /\ counts' # counts => shown /\ ~hidden
  BY <1>1 DEF Receive
<1>4. /\ t \in Threads /\ i \in 1..sent[t] /\ i \in Nat /\ i \in ComingIn(frames, t)
      /\ ComingIn(frames', t) = ComingIn(frames, t) \ {i} /\ \A j \in ComingIn(frames', t) : i < j
      /\ \A v \in Threads \ {t} : ComingIn(frames', v) = ComingIn(frames, v)
  BY <1>1, <1>2, FrameReceived DEF BadgeInv
<1>5. sent' = sent /\ read' = read /\ loads' = loads /\ cut' = cut
  BY <1>2 DEF server
<1>6. /\ counts \in [Threads -> Nat] /\ boundary \in [Threads -> Nat] /\ known \in [Threads -> SUBSET Nat]
  BY DEF TablesInv, BadgeTypes, ReadInv, Shapes
<1>7. BadgeOf(u) /\ u \in Threads /\ u \notin drifted
  BY <1>2 DEF BadgeInv
<1>8. open = t => IsCorrectChat(t)
  BY DEF IsCorrectChat
<1>9. marks' = marks \/ (shown /\ ~hidden /\ marks' = marks \cup {[thread |-> t, ids |-> {i}]})
  BY <1>2 DEF SeenNow
<1>10. CASE u # t
  <2>1. known'[u] = known[u] /\ counts'[u] = counts[u] /\ boundary'[u] = boundary[u]
    BY <1>2, <1>3, <1>4, <1>6, <1>7, <1>10 DEF IncrementUnread
  <2>2. MarkingIn(marks', u) = MarkingIn(marks, u) /\ ((\A n \in marks' : n.thread # u) <=> \A n \in marks : n.thread # u)
    BY <1>4, <1>7, <1>9, <1>10, SameMarks, MarkSent
  <2>3. ComingIn(frames', u) = ComingIn(frames, u)
    BY <1>4, <1>7, <1>10
  <2> QED BY <1>5, <1>7, <2>1, <2>2, <2>3, SameBadge
<1>11. CASE u = t
  <2>1. BadgeOf(t) /\ boundary[t] < i
    BY <1>4, <1>7, <1>11 DEF BadgeOf, Coming
  <2>2. /\ ~(counted /\ i \in known[t] \cup read[t])
        /\ ~(~counted /\ (open # t \/ unmarked))
    BY <1>2, <1>11
  <2>3. known'[t] \subseteq known[t] \cup {i}
    BY <1>2, <1>4, <1>6
  <2>4. UnreadOf(t)' = UnreadOf(t)
    BY <1>5 DEF UnreadOf
  <2>5. CASE counted
    <3>1. i \notin known[t] /\ i \notin read[t]
      BY <2>2, <2>5
    <3>2. marks' = marks
      BY <1>8, <1>9, <2>5
    <3>3. MarkingIn(marks', t) = MarkingIn(marks, t) /\ ((\A n \in marks' : n.thread # t) <=> \A n \in marks : n.thread # t)
      BY <1>4, <3>2, SameMarks
    <3>4. counts'[t] = counts[t] + 1 /\ boundary'[t] = IF boundary[t] = 0 THEN i ELSE boundary[t]
      BY <1>3, <1>4, <1>6, <2>5 DEF IncrementUnread
    <3>5. Due(t)' = Due(t) \cup {i} /\ i \notin Due(t)
      <4>1. i \in UnreadOf(t)
        BY <1>4, <3>1 DEF UnreadOf
      <4>2. t.kind = "direct" => i \notin MarkingIn(marks, t)
        BY <1>4, <3>1, MarkingIsKnown
      <4> QED BY <1>4, <2>4, <3>3, <4>1, <4>2 DEF Due, Coming, Marking
    <3>6. IsFiniteSet(Due(t)) /\ Cardinality(Due(t)) \in Nat
      BY <1>4, DueIsFinite
    <3>7. Cardinality(Due(t)') = Cardinality(Due(t)) + 1
      BY <3>5, <3>6, FS_AddElement
    <3>8. Settled(t)' <=> Settled(t)
      BY <1>5, <3>3 DEF Settled
    <3>9. \A j \in ComingIn(frames', t) : boundary'[t] < j
      BY <1>4, <2>1, <3>4 DEF BadgeOf, Coming
    <3>10. FirstOf(Due(t), boundary[t]) => FirstOf(Due(t), boundary[t])'
      <4> SUFFICES ASSUME FirstOf(Due(t), boundary[t]), NEW j \in Due(t)'
                   PROVE  boundary'[t] # 0 /\ boundary'[t] <= j
        BY DEF FirstOf
      <4>1. boundary[t] \in Nat /\ (j \in Due(t) \/ j = i)
        BY <1>4, <1>6, <3>5
      <4>2. CASE j \in Due(t)
        BY <3>4, <4>2 DEF FirstOf
      <4>3. CASE j = i
        BY <1>4, <2>1, <3>4, <4>1, <4>3
      <4> QED BY <4>1, <4>2, <4>3
    <3>11. t.kind = "direct" => ComingIn(frames', t) \cap known'[t] \subseteq MarkingIn(marks', t) \cup read'[t]
      BY <1>4, <1>5, <2>1, <2>3, <3>3 DEF BadgeOf, Coming, Marking
    <3>12. BadgeOf(t)'
      <4>1. counts[t] \in Nat
        BY <1>4, <1>6
      <4> QED BY <1>5, <2>1, <3>4, <3>6, <3>7, <3>8, <3>9, <3>10, <3>11, <4>1 DEF BadgeOf, Coming, Marking
    <3> QED BY <1>11, <3>12
  <2>6. CASE ~counted
    <3>1. open = t /\ ~unmarked /\ ~hidden
      BY <2>2, <2>6
    <3>2. boundary'[t] = boundary[t] /\ (t.kind = "direct" => counts'[t] = counts[t])
      BY <1>3, <2>6
    <3>3. \A j \in ComingIn(frames', t) : boundary'[t] < j
      BY <1>4, <2>1, <3>2 DEF BadgeOf, Coming
    <3>4. CASE shown
      <4>1. marks' = marks \cup {[thread |-> t, ids |-> {i}]}
        BY <1>2, <3>1, <3>4 DEF SeenNow
      <4>2. MarkingIn(marks', t) = MarkingIn(marks, t) \cup {i} /\ ~ \A m \in marks' : m.thread # t
        BY <1>4, <4>1, MarkSent
      <4>3. CASE t.kind = "direct"
        <5>1. Due(t)' = Due(t)
          BY <1>4, <2>4, <4>2, <4>3 DEF Due, Coming, Marking
        <5>2. Settled(t)' <=> Settled(t)
          BY <1>5, <4>3 DEF Settled
        <5>3. ComingIn(frames', t) \cap known'[t] \subseteq MarkingIn(marks', t) \cup read'[t]
          BY <1>4, <1>5, <2>1, <2>3, <4>2, <4>3 DEF BadgeOf, Coming, Marking
        <5> QED BY <1>5, <1>11, <2>1, <3>2, <3>3, <4>3, <5>1, <5>2, <5>3 DEF BadgeOf, Coming, Marking
      <4>4. CASE t.kind # "direct"
        <5>1. ~Settled(t)'
          BY <4>2, <4>4 DEF Settled
        <5> QED BY <1>11, <3>3, <4>4, <5>1 DEF BadgeOf, Coming
      <4> QED BY <4>3, <4>4
    <3>5. CASE ~shown
      <4>1. i \in known[t] /\ marks' = marks /\ known' = known /\ counts' = counts
        BY <1>2, <1>3, <2>6, <3>1, <3>5
      <4>2. MarkingIn(marks', t) = MarkingIn(marks, t) /\ ((\A n \in marks' : n.thread # t) <=> \A n \in marks : n.thread # t)
        BY <1>4, <4>1, SameMarks
      <4>3. Settled(t)' <=> Settled(t)
        BY <1>5, <4>2 DEF Settled
      <4>4. Due(t)' = Due(t) \/ (t.kind # "direct" /\ ~Settled(t))
        <5>1. CASE t.kind = "direct"
          <6>1. i \in MarkingIn(marks, t) \cup read[t]
            BY <1>4, <2>1, <4>1, <5>1 DEF BadgeOf, Coming, Marking
          <6> QED BY <1>4, <2>4, <4>2, <5>1, <6>1 DEF Due, UnreadOf, Coming, Marking
        <5>2. CASE t.kind # "direct" /\ i \in read[t]
          BY <1>4, <2>4, <5>2 DEF Due, UnreadOf, Coming
        <5>3. CASE t.kind # "direct" /\ i \notin read[t]
          <6>1. t.kind = "group"
            BY <1>4, <5>3, BadgeFacts
          <6>2. ~ \A m \in marks : m.thread # t
            BY <3>1, <4>1, <5>3, <6>1
          <6> QED BY <5>3, <6>2 DEF Settled
        <5> QED BY <5>1, <5>2, <5>3
      <4>5. t.kind = "direct" => ComingIn(frames', t) \cap known'[t] \subseteq MarkingIn(marks', t) \cup read'[t]
        BY <1>4, <1>5, <2>1, <4>1, <4>2 DEF BadgeOf, Coming, Marking
      <4>6. BadgeOf(t)'
        BY <1>5, <2>1, <3>2, <3>3, <4>1, <4>3, <4>4, <4>5 DEF BadgeOf, Coming, Marking
      <4> QED BY <1>11, <4>6
    <3> QED BY <3>4, <3>5
  <2> QED BY <2>5, <2>6
<1> QED BY <1>10, <1>11
\* The count of a thread that is opened is of nothing, until its load or mark
\* is through.
LEMMA OpenBadge ==
    ASSUME ReadInv, TablesInv, BadgeInv, NEW t \in Threads, Open(t), NEW u \in Threads \ drifted'
    PROVE  BadgeOf(u)'
<1>1. /\ counts' = [counts EXCEPT ![t] = 0]
      /\ loads' \in {[loads EXCEPT ![t] = "plain"], [loads EXCEPT ![t] = "divider"]}
      /\ marks' = marks \cup IF t.kind = "group" THEN {[thread |-> t, ids |-> {}]} ELSE {}
      /\ UNCHANGED <<sent, read, frames, known, boundary, drifted, cut>>
  BY DEF Open, ClearUnread, server
<1>2. BadgeOf(u) /\ u \in Threads
  BY <1>1 DEF BadgeInv
<1>3. counts \in [Threads -> Nat] /\ loads \in [Threads -> LoadKind]
  BY DEF TablesInv, BadgeTypes
<1>4. ComingIn(frames', u) = ComingIn(frames, u)
  BY <1>1
<1>5. CASE t.kind = "group"
  <2>1. marks' = marks \cup {[thread |-> t, ids |-> {}]}
    BY <1>1, <1>5
  <2>2. CASE u # t
    <3>1. MarkingIn(marks', u) = MarkingIn(marks, u) /\ ((\A n \in marks' : n.thread # u) <=> \A n \in marks : n.thread # u)
      BY <1>2, <2>1, <2>2, MarkSent
    <3>2. counts'[u] = counts[u] /\ loads'[u] = loads[u]
      BY <1>1, <1>2, <1>3, <2>2
    <3> QED BY <1>1, <1>2, <1>4, <3>1, <3>2, SameBadge
  <2>3. CASE u = t
    <3>1. ~Settled(t)'
      BY <1>5, <2>1, MarkSent DEF Settled
    <3> QED BY <1>1, <1>2, <1>5, <2>3, <3>1 DEF BadgeOf, Coming
  <2> QED BY <2>2, <2>3
<1>6. CASE t.kind # "group"
  <2>1. marks' = marks
    BY <1>1, <1>6
  <2>2. CASE u # t
    <3>1. counts'[u] = counts[u] /\ loads'[u] = loads[u]
      BY <1>1, <1>2, <1>3, <2>2
    <3> QED BY <1>1, <1>2, <1>4, <2>1, <3>1, SameBadge
  <2>3. CASE u = t
    <3>1. t.kind = "direct" /\ loads'[t] # "none" /\ counts'[t] = 0
      BY <1>1, <1>3, <1>6, BadgeFacts
    <3>2. Due(t)' = Due(t) /\ ~Settled(t)'
      BY <1>1, <2>1, <3>1 DEF Due, UnreadOf, Coming, Marking, Settled
    <3>3. Cardinality(Due(t)) >= 0
      BY DueIsFinite
    <3> QED BY <1>1, <1>2, <2>1, <2>3, <3>1, <3>2, <3>3 DEF BadgeOf, Coming, Marking
  <2> QED BY <2>2, <2>3
<1> QED BY <1>5, <1>6

\* The load of a direct thread marks all that is unread, so that nothing is due.
LEMMA LoadBadge ==
    ASSUME ReadInv, TablesInv, BadgeInv, NEW t \in Threads, LoadAnswered(t), NEW u \in Threads \ drifted'
    PROVE  BadgeOf(u)'
<1> DEFINE sees == t.kind = "group" /\ loads[t] = "reload" /\ ~hidden
           a == ToMark(t)
<1>1. /\ loads' = [loads EXCEPT ![t] = "none"] /\ known' = [known EXCEPT ![t] = 1..sent[t]]
      /\ marks' = marks \cup
           IF t.kind = "direct" THEN (IF a = {} THEN {} ELSE {[thread |-> t, ids |-> a]})
           ELSE IF sees THEN {[thread |-> t, ids |-> {}]} ELSE {}
      /\ counts' = IF sees THEN [counts EXCEPT ![t] = 0] ELSE counts
      /\ drifted' = drifted \cup IF LeavesUnequal(t) THEN {t} ELSE {}
      /\ UNCHANGED <<sent, read, frames, boundary, cut>>
  BY DEF LoadAnswered, ClearUnread, server
<1> HIDE DEF a
<1>2. BadgeOf(u) /\ u \in Threads
  BY <1>1 DEF BadgeInv
<1>3. counts \in [Threads -> Nat] /\ loads \in [Threads -> LoadKind] /\ known \in [Threads -> SUBSET Nat]
  BY DEF TablesInv, BadgeTypes, ReadInv, Shapes
<1>4. ComingIn(frames', u) = ComingIn(frames, u)
  BY <1>1
<1>5. \/ marks' = marks
      \/ marks' = marks \cup {[thread |-> t, ids |-> a]}
      \/ marks' = marks \cup {[thread |-> t, ids |-> {}]}
  BY <1>1
<1>6. CASE u # t
  <2>1. MarkingIn(marks', u) = MarkingIn(marks, u) /\ ((\A n \in marks' : n.thread # u) <=> \A n \in marks : n.thread # u)
    BY <1>2, <1>5, <1>6, MarkSent, SameMarks
  <2>2. counts'[u] = counts[u] /\ loads'[u] = loads[u] /\ known'[u] = known[u]
    BY <1>1, <1>2, <1>3, <1>6
  <2> QED BY <1>1, <1>2, <1>4, <2>1, <2>2, SameBadge
<1>7. CASE u = t /\ t.kind = "direct"
  <2>1. counts'[t] = 0 /\ counts' = counts
    BY <1>1, <1>7 DEF LeavesUnequal
  <2>2. MarkingIn(marks', t) = MarkingIn(marks, t) \cup UnreadOf(t)
    <3>1. CASE a = {}
      BY <1>1, <1>7, <3>1 DEF a, ToMark
    <3>2. CASE a # {}
      <4>1. marks' = marks \cup {[thread |-> t, ids |-> a]}
        BY <1>1, <1>7, <3>2
      <4> QED BY <4>1, MarkSent DEF a, ToMark
    <3> QED BY <3>1, <3>2
  <2>3. Due(t)' = {}
    BY <1>1, <1>7, <2>2 DEF Due, UnreadOf, Marking
  <2>4. Cardinality(Due(t)') = 0 /\ FirstOf(Due(t), boundary[t])'
    BY <2>3, FS_EmptySet DEF FirstOf
  <2>5. ComingIn(frames', t) \cap known'[t] \subseteq MarkingIn(marks', t) \cup read'[t]
    BY <1>1, <2>2, ComingIsSent DEF UnreadOf
  <2>6. BadgeOf(t)'
    BY <1>1, <1>2, <1>7, <2>1, <2>4, <2>5 DEF BadgeOf, Coming, Marking
  <2> QED BY <1>7, <2>6
<1>8. CASE u = t /\ t.kind = "group"
  <2>1. CASE sees
    <3>1. marks' = marks \cup {[thread |-> t, ids |-> {}]}
      BY <1>1, <1>8, <2>1
    <3>2. ~Settled(t)'
      BY <1>8, <3>1, MarkSent DEF Settled
    <3> QED BY <1>1, <1>2, <1>8, <3>2 DEF BadgeOf, Coming
  <2>2. CASE ~sees
    <3>1. marks' = marks /\ counts' = counts
      BY <1>1, <1>8, <2>2
    <3> QED BY <1>1, <1>2, <1>4, <1>8, <3>1, SameBadge
  <2> QED BY <2>1, <2>2
<1> QED BY <1>6, <1>7, <1>8, BadgeFacts

\* A load that fails leaves no difference if nothing was unread.
LEMMA LoadFailsBadge ==
    ASSUME ReadInv, TablesInv, BadgeInv, NEW t \in Threads, LoadFails(t), NEW u \in Threads \ drifted'
    PROVE  BadgeOf(u)'
<1>1. /\ loads' = [loads EXCEPT ![t] = "none"]
      /\ drifted' = drifted \cup IF t.kind = "direct" /\ UnreadOf(t) # {} THEN {t} ELSE {}
      /\ UNCHANGED <<sent, read, frames, known, marks, counts, boundary, cut>>
  BY DEF LoadFails, server, page, badges
<1>2. BadgeOf(u) /\ u \in Threads
  BY <1>1 DEF BadgeInv
<1>3. loads \in [Threads -> LoadKind]
  BY DEF TablesInv, BadgeTypes
<1>4. CASE u # t \/ t.kind # "direct"
  <2>1. u # t => loads'[u] = loads[u]
    BY <1>1, <1>2, <1>3
  <2> QED BY <1>1, <1>2, <1>4, <2>1, SameBadge
<1>5. CASE u = t /\ t.kind = "direct"
  <2>1. UnreadOf(t) = {}
    BY <1>1, <1>5
  <2>2. Due(t)' = {} /\ Due(t) = {}
    BY <1>1, <2>1 DEF Due, UnreadOf
  <2>3. Cardinality(Due(t)) = 0 /\ Cardinality(Due(t)') = 0 /\ FirstOf(Due(t), boundary[t])'
    BY <2>2, FS_EmptySet DEF FirstOf
  <2>4. counts[t] = 0
    BY <1>2, <1>5, <2>3, BadgeFacts DEF BadgeOf
  <2>5. BadgeOf(t)'
    BY <1>1, <1>2, <1>5, <2>3, <2>4 DEF BadgeOf, Coming, Marking
  <2> QED BY <1>5, <2>5
<1> QED BY <1>4, <1>5

\* The timer clears the boundary of nothing, or is remembered.
LEMMA TimerBadge ==
    ASSUME ReadInv, TablesInv, BadgeInv, BoundaryTimer, NEW u \in Threads \ drifted'
    PROVE  BadgeOf(u)'
<1>1. PICK t \in Threads : t = timer
  BY DEF BoundaryTimer, TablesInv, BadgeTypes
<1>2. /\ boundary' = [boundary EXCEPT ![t] = 0] /\ cut' = IF counts[t] # 0 THEN cut \cup {t} ELSE cut
      /\ UNCHANGED <<sent, read, frames, known, loads, marks, counts, drifted>>
  BY <1>1 DEF BoundaryTimer, server
<1>3. BadgeOf(u) /\ u \in Threads
  BY <1>2 DEF BadgeInv
<1>4. boundary \in [Threads -> Nat]
  BY DEF TablesInv, BadgeTypes
<1>5. CASE u # t
  <2>1. boundary'[u] = boundary[u]
    BY <1>2, <1>3, <1>4, <1>5
  <2> QED BY <1>2, <1>3, <2>1, SameBadge
<1>6. CASE u = t
  <2>1. boundary'[t] = 0
    BY <1>2, <1>4
  <2>2. Due(t)' = Due(t) /\ (Settled(t)' <=> Settled(t)) /\ cut \subseteq cut'
    BY <1>2 DEF Due, UnreadOf, Coming, Marking, Settled
  <2>3. \A i \in ComingIn(frames', t) : boundary'[t] < i
    BY <1>2, <2>1, BadgeFacts
  <2>4. Settled(t)' /\ t \notin cut' => FirstOf(Due(t), boundary[t])'
    <3> SUFFICES ASSUME Settled(t), t \notin cut' PROVE FirstOf(Due(t), boundary[t])'
      BY <2>2
    <3>1. counts[t] = 0
      BY <1>2
    <3>2. IsFiniteSet(Due(t)) /\ Cardinality(Due(t)) = 0
      BY <1>3, <1>6, <3>1, DueIsFinite DEF BadgeOf
    <3>3. Due(t)' = {}
      BY <2>2, <3>2, FS_EmptySet
    <3> QED BY <3>3 DEF FirstOf
  <2>5. BadgeOf(t)'
    BY <1>2, <1>3, <1>6, <2>2, <2>3, <2>4 DEF BadgeOf, Coming, Marking
  <2> QED BY <1>6, <2>5
<1> QED BY <1>5, <1>6

\* The steps of the page that only ask for something.
LEMMA AskingBadge ==
    ASSUME ReadInv, TablesInv, BadgeInv, UNCHANGED <<server, frames, known, marks, badges, drifted, cut>>,
           \A t \in Threads : loads'[t] = "none" => loads[t] = "none",
           NEW u \in Threads \ drifted'
    PROVE  BadgeOf(u)'
<1>1. UNCHANGED <<sent, read, frames, known, marks, counts, boundary, drifted, cut>>
  BY DEF server, badges
<1>2. BadgeOf(u) /\ u \in Threads
  BY <1>1 DEF BadgeInv
<1> QED BY <1>1, <1>2, SameBadge

LEMMA PageBadge ==
    ASSUME ReadInv, TablesInv, BadgeInv,
           GetUnread \/ Leave \/ Hide \/ Show \/ Focus \/ Reconnected \/ UNCHANGED vars,
           NEW u \in Threads \ drifted'
    PROVE  BadgeOf(u)'
<1>1. UNCHANGED <<server, frames, known, marks, badges, drifted, cut>> /\ loads' \in {loads, Reloading}
  BY DEF GetUnread, Leave, Hide, Show, Focus, Reconnected, vars, page
<1>2. \A t \in Threads : Reloading[t] = "none" => loads[t] = "none"
  BY DEF Reloading, TablesInv, BadgeTypes
<1> QED BY <1>1, <1>2, AskingBadge
-----------------------------------------------------------------------------
(* The answers under way, and the theorems.                                *)

FetchesAreTrue == \A f \in fetches : f.step = "served" => FetchIsTrue(f)

\* A change of a thread takes it from what the answers under way are true of.
LEMMA ChangedFetches ==
    ASSUME TablesInv, FetchesAreTrue, NEW t \in Threads, Changes(t),
           \A u \in Threads \ {t} : sent'[u] = sent[u] /\ read'[u] = read[u]
    PROVE  FetchesAreTrue'
<1> SUFFICES ASSUME NEW g \in fetches', g.step = "served", NEW u \in Threads \ g.changed
             PROVE  g.count[u] = Cardinality(UnreadOf(u)') /\ FirstOf(UnreadOf(u)', g.first[u])
  BY DEF FetchesAreTrue, FetchIsTrue, FirstOf
<1>1. PICK f \in fetches : /\ g.step = f.step /\ g.count = f.count /\ g.first = f.first
                           /\ f.changed \subseteq g.changed /\ (g.step = "served" => t \in g.changed)
  BY ChangesFetches DEF TablesInv, BadgeTypes
<1>2. u # t /\ u \in Threads \ f.changed
  BY <1>1
<1>3. UnreadOf(u)' = UnreadOf(u)
  BY <1>2 DEF UnreadOf
<1> QED BY <1>1, <1>2, <1>3 DEF FetchesAreTrue, FetchIsTrue

LEMMA SameFetches ==
    ASSUME FetchesAreTrue, UNCHANGED server, fetches' \subseteq fetches \cup {Asked}
    PROVE  FetchesAreTrue'
<1> SUFFICES ASSUME NEW g \in fetches', g.step = "served", NEW u \in Threads \ g.changed
             PROVE  g.count[u] = Cardinality(UnreadOf(u)') /\ FirstOf(UnreadOf(u)', g.first[u])
  BY DEF FetchesAreTrue, FetchIsTrue, FirstOf
<1>1. g \in fetches
  BY AskedType
<1>2. UnreadOf(u)' = UnreadOf(u)
  BY DEF server, UnreadOf
<1> QED BY <1>1, <1>2 DEF FetchesAreTrue, FetchIsTrue

LEMMA GetFetches == ASSUME ReadInv, FetchesAreTrue, GetUnread PROVE FetchesAreTrue'
<1> DEFINE c == [t \in Threads |-> Cardinality(UnreadOf(t))]
           m == [t \in Threads |-> IF UnreadOf(t) = {} THEN 0 ELSE Min(UnreadOf(t))]
           n == [step |-> "served", changed |-> {}, count |-> c, first |-> m]
<1> SUFFICES ASSUME NEW g \in fetches', g.step = "served", NEW u \in Threads \ g.changed
             PROVE  g.count[u] = Cardinality(UnreadOf(u)') /\ FirstOf(UnreadOf(u)', g.first[u])
  BY DEF FetchesAreTrue, FetchIsTrue, FirstOf
<1>1. fetches' = (fetches \ {Asked}) \cup {n} /\ UNCHANGED server
  BY DEF GetUnread
<1>2. UnreadOf(u)' = UnreadOf(u)
  BY <1>1 DEF server, UnreadOf
<1>3. CASE g \in fetches
  BY <1>2, <1>3 DEF FetchesAreTrue, FetchIsTrue
<1>4. CASE g = n
  <2>1. g.count[u] = Cardinality(UnreadOf(u)) /\ g.first[u] = IF UnreadOf(u) = {} THEN 0 ELSE Min(UnreadOf(u))
    BY <1>4
  <2>2. UnreadOf(u) \in SUBSET Nat /\ \A i \in UnreadOf(u) : i # 0
    BY UnreadIsFinite DEF ReadInv, Shapes
  <2>3. UnreadOf(u) # {} => Min(UnreadOf(u)) \in UnreadOf(u) /\ \A i \in UnreadOf(u) : Min(UnreadOf(u)) <= i
    BY <2>2, MinIsLeast
  <2> QED BY <1>2, <2>1, <2>2, <2>3 DEF FirstOf
<1> QED BY <1>1, <1>3, <1>4

LEMMA NextFetches == ASSUME ReadInv, TablesInv, FetchesAreTrue, [Next]_vars PROVE FetchesAreTrue'
<1>1. ASSUME NEW t \in Threads, Write(t) PROVE FetchesAreTrue'
  <2>1. Changes(t) /\ sent' = [sent EXCEPT ![t] = @ + 1] /\ read' = read
    BY <1>1 DEF Write
  <2>2. \A u \in Threads \ {t} : sent'[u] = sent[u] /\ read'[u] = read[u]
    BY <2>1 DEF ReadInv, Shapes
  <2> QED BY <2>1, <2>2, ChangedFetches
<1>2. ASSUME NEW m \in marks, MarkServed(m) PROVE FetchesAreTrue'
  <2>1. PICK t \in Threads : t = m.thread
    BY DEF ReadInv, Shapes
  <2>2. CASE Changes(t) /\ sent' = sent /\ read' = [read EXCEPT ![t] = Marked(m)]
    <3>1. \A u \in Threads \ {t} : sent'[u] = sent[u] /\ read'[u] = read[u]
      BY <2>2 DEF ReadInv, Shapes
    <3> QED BY <2>2, <3>1, ChangedFetches
  <2>3. CASE UNCHANGED <<server, fetches>>
    BY <2>3, SameFetches
  <2> QED BY <1>2, <2>1, <2>2, <2>3 DEF MarkServed, server
<1>3. CASE GetUnread
  BY <1>3, GetFetches
<1>4. ASSUME UNCHANGED server, fetches' \subseteq fetches \cup {Asked} PROVE FetchesAreTrue'
  BY <1>4, SameFetches
<1>5. ASSUME NEW t \in Threads, Open(t) \/ LoadAnswered(t) \/ LoadFails(t) PROVE FetchesAreTrue'
  BY <1>4, <1>5 DEF Open, LoadAnswered, LoadFails
<1>6. ASSUME NEW f \in fetches, UnreadAnswered(f) PROVE FetchesAreTrue'
  BY <1>4, <1>6 DEF UnreadAnswered
<1>7. CASE Receive \/ Leave \/ Hide \/ Show \/ Focus \/ Reconnected \/ BoundaryTimer \/ UNCHANGED vars
  BY <1>4, <1>7 DEF Receive, Leave, Hide, Show, Focus, Reconnected, BoundaryTimer, vars
<1> QED BY <1>1, <1>2, <1>3, <1>5, <1>6, <1>7 DEF Next

LEMMA NextFrames == ASSUME ReadInv, FramesInOrder, [Next]_vars PROVE FramesInOrder'
<1>1. ASSUME NEW t \in Threads, Write(t) PROVE FramesInOrder'
  BY <1>1, FrameSent, SameFrames DEF Write
<1>2. CASE Receive
  <2>1. frames # <<>> /\ frames' = Tail(frames)
    BY <1>2 DEF Receive
  <2> QED BY <2>1, FrameReceived
<1>3. ASSUME UNCHANGED frames PROVE FramesInOrder'
  BY <1>3, SameFrames
<1>4. ASSUME NEW t \in Threads, Open(t) \/ LoadAnswered(t) \/ LoadFails(t) PROVE FramesInOrder'
  BY <1>3, <1>4 DEF Open, LoadAnswered, LoadFails
<1>5. ASSUME NEW f \in fetches, UnreadAnswered(f) PROVE FramesInOrder'
  BY <1>3, <1>5 DEF UnreadAnswered
<1>6. ASSUME NEW m \in marks, MarkServed(m) PROVE FramesInOrder'
  BY <1>3, <1>6 DEF MarkServed
<1>7. CASE GetUnread \/ Leave \/ Hide \/ Show \/ Focus \/ Reconnected \/ BoundaryTimer \/ UNCHANGED vars
  BY <1>3, <1>7 DEF GetUnread, Leave, Hide, Show, Focus, Reconnected, BoundaryTimer, vars
<1> QED BY <1>1, <1>2, <1>4, <1>5, <1>6, <1>7 DEF Next

LEMMA InitBadges == ASSUME Init PROVE BadgeInv
<1>1. FramesInOrder
  BY DEF Init, FramesInOrder
<1>2. \A f \in fetches : f.step = "served" => FetchIsTrue(f)
  BY AskedType DEF Init
<1>3. ASSUME NEW t \in Threads PROVE BadgeOf(t)
  <2>1. UnreadOf(t) = {} /\ Due(t) = {}
    BY DEF Init, Due, UnreadOf
  <2>2. Coming(t) = {}
    BY DEF Init, Coming, ComingIn
  <2> QED BY <2>1, <2>2, FS_EmptySet DEF Init, BadgeOf, FirstOf
<1> QED BY <1>1, <1>2, <1>3 DEF BadgeInv

LEMMA NextBadges == ASSUME ReadInv, TablesInv, BadgeInv, [Next]_vars PROVE BadgeInv'
<1>1. FramesInOrder'
  BY NextFrames DEF BadgeInv
<1>2. \A f \in fetches' : f.step = "served" => FetchIsTrue(f)'
  BY NextFetches DEF BadgeInv, FetchesAreTrue
<1>3. ASSUME NEW u \in Threads \ drifted' PROVE BadgeOf(u)'
  <2>1. ASSUME NEW t \in Threads, Write(t) \/ Open(t) \/ LoadAnswered(t) \/ LoadFails(t) PROVE BadgeOf(u)'
    BY <2>1, WriteBadge, OpenBadge, LoadBadge, LoadFailsBadge
  <2>2. ASSUME NEW m \in marks, MarkServed(m) PROVE BadgeOf(u)'
    BY <2>2, MarkBadge
  <2>3. ASSUME NEW f \in fetches, UnreadAnswered(f) PROVE BadgeOf(u)'
    BY <2>3, AnswerBadge
  <2>4. CASE Receive
    BY <2>4, ReceiveBadge
  <2>5. CASE BoundaryTimer
    BY <2>5, TimerBadge
  <2>6. CASE GetUnread \/ Leave \/ Hide \/ Show \/ Focus \/ Reconnected \/ UNCHANGED vars
    BY <2>6, PageBadge
  <2> QED BY <2>1, <2>2, <2>3, <2>4, <2>5, <2>6 DEF Next
<1> QED BY <1>1, <1>2, <1>3 DEF BadgeInv

UnreadInv == ReadInv /\ TablesInv /\ BadgeInv

LEMMA UnreadInvariant == Spec => []UnreadInv
<1>1. Init => UnreadInv
  BY InitReadInv, InitTables, InitBadges DEF UnreadInv
<1>2. UnreadInv /\ [Next]_vars => UnreadInv'
  BY NextReadInv, NextTables, NextBadges DEF UnreadInv
<1> QED BY <1>1, <1>2, PTL DEF Spec

\* TypeOK: the state of the tables, the frames, the page and the answers under
\* way keeps its types, and the messages of a thread stay within the bound.
THEOREM UnreadTypes == Spec => []TypeOK
<1>1. ASSUME UnreadInv PROVE TypeOK
  <2> USE <1>1 DEF UnreadInv
  <2>1. sent \in [Threads -> 0..MaxMessages] /\ \A t \in Threads : 1..sent[t] \subseteq Ids
    BY BoundsAssumption DEF ReadInv, Shapes, TablesInv, Bounded, Ids
  <2>2. /\ read \in [Threads -> SUBSET Ids] /\ known \in [Threads -> SUBSET Ids]
        /\ \A t \in Threads : known[t] \cup read[t] \subseteq 1..sent[t]
    BY <2>1 DEF ReadInv, Shapes, KnownIsSent, TablesInv, ReadIsSent
  <2>3. \A f \in ToSet(frames) : f.thread \in Threads /\ f.id \in 1..sent[f.thread]
    <3>1. frames \in Seq(FrameType) /\ \A i \in 1..Len(frames) : frames[i].id \in 1..sent[frames[i].thread]
      BY DEF ReadInv, Shapes, FramesAreSent
    <3>2. ASSUME NEW f \in ToSet(frames) PROVE f.thread \in Threads /\ f.id \in 1..sent[f.thread]
      <4>1. PICK i \in 1..Len(frames) : f = frames[i]
        BY DEF ToSet
      <4>2. f \in FrameType
        BY <3>1, <4>1
      <4> QED BY <3>1, <4>1, <4>2 DEF FrameType
    <3> QED BY <3>2
  <2>4. marks \subseteq [thread : Threads, ids : SUBSET Ids]
    <3> SUFFICES ASSUME NEW m \in marks PROVE m \in [thread : Threads, ids : SUBSET Ids]
      OBVIOUS
    <3>1. m \in [thread : Threads, ids : SUBSET Nat] /\ m.ids \subseteq 1..sent[m.thread]
      BY DEF ReadInv, Shapes, TablesInv, ReadIsSent
    <3> QED BY <2>1, <3>1
  <2>5. boundary \in [Threads -> Ids \cup {0}]
    BY <2>1 DEF TablesInv, BadgeTypes, FirstIsSent, Ids
  <2>6. ASSUME NEW f \in fetches
        PROVE  /\ f.step \in {"asked", "served"} /\ f.changed \subseteq Threads
               /\ f.count \in [Threads -> 0..MaxMessages] /\ f.first \in [Threads -> Ids \cup {0}]
    <3>1. f \in FetchType
      BY DEF TablesInv, BadgeTypes
    <3>2. /\ f.step \in {"asked", "served"} /\ f.changed \subseteq Threads
          /\ f.count \in [Threads -> Nat] /\ f.first \in [Threads -> Nat]
      BY <3>1 DEF FetchType
    <3>3. \A t \in Threads : f.count[t] <= MaxMessages /\ f.first[t] <= sent[t]
      BY DEF TablesInv, Bounded, FirstIsSent
    <3>4. f.count \in [Threads -> 0..MaxMessages]
      BY <3>2, <3>3, BoundsAssumption
    <3>5. f.first \in [Threads -> Ids \cup {0}]
      BY <2>1, <3>2, <3>3 DEF Ids
    <3> QED BY <3>2, <3>4, <3>5
  <2> QED BY <2>1, <2>2, <2>3, <2>4, <2>5, <2>6 DEF TypeOK, ReadInv, Shapes, TablesInv, BadgeTypes
<1> QED BY <1>1, UnreadInvariant, PTL

LEMMA AtRest ==
    ASSUME UnreadInv, NEW t \in Threads, ~Busy(t)
    PROVE  Due(t) = UnreadOf(t) /\ Settled(t)
<1>1. ComingIn(frames, t) = {}
  BY DEF Busy, ComingIn, ToSet
<1>2. MarkingIn(marks, t) = {}
  BY DEF Busy, MarkingIn
<1> QED BY <1>1, <1>2 DEF Due, Coming, Marking, Settled, Busy

\* BadgeIsTrue: whatever frames, loads, marks and answers have crossed, the badge
\* IncrementUnread counts and HydrateUnread replaces shows the server's number
\* once a thread has come to rest, but after what is listed as drift.
THEOREM BadgesAreTrue == Spec => []BadgeIsTrue
<1>1. UnreadInv => BadgeIsTrue
  BY AtRest DEF UnreadInv, BadgeInv, BadgeOf, BadgeIsTrue
<1> QED BY <1>1, UnreadInvariant, PTL

\* DividerNotLate: the boundary the page draws the divider at is not after the
\* first unread message, unless boundaryTimer cleared it over new ones.
THEOREM DividersAreNotLate == Spec => []DividerNotLate
<1>1. ASSUME UnreadInv, NEW t \in Threads, ~Busy(t), t \notin drifted \cup cut, UnreadOf(t) # {}
      PROVE  boundary[t] # 0 /\ boundary[t] <= Min(UnreadOf(t))
  <2>1. FirstOf(UnreadOf(t), boundary[t])
    BY <1>1, AtRest DEF UnreadInv, BadgeInv, BadgeOf
  <2>2. UnreadOf(t) \in SUBSET Nat
    BY <1>1, UnreadIsFinite DEF UnreadInv, ReadInv, Shapes
  <2>3. Min(UnreadOf(t)) \in UnreadOf(t)
    BY <1>1, <2>2, MinIsLeast
  <2> QED BY <2>1, <2>3 DEF FirstOf
<1>2. UnreadInv => DividerNotLate
  BY <1>1 DEF DividerNotLate
<1> QED BY <1>2, UnreadInvariant, PTL
=============================================================================
