------------------------------- MODULE Unread -------------------------------
(***************************************************************************)
(* Unread messages of one user in one tab: the badges App counts up from   *)
(* WebSocket frames, the answers of GET /unread that replace them, the     *)
(* marks the chat page sends when it shows a thread, and the "new          *)
(* messages" boundary with the timer that clears it.                       *)
(*                                                                         *)
(* The messages of a thread are 1, 2, ..., all from others.  Loading,      *)
(* decrypting and merging a thread is one step here: ChatThread has what   *)
(* may happen in between.                                                  *)
(***************************************************************************)
EXTENDS Naturals, Sequences, FiniteSets, FiniteSetsExt, SequencesExt

CONSTANTS
    Direct,       \* ids of users who write
    Groups,       \* ids of groups
    MaxMessages,  \* bound: messages of all threads
    MaxEvents     \* bound: navigation, visibility, losses and failures

ASSUME IdsAssumption == Direct \cup Groups \subseteq 1..99
ASSUME BoundsAssumption == MaxMessages \in Nat /\ MaxEvents \in Nat

Threads == [kind : {"direct"}, id : Direct] \cup [kind : {"group"}, id : Groups]
None == [kind |-> "none", id |-> 0]

VARIABLES
    sent,      \* messages, group_messages: how many others wrote
    read,      \* is_read, last_read_message_id
    frames,    \* the socket: frames under way
    open,      \* the thread of the chat page, and of its URL
    hidden,    \* document.hidden
    known,     \* per thread: messages the page has shown, claimed and cached
    loads,     \* per thread: its GET under way and what for
    marks,     \* POST /messages/read, /group-chats/:id/read under way
    counts,    \* unreadCounts, groupUnreadCounts
    boundary,  \* unreadBoundaries, groupUnreadBoundaries: a message, 0 for none
    timer,     \* thread whose boundary boundaryTimer clears
    fetches,   \* GETs of /unread under way
    events,    \* events so far
    drifted,   \* ghost: threads whose badge may be wrong until a refresh
    cut        \* ghost: threads whose boundary the timer cleared over new messages

server == <<sent, read>>
page == <<open, hidden, known, timer>>
badges == <<counts, boundary>>
vars == <<server, frames, page, loads, marks, badges, fetches, events, drifted, cut>>

Ids == 1..MaxMessages

\* What a thread's GET is for: selecting it, with or without a boundary to draw
\* the divider at, or refreshing it while it is open.
LoadKind == {"none", "plain", "divider", "reload"}

Asked == [step |-> "asked", count |-> [t \in Threads |-> 0], first |-> [t \in Threads |-> 0],
          changed |-> {}]

TypeOK ==
    /\ sent \in [Threads -> 0..MaxMessages] /\ read \in [Threads -> SUBSET Ids]
    /\ \A f \in ToSet(frames) : f.thread \in Threads /\ f.id \in 1..sent[f.thread]
    /\ open \in Threads \cup {None} /\ hidden \in BOOLEAN
    /\ known \in [Threads -> SUBSET Ids] /\ timer \in Threads \cup {None}
    /\ loads \in [Threads -> LoadKind]
    /\ marks \subseteq [thread : Threads, ids : SUBSET Ids]
    /\ counts \in [Threads -> Nat] /\ boundary \in [Threads -> Ids \cup {0}]
    /\ \A f \in fetches : f.step \in {"asked", "served"} /\ f.changed \subseteq Threads
                            /\ f.count \in [Threads -> 0..MaxMessages]
                            /\ f.first \in [Threads -> Ids \cup {0}]
    /\ events \in 0..MaxEvents /\ drifted \subseteq Threads /\ cut \subseteq Threads
    /\ \A t \in Threads : known[t] \cup read[t] \subseteq 1..sent[t]

Init ==
    /\ sent = [t \in Threads |-> 0] /\ read = [t \in Threads |-> {}]
    /\ frames = <<>>
    /\ open = None /\ hidden = FALSE /\ timer = None
    /\ known = [t \in Threads |-> {}]
    /\ loads = [t \in Threads |-> "none"] /\ marks = {}
    /\ counts = [t \in Threads |-> 0] /\ boundary = [t \in Threads |-> 0]
    /\ fetches = {Asked}
    /\ events = 0 /\ drifted = {} /\ cut = {}

Event == events < MaxEvents /\ events' = events + 1
NoEvent == UNCHANGED events

UnreadOf(t) == (1..sent[t]) \ read[t]

\* What is still to reach the server or the page about a thread.
Busy(t) ==
    \/ \E f \in ToSet(frames) : f.thread = t
    \/ \E m \in marks : m.thread = t
    \/ loads[t] # "none"

-----------------------------------------------------------------------------
(* The server                                                              *)

\* A change of the tables that the answers under way do not have.
Changes(t) ==
    fetches' = {IF f.step = "served" THEN [f EXCEPT !.changed = @ \cup {t}] ELSE f : f \in fetches}

\* The messages of all threads.
Written == UNION {{t} \X (1..sent[t]) : t \in Threads}

\* Somebody writes; the socket may be down, then a push goes out instead.
Write(t) ==
    /\ Cardinality(Written) < MaxMessages
    /\ sent' = [sent EXCEPT ![t] = @ + 1]
    /\ Changes(t)
    /\ \/ /\ frames' = Append(frames, [thread |-> t, id |-> sent[t] + 1])
          /\ UNCHANGED <<events, drifted>>
       \/ Event /\ drifted' = drifted \cup {t} /\ UNCHANGED frames
    /\ UNCHANGED <<read, page, loads, marks, badges, cut>>

\* MarkGroupRead reads up to the newest message there is by then.
Marked(m) ==
    IF m.thread.kind = "group" THEN 1..sent[m.thread] ELSE read[m.thread] \cup m.ids

MarkServed(m) ==
    /\ m \in marks
    /\ marks' = marks \ {m}
    /\ \/ NoEvent /\ read' = [read EXCEPT ![m.thread] = Marked(m)]
          /\ Changes(m.thread)
          /\ drifted' = drifted \cup
               IF m.thread.kind = "group" /\ counts[m.thread] # 0 THEN {m.thread} ELSE {}
       \/ Event /\ drifted' = drifted \cup {m.thread} /\ UNCHANGED <<read, fetches>>
    /\ UNCHANGED <<sent, frames, page, loads, badges, cut>>

GetUnread ==
    /\ Asked \in fetches
    /\ fetches' = (fetches \ {Asked}) \cup
         {[step |-> "served", changed |-> {},
           count |-> [t \in Threads |-> Cardinality(UnreadOf(t))],
           first |-> [t \in Threads |-> IF UnreadOf(t) = {} THEN 0 ELSE Min(UnreadOf(t))]]}
    /\ UNCHANGED <<server, frames, page, loads, marks, badges, events, drifted, cut>>

-----------------------------------------------------------------------------
(* The badges                                                              *)

\* The answer replaces what the frames counted.
HydrateUnread(f) == counts' = f.count /\ boundary' = f.first

\* Answers come in any order.  One is exact for the threads nothing has happened
\* to since it was read from the tables, and nothing is under way for.
UnreadAnswered(f) ==
    /\ f.step = "served"
    /\ fetches' = fetches \ {f}
    /\ \/ /\ NoEvent /\ HydrateUnread(f)
          /\ drifted' = f.changed \cup {t \in Threads : Busy(t)}
          /\ cut' = {}
       \/ Event /\ UNCHANGED <<badges, drifted, cut>>
    /\ UNCHANGED <<server, frames, page, loads, marks>>

\* router.url.startsWith(chatPath): /chat/12 starts with /chat/1.
IsCorrectChat(t) ==
    open.kind = t.kind /\ t.id \in {open.id, open.id \div 10}

\* Mutant: a message moves the boundary.
MovesBoundary(t, i) ==
    counts' = [counts EXCEPT ![t] = @ + 1] /\ boundary' = [boundary EXCEPT ![t] = i]

IncrementUnread(t, i) ==
    /\ counts' = [counts EXCEPT ![t] = @ + 1]
    /\ boundary' = [boundary EXCEPT ![t] = IF @ = 0 THEN i ELSE @]

\* Mutant: what a hidden page shows is marked.
MarksHidden(t, i) == {[thread |-> t, ids |-> {i}]}

\* Only what the user can see is marked.
SeenNow(t, i) == IF hidden THEN {} ELSE {[thread |-> t, ids |-> {i}]}

\* App counts what is not on screen; the chat page then shows a frame of the
\* open thread, unless a load has brought the message already.
Receive ==
    /\ frames # <<>>
    /\ LET t == Head(frames).thread
           i == Head(frames).id
           counted == hidden \/ ~IsCorrectChat(t)
           shown == open = t /\ i \notin known[t]
           clears == shown /\ t.kind = "group" /\ ~hidden
           unmarked == t.kind = "group" /\ i \in known[t] \ read[t] /\ \A m \in marks : m.thread # t
       IN  /\ IF counted THEN IncrementUnread(t, i)
              ELSE /\ counts' = IF clears THEN [counts EXCEPT ![t] = 0] ELSE counts
                   /\ UNCHANGED boundary
           /\ known' = IF shown THEN [known EXCEPT ![t] = @ \cup {i}] ELSE known
           /\ marks' = marks \cup IF shown THEN SeenNow(t, i) ELSE {}
           /\ drifted' = drifted \cup
                IF (counted /\ i \in known[t] \cup read[t]) \/ (~counted /\ (open # t \/ unmarked))
                THEN {t} ELSE {}
    /\ frames' = Tail(frames)
    /\ UNCHANGED <<server, open, hidden, timer, loads, fetches, events, cut>>

-----------------------------------------------------------------------------
(* The chat page                                                           *)

ClearUnread(t) == counts' = [counts EXCEPT ![t] = 0]

\* Navigation, selectUser, selectGroup.  From one kind of route to another the
\* page is a new component, and the old one's timer is dropped.
Open(t) ==
    /\ Event /\ ~hidden /\ open # t
    /\ open' = t
    /\ timer' = IF open.kind = t.kind THEN timer ELSE None
    /\ ClearUnread(t)
    /\ loads' = [loads EXCEPT ![t] = IF boundary[t] = 0 THEN "plain" ELSE "divider"]
    /\ marks' = marks \cup IF t.kind = "group" THEN {[thread |-> t, ids |-> {}]} ELSE {}
    /\ UNCHANGED <<server, frames, hidden, known, boundary, fetches, drifted, cut>>

Leave ==
    /\ Event /\ ~hidden /\ open # None
    /\ open' = None /\ timer' = None
    /\ UNCHANGED <<server, frames, hidden, known, loads, marks, badges, fetches, drifted, cut>>

\* reloadOpenThread, reloadOpenGroup.
Reloading == IF open = None \/ loads[open] # "none" THEN loads ELSE [loads EXCEPT ![open] = "reload"]

Hide ==
    /\ Event /\ ~hidden
    /\ hidden' = TRUE
    /\ UNCHANGED <<server, frames, open, known, timer, loads, marks, badges, fetches, drifted, cut>>

\* visibilitychange reaches App first, then the chat page.
Show ==
    /\ Event /\ hidden
    /\ hidden' = FALSE /\ fetches' = fetches \cup {Asked} /\ loads' = Reloading
    /\ UNCHANGED <<server, frames, open, known, timer, marks, badges, drifted, cut>>

Focus ==
    /\ Event /\ ~hidden
    /\ fetches' = fetches \cup {Asked}
    /\ UNCHANGED <<server, frames, page, loads, marks, badges, drifted, cut>>

\* The socket is back: the open thread is loaded again, hidden or not.
Reconnected ==
    /\ Event /\ open # None
    /\ loads' = Reloading
    /\ UNCHANGED <<server, frames, page, marks, badges, fetches, drifted, cut>>

\* Mutant: everything there is, shown or not.
AllThereIs(t) == 1..MaxMessages

\* The rows not read.
ToMark(t) == UnreadOf(t)

\* A load of a direct thread marks what was counted and leaves the count.
LeavesUnequal(t) == t.kind = "direct" /\ counts[t] # 0

\* Direct messages are marked by id when they are loaded; a group only when it
\* is reloaded, selecting it has marked it before.
LoadAnswered(t) ==
    /\ loads[t] # "none"
    /\ loads' = [loads EXCEPT ![t] = "none"]
    /\ known' = [known EXCEPT ![t] = 1..sent[t]]
    /\ timer' = IF loads[t] = "divider" THEN t ELSE timer
    /\ LET sees == t.kind = "group" /\ loads[t] = "reload" /\ ~hidden
       IN  /\ marks' = marks \cup
                IF t.kind = "direct" THEN (IF ToMark(t) = {} THEN {} ELSE {[thread |-> t, ids |-> ToMark(t)]})
                ELSE IF sees THEN {[thread |-> t, ids |-> {}]} ELSE {}
           /\ IF sees THEN ClearUnread(t) ELSE UNCHANGED counts
    /\ drifted' = drifted \cup IF LeavesUnequal(t) THEN {t} ELSE {}
    /\ UNCHANGED <<server, frames, open, hidden, boundary, fetches, events, cut>>

\* A direct thread that fails to load has lost its count for nothing.
LoadFails(t) ==
    /\ Event /\ loads[t] # "none"
    /\ loads' = [loads EXCEPT ![t] = "none"]
    /\ drifted' = drifted \cup IF t.kind = "direct" /\ UnreadOf(t) # {} THEN {t} ELSE {}
    /\ UNCHANGED <<server, frames, page, marks, badges, fetches, cut>>

BoundaryTimer ==
    /\ timer # None
    /\ timer' = None
    /\ boundary' = [boundary EXCEPT ![timer] = 0]
    /\ cut' = IF counts[timer] # 0 THEN cut \cup {timer} ELSE cut
    /\ UNCHANGED <<server, frames, open, hidden, known, loads, marks, counts, fetches, events, drifted>>

Next ==
    \/ \E t \in Threads : Write(t) \/ Open(t) \/ LoadAnswered(t) \/ LoadFails(t)
    \/ \E m \in marks : MarkServed(m)
    \/ \E f \in fetches : UnreadAnswered(f)
    \/ GetUnread \/ Receive
    \/ Leave \/ Hide \/ Show \/ Focus \/ Reconnected \/ BoundaryTimer

Spec == Init /\ [][Next]_vars

-----------------------------------------------------------------------------
\* The badge of a thread that has come to rest shows the server's number.  It
\* drifts in these ways only: a frame lost, a refresh that races a change or a
\* frame, a mark or a load that failed, a direct thread loaded while it has a
\* count, a group message that a late mark covers or that a load brought before
\* its frame, and a thread whose id begins the open one's.
BadgeIsTrue ==
    \A t \in Threads : ~Busy(t) /\ t \notin drifted => counts[t] = Cardinality(UnreadOf(t))

\* The boundary of such a thread is never after its first unread message: the
\* divider does not hide a new message among the old ones, unless the timer of
\* an earlier visit cleared it.
DividerNotLate ==
    \A t \in Threads :
        ~Busy(t) /\ t \notin drifted \cup cut /\ UnreadOf(t) # {}
            => boundary[t] # 0 /\ boundary[t] <= Min(UnreadOf(t))

\* The server counts as read only direct messages this page has shown.
ReadWasShown == \A t \in Threads : t.kind = "direct" => read[t] \subseteq known[t]
=============================================================================
