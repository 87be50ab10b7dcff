----------------------------- MODULE ChatThread -----------------------------
(***************************************************************************)
(* The open direct chat of one browser tab: components/chat/chat.ts with   *)
(* chat-thread.service.ts and chat-storage.service.ts, against the rows of *)
(* the server's messages table and the frames its hub sends.               *)
(*                                                                         *)
(* JavaScript runs a task to its next await.  A handler that decrypts is   *)
(* therefore several actions, and an array it has looked up before an      *)
(* await (this.messages.push(await ...), mergeMessages(this.messages,      *)
(* await ...)) need not be the thread's array when it resumes: the arrays  *)
(* have identities here, and `current` is the one this.messages holds.     *)
(***************************************************************************)
EXTENDS Integers, Sequences, FiniteSets, Bags, FiniteSetsExt

CONSTANTS
    Peer,        \* the other sides of this account's direct chats
    Load,        \* requests for a thread that may be in flight at once
    MaxRows,     \* bound: messages stored by the server
    MaxOpens,    \* bound: times the user opens a thread
    MaxReloads,  \* bound: reloads that no reconnect has caused
    MaxSends,    \* bound: messages the user sends from this tab
    MaxDrops,    \* bound: times the socket closes
    MaxActs,     \* bound: all of these together, and the account's other tabs
    NoPeer

ASSUME ChatAssumption ==
    /\ IsFiniteSet(Peer) /\ NoPeer \notin Peer
    /\ IsFiniteSet(Load)
    /\ {MaxRows, MaxOpens, MaxReloads, MaxSends, MaxDrops, MaxActs} \subseteq Nat

VARIABLES
    rows,      \* the server's rows with this account: whose thread, whose text
    socket,    \* "closed", "open" for the tab, "registered" with the hub too
    frames,    \* rows whose frames are on their way to the tab
    everConnected, failed,      \* everConnected, messagesLoadFailed
    selected,  \* selectedUser
    current,   \* the array this.messages refers to
    array,     \* what each array that somebody refers to holds
    seen,      \* seenMessageIds
    cache,     \* localStorage: the cached thread of each peer
    opening,   \* rows whose frames the handler is decrypting
    load,      \* requests for a thread, and what their handlers hold
    send,      \* the message being sent
    opens, reloads, sends, drops, elsewhere,   \* how often each acted
    crossed,   \* ghost: has a thread been opened while something was under way?
    raced,     \* ghost: have two writers of the thread overlapped?
    unheard    \* ghost: rows stored while neither a frame nor a reload was due

bubbles == <<current, array, seen, cache>>
user == <<opens, reloads, sends, drops, elsewhere>>
ghosts == <<crossed, raced, unheard>>
vars == <<rows, socket, frames, everConnected, failed, selected, bubbles, opening,
          load, send, user, ghosts>>

-----------------------------------------------------------------------------
(* Bubbles and arrays.  A bubble is known by its id: a row's, or the       *)
(* temporary one of an optimistic send.  Ordering within the thread is     *)
(* left out, so an array is a bag of ids.  Opening a thread reads its      *)
(* bubbles from the cache as new objects: `since` tells which opening made *)
(* the objects of an array, for a pending bubble that is renamed in place. *)

Row == 1 .. Len(rows)
Temp(n) == -n
Array == 0 .. Cardinality(Load) + 1
Nothing == [held |-> EmptyBag, since |-> 0]

messages == array[current].held
Shown == BagToSet(messages)

Unused == [kind |-> "none", stage |-> "unused", peer |-> NoPeer,
           fetched |-> {}, todo |-> {}, arr |-> 0]
Busy == {l \in Load : load[l].stage # "unused"}
HoldingIn(loads) == {l \in Load : loads[l].stage = "holding"}
Holding == HoldingIn(load)
HeldBy(now, loads) == {now} \cup {loads[l].arr : l \in HoldingIn(loads)}
Held == HeldBy(current, load)
Fresh == Min(Array \ Held)

\* Arrays nobody refers to any more are forgotten.
Swept(arrays, now, loads) ==
    [a \in Array |-> IF a \in HeldBy(now, loads) THEN arrays[a] ELSE Nothing]

Idle == [stage |-> "idle", peer |-> NoPeer, temp |-> 0, id |-> 0]

Init ==
    /\ rows = << >>
    /\ socket \in {"closed", "registered"}
    /\ frames = {}
    /\ everConnected = (socket = "registered")
    /\ failed = FALSE
    /\ selected = NoPeer
    /\ current = 0
    /\ array = [a \in Array |-> Nothing]
    /\ seen = {}
    /\ cache = [p \in Peer |-> EmptyBag]
    /\ opening = {}
    /\ load = [l \in Load |-> Unused]
    /\ send = Idle
    /\ opens = 0 /\ reloads = 0 /\ sends = 0 /\ drops = 0 /\ elsewhere = 0
    /\ crossed = "never" /\ raced = "never"
    /\ unheard = {}

-----------------------------------------------------------------------------
(* Mutated forms of the operators below, for the sensitivity of the runs.  *)

IdBeforeInsert == Len(rows)

ReloadsOnlyAfterFailure == failed /\ selected # NoPeer

AnyFrame(id) == selected # NoPeer

AppendsAll(held, ids) == held (+) SetToBag(ids)

DropsBothIds(id, temp) == seen \ {temp}

LeavesPending(a, temp) == array

-----------------------------------------------------------------------------
(* What the handlers do to the thread.                                     *)

Push(bag, id) == bag (+) SetToBag({id})

\* this.messages.push(m); this.messages = [...this.messages]; persistCache
PushAndCopy(id) ==
    LET pushed == [array[current] EXCEPT !.held = Push(@, id)]
    IN  /\ current' = Fresh
        /\ array' = Swept([array EXCEPT ![current] = pushed, ![Fresh] = pushed],
                           Fresh, load)
        /\ cache' = [cache EXCEPT ![selected] = pushed.held]

\* mergeMessages: one bubble for every id of either side.
Merged(held, ids) == SetToBag(BagToSet(held) \cup ids)

Claimed(ids) == seen \cup ids

\* The server's id takes the temporary one's place in the claims.
Reclaimed(id, temp) == (seen \ {temp}) \cup {id}

\* The id of a pending bubble changes in every array that shares the object.
Renamed(temp, id) ==
    [a \in Array |->
        IF array[a].since = array[current].since /\ BagIn(temp, array[a].held)
        THEN [array[a] EXCEPT !.held = Push(@ (-) SetToBag({temp}), id)]
        ELSE array[a]]

\* The pending bubble is spliced out of this.messages, of no other array.
Spliced(a, temp) == [array EXCEPT ![a].held = @ (-) SetToBag({temp})]

\* The ghosts: "now" until a thread is opened with nothing under way, then
\* "before".
UnderWay == Busy # {} \/ opening # {} \/ send # Idle
Healed(ghost) == IF ghost = "now" THEN "before" ELSE ghost
Raced(overlap) == IF overlap THEN "now" ELSE raced

\* A request for thread p leaves; two in flight at once are a race.
Ask(l, kind, p) ==
    /\ load[l] = Unused
    /\ load' = [load EXCEPT ![l] = [Unused EXCEPT !.kind = kind, !.stage = "asked",
                                                  !.peer = p]]
    /\ raced' = IF kind = "open" /\ ~UnderWay THEN Healed(raced) ELSE Raced(Busy # {})

Acts == opens + reloads + sends + drops + elsewhere

Pending == send.stage \in {"posting", "stored"}

-----------------------------------------------------------------------------
(* The server and the socket.                                              *)

NewId == Len(rows) + 1

\* A message of the thread with p is stored; the hub sends the frame of the
\* other side's message.  The tab ignores the frame of its own.
Store(p, mine) ==
    /\ Len(rows) < MaxRows
    /\ rows' = Append(rows, [peer |-> p, mine |-> mine])
    /\ frames' = IF mine \/ socket # "registered" THEN frames
                 ELSE frames \cup {NewId}
    /\ unheard' = IF mine \/ socket = "registered"
                     \/ (socket = "closed" /\ everConnected) THEN unheard
                  ELSE unheard \cup {NewId}

PeerSends(p) ==
    /\ Store(p, FALSE)
    /\ UNCHANGED <<socket, everConnected, failed, selected, bubbles, opening, load,
                   send, user, crossed, raced>>

\* This account sends from another tab, or a request given up is handled late.
SentElsewhere(p) ==
    /\ Acts < MaxActs
    /\ elsewhere' = elsewhere + 1
    /\ Store(p, TRUE)
    /\ UNCHANGED <<socket, everConnected, failed, selected, bubbles, opening, load,
                   send, opens, reloads, sends, drops, crossed, raced>>

\* onclose; what the socket carried is lost.
Drop ==
    /\ socket # "closed" /\ drops < MaxDrops /\ Acts < MaxActs
    /\ socket' = "closed"
    /\ frames' = {}
    /\ drops' = drops + 1
    /\ UNCHANGED <<rows, everConnected, failed, selected, bubbles, opening, load,
                   send, opens, reloads, sends, elsewhere, ghosts>>

ReloadsOnConnect == (everConnected \/ failed) /\ selected # NoPeer

\* onopen, and the effect on wsConnected.
Connect ==
    /\ socket = "closed"
    /\ socket' = "open"
    /\ everConnected' = TRUE
    /\ IF ReloadsOnConnect
       THEN \E l \in Load : Ask(l, "reload", selected)
       ELSE UNCHANGED <<load, raced>>
    /\ UNCHANGED <<rows, frames, failed, selected, bubbles, opening, send, user,
                   crossed, unheard>>

\* The hub's register case: from here on the socket gets frames.
HubRegisters ==
    /\ socket = "open"
    /\ socket' = "registered"
    /\ UNCHANGED <<rows, frames, everConnected, failed, selected, bubbles, opening,
                   load, send, user, ghosts>>

-----------------------------------------------------------------------------
(* Frames of the other side's messages.                                    *)

Accepts(id) == rows[id].peer = selected

\* The subscription to wsMessages$, up to the await of the decryption.
FrameArrives(id) ==
    /\ id \in frames
    /\ frames' = frames \ {id}
    /\ opening' = IF Accepts(id) THEN opening \cup {id} ELSE opening
    /\ UNCHANGED <<rows, socket, everConnected, failed, selected, bubbles, load, send,
                   user, ghosts>>

\* After it: claim the id, push the bubble, persist.
FrameOpened(id) ==
    /\ id \in opening
    /\ opening' = opening \ {id}
    /\ IF id \in seen
       THEN UNCHANGED <<bubbles, raced>>
       ELSE /\ seen' = Claimed({id})
            /\ PushAndCopy(id)
            /\ raced' = Raced(Holding # {})
    /\ UNCHANGED <<rows, socket, frames, everConnected, failed, selected, load,
                   send, user, crossed, unheard>>

-----------------------------------------------------------------------------
(* Opening and reloading a thread.                                         *)

\* selectUser: the cache is shown and indexed, and the rows are asked for.
SelectUser(p) ==
    /\ opens < MaxOpens /\ Acts < MaxActs
    /\ opens' = opens + 1
    /\ selected' = p
    /\ current' = Fresh
    /\ seen' = BagToSet(cache[p])
    /\ failed' = FALSE
    /\ \E l \in Load : Ask(l, "open", p)
    /\ array' = Swept([array EXCEPT ![Fresh] = [held |-> cache[p], since |-> opens']],
                    Fresh, load)
    /\ crossed' = IF UnderWay THEN "now" ELSE Healed(crossed)
    /\ UNCHANGED <<rows, socket, frames, everConnected, cache, opening, send,
                   reloads, sends, drops, elsewhere, unheard>>

\* reloadOpenThread: the tab becomes visible, or the open chat is clicked.
Reload ==
    /\ selected # NoPeer /\ reloads < MaxReloads /\ Acts < MaxActs
    /\ reloads' = reloads + 1
    /\ \E l \in Load : Ask(l, "reload", selected)
    /\ UNCHANGED <<rows, socket, frames, everConnected, failed, selected, bubbles,
                   opening, send, opens, sends, drops, elsewhere, crossed, unheard>>

\* GetMessages reads the rows; the answer is on its way.
Serve(l) ==
    /\ load[l].stage = "asked"
    /\ load' = [load EXCEPT ![l].stage = "served",
                    ![l].fetched = {id \in Row : rows[id].peer = load[l].peer}]
    /\ UNCHANGED <<rows, socket, frames, everConnected, failed, selected, bubbles,
                   opening, send, user, ghosts>>

\* noteLoadFailure, on any error or timeout.
LoadFails(l) ==
    /\ load[l].stage \in {"asked", "served"}
    /\ load' = [load EXCEPT ![l] = Unused]
    /\ failed' = TRUE
    /\ UNCHANGED <<rows, socket, frames, everConnected, selected, bubbles, opening,
                   send, user, ghosts>>

\* selectUser's handler has decrypted the rows and looks up this.messages for
\* mergeMessages, whose other argument is awaited.
LookUp(l) ==
    /\ load[l].kind = "open" /\ load[l].stage = "served"
    /\ load' = [load EXCEPT ![l].stage = "holding", ![l].arr = current]
    /\ raced' = Raced(Pending)
    /\ UNCHANGED <<rows, socket, frames, everConnected, failed, selected, bubbles,
                   opening, send, user, crossed, unheard>>

\* The rest of it: merge into what was looked up, claim the new ids, persist.
Merge(l) ==
    LET old == array[load[l].arr]
        new == [old EXCEPT !.held = Merged(@, load[l].fetched)]
    IN  /\ load[l].kind = "open" /\ load[l].stage = "holding"
        /\ seen' = Claimed(load[l].fetched \ BagToSet(old.held))
        /\ load' = [load EXCEPT ![l] = Unused]
        /\ current' = Fresh
        /\ array' = Swept([array EXCEPT ![Fresh] = new], Fresh, load')
        /\ cache' = [cache EXCEPT ![load[l].peer] = new.held]
        /\ UNCHANGED <<rows, socket, frames, everConnected, failed, selected,
                       opening, send, user, ghosts>>

\* reloadOpenThread's loop takes the first of the rows in todo: it claims the
\* row and looks up this.messages, whose push waits for the decryption.  With
\* none left the thread is persisted, unless the answer was empty.
TakeNext(l, todo, shown) ==
    IF todo = {}
    THEN /\ load' = [load EXCEPT ![l] = Unused]
         /\ cache' = IF load[l].fetched = {} THEN cache
                     ELSE [cache EXCEPT ![load[l].peer] = shown]
         /\ seen' = seen
    ELSE /\ load' = [load EXCEPT ![l].stage = "holding", ![l].arr = current,
                                 ![l].todo = todo]
         /\ seen' = Claimed({Min(todo)})
         /\ cache' = cache

\* reloadOpenThread's handler: which of the rows are new is settled here.
ReloadAnswered(l) ==
    /\ load[l].kind = "reload" /\ load[l].stage = "served"
    /\ failed' = FALSE
    /\ TakeNext(l, load[l].fetched \ Shown, messages)
    /\ raced' = Raced(Pending)
    /\ UNCHANGED <<rows, socket, frames, everConnected, selected, current, array,
                   opening, send, user, crossed, unheard>>

\* A row is decrypted: it goes where the push was looked up.
RowOpened(l) ==
    LET pushed == [array EXCEPT ![load[l].arr].held = Push(@, Min(load[l].todo))]
    IN  /\ load[l].kind = "reload" /\ load[l].stage = "holding"
        /\ TakeNext(l, load[l].todo \ {Min(load[l].todo)}, pushed[current].held)
        /\ current' = current
        /\ array' = Swept(pushed, current, load')
        /\ UNCHANGED <<rows, socket, frames, everConnected, failed, selected,
                       opening, send, user, ghosts>>

-----------------------------------------------------------------------------
(* Sending.                                                                *)

\* sendMessage up to the await of prepare; `sending` keeps a second one out.
StartSend ==
    /\ send = Idle /\ selected # NoPeer /\ sends < MaxSends /\ Acts < MaxActs
    /\ sends' = sends + 1
    /\ send' = [Idle EXCEPT !.stage = "preparing", !.peer = selected]
    /\ UNCHANGED <<rows, socket, frames, everConnected, failed, selected, bubbles,
                   opening, load, opens, reloads, drops, elsewhere, ghosts>>

\* No key, or prepare throws.
PrepareFails ==
    /\ send.stage = "preparing"
    /\ send' = Idle
    /\ UNCHANGED <<rows, socket, frames, everConnected, failed, selected, bubbles,
                   opening, load, user, ghosts>>

\* The optimistic bubble is shown in the thread that is open now.
Prepared ==
    /\ send.stage = "preparing"
    /\ send' = [send EXCEPT !.stage = "posting", !.temp = Temp(sends)]
    /\ PushAndCopy(Temp(sends))
    /\ seen' = seen
    /\ raced' = Raced(Holding # {})
    /\ UNCHANGED <<rows, socket, frames, everConnected, failed, selected, opening,
                   load, user, crossed, unheard>>

\* SendMessage commits.
PostStored ==
    /\ send.stage = "posting"
    /\ Store(send.peer, TRUE)
    /\ send' = [send EXCEPT !.stage = "stored", !.id = NewId]
    /\ UNCHANGED <<socket, everConnected, failed, selected, bubbles, opening, load,
                   user, crossed, raced>>

\* finalizeOptimistic with the row's id.
PostAnswered ==
    /\ send.stage = "stored"
    /\ send' = Idle
    /\ IF BagIn(send.temp, messages)
       THEN /\ seen' = Reclaimed(send.id, send.temp)
            /\ array' = Renamed(send.temp, send.id)
            /\ cache' = [cache EXCEPT ![selected] = array'[current].held]
       ELSE UNCHANGED <<seen, array, cache>>
    /\ raced' = Raced(Holding # {})
    /\ UNCHANGED <<rows, socket, frames, everConnected, failed, selected, current,
                   opening, load, user, crossed, unheard>>

\* rollbackOptimistic: the request failed, timed out, or its answer was lost.
PostFails ==
    /\ Pending
    /\ send' = Idle
    /\ IF BagIn(send.temp, messages)
       THEN /\ seen' = seen \ {send.temp}
            /\ array' = Spliced(current, send.temp)
            /\ cache' = [cache EXCEPT ![selected] = array'[current].held]
       ELSE UNCHANGED <<seen, array, cache>>
    /\ raced' = Raced(Holding # {})
    /\ UNCHANGED <<rows, socket, frames, everConnected, failed, selected, current,
                   opening, load, user, crossed, unheard>>

-----------------------------------------------------------------------------
Network == Drop \/ Connect \/ HubRegisters
    \/ \E p \in Peer : PeerSends(p) \/ SentElsewhere(p)

Frame == \E id \in Row : FrameArrives(id) \/ FrameOpened(id)

Thread == Reload
    \/ \E p \in Peer : SelectUser(p)
    \/ \E l \in Load : \/ Serve(l) \/ LoadFails(l) \/ LookUp(l) \/ Merge(l)
                       \/ ReloadAnswered(l) \/ RowOpened(l)

Sending == StartSend \/ PrepareFails \/ Prepared
    \/ PostStored \/ PostAnswered \/ PostFails

Next == Network \/ Frame \/ Thread \/ Sending

Spec == Init /\ [][Next]_vars

-----------------------------------------------------------------------------
(* Properties.                                                             *)

Bubble == Row \cup {Temp(n) : n \in 1 .. sends}

\* Every variable keeps its type, and an assignment to this.messages always
\* finds an array nobody refers to.
TypeOK ==
    /\ rows \in Seq([peer : Peer, mine : BOOLEAN])
    /\ socket \in {"closed", "open", "registered"}
    /\ {everConnected, failed} \subseteq BOOLEAN
    /\ {crossed, raced} \subseteq {"never", "before", "now"}
    /\ frames \subseteq Row /\ opening \subseteq Row /\ unheard \subseteq Row
    /\ selected \in Peer \cup {NoPeer}
    /\ current \in Array /\ Array \ Held # {}
    /\ \A a \in Array : IsABag(array[a].held) /\ BagToSet(array[a].held) \subseteq Bubble
    /\ \A p \in Peer : IsABag(cache[p]) /\ BagToSet(cache[p]) \subseteq Bubble
    /\ seen \subseteq Bubble
    /\ \A l \in Load : load[l].fetched \subseteq Row /\ load[l].todo \subseteq load[l].fetched

\* Nothing is under way and no banner asks the user to retry.
Settled ==
    /\ socket = "registered" /\ frames = {} /\ ~UnderWay
    /\ selected # NoPeer /\ ~failed

\* Whatever the thread shows has its id in seenMessageIds, whichever of the
\* handlers brought it, so that claimMessage refuses a frame for it; overlapping
\* handlers do not break this, only opening a thread over pending ones does.
ShownIsClaimed == crossed # "now" => Shown \cap Row \subseteq seen

\* persistCache never stores a message under another chat's key, as long as no
\* thread is opened while a handler of the previous one is still to come.
OwnThread ==
    crossed = "never" =>
        \A p \in Peer : \A id \in BagToSet(cache[p]) \cap Row : rows[id].peer = p

\* Once nothing is under way, the open thread shows every message of the other
\* side: what the socket lost, a reload of Connect or the failed-load banner
\* makes up for.  The exceptions are rows stored before the tab's first
\* connection, or between onopen and the hub's register, and overlapping
\* handlers; opening the thread again mends these.
SettledShowsAll ==
    Settled /\ "now" \notin {crossed, raced} => \A id \in Row :
        rows[id].peer = selected /\ ~rows[id].mine => id \in Shown \cup unheard

\* Nothing is ever shown twice unless two handlers that write the thread have
\* overlapped: neither opening threads quickly, nor a frame that arrives before
\* or after the rows of a request, nor the answer of a send suffices.
ShownOnce == raced = "never" => \A id \in Shown : messages[id] = 1

\* The only bubble without a row is that of the send under way: it is confirmed
\* or removed with its send, unless the thread was changed under it or a load
\* held an older array.
NoPendingLeft ==
    crossed = "never" /\ raced = "never" =>
        \A id \in Shown \ Row : Pending /\ id = send.temp

\* docs/ws-requirements.md R4: one message id, one bubble.  The loop of
\* reloadOpenThread settles before its awaits which rows are new.
EachShownOnce == \A id \in Shown : messages[id] = 1

\* What has arrived over the socket survives the answer of a request for the
\* same thread, as the comment on mergeMessages says: a message leaves the
\* screen only when a thread is opened.
KeepsShown == opens' = opens => Shown \cap Row \subseteq Shown'
NothingVanishes == [][KeepsShown]_vars

\* It does survive wherever the writers of the thread do not overlap.
KeptUnlessRaced == [][raced' # "now" => KeepsShown]_vars
=============================================================================
