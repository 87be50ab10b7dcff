------------------------------ MODULE GroupKeys ------------------------------
(***************************************************************************)
(* The AES keys of one group chat: created with the group, rotated to a    *)
(* new epoch by every device that hears of a removed device, and handed    *)
(* around as shares the server stores.                                     *)
(*                                                                         *)
(* A user-level share is one row for each member, wrapped between two      *)
(* account identities; a device-level share is a row for each device and   *)
(* epoch, of which the module keeps that it is there: what is in it cannot  *)
(* be opened.  A key is the number it was generated as: 1 is the group's    *)
(* own.                                                                    *)
(* Each device has one page open and its account's identity key, so that   *)
(* the page's cache and its IndexedDB agree; a page runs one exchange at a *)
(* time beside its rotations.                                              *)
(***************************************************************************)
EXTENDS Naturals, FiniteSets

CONSTANTS
    Devices,
    Users,      \* the members of the group
    UserOf,     \* the account of a device
    Creator,    \* the device the group was created on
    MaxEpoch,   \* bound: rotations in a row
    MaxKeys,    \* bound: keys generated
    MaxTexts,   \* bound: messages
    MaxOpens,   \* bound: openings of the group
    MaxEvents   \* bound: removals, registrations, lost frames and uploads

ASSUME UserAssumption == UserOf \in [Devices -> Users] /\ Creator \in Devices
ASSUME BoundAssumption == MaxEpoch \in Nat /\ MaxKeys \in Nat \ {0}
                          /\ MaxTexts \in Nat /\ MaxOpens \in Nat /\ MaxEvents \in Nat

VARIABLES
    raw,         \* groupKeyRaw: a device's key of each epoch
    epoch,       \* groupEpoch: the epoch a device writes in
    userShare,   \* group_key_shares
    deviceShare, \* group_epoch_key_shares, the rows of epochs above 0
    registered,  \* user_devices
    op,          \* per device: its syncEpoch or its distribution
    rotation,    \* per device and removed device: its rotateGroupKeys
    asks,        \* group_key_request frames on their way
    ready,       \* devices with a group_key_ready frame on its way
    asked,       \* requestedForRead
    selected,    \* devices whose page has the group open
    sent,        \* the messages of the group
    made, opens, events,
    overtaken,   \* ghost: devices whose epoch rose between syncEpoch's comparison and its write
    overlapped   \* ghost: devices that began two rotations from one epoch

vars == <<raw, epoch, userShare, deviceShare, registered, op, rotation, asks, ready, asked, selected, sent,
          made, opens, events, overtaken, overlapped>>
keys == <<raw, epoch>>
server == <<userShare, deviceShare, registered>>
frames == <<asks, ready, asked, selected>>
ghosts == <<overtaken, overlapped>>

None == 0
Keys == 1..MaxKeys
Epochs == 0..MaxEpoch
Idle == [step |-> "idle", why |-> "open", epoch |-> 0, key |-> None, to |-> {}]
Still == [step |-> "none", epoch |-> 0, key |-> None]
NoShare == [key |-> None, from |-> None]

TypeOK ==
    /\ raw \in [Devices -> [Epochs -> Keys \cup {None}]]
    /\ epoch \in [Devices -> Epochs]
    /\ userShare \in [Users -> [key : Keys \cup {None}, from : Users \cup {None}]]
    /\ deviceShare \subseteq Devices \X (Epochs \ {0})
    /\ registered \subseteq Devices
    /\ op \in [Devices -> [step : {"idle", "asking", "compare", "commit", "last", "sharing"},
                           why : {"open", "ready"}, epoch : Epochs, key : Keys \cup {None},
                           to : SUBSET Users]]
    /\ rotation \in [Devices -> [Devices -> [step : {"none", "frame", "read", "written", "stored"},
                                             epoch : Epochs, key : Keys \cup {None}]]]
    /\ asks \subseteq Devices \X Users /\ ready \subseteq Devices /\ asked \subseteq Devices
    /\ selected \subseteq Devices
    /\ sent \subseteq [epoch : Epochs, key : Keys, by : Devices]
    /\ made \in 0..MaxKeys /\ opens \in 0..MaxOpens /\ events \in 0..MaxEvents
    /\ overtaken \subseteq Devices /\ overlapped \subseteq Devices

\* createGroup: the creator's key of epoch 0, and its share for itself.  Or later:
\* every device has that key, and every account's row is another member's.
Init ==
    /\ \/ /\ raw = [d \in Devices |-> [e \in Epochs |-> IF d = Creator /\ e = 0 THEN 1 ELSE None]]
          /\ userShare = [u \in Users |-> IF u = UserOf[Creator] THEN [key |-> 1, from |-> u] ELSE NoShare]
       \/ /\ raw = [d \in Devices |-> [e \in Epochs |-> IF e = 0 THEN 1 ELSE None]]
          /\ userShare \in [Users -> [key : {1}, from : Users]]
          /\ \A u \in Users : userShare[u].from # u
    /\ epoch = [d \in Devices |-> 0]
    /\ deviceShare = {}
    /\ registered = Devices
    /\ op = [d \in Devices |-> Idle]
    /\ rotation = [d \in Devices |-> [x \in Devices |-> Still]]
    /\ asks = {} /\ ready = {} /\ asked = {} /\ selected = {} /\ sent = {}
    /\ made = 1 /\ opens = 0 /\ events = 0
    /\ overtaken = {} /\ overlapped = {}

Event == events < MaxEvents /\ events' = events + 1
Does(d, r) == op' = [op EXCEPT ![d] = r]
CurrentKey(d) == raw[d][epoch[d]]
DevicesOf(u) == {d \in Devices : UserOf[d] = u}

\* unwrapKeyFromDevice: a share is wrapped between the device and the sharer's
\* device key, and unwrapped between the device and the sharer's identity key, so
\* that no device-level share opens.
OpenedByDevice(d, e) == None

\* getGroupKey tries the shared secrets with all members but its own account.
OpenedByUser(u) == IF userShare[u].from \in Users \ {u} THEN userShare[u].key ELSE None

\* getGroupKey: the stored key, else the device's share, else for epoch 0 the
\* account's.
GroupKey(d, e) ==
    IF raw[d][e] # None THEN raw[d][e]
    ELSE IF e > 0 \/ OpenedByDevice(d, e) # None THEN OpenedByDevice(d, e)
    ELSE OpenedByUser(UserOf[d])

-----------------------------------------------------------------------------
(* syncEpoch                                                               *)

\* selectGroup.
Open(d) ==
    /\ opens < MaxOpens /\ opens' = opens + 1
    /\ op[d].step = "idle" /\ Does(d, [Idle EXCEPT !.step = "asking"])
    /\ selected' = selected \cup {d}
    /\ UNCHANGED <<keys, server, rotation, asks, ready, asked, sent, made, events, ghosts>>

Unreadable(d) == {m \in sent : raw[d][m.epoch] # m.key}

\* onGroupKeyReady of a page with the group open: the guard falls, and a page
\* with texts it cannot read looks for the key again.
ReadyArrives(d) ==
    /\ d \in ready /\ op[d].step = "idle"
    /\ ready' = ready \ {d} /\ asked' = asked \ {d}
    /\ IF Unreadable(d) = {} THEN UNCHANGED op
       ELSE Does(d, [Idle EXCEPT !.step = "asking", !.why = "ready"])
    /\ UNCHANGED <<opens, keys, server, rotation, asks, selected, sent, made, events, ghosts>>

\* decryptGroupMsg, for a frame or a loaded thread.
Decrypt(d, m) ==
    /\ m \in sent /\ raw[d][m.epoch] = None /\ GroupKey(d, m.epoch) # None
    /\ raw' = [raw EXCEPT ![d][m.epoch] = GroupKey(d, m.epoch)]
    /\ UNCHANGED <<opens, epoch, server, op, rotation, frames, sent, made, events, ghosts>>

IsNewest(e) ==
    LET rows == {x[2] : x \in deviceShare} \cup {0}
    IN e \in rows /\ \A f \in rows : f <= e

\* GetGroupKeyEpoch answers; a call that fails leaves the local epoch alone.
EpochAnswered(d) ==
    /\ op[d].step = "asking"
    /\ \/ \E e \in Epochs : IsNewest(e) /\ Does(d, [op[d] EXCEPT !.step = "compare", !.epoch = e])
       \/ Does(d, [op[d] EXCEPT !.step = "last"])
    /\ UNCHANGED <<opens, keys, server, rotation, frames, sent, made, events, ghosts>>

\* Mutant: the server's epoch is taken over, newer or not.
AnyEpoch(d) == GroupKey(d, op[d].epoch) # None

\* Mutant: the epoch is taken over whether or not its key is here.
TakesAny(d) == op[d].epoch > epoch[d]

\* "Only commit the move once the key is actually here."
Usable(d) == op[d].epoch > epoch[d] /\ GroupKey(d, op[d].epoch) # None

Compare(d) ==
    /\ op[d].step = "compare"
    /\ Does(d, [op[d] EXCEPT !.step = IF Usable(d) THEN "commit" ELSE "last"])
    /\ raw' = IF Usable(d) THEN [raw EXCEPT ![d][op[d].epoch] = GroupKey(d, op[d].epoch)] ELSE raw
    /\ overtaken' = overtaken \ {d}
    /\ UNCHANGED <<opens, epoch, server, rotation, frames, sent, made, events, overlapped>>

Commit(d) ==
    /\ op[d].step = "commit"
    /\ epoch' = [epoch EXCEPT ![d] = op[d].epoch]
    /\ Does(d, [op[d] EXCEPT !.step = "last", !.epoch = 0])
    /\ UNCHANGED <<opens, raw, server, rotation, frames, sent, made, events, ghosts>>

OthersThan(u) == Devices \ DevicesOf(u)

\* requestKeyOnce, and RequestGroupKey's frame to the other members.
RequestOnce(d) ==
    /\ asked' = asked \cup {d}
    /\ asks' = IF d \in asked THEN asks ELSE asks \cup (OthersThan(UserOf[d]) \X {UserOf[d]})

\* What syncEpoch found: on opening, a page with a key hands it to everybody,
\* its own account included (distributeToMembers, refreshOwnGroupKeyShare), and
\* a page without one asks for it.
Last(d) ==
    LET key == GroupKey(d, epoch[d])
    IN /\ op[d].step = "last"
       /\ raw' = [raw EXCEPT ![d][epoch[d]] = key]
       /\ IF key # None
          THEN /\ Does(d, IF op[d].why = "open" THEN [Idle EXCEPT !.step = "sharing", !.key = key,
                                                            !.epoch = epoch[d], !.to = Users]
                          ELSE Idle)
               /\ UNCHANGED <<asks, asked>>
          ELSE /\ Does(d, Idle)
               /\ IF op[d].why = "open" THEN RequestOnce(d) ELSE UNCHANGED <<asks, asked>>
       /\ UNCHANGED <<opens, epoch, server, rotation, ready, selected, sent, made, events, ghosts>>

-----------------------------------------------------------------------------
(* Shares                                                                  *)

\* distributeGroupKeyToMember: whoever holds a key answers a request.
AskArrives(d, u) ==
    /\ <<d, u>> \in asks /\ op[d].step = "idle"
    /\ asks' = asks \ {<<d, u>>}
    /\ LET key == GroupKey(d, epoch[d])
       IN /\ raw' = [raw EXCEPT ![d][epoch[d]] = key]
          /\ IF key = None THEN UNCHANGED op
             ELSE Does(d, [Idle EXCEPT !.step = "sharing", !.key = key, !.epoch = epoch[d], !.to = {u}])
    /\ UNCHANGED <<opens, epoch, server, rotation, ready, asked, selected, sent, made, events, ghosts>>

\* Mutant: a share names its device where its account belongs.
DeviceItself(d) == d

Sharer(d) == UserOf[d]

\* The shares for some members: the account's row, whoever wrote it before, and
\* a row for each of its registered devices; both announce the key, which pages
\* without the group open ignore.
Upload(d) ==
    LET r == op[d]
        reached == {x \in Devices : UserOf[x] \in r.to}
    IN /\ r.step = "sharing" /\ Does(d, Idle)
       /\ userShare' = [u \in Users |-> IF u \in r.to THEN [key |-> r.key, from |-> Sharer(d)]
                                        ELSE userShare[u]]
       /\ deviceShare' = deviceShare \cup ((reached \cap registered) \X ({r.epoch} \ {0}))
       /\ ready' = ready \cup (reached \cap selected)
       /\ UNCHANGED <<opens, keys, registered, rotation, asks, asked, selected, sent, made, events, ghosts>>

\* The share for one of them is lost.
UploadLost(d, u) ==
    /\ Event /\ op[d].step = "sharing" /\ u \in op[d].to
    /\ Does(d, IF op[d].to = {u} THEN Idle ELSE [op[d] EXCEPT !.to = @ \ {u}])
    /\ UNCHANGED <<opens, keys, server, rotation, frames, sent, made, ghosts>>

\* A frame finds its device without a socket.
FrameLost ==
    /\ Event
    /\ \/ \E x \in asks : asks' = asks \ {x} /\ UNCHANGED <<ready, rotation>>
       \/ \E d \in ready : ready' = ready \ {d} /\ UNCHANGED <<asks, rotation>>
       \/ \E d, x \in Devices :
            /\ rotation[d][x].step = "frame" /\ rotation' = [rotation EXCEPT ![d][x] = Still]
            /\ UNCHANGED <<asks, ready>>
    /\ UNCHANGED <<opens, keys, server, op, asked, selected, sent, made, ghosts>>

-----------------------------------------------------------------------------
(* Removing a device, rotating the keys                                    *)

\* RemoveDevice: the row, the shares for the device, and a frame to all sockets
\* of the account, the removed device's among them.
Remove(x) ==
    /\ Event /\ x \in registered
    /\ \A d \in DevicesOf(UserOf[x]) : rotation[d][x].step = "none"
    /\ registered' = registered \ {x}
    /\ deviceShare' = {y \in deviceShare : y[1] # x}
    /\ rotation' = [d \in Devices |->
                      IF UserOf[d] = UserOf[x] THEN [rotation[d] EXCEPT ![x] = [Still EXCEPT !.step = "frame"]]
                      ELSE rotation[d]]
    /\ UNCHANGED <<opens, keys, userShare, op, frames, sent, made, ghosts>>

\* registerThisDevice, at the next start of the app on it.
Reregister(x) ==
    /\ Event /\ x \notin registered /\ registered' = registered \cup {x}
    /\ UNCHANGED <<opens, keys, userShare, deviceShare, op, rotation, frames, sent, made, ghosts>>

Turns(d, x, r) == rotation' = [rotation EXCEPT ![d][x] = r]

\* A rotation from this epoch has stored its key, or is about to.
Begun(d) ==
    \/ raw[d][epoch[d] + 1] # None
    \/ \E y \in Devices : rotation[d][y].step = "read" /\ rotation[d][y].epoch = epoch[d] + 1

\* rotateGroupKeys: only a holder of the current key rotates.
RotationReads(d, x) ==
    /\ rotation[d][x].step = "frame"
    /\ IF CurrentKey(d) = None \/ epoch[d] = MaxEpoch \/ made = MaxKeys
       THEN Turns(d, x, Still) /\ UNCHANGED overlapped
       ELSE /\ Turns(d, x, [step |-> "read", epoch |-> epoch[d] + 1, key |-> None])
            /\ overlapped' = IF Begun(d) THEN overlapped \cup {d} ELSE overlapped
    /\ UNCHANGED <<opens, keys, server, op, frames, sent, made, events, overtaken>>

\* Mutant: the new key takes the place of the current one.
OldSlot(d, x) == epoch[d]

NewSlot(d, x) == rotation[d][x].epoch

\* generateGroupKey: the key is stored first, the epoch after it.
RotationWrites(d, x) ==
    /\ rotation[d][x].step = "read" /\ made < MaxKeys
    /\ made' = made + 1
    /\ raw' = [raw EXCEPT ![d][NewSlot(d, x)] = made']
    /\ Turns(d, x, [rotation[d][x] EXCEPT !.step = "written", !.key = made'])
    /\ UNCHANGED <<opens, epoch, server, op, frames, sent, events, ghosts>>

RotationMoves(d, x) ==
    LET e == rotation[d][x].epoch
    IN /\ rotation[d][x].step = "written"
       /\ epoch' = IF e >= epoch[d] THEN [epoch EXCEPT ![d] = e] ELSE epoch
       /\ overtaken' = IF op[d].step = "commit" THEN overtaken \cup {d} ELSE overtaken
       /\ Turns(d, x, [rotation[d][x] EXCEPT !.step = "stored"])
       /\ UNCHANGED <<opens, raw, server, op, frames, sent, made, events, overlapped>>

\* The shares for every registered device but the removed one; any may be lost.
RotationShares(d, x) ==
    /\ rotation[d][x].step = "stored"
    /\ \E targets \in {registered \ {x}, {}} :
         /\ deviceShare' = deviceShare \cup (targets \X {rotation[d][x].epoch})
         /\ ready' = ready \cup {y \in selected : \E z \in targets : UserOf[y] = UserOf[z]}
    /\ Turns(d, x, Still)
    /\ UNCHANGED <<opens, keys, userShare, registered, op, asks, asked, selected, sent, made, events, ghosts>>

\* A text is encrypted with the key of the epoch the device is at, or not sent.
Send(d) ==
    /\ Cardinality(sent) < MaxTexts /\ CurrentKey(d) # None
    /\ sent' = sent \cup {[epoch |-> epoch[d], key |-> CurrentKey(d), by |-> d]}
    /\ UNCHANGED <<opens, keys, server, op, rotation, frames, made, events, ghosts>>

Next ==
    \/ \E d \in Devices :
         \/ Open(d) \/ ReadyArrives(d) \/ EpochAnswered(d) \/ Compare(d) \/ Commit(d) \/ Last(d)
         \/ Upload(d) \/ Remove(d) \/ Reregister(d) \/ Send(d)
         \/ \E m \in sent : Decrypt(d, m)
         \/ \E u \in Users : AskArrives(d, u) \/ UploadLost(d, u)
         \/ \E x \in Devices : RotationReads(d, x) \/ RotationWrites(d, x)
                               \/ RotationMoves(d, x) \/ RotationShares(d, x)
    \/ FrameLost

Spec == Init /\ [][Next]_vars

-----------------------------------------------------------------------------
(* Properties                                                              *)

\* The epoch a device writes in is one it has the key of: neither a rotation
\* between its two writes nor a syncEpoch makes it claim a key it cannot use.
EpochHasKey == \A d \in Devices : epoch[d] > 0 => CurrentKey(d) # None

\* A device reads what it has written, unless two of its rotations began from one
\* epoch and the key of the next was replaced.
OwnTextReadable == \A m \in sent : m.by \in overlapped \/ raw[m.by][m.epoch] = m.key

\* chat-group-key.service.ts: "The local epoch must never go backwards".  It does
\* so only when a rotation moves it between syncEpoch's comparison and its write.
EpochNeverFalls ==
    [][\A d \in Devices : epoch'[d] < epoch[d] => d \in overtaken]_vars

\* The key of epoch 0 is the group's own: "Legacy user-level share only exists
\* for epoch 0" (crypto.service.ts).
EpochZeroIsItsKey == \A d \in Devices : raw[d][0] \in {None, 1}
=============================================================================
