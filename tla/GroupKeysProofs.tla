--------------------------- MODULE GroupKeysProofs ---------------------------
(***************************************************************************)
(* Proofs about GroupKeys, for any devices, accounts and bounds: a device  *)
(* has the key of the epoch it writes in, keeps reading its own texts      *)
(* unless it began two rotations from one epoch, and goes back to an       *)
(* earlier epoch only where a rotation overtook syncEpoch.                 *)
(***************************************************************************)
EXTENDS GroupKeys, TLAPS

KeyOrNone == Keys \cup {None}

OpType == [step : {"idle", "asking", "compare", "commit", "last", "sharing"},
           why : {"open", "ready"}, epoch : Epochs, key : KeyOrNone, to : SUBSET Users]

RotationType == [step : {"none", "frame", "read", "written", "stored"}, epoch : Epochs, key : KeyOrNone]

\* A rotation that has read its epoch moves on from one below it.
RotationsRise ==
    \A d, x \in Devices : rotation[d][x].step \in {"read", "written", "stored"} => rotation[d][x].epoch > 0

\* A rotation that has stored its key finds it there when it moves the epoch.
WrittenIsHere ==
    \A d, x \in Devices : rotation[d][x].step = "written" => raw[d][rotation[d][x].epoch] # None

\* So does a syncEpoch that has found a key; the epoch is still behind it, unless
\* a rotation has moved it since.
CommitIsHere ==
    \A d \in Devices : op[d].step = "commit" => /\ raw[d][op[d].epoch] # None
                                                /\ op[d].epoch > epoch[d] \/ d \in overtaken

\* The slot a rotation will write to is free, and its own, unless the device
\* began two rotations from one epoch.
SlotIsFree ==
    \A d \in Devices \ overlapped : \A x \in Devices : rotation[d][x].step = "read" =>
        /\ raw[d][rotation[d][x].epoch] = None
        /\ \A y \in Devices \ {x} : rotation[d][y].step = "read" => rotation[d][y].epoch # rotation[d][x].epoch

KeyInv ==
    /\ EpochHasKey /\ OwnTextReadable
    /\ RotationsRise /\ WrittenIsHere /\ CommitIsHere /\ SlotIsFree

KeyIndInv == TypeOK /\ KeyInv

-----------------------------------------------------------------------------
\* What a change of one entry of op, rotation and raw does.
LEMMA OpSet ==
    ASSUME TypeOK, NEW d \in Devices, NEW r \in OpType, Does(d, r)
    PROVE  op' \in [Devices -> OpType] /\ op'[d] = r /\ \A c \in Devices : c # d => op'[c] = op[c]
BY DEF TypeOK, OpType, KeyOrNone, Does

LEMMA RotationSet ==
    ASSUME TypeOK, NEW d \in Devices, NEW x \in Devices, NEW r \in RotationType, Turns(d, x, r)
    PROVE  /\ rotation' \in [Devices -> [Devices -> RotationType]] /\ rotation'[d][x] = r
           /\ \A c, y \in Devices : c # d \/ y # x => rotation'[c][y] = rotation[c][y]
<1>1. rotation \in [Devices -> [Devices -> RotationType]]
  BY DEF TypeOK, RotationType, KeyOrNone
<1>2. rotation[d] \in [Devices -> RotationType]
  BY <1>1
<1>3. rotation' = [rotation EXCEPT ![d] = [rotation[d] EXCEPT ![x] = r]]
  BY DEF Turns
<1>4. /\ [rotation[d] EXCEPT ![x] = r] \in [Devices -> RotationType]
      /\ [rotation[d] EXCEPT ![x] = r][x] = r
      /\ \A y \in Devices : y # x => [rotation[d] EXCEPT ![x] = r][y] = rotation[d][y]
  BY <1>2
<1>5. rotation'[d] = [rotation[d] EXCEPT ![x] = r] /\ \A c \in Devices : c # d => rotation'[c] = rotation[c]
  BY <1>1, <1>3
<1>6. rotation' \in [Devices -> [Devices -> RotationType]]
  BY <1>1, <1>3, <1>4
<1> QED BY <1>4, <1>5, <1>6

LEMMA RawSet ==
    ASSUME TypeOK, NEW d \in Devices, NEW e \in Epochs, NEW k \in KeyOrNone, raw' = [raw EXCEPT ![d][e] = k]
    PROVE  /\ raw' \in [Devices -> [Epochs -> KeyOrNone]] /\ raw'[d][e] = k
           /\ \A c \in Devices, f \in Epochs : c # d \/ f # e => raw'[c][f] = raw[c][f]
<1>1. raw \in [Devices -> [Epochs -> KeyOrNone]]
  BY DEF TypeOK, KeyOrNone
<1>2. \A c \in Devices : raw[c] \in [Epochs -> KeyOrNone]
  BY <1>1
<1>3. raw' = [raw EXCEPT ![d] = [raw[d] EXCEPT ![e] = k]]
  OBVIOUS
<1>4. /\ [raw[d] EXCEPT ![e] = k] \in [Epochs -> KeyOrNone]
      /\ [raw[d] EXCEPT ![e] = k][e] = k
      /\ \A f \in Epochs : f # e => [raw[d] EXCEPT ![e] = k][f] = raw[d][f]
  BY <1>2
<1>5. raw'[d] = [raw[d] EXCEPT ![e] = k] /\ \A c \in Devices : c # d => raw'[c] = raw[c]
  BY <1>1, <1>3
<1>6. raw' \in [Devices -> [Epochs -> KeyOrNone]]
  BY <1>1, <1>3, <1>4
<1> QED BY <1>4, <1>5, <1>6

\* No key above epoch 0 comes from a share, and a key at hand stays.
LEMMA GroupKeyType ==
    ASSUME TypeOK, NEW d \in Devices, NEW e \in Epochs
    PROVE  /\ GroupKey(d, e) \in KeyOrNone
           /\ raw[d][e] # None => GroupKey(d, e) = raw[d][e]
           /\ e # 0 => GroupKey(d, e) = raw[d][e]
<1>1. raw[d][e] \in KeyOrNone /\ UserOf[d] \in Users
  BY UserAssumption DEF TypeOK, KeyOrNone, UserAssumption
<1>2. userShare[UserOf[d]].key \in KeyOrNone
  BY <1>1 DEF TypeOK, KeyOrNone
<1>3. e \in Nat
  BY BoundAssumption DEF Epochs, BoundAssumption
<1> QED BY <1>1, <1>2, <1>3 DEF GroupKey, OpenedByDevice, OpenedByUser, KeyOrNone, None

\* A step that leaves every key at hand, and all keys above epoch 0, where they
\* are, and no more than that to the epochs, the texts and the rotations.
RawGains ==
    /\ raw' \in [Devices -> [Epochs -> KeyOrNone]]
    /\ \A d \in Devices, e \in Epochs : e # 0 \/ raw[d][e] # None => raw'[d][e] = raw[d][e]

LEMMA GetsKey ==
    ASSUME TypeOK, NEW d \in Devices, NEW e \in Epochs, raw' = [raw EXCEPT ![d][e] = GroupKey(d, e)]
    PROVE  RawGains
<1>1. /\ GroupKey(d, e) \in KeyOrNone
      /\ e # 0 \/ raw[d][e] # None => GroupKey(d, e) = raw[d][e]
  BY GroupKeyType
<1> DEFINE k == GroupKey(d, e)
<1>2. k \in KeyOrNone /\ raw' = [raw EXCEPT ![d] = [raw[d] EXCEPT ![e] = k]]
  BY <1>1
<1>3. e # 0 \/ raw[d][e] # None => k = raw[d][e]
  BY <1>1
<1> HIDE DEF k
<1>4. raw \in [Devices -> [Epochs -> KeyOrNone]]
  BY DEF TypeOK, KeyOrNone
<1>5. raw[d] \in [Epochs -> KeyOrNone]
  BY <1>4
<1>6. /\ [raw[d] EXCEPT ![e] = k] \in [Epochs -> KeyOrNone]
      /\ \A f \in Epochs : f # e => [raw[d] EXCEPT ![e] = k][f] = raw[d][f]
      /\ [raw[d] EXCEPT ![e] = k][e] = k
  BY <1>2, <1>5
<1>7. raw'[d] = [raw[d] EXCEPT ![e] = k] /\ \A c \in Devices : c # d => raw'[c] = raw[c]
  BY <1>2, <1>4
<1>8. raw' \in [Devices -> [Epochs -> KeyOrNone]]
  BY <1>2, <1>4, <1>6
<1> QED BY <1>3, <1>6, <1>7, <1>8 DEF RawGains

LEMMA SameKeys == ASSUME TypeOK, raw' = raw PROVE RawGains
BY DEF RawGains, TypeOK, KeyOrNone

LEMMA GainKeeps ==
    ASSUME KeyIndInv, TypeOK', RawGains, epoch' = epoch, sent' = sent, overlapped' = overlapped,
           \A d, x \in Devices : \/ rotation'[d][x] = rotation[d][x]
                                 \/ rotation'[d][x].step \notin {"read", "written", "stored"},
           \A d \in Devices : op'[d].step = "commit" => /\ op'[d] = op[d]
                                                        /\ d \in overtaken => d \in overtaken'
    PROVE  KeyInv'
<1>1. /\ \A d \in Devices : epoch[d] \in Epochs
      /\ \A d \in Devices : op[d].epoch \in Epochs
      /\ \A d, x \in Devices : rotation[d][x].epoch \in Epochs
      /\ \A m \in sent : m.by \in Devices /\ m.epoch \in Epochs /\ m.key \in Keys
  BY DEF KeyIndInv, TypeOK
<1>2. None \notin Keys /\ \A e \in Epochs : e > 0 => e # 0
  BY BoundAssumption DEF None, Keys, Epochs, BoundAssumption
<1>3. EpochHasKey'
  BY <1>1, <1>2 DEF KeyIndInv, KeyInv, EpochHasKey, CurrentKey, RawGains
<1>4. OwnTextReadable'
  BY <1>1, <1>2 DEF KeyIndInv, KeyInv, OwnTextReadable, RawGains
<1>5. RotationsRise'
  BY DEF KeyIndInv, KeyInv, RotationsRise
<1>6. WrittenIsHere'
  BY <1>1 DEF KeyIndInv, KeyInv, WrittenIsHere, RawGains
<1>7. CommitIsHere'
  BY <1>1 DEF KeyIndInv, KeyInv, CommitIsHere, RawGains
<1>8. SlotIsFree'
  <2>1. \A d, x \in Devices : rotation'[d][x].step = "read" =>
          rotation'[d][x] = rotation[d][x] /\ rotation[d][x].epoch # 0
    BY <1>1, <1>2 DEF KeyIndInv, KeyInv, RotationsRise
  <2>2. \A d, x \in Devices : rotation[d][x].epoch # 0 => raw'[d][rotation[d][x].epoch] = raw[d][rotation[d][x].epoch]
    BY <1>1 DEF RawGains
  <2> QED BY <2>1, <2>2 DEF KeyIndInv, KeyInv, SlotIsFree
<1> QED BY <1>3, <1>4, <1>5, <1>6, <1>7, <1>8 DEF KeyInv

-----------------------------------------------------------------------------
(* The initial states                                                      *)

LEMMA Constants ==
    /\ 0 \in Epochs /\ 1 \in Keys /\ None \notin Keys /\ MaxKeys \in Nat \ {0} /\ MaxEpoch \in Nat
    /\ MaxOpens \in Nat /\ MaxEvents \in Nat /\ \A d \in Devices : UserOf[d] \in Users
    /\ Epochs \subseteq Nat
BY BoundAssumption, UserAssumption DEF BoundAssumption, UserAssumption, Epochs, Keys, None

LEMMA InitKeyInv == ASSUME Init PROVE KeyIndInv
<1>1. raw \in [Devices -> [Epochs -> KeyOrNone]]
  BY Constants DEF Init, KeyOrNone, None
<1>2. userShare \in [Users -> [key : KeyOrNone, from : Users \cup {None}]]
  <2>1. CASE userShare = [u \in Users |-> IF u = UserOf[Creator] THEN [key |-> 1, from |-> u] ELSE NoShare]
    BY <2>1, Constants DEF KeyOrNone, NoShare, None
  <2>2. CASE userShare \in [Users -> [key : {1}, from : Users]]
    BY <2>2, Constants DEF KeyOrNone
  <2> QED BY <2>1, <2>2 DEF Init
<1>3. op \in [Devices -> OpType]
  BY Constants DEF Init, Idle, OpType, KeyOrNone
<1>4. rotation \in [Devices -> [Devices -> RotationType]]
  BY Constants DEF Init, Still, RotationType, KeyOrNone
<1>5. epoch \in [Devices -> Epochs] /\ made \in 0..MaxKeys /\ opens \in 0..MaxOpens /\ events \in 0..MaxEvents
  BY Constants DEF Init
<1>6. TypeOK
  BY <1>1, <1>2, <1>3, <1>4, <1>5 DEF Init, TypeOK, OpType, RotationType, KeyOrNone
<1>7. /\ \A d \in Devices : epoch[d] = 0 /\ op[d].step = "idle"
      /\ \A d, x \in Devices : rotation[d][x].step = "none"
      /\ sent = {}
  BY DEF Init, Idle, Still
<1> QED BY <1>6, <1>7 DEF KeyIndInv, KeyInv, EpochHasKey, OwnTextReadable, RotationsRise, WrittenIsHere, CommitIsHere, SlotIsFree

-----------------------------------------------------------------------------
(* The steps of syncEpoch                                                  *)

\* The types as the steps need them.
LEMMA Entries ==
    ASSUME TypeOK, NEW d \in Devices
    PROVE  /\ op \in [Devices -> OpType] /\ op[d] \in OpType /\ epoch[d] \in Epochs
           /\ raw \in [Devices -> [Epochs -> KeyOrNone]] /\ \A e \in Epochs : raw[d][e] \in KeyOrNone
           /\ rotation \in [Devices -> [Devices -> RotationType]]
           /\ \A x \in Devices : rotation[d][x] \in RotationType
BY DEF TypeOK, OpType, RotationType, KeyOrNone

\* A step of one operation that does not leave it at its write.
LEMMA OpKeeps ==
    ASSUME KeyIndInv, NEW d \in Devices, NEW r \in OpType, Does(d, r), r.step # "commit", TypeOK', RawGains,
           epoch' = epoch, sent' = sent, overlapped' = overlapped, rotation' = rotation,
           overtaken' = overtaken
    PROVE  KeyIndInv'
<1>1. op'[d] = r /\ \A c \in Devices : c # d => op'[c] = op[c]
  BY OpSet DEF KeyIndInv
<1> QED BY <1>1, GainKeeps DEF KeyIndInv

LEMMA OpenStep == ASSUME KeyIndInv, NEW d \in Devices, Open(d) PROVE KeyIndInv'
<1> DEFINE r == [Idle EXCEPT !.step = "asking"]
<1>1. r \in OpType /\ r.step # "commit"
  BY Constants DEF Idle, OpType, KeyOrNone
<1>2. /\ Does(d, r) /\ opens < MaxOpens /\ opens' = opens + 1 /\ selected' = selected \cup {d}
      /\ UNCHANGED <<keys, server, rotation, asks, ready, asked, sent, made, events, ghosts>>
  BY DEF Open
<1> HIDE DEF r
<1>3. TypeOK'
  <2>1. op' \in [Devices -> OpType]
    BY <1>1, <1>2, OpSet DEF KeyIndInv
  <2>2. opens' \in 0..MaxOpens
    BY <1>2, Constants DEF KeyIndInv, TypeOK
  <2> QED BY <1>2, <2>1, <2>2 DEF KeyIndInv, TypeOK, OpType, KeyOrNone, keys, server, ghosts
<1> QED BY <1>1, <1>2, <1>3, OpKeeps, SameKeys DEF KeyIndInv, keys, ghosts

LEMMA ReadyStep == ASSUME KeyIndInv, NEW d \in Devices, ReadyArrives(d) PROVE KeyIndInv'
<1> DEFINE r == [Idle EXCEPT !.step = "asking", !.why = "ready"]
<1>1. r \in OpType /\ r.step # "commit"
  BY Constants DEF Idle, OpType, KeyOrNone
<1>2. /\ op' = op \/ Does(d, r)
      /\ ready' = ready \ {d} /\ asked' = asked \ {d}
      /\ UNCHANGED <<opens, keys, server, rotation, asks, selected, sent, made, events, ghosts>>
  BY DEF ReadyArrives
<1> HIDE DEF r
<1>3. TypeOK'
  <2>1. op' \in [Devices -> OpType]
    BY <1>1, <1>2, OpSet, Entries DEF KeyIndInv
  <2> QED BY <1>2, <2>1 DEF KeyIndInv, TypeOK, OpType, KeyOrNone, keys, server, ghosts
<1>4. RawGains /\ epoch' = epoch /\ sent' = sent /\ overlapped' = overlapped /\ rotation' = rotation
      /\ overtaken' = overtaken
  BY <1>2, SameKeys DEF KeyIndInv, keys, ghosts
<1>5. CASE op' = op
  BY <1>3, <1>4, <1>5, GainKeeps DEF KeyIndInv
<1>6. CASE Does(d, r)
  BY <1>1, <1>3, <1>4, <1>6, OpKeeps
<1> QED BY <1>2, <1>5, <1>6

LEMMA DecryptStep == ASSUME KeyIndInv, NEW d \in Devices, NEW m \in sent, Decrypt(d, m) PROVE KeyIndInv'
<1>1. /\ raw' = [raw EXCEPT ![d][m.epoch] = GroupKey(d, m.epoch)] /\ m.epoch \in Epochs
      /\ UNCHANGED <<opens, epoch, server, op, rotation, frames, sent, made, events, ghosts>>
  BY DEF Decrypt, KeyIndInv, TypeOK
<1>2. RawGains
  BY <1>1, GetsKey DEF KeyIndInv
<1>3. TypeOK'
  BY <1>1, <1>2 DEF KeyIndInv, TypeOK, RawGains, KeyOrNone, server, frames, ghosts
<1> QED BY <1>1, <1>2, <1>3, GainKeeps DEF KeyIndInv, ghosts

LEMMA EpochAnsweredStep == ASSUME KeyIndInv, NEW d \in Devices, EpochAnswered(d) PROVE KeyIndInv'
<1>1. PICK r \in OpType : Does(d, r) /\ r.step \in {"compare", "last"}
  <2>1. \/ \E e \in Epochs : Does(d, [op[d] EXCEPT !.step = "compare", !.epoch = e])
        \/ Does(d, [op[d] EXCEPT !.step = "last"])
    BY DEF EpochAnswered
  <2>2. op[d] \in OpType
    BY Entries DEF KeyIndInv
  <2>3. ASSUME NEW e \in Epochs
        PROVE  LET r == [op[d] EXCEPT !.step = "compare", !.epoch = e] IN r \in OpType /\ r.step = "compare"
    BY <2>2 DEF OpType
  <2>4. LET r == [op[d] EXCEPT !.step = "last"] IN r \in OpType /\ r.step = "last"
    BY <2>2 DEF OpType
  <2> QED BY <2>1, <2>3, <2>4
<1>2. UNCHANGED <<opens, keys, server, rotation, frames, sent, made, events, ghosts>>
  BY DEF EpochAnswered
<1>3. TypeOK'
  <2>1. op' \in [Devices -> OpType]
    BY <1>1, OpSet DEF KeyIndInv
  <2> QED BY <1>2, <2>1 DEF KeyIndInv, TypeOK, OpType, KeyOrNone, keys, server, frames, ghosts
<1> QED BY <1>1, <1>2, <1>3, OpKeeps, SameKeys DEF KeyIndInv, keys, ghosts

\* The comparison reads the key; from here the write is sound.
LEMMA CompareStep == ASSUME KeyIndInv, NEW d \in Devices, Compare(d) PROVE KeyIndInv'
<1> DEFINE r == [op[d] EXCEPT !.step = IF Usable(d) THEN "commit" ELSE "last"]
<1>1. op[d] \in OpType /\ op[d].epoch \in Epochs /\ epoch[d] \in Epochs
  BY Entries DEF KeyIndInv, OpType
<1>2. /\ Does(d, r) /\ overtaken' = overtaken \ {d}
      /\ raw' = (IF Usable(d) THEN [raw EXCEPT ![d][op[d].epoch] = GroupKey(d, op[d].epoch)] ELSE raw)
      /\ UNCHANGED <<opens, epoch, server, rotation, frames, sent, made, events, overlapped>>
  BY DEF Compare
<1>3. r \in OpType /\ r.epoch = op[d].epoch /\ r.step = (IF Usable(d) THEN "commit" ELSE "last")
  BY <1>1 DEF OpType
<1> HIDE DEF r
<1>4. op' \in [Devices -> OpType] /\ op'[d] = r /\ \A c \in Devices : c # d => op'[c] = op[c]
  BY <1>2, <1>3, OpSet DEF KeyIndInv
<1>5. RawGains
  BY <1>1, <1>2, GetsKey, SameKeys DEF KeyIndInv
<1>6. TypeOK'
  BY <1>2, <1>4, <1>5 DEF KeyIndInv, TypeOK, OpType, KeyOrNone, RawGains, server, frames
<1>7. Usable(d) => raw'[d][op[d].epoch] # None /\ op[d].epoch > epoch'[d]
  <2>1. ASSUME Usable(d) PROVE raw'[d][op[d].epoch] = GroupKey(d, op[d].epoch)
    <3>1. raw' = [raw EXCEPT ![d][op[d].epoch] = GroupKey(d, op[d].epoch)]
      BY <1>2, <2>1
    <3> DEFINE k == GroupKey(d, op[d].epoch)
               e == op[d].epoch
    <3>2. k \in KeyOrNone /\ e \in Epochs
      BY <1>1, GroupKeyType DEF KeyIndInv
    <3> HIDE DEF k, e
    <3>3. raw' = [raw EXCEPT ![d][e] = k]
      BY <3>1 DEF k, e
    <3>4. raw'[d][e] = k
      BY <3>2, <3>3, RawSet DEF KeyIndInv
    <3> QED BY <3>4 DEF k, e
  <2> QED BY <1>2, <2>1 DEF Usable
<1>8. CommitIsHere'
  <2>1. ASSUME NEW c \in Devices, op'[c].step = "commit"
        PROVE  raw'[c][op'[c].epoch] # None /\ (op'[c].epoch > epoch'[c] \/ c \in overtaken')
    <3>1. CASE c = d
      BY <1>3, <1>4, <1>7, <2>1, <3>1
    <3>2. CASE c # d
      <4>1. op'[c] = op[c] /\ op[c].epoch \in Epochs
        BY <1>4, <3>2, Entries DEF KeyIndInv, OpType
      <4> QED BY <1>2, <1>5, <2>1, <3>2, <4>1 DEF KeyIndInv, KeyInv, CommitIsHere, RawGains
    <3> QED BY <3>1, <3>2
  <2> QED BY <2>1 DEF CommitIsHere
<1>9. KeyInv'
  <2>1. /\ \A c \in Devices : epoch[c] \in Epochs
        /\ \A c, x \in Devices : rotation[c][x].epoch \in Epochs
        /\ \A m \in sent : m.by \in Devices /\ m.epoch \in Epochs /\ m.key \in Keys
    BY DEF KeyIndInv, TypeOK
  <2>2. None \notin Keys /\ \A e \in Epochs : e > 0 => e # 0
    BY Constants
  <2>3. EpochHasKey'
    BY <1>2, <1>5, <2>1, <2>2 DEF KeyIndInv, KeyInv, EpochHasKey, CurrentKey, RawGains
  <2>4. OwnTextReadable'
    BY <1>2, <1>5, <2>1, <2>2 DEF KeyIndInv, KeyInv, OwnTextReadable, RawGains
  <2>5. RotationsRise'
    BY <1>2 DEF KeyIndInv, KeyInv, RotationsRise
  <2>6. WrittenIsHere'
    BY <1>2, <1>5, <2>1 DEF KeyIndInv, KeyInv, WrittenIsHere, RawGains
  <2>7. SlotIsFree'
    BY <1>2, <1>5, <2>1, <2>2 DEF KeyIndInv, KeyInv, SlotIsFree, RotationsRise, RawGains
  <2> QED BY <1>8, <2>3, <2>4, <2>5, <2>6, <2>7 DEF KeyInv
<1> QED BY <1>6, <1>9 DEF KeyIndInv

\* The write of the epoch, whatever has happened since.
LEMMA CommitStep == ASSUME KeyIndInv, NEW d \in Devices, Commit(d) PROVE KeyIndInv'
<1> DEFINE r == [op[d] EXCEPT !.step = "last", !.epoch = 0]
<1>1. op[d] \in OpType /\ op[d].epoch \in Epochs
  BY Entries DEF KeyIndInv, OpType
<1>2. /\ op[d].step = "commit" /\ epoch' = [epoch EXCEPT ![d] = op[d].epoch] /\ Does(d, r)
      /\ UNCHANGED <<opens, raw, server, rotation, frames, sent, made, events, ghosts>>
  BY DEF Commit
<1>3. r \in OpType /\ r.step = "last"
  BY <1>1, Constants DEF OpType
<1> HIDE DEF r
<1>4. op' \in [Devices -> OpType] /\ op'[d] = r /\ \A c \in Devices : c # d => op'[c] = op[c]
  BY <1>2, <1>3, OpSet DEF KeyIndInv
<1>5. epoch' \in [Devices -> Epochs] /\ epoch'[d] = op[d].epoch /\ \A c \in Devices : c # d => epoch'[c] = epoch[c]
  BY <1>1, <1>2 DEF KeyIndInv, TypeOK
<1>6. TypeOK'
  BY <1>2, <1>4, <1>5 DEF KeyIndInv, TypeOK, OpType, KeyOrNone, server, frames, ghosts
<1>7. EpochHasKey'
  BY <1>2, <1>5 DEF KeyIndInv, KeyInv, EpochHasKey, CommitIsHere, CurrentKey
<1>8. CommitIsHere'
  BY <1>2, <1>3, <1>4, <1>5 DEF KeyIndInv, KeyInv, CommitIsHere, ghosts
<1>9. OwnTextReadable' /\ RotationsRise' /\ WrittenIsHere' /\ SlotIsFree'
  BY <1>2 DEF KeyIndInv, KeyInv, OwnTextReadable, RotationsRise, WrittenIsHere, SlotIsFree, ghosts
<1> QED BY <1>6, <1>7, <1>8, <1>9 DEF KeyIndInv, KeyInv

\* Asking for one's own key may bring it.
LEMMA LastStep == ASSUME KeyIndInv, NEW d \in Devices, Last(d) PROVE KeyIndInv'
<1> DEFINE key == GroupKey(d, epoch[d])
           share == [Idle EXCEPT !.step = "sharing", !.key = key, !.epoch = epoch[d], !.to = Users]
<1>1. /\ raw' = [raw EXCEPT ![d][epoch[d]] = key]
      /\ Does(d, share) \/ Does(d, Idle)
      /\ asked' \subseteq asked \cup {d} /\ asks' \subseteq asks \cup (OthersThan(UserOf[d]) \X {UserOf[d]})
      /\ UNCHANGED <<opens, epoch, server, rotation, ready, selected, sent, made, events, ghosts>>
  <2>1. /\ raw' = [raw EXCEPT ![d][epoch[d]] = key]
        /\ UNCHANGED <<opens, epoch, server, rotation, ready, selected, sent, made, events, ghosts>>
    BY DEF Last
  <2>2. CASE key # None
    BY <2>2 DEF Last
  <2>3. CASE key = None
    BY <2>3 DEF Last, RequestOnce
  <2> QED BY <2>1, <2>2, <2>3
<1>2. key \in KeyOrNone /\ epoch[d] \in Epochs
  BY GroupKeyType, Entries DEF KeyIndInv
<1>3. /\ Idle \in OpType /\ share \in OpType /\ Idle.step # "commit" /\ share.step # "commit"
  <2> HIDE DEF key
  <2> QED BY <1>2, Constants DEF Idle, OpType, KeyOrNone
<1>4. RawGains
  BY <1>1, <1>2, GetsKey DEF KeyIndInv
<1> HIDE DEF key, share
<1>5. TypeOK'
  <2>1. op' \in [Devices -> OpType]
    BY <1>1, <1>3, OpSet DEF KeyIndInv
  <2>2. asks' \subseteq Devices \X Users
    <3>1. OthersThan(UserOf[d]) \X {UserOf[d]} \subseteq Devices \X Users
      BY Constants DEF OthersThan
    <3> QED BY <1>1, <3>1 DEF KeyIndInv, TypeOK
  <2> QED BY <1>1, <1>4, <2>1, <2>2 DEF KeyIndInv, TypeOK, OpType, KeyOrNone, RawGains, server, ghosts
<1> QED BY <1>1, <1>3, <1>4, <1>5, OpKeeps DEF ghosts

LEMMA AskStep == ASSUME KeyIndInv, NEW d \in Devices, NEW u \in Users, AskArrives(d, u) PROVE KeyIndInv'
<1> DEFINE key == GroupKey(d, epoch[d])
           share == [Idle EXCEPT !.step = "sharing", !.key = key, !.epoch = epoch[d], !.to = {u}]
<1>1. /\ raw' = [raw EXCEPT ![d][epoch[d]] = key]
      /\ Does(d, share) \/ op' = op
      /\ asks' = asks \ {<<d, u>>}
      /\ UNCHANGED <<opens, epoch, server, rotation, ready, asked, selected, sent, made, events, ghosts>>
  BY DEF AskArrives
<1>2. key \in KeyOrNone /\ epoch[d] \in Epochs
  BY GroupKeyType, Entries DEF KeyIndInv
<1>3. share \in OpType /\ share.step # "commit"
  <2> HIDE DEF key
  <2> QED BY <1>2, Constants DEF Idle, OpType, KeyOrNone
<1>4. RawGains
  BY <1>1, <1>2, GetsKey DEF KeyIndInv
<1> HIDE DEF key, share
<1>5. TypeOK'
  <2>1. op' \in [Devices -> OpType]
    BY <1>1, <1>3, OpSet, Entries DEF KeyIndInv
  <2> QED BY <1>1, <1>4, <2>1 DEF KeyIndInv, TypeOK, OpType, KeyOrNone, RawGains, server, ghosts
<1>6. CASE Does(d, share)
  BY <1>1, <1>3, <1>4, <1>5, <1>6, OpKeeps DEF ghosts
<1>7. CASE op' = op
  BY <1>1, <1>4, <1>5, <1>7, GainKeeps DEF KeyIndInv, ghosts
<1> QED BY <1>1, <1>6, <1>7

-----------------------------------------------------------------------------
(* Shares, frames, devices                                                 *)

LEMMA UploadStep == ASSUME KeyIndInv, NEW d \in Devices, Upload(d) PROVE KeyIndInv'
<1> DEFINE r == op[d]
           reached == {x \in Devices : UserOf[x] \in r.to}
<1>1. r \in OpType /\ Idle \in OpType /\ Idle.step # "commit" /\ Sharer(d) \in Users
  BY Entries, Constants DEF KeyIndInv, Idle, OpType, KeyOrNone, Sharer
<1>2. /\ Does(d, Idle)
      /\ userShare' = [u \in Users |-> IF u \in r.to THEN [key |-> r.key, from |-> Sharer(d)] ELSE userShare[u]]
      /\ deviceShare' = deviceShare \cup ((reached \cap registered) \X ({r.epoch} \ {0}))
      /\ ready' = ready \cup (reached \cap selected)
      /\ UNCHANGED <<opens, keys, registered, rotation, asks, asked, selected, sent, made, events, ghosts>>
  BY DEF Upload
<1>3. TypeOK'
  <2>1. op' \in [Devices -> OpType]
    BY <1>1, <1>2, OpSet DEF KeyIndInv
  <2>2. userShare' \in [Users -> [key : KeyOrNone, from : Users \cup {None}]]
    BY <1>1, <1>2 DEF KeyIndInv, TypeOK, OpType, KeyOrNone
  <2>3. deviceShare' \subseteq Devices \X (Epochs \ {0})
    BY <1>1, <1>2 DEF KeyIndInv, TypeOK, OpType
  <2>4. ready' \subseteq Devices
    BY <1>2 DEF KeyIndInv, TypeOK
  <2> QED BY <1>2, <2>1, <2>2, <2>3, <2>4 DEF KeyIndInv, TypeOK, OpType, KeyOrNone, keys, ghosts
<1> QED BY <1>1, <1>2, <1>3, OpKeeps, SameKeys DEF KeyIndInv, keys, ghosts

LEMMA UploadLostStep == ASSUME KeyIndInv, NEW d \in Devices, NEW u \in Users, UploadLost(d, u) PROVE KeyIndInv'
<1> DEFINE fewer == [op[d] EXCEPT !.to = @ \ {u}]
<1>1. op[d] \in OpType
  BY Entries DEF KeyIndInv
<1>2. /\ op[d].step = "sharing" /\ (Does(d, Idle) \/ Does(d, fewer))
      /\ events < MaxEvents /\ events' = events + 1
      /\ UNCHANGED <<opens, keys, server, rotation, frames, sent, made, ghosts>>
  BY DEF UploadLost, Event
<1>3. Idle \in OpType /\ Idle.step # "commit" /\ fewer \in OpType /\ fewer.step # "commit"
  BY <1>1, <1>2, Constants DEF Idle, OpType, KeyOrNone
<1> HIDE DEF fewer
<1>4. TypeOK'
  <2>1. op' \in [Devices -> OpType]
    BY <1>2, <1>3, OpSet DEF KeyIndInv
  <2>2. events' \in 0..MaxEvents
    BY <1>2, Constants DEF KeyIndInv, TypeOK
  <2> QED BY <1>2, <2>1, <2>2 DEF KeyIndInv, TypeOK, OpType, KeyOrNone, keys, server, frames, ghosts
<1> QED BY <1>2, <1>3, <1>4, OpKeeps, SameKeys DEF KeyIndInv, keys, ghosts

LEMMA FrameLostStep == ASSUME KeyIndInv, FrameLost PROVE KeyIndInv'
<1>1. /\ events < MaxEvents /\ events' = events + 1
      /\ asks' \subseteq asks /\ ready' \subseteq ready
      /\ \/ rotation' = rotation
         \/ \E d, x \in Devices : Turns(d, x, Still)
      /\ UNCHANGED <<opens, keys, server, op, asked, selected, sent, made, ghosts>>
  BY DEF FrameLost, Event, Turns
<1>2. Still \in RotationType /\ Still.step = "none"
  BY Constants DEF Still, RotationType, KeyOrNone
<1>3. /\ rotation' \in [Devices -> [Devices -> RotationType]]
      /\ \A d, x \in Devices : rotation'[d][x] = rotation[d][x] \/ rotation'[d][x].step = "none"
  <2>1. CASE rotation' = rotation
    BY <2>1 DEF KeyIndInv, TypeOK, RotationType, KeyOrNone
  <2>2. CASE \E d, x \in Devices : Turns(d, x, Still)
    <3>1. PICK d \in Devices, x \in Devices : Turns(d, x, Still)
      BY <2>2
    <3>2. /\ rotation' \in [Devices -> [Devices -> RotationType]] /\ rotation'[d][x] = Still
          /\ \A c, y \in Devices : c # d \/ y # x => rotation'[c][y] = rotation[c][y]
      BY <1>2, <3>1, RotationSet DEF KeyIndInv
    <3> QED BY <1>2, <3>2
  <2> QED BY <1>1, <2>1, <2>2
<1>4. TypeOK'
  <2>1. events' \in 0..MaxEvents
    BY <1>1, Constants DEF KeyIndInv, TypeOK
  <2> QED BY <1>1, <1>3, <2>1 DEF KeyIndInv, TypeOK, RotationType, KeyOrNone, keys, server, ghosts
<1> QED BY <1>1, <1>3, <1>4, GainKeeps, SameKeys DEF KeyIndInv, keys, ghosts

LEMMA RemoveStep == ASSUME KeyIndInv, NEW x \in Devices, Remove(x) PROVE KeyIndInv'
<1> DEFINE r == [Still EXCEPT !.step = "frame"]
<1>1. /\ events < MaxEvents /\ events' = events + 1
      /\ registered' = registered \ {x} /\ deviceShare' = {y \in deviceShare : y[1] # x}
      /\ rotation' = [d \in Devices |-> IF UserOf[d] = UserOf[x] THEN [rotation[d] EXCEPT ![x] = r] ELSE rotation[d]]
      /\ UNCHANGED <<opens, keys, userShare, op, frames, sent, made, ghosts>>
  BY DEF Remove, Event
<1>2. r \in RotationType /\ r.step = "frame"
  BY Constants DEF Still, RotationType, KeyOrNone
<1> HIDE DEF r
<1>3. \A d \in Devices : rotation[d] \in [Devices -> RotationType]
  BY DEF KeyIndInv, TypeOK, RotationType, KeyOrNone
<1>4. /\ rotation' \in [Devices -> [Devices -> RotationType]]
      /\ \A d, y \in Devices : rotation'[d][y] = rotation[d][y] \/ rotation'[d][y].step = "frame"
  BY <1>1, <1>2, <1>3
<1>5. TypeOK'
  <2>1. events' \in 0..MaxEvents
    BY <1>1, Constants DEF KeyIndInv, TypeOK
  <2> QED BY <1>1, <1>4, <2>1 DEF KeyIndInv, TypeOK, RotationType, KeyOrNone, keys, frames, ghosts
<1> QED BY <1>1, <1>4, <1>5, GainKeeps, SameKeys DEF KeyIndInv, keys, ghosts

LEMMA ReregisterStep == ASSUME KeyIndInv, NEW x \in Devices, Reregister(x) PROVE KeyIndInv'
<1>1. /\ events < MaxEvents /\ events' = events + 1 /\ registered' = registered \cup {x}
      /\ UNCHANGED <<opens, keys, userShare, deviceShare, op, rotation, frames, sent, made, ghosts>>
  BY DEF Reregister, Event
<1>2. TypeOK'
  <2>1. events' \in 0..MaxEvents
    BY <1>1, Constants DEF KeyIndInv, TypeOK
  <2> QED BY <1>1, <2>1 DEF KeyIndInv, TypeOK, keys, frames, ghosts
<1> QED BY <1>1, <1>2, GainKeeps, SameKeys DEF KeyIndInv, keys, ghosts

-----------------------------------------------------------------------------
(* Rotations                                                               *)

\* A rotation of d for x takes the record r.
LEMMA RotationReadsStep ==
    ASSUME KeyIndInv, NEW d \in Devices, NEW x \in Devices, RotationReads(d, x)
    PROVE  KeyIndInv'
<1>1. /\ rotation[d][x].step = "frame" /\ epoch[d] \in Epochs
      /\ UNCHANGED <<opens, keys, server, op, frames, sent, made, events, overtaken>>
  BY DEF RotationReads, KeyIndInv, TypeOK
<1>2. CASE Turns(d, x, Still) /\ overlapped' = overlapped
  <2>1. Still \in RotationType /\ Still.step = "none"
    BY Constants DEF Still, RotationType, KeyOrNone
  <2>2. /\ rotation' \in [Devices -> [Devices -> RotationType]] /\ rotation'[d][x] = Still
        /\ \A c, y \in Devices : c # d \/ y # x => rotation'[c][y] = rotation[c][y]
    BY <1>2, <2>1, RotationSet DEF KeyIndInv
  <2>3. TypeOK'
    BY <1>1, <1>2, <2>2 DEF KeyIndInv, TypeOK, RotationType, KeyOrNone, keys, server, frames
  <2>4. \A c, y \in Devices : rotation'[c][y] = rotation[c][y] \/ rotation'[c][y].step = "none"
    BY <2>1, <2>2
  <2> QED BY <1>1, <1>2, <2>3, <2>4, GainKeeps, SameKeys DEF KeyIndInv, keys
<1>3. CASE ~(Turns(d, x, Still) /\ overlapped' = overlapped)
  <2> DEFINE r == [step |-> "read", epoch |-> epoch[d] + 1, key |-> None]
  <2>1. /\ epoch[d] # MaxEpoch /\ Turns(d, x, r)
        /\ overlapped' = (IF Begun(d) THEN overlapped \cup {d} ELSE overlapped)
    BY <1>3 DEF RotationReads
  <2>2. epoch[d] + 1 \in Epochs /\ epoch[d] + 1 > 0
    BY <1>1, <2>1, Constants DEF Epochs
  <2>3. r \in RotationType /\ r.step = "read" /\ r.epoch = epoch[d] + 1
    BY <2>2 DEF RotationType, KeyOrNone
  <2> HIDE DEF r
  <2>4. /\ rotation' \in [Devices -> [Devices -> RotationType]] /\ rotation'[d][x] = r
        /\ \A c, y \in Devices : c # d \/ y # x => rotation'[c][y] = rotation[c][y]
    BY <2>1, <2>3, RotationSet DEF KeyIndInv
  <2>5. overlapped \subseteq overlapped' /\ overlapped' \subseteq Devices
    BY <2>1 DEF KeyIndInv, TypeOK
  <2>6. TypeOK'
    BY <1>1, <2>4, <2>5 DEF KeyIndInv, TypeOK, RotationType, KeyOrNone, keys, server, frames
  <2>7. EpochHasKey' /\ OwnTextReadable' /\ CommitIsHere'
    BY <1>1, <2>5 DEF KeyIndInv, KeyInv, EpochHasKey, OwnTextReadable, CommitIsHere, CurrentKey, keys
  <2>8. RotationsRise' /\ WrittenIsHere'
    <3>1. raw' = raw
      BY <1>1 DEF keys
    <3>2. ASSUME NEW c \in Devices, NEW y \in Devices
          PROVE  /\ rotation'[c][y].step \in {"read", "written", "stored"} => rotation'[c][y].epoch > 0
                 /\ rotation'[c][y].step = "written" => raw[c][rotation'[c][y].epoch] # None
      <4>1. CASE c = d /\ y = x
        BY <2>2, <2>3, <2>4, <4>1
      <4>2. CASE c # d \/ y # x
        BY <2>4, <4>2 DEF KeyIndInv, KeyInv, RotationsRise, WrittenIsHere
      <4> QED BY <4>1, <4>2
    <3> QED BY <3>1, <3>2 DEF RotationsRise, WrittenIsHere
  <2>9. SlotIsFree'
    <3> SUFFICES ASSUME NEW c \in Devices, c \notin overlapped', NEW y \in Devices, rotation'[c][y].step = "read"
                 PROVE  /\ raw'[c][rotation'[c][y].epoch] = None
                        /\ \A z \in Devices \ {y} :
                             rotation'[c][z].step = "read" => rotation'[c][z].epoch # rotation'[c][y].epoch
      BY DEF SlotIsFree
    <3>1. raw' = raw /\ c \notin overlapped
      BY <1>1, <2>5 DEF keys
    <3>2. CASE c # d
      <4>1. \A z \in Devices : rotation'[c][z] = rotation[c][z]
        BY <2>4, <3>2
      <4>2. /\ raw[c][rotation[c][y].epoch] = None
            /\ \A z \in Devices \ {y} : rotation[c][z].step = "read" => rotation[c][z].epoch # rotation[c][y].epoch
        BY <3>1, <4>1 DEF KeyIndInv, KeyInv, SlotIsFree
      <4> QED BY <3>1, <4>1, <4>2
    <3>3. CASE c = d
      <4>1. /\ raw[d][epoch[d] + 1] = None
            /\ \A z \in Devices : rotation[d][z].step = "read" => rotation[d][z].epoch # epoch[d] + 1
        BY <2>1, <3>3 DEF Begun
      <4>2. CASE y = x
        BY <2>3, <2>4, <3>1, <3>3, <4>1, <4>2
      <4>3. CASE y # x
        <5>1. rotation'[d][y] = rotation[d][y] /\ rotation[d][y].step = "read"
          BY <2>4, <3>3, <4>3
        <5>2. /\ raw[d][rotation[d][y].epoch] = None
              /\ \A z \in Devices \ {y} : rotation[d][z].step = "read" => rotation[d][z].epoch # rotation[d][y].epoch
          BY <3>1, <3>3, <5>1 DEF KeyIndInv, KeyInv, SlotIsFree
        <5> QED BY <2>3, <2>4, <3>1, <3>3, <4>1, <5>1, <5>2
      <4> QED BY <4>2, <4>3
    <3> QED BY <3>2, <3>3
  <2> QED BY <2>6, <2>7, <2>8, <2>9 DEF KeyIndInv, KeyInv
<1> QED BY <1>2, <1>3

\* The one write that may replace a key: of an epoch no text is written in yet,
\* unless the device began two rotations from one epoch.
LEMMA RotationWritesStep ==
    ASSUME KeyIndInv, NEW d \in Devices, NEW x \in Devices, RotationWrites(d, x)
    PROVE  KeyIndInv'
<1> DEFINE e == rotation[d][x].epoch
           k == made + 1
           r == [rotation[d][x] EXCEPT !.step = "written", !.key = k]
<1>1. /\ rotation[d][x].step = "read" /\ made < MaxKeys /\ made' = k
      /\ raw' = [raw EXCEPT ![d][e] = k] /\ Turns(d, x, r)
      /\ UNCHANGED <<opens, epoch, server, op, frames, sent, events, ghosts>>
  BY DEF RotationWrites, NewSlot
<1>2. e \in Epochs /\ e > 0 /\ rotation[d][x] \in RotationType
  BY <1>1, Entries DEF KeyIndInv, KeyInv, RotationsRise, RotationType
<1>3. k \in Keys /\ k \in 0..MaxKeys /\ k # None /\ k \in KeyOrNone
  BY <1>1, Constants DEF KeyIndInv, TypeOK, Keys, None, KeyOrNone
<1> HIDE DEF k
<1>4. r \in RotationType /\ r.step = "written" /\ r.epoch = e
  BY <1>2, <1>3 DEF RotationType
<1> HIDE DEF e, r
<1>5. /\ rotation' \in [Devices -> [Devices -> RotationType]] /\ rotation'[d][x] = r
      /\ \A c, y \in Devices : c # d \/ y # x => rotation'[c][y] = rotation[c][y]
  BY <1>1, <1>4, RotationSet DEF KeyIndInv
<1>6. /\ raw' \in [Devices -> [Epochs -> KeyOrNone]] /\ raw'[d][e] = k
      /\ \A c \in Devices, f \in Epochs : c # d \/ f # e => raw'[c][f] = raw[c][f]
  <2>1. raw \in [Devices -> [Epochs -> KeyOrNone]] /\ raw[d] \in [Epochs -> KeyOrNone]
    BY Entries DEF KeyIndInv
  <2>2. raw' = [raw EXCEPT ![d] = [raw[d] EXCEPT ![e] = k]]
    BY <1>1
  <2>3. /\ [raw[d] EXCEPT ![e] = k] \in [Epochs -> KeyOrNone]
        /\ [raw[d] EXCEPT ![e] = k][e] = k
        /\ \A f \in Epochs : f # e => [raw[d] EXCEPT ![e] = k][f] = raw[d][f]
    BY <1>2, <1>3, <2>1
  <2>4. raw'[d] = [raw[d] EXCEPT ![e] = k] /\ \A c \in Devices : c # d => raw'[c] = raw[c]
    BY <2>1, <2>2
  <2>5. raw' \in [Devices -> [Epochs -> KeyOrNone]]
    BY <2>1, <2>2, <2>3
  <2> QED BY <2>3, <2>4, <2>5
<1>7. TypeOK'
  BY <1>1, <1>3, <1>5, <1>6 DEF KeyIndInv, TypeOK, RotationType, KeyOrNone, server, frames, ghosts
<1>8. /\ \A c \in Devices : epoch[c] \in Epochs /\ op[c].epoch \in Epochs
      /\ \A c, y \in Devices : rotation[c][y].epoch \in Epochs
      /\ \A m \in sent : m.by \in Devices /\ m.epoch \in Epochs /\ m.key \in Keys
      /\ None \notin Keys
  BY Constants DEF KeyIndInv, TypeOK
<1>9. \A c \in Devices, f \in Epochs : raw[c][f] # None => raw'[c][f] # None
  BY <1>3, <1>6
<1>10. EpochHasKey' /\ CommitIsHere' /\ RotationsRise'
  <2>1. EpochHasKey'
    BY <1>1, <1>8, <1>9 DEF KeyIndInv, KeyInv, EpochHasKey, CurrentKey
  <2>2. CommitIsHere'
    BY <1>1, <1>8, <1>9 DEF KeyIndInv, KeyInv, CommitIsHere, ghosts
  <2>3. RotationsRise'
    <3> SUFFICES ASSUME NEW c \in Devices, NEW y \in Devices,
                        rotation'[c][y].step \in {"read", "written", "stored"}
                 PROVE  rotation'[c][y].epoch > 0
      BY DEF RotationsRise
    <3>1. CASE c = d /\ y = x
      BY <1>2, <1>4, <1>5, <3>1
    <3>2. CASE c # d \/ y # x
      BY <1>5, <3>2 DEF KeyIndInv, KeyInv, RotationsRise
    <3> QED BY <3>1, <3>2
  <2> QED BY <2>1, <2>2, <2>3
<1>11. WrittenIsHere'
  <2> SUFFICES ASSUME NEW c \in Devices, NEW y \in Devices, rotation'[c][y].step = "written"
               PROVE  raw'[c][rotation'[c][y].epoch] # None
    BY DEF WrittenIsHere
  <2>1. CASE c = d /\ y = x
    BY <1>3, <1>4, <1>5, <1>6, <2>1
  <2>2. CASE c # d \/ y # x
    <3>1. rotation'[c][y] = rotation[c][y]
      BY <1>5, <2>2
    <3>2. raw[c][rotation[c][y].epoch] # None
      BY <3>1 DEF KeyIndInv, KeyInv, WrittenIsHere
    <3> QED BY <1>8, <1>9, <3>1, <3>2
  <2> QED BY <2>1, <2>2
<1>12. d \notin overlapped => raw[d][e] = None
  BY <1>1 DEF KeyIndInv, KeyInv, SlotIsFree, e
<1>13. OwnTextReadable'
  BY <1>1, <1>6, <1>8, <1>12 DEF KeyIndInv, KeyInv, OwnTextReadable, ghosts
<1>14. SlotIsFree'
  <2> SUFFICES ASSUME NEW c \in Devices, c \notin overlapped, NEW y \in Devices, rotation'[c][y].step = "read"
               PROVE  /\ raw'[c][rotation'[c][y].epoch] = None
                      /\ \A z \in Devices \ {y} :
                           rotation'[c][z].step = "read" => rotation'[c][z].epoch # rotation'[c][y].epoch
    BY <1>1 DEF SlotIsFree, ghosts
  <2>1. c # d \/ y # x
    BY <1>4, <1>5
  <2>2. rotation'[c][y] = rotation[c][y]
    BY <1>5, <2>1
  <2>3. \A z \in Devices : rotation'[c][z].step = "read" => rotation'[c][z] = rotation[c][z]
    BY <1>4, <1>5
  <2>4. /\ raw[c][rotation[c][y].epoch] = None
        /\ \A z \in Devices \ {y} : rotation[c][z].step = "read" => rotation[c][z].epoch # rotation[c][y].epoch
    BY <2>2 DEF KeyIndInv, KeyInv, SlotIsFree
  <2>5. c # d \/ rotation[c][y].epoch # e
    BY <1>1, <2>1, <2>4 DEF e
  <2>6. raw'[c][rotation[c][y].epoch] = raw[c][rotation[c][y].epoch]
    BY <1>6, <1>8, <2>5
  <2> QED BY <2>2, <2>3, <2>4, <2>6
<1> QED BY <1>7, <1>10, <1>11, <1>13, <1>14 DEF KeyIndInv, KeyInv

\* The epoch follows the key.
LEMMA RotationMovesStep ==
    ASSUME KeyIndInv, NEW d \in Devices, NEW x \in Devices, RotationMoves(d, x)
    PROVE  KeyIndInv'
<1> DEFINE e == rotation[d][x].epoch
           r == [rotation[d][x] EXCEPT !.step = "stored"]
<1>1. /\ rotation[d][x].step = "written" /\ Turns(d, x, r)
      /\ epoch' = (IF e >= epoch[d] THEN [epoch EXCEPT ![d] = e] ELSE epoch)
      /\ overtaken' = (IF op[d].step = "commit" THEN overtaken \cup {d} ELSE overtaken)
      /\ UNCHANGED <<opens, raw, server, op, frames, sent, made, events, overlapped>>
  BY DEF RotationMoves
<1>2. e \in Epochs /\ e > 0 /\ rotation[d][x] \in RotationType /\ raw[d][e] # None
  BY <1>1, Entries DEF KeyIndInv, KeyInv, RotationsRise, WrittenIsHere, RotationType
<1>3. r \in RotationType /\ r.step = "stored" /\ r.epoch = e
  BY <1>2 DEF RotationType
<1> HIDE DEF e, r
<1>4. /\ rotation' \in [Devices -> [Devices -> RotationType]] /\ rotation'[d][x] = r
      /\ \A c, y \in Devices : c # d \/ y # x => rotation'[c][y] = rotation[c][y]
  BY <1>1, <1>3, RotationSet DEF KeyIndInv
<1>5. /\ epoch' \in [Devices -> Epochs] /\ epoch'[d] \in {e, epoch[d]}
      /\ \A c \in Devices : c # d => epoch'[c] = epoch[c]
  BY <1>1, <1>2 DEF KeyIndInv, TypeOK
<1>6. /\ overtaken \subseteq overtaken' /\ overtaken' \subseteq Devices
      /\ op[d].step = "commit" => d \in overtaken'
  BY <1>1 DEF KeyIndInv, TypeOK
<1>7. TypeOK'
  BY <1>1, <1>4, <1>5, <1>6 DEF KeyIndInv, TypeOK, RotationType, KeyOrNone, server, frames
<1>8. EpochHasKey'
  BY <1>1, <1>2, <1>5 DEF KeyIndInv, KeyInv, EpochHasKey, CurrentKey
<1>9. CommitIsHere'
  BY <1>1, <1>5, <1>6 DEF KeyIndInv, KeyInv, CommitIsHere
<1>10. OwnTextReadable'
  BY <1>1 DEF KeyIndInv, KeyInv, OwnTextReadable
<1>11. RotationsRise' /\ WrittenIsHere'
  <2> SUFFICES ASSUME NEW c \in Devices, NEW y \in Devices
               PROVE  /\ rotation'[c][y].step \in {"read", "written", "stored"} => rotation'[c][y].epoch > 0
                      /\ rotation'[c][y].step = "written" => raw'[c][rotation'[c][y].epoch] # None
    BY DEF RotationsRise, WrittenIsHere
  <2>1. CASE c = d /\ y = x
    BY <1>2, <1>3, <1>4, <2>1
  <2>2. CASE c # d \/ y # x
    <3>1. rotation'[c][y] = rotation[c][y] /\ raw' = raw
      BY <1>1, <1>4, <2>2
    <3> QED BY <3>1 DEF KeyIndInv, KeyInv, RotationsRise, WrittenIsHere
  <2> QED BY <2>1, <2>2
<1>12. \A c, y \in Devices : rotation'[c][y].step = "read" => rotation'[c][y] = rotation[c][y]
  BY <1>3, <1>4
<1>13. SlotIsFree'
  BY <1>1, <1>12 DEF KeyIndInv, KeyInv, SlotIsFree
<1> QED BY <1>7, <1>8, <1>9, <1>10, <1>11, <1>13 DEF KeyIndInv, KeyInv

LEMMA RotationSharesStep ==
    ASSUME KeyIndInv, NEW d \in Devices, NEW x \in Devices, RotationShares(d, x)
    PROVE  KeyIndInv'
<1>1. /\ rotation[d][x].step = "stored" /\ Turns(d, x, Still)
      /\ \E targets \in SUBSET Devices :
           deviceShare' = deviceShare \cup (targets \X {rotation[d][x].epoch})
      /\ ready' \subseteq ready \cup selected
      /\ UNCHANGED <<opens, keys, userShare, registered, op, asks, asked, selected, sent, made, events, ghosts>>
  BY DEF RotationShares, KeyIndInv, TypeOK
<1>2. rotation[d][x].epoch \in Epochs \ {0}
  BY <1>1, Entries DEF KeyIndInv, KeyInv, RotationsRise, RotationType
<1>3. Still \in RotationType /\ Still.step = "none"
  BY Constants DEF Still, RotationType, KeyOrNone
<1>4. /\ rotation' \in [Devices -> [Devices -> RotationType]] /\ rotation'[d][x] = Still
      /\ \A c, y \in Devices : c # d \/ y # x => rotation'[c][y] = rotation[c][y]
  BY <1>1, <1>3, RotationSet DEF KeyIndInv
<1>5. deviceShare' \subseteq Devices \X (Epochs \ {0})
  BY <1>1, <1>2 DEF KeyIndInv, TypeOK
<1>6. TypeOK'
  BY <1>1, <1>4, <1>5 DEF KeyIndInv, TypeOK, RotationType, KeyOrNone, keys, ghosts
<1>7. \A c, y \in Devices : rotation'[c][y] = rotation[c][y] \/ rotation'[c][y].step = "none"
  BY <1>3, <1>4
<1> QED BY <1>1, <1>6, <1>7, GainKeeps, SameKeys DEF KeyIndInv, keys, ghosts

\* A text carries the key its author has for its epoch.
LEMMA SendStep == ASSUME KeyIndInv, NEW d \in Devices, Send(d) PROVE KeyIndInv'
<1>1. /\ CurrentKey(d) # None
      /\ sent' = sent \cup {[epoch |-> epoch[d], key |-> CurrentKey(d), by |-> d]}
      /\ UNCHANGED <<opens, keys, server, op, rotation, frames, made, events, ghosts>>
  BY DEF Send
<1>2. epoch[d] \in Epochs /\ CurrentKey(d) \in Keys
  BY <1>1, Entries DEF KeyIndInv, CurrentKey, KeyOrNone
<1>3. TypeOK'
  <2>1. sent' \subseteq [epoch : Epochs, key : Keys, by : Devices]
    BY <1>1, <1>2 DEF KeyIndInv, TypeOK
  <2> QED BY <1>1, <2>1 DEF KeyIndInv, TypeOK, keys, server, frames, ghosts
<1>4. OwnTextReadable'
  BY <1>1 DEF KeyIndInv, KeyInv, OwnTextReadable, CurrentKey, keys, ghosts
<1>5. EpochHasKey' /\ RotationsRise' /\ WrittenIsHere' /\ CommitIsHere' /\ SlotIsFree'
  BY <1>1 DEF KeyIndInv, KeyInv, EpochHasKey, RotationsRise, WrittenIsHere, CommitIsHere, SlotIsFree, CurrentKey,
              keys, ghosts
<1> QED BY <1>3, <1>4, <1>5 DEF KeyIndInv, KeyInv

-----------------------------------------------------------------------------
LEMMA NextKeyInv == ASSUME KeyIndInv, [Next]_vars PROVE KeyIndInv'
<1>1. CASE UNCHANGED vars
  <2>1. TypeOK'
    BY <1>1 DEF vars, KeyIndInv, TypeOK
  <2>2. EpochHasKey' /\ OwnTextReadable' /\ RotationsRise' /\ WrittenIsHere' /\ CommitIsHere' /\ SlotIsFree'
    BY <1>1 DEF vars, KeyIndInv, KeyInv, EpochHasKey, OwnTextReadable, RotationsRise, WrittenIsHere, CommitIsHere,
                SlotIsFree, CurrentKey
  <2> QED BY <2>1, <2>2 DEF KeyIndInv, KeyInv
<1>2. CASE FrameLost
  BY <1>2, FrameLostStep
<1>3. ASSUME NEW d \in Devices,
             \/ Open(d) \/ ReadyArrives(d) \/ EpochAnswered(d) \/ Compare(d) \/ Commit(d) \/ Last(d)
             \/ Upload(d) \/ Remove(d) \/ Reregister(d) \/ Send(d)
             \/ \E m \in sent : Decrypt(d, m)
             \/ \E u \in Users : AskArrives(d, u) \/ UploadLost(d, u)
      PROVE  KeyIndInv'
  BY <1>3, OpenStep, ReadyStep, EpochAnsweredStep, CompareStep, CommitStep, LastStep, UploadStep, RemoveStep,
     ReregisterStep, SendStep, DecryptStep, AskStep, UploadLostStep
<1>4. ASSUME NEW d \in Devices, NEW x \in Devices,
             RotationReads(d, x) \/ RotationWrites(d, x) \/ RotationMoves(d, x) \/ RotationShares(d, x)
      PROVE  KeyIndInv'
  BY <1>4, RotationReadsStep, RotationWritesStep, RotationMovesStep, RotationSharesStep
<1> QED BY <1>1, <1>2, <1>3, <1>4 DEF Next

\* TypeOK: keys, epochs, shares, exchanges and frames keep their types.
THEOREM GroupKeyTypes == Spec => []TypeOK
<1>1. KeyIndInv => TypeOK
  BY DEF KeyIndInv
<1> QED BY <1>1, InitKeyInv, NextKeyInv, PTL DEF Spec

\* EpochHasKey: the epoch a device writes in is one it has the key of.
THEOREM EpochsHaveKeys == Spec => []EpochHasKey
<1>1. KeyIndInv => EpochHasKey
  BY DEF KeyIndInv, KeyInv
<1> QED BY <1>1, InitKeyInv, NextKeyInv, PTL DEF Spec

\* OwnTextReadable: a device reads what it has written, unless it began two
\* rotations from one epoch.
THEOREM OwnTextsReadable == Spec => []OwnTextReadable
<1>1. KeyIndInv => OwnTextReadable
  BY DEF KeyIndInv, KeyInv
<1> QED BY <1>1, InitKeyInv, NextKeyInv, PTL DEF Spec

\* Only the write of syncEpoch lowers an epoch, and only after a rotation.
LEMMA StepsRise ==
    ASSUME KeyIndInv, [Next]_vars, NEW d \in Devices, epoch'[d] < epoch[d]
    PROVE  d \in overtaken
<1>1. epoch \in [Devices -> Epochs] /\ epoch[d] \in Nat /\ \A c \in Devices : epoch[c] \in Nat
  BY Constants DEF KeyIndInv, TypeOK
<1>2. epoch' # epoch
  BY <1>1
<1>3. ASSUME NEW c \in Devices, Commit(c)
      PROVE  d \in overtaken
  <2>1. op[c].step = "commit" /\ epoch' = [epoch EXCEPT ![c] = op[c].epoch] /\ op[c].epoch \in Epochs
    BY <1>3, Entries DEF Commit, KeyIndInv, OpType
  <2>2. c # d => epoch'[d] = epoch[d]
    BY <1>1, <2>1
  <2>3. c = d
    BY <1>1, <2>2
  <2>4. epoch'[d] = op[d].epoch /\ op[d].epoch \in Nat
    BY <1>1, <2>1, <2>3, Constants
  <2>5. op[d].epoch > epoch[d] \/ d \in overtaken
    BY <2>1, <2>3 DEF KeyIndInv, KeyInv, CommitIsHere
  <2> QED BY <1>1, <2>4, <2>5
<1>4. ASSUME NEW c \in Devices, NEW x \in Devices, RotationMoves(c, x)
      PROVE  FALSE
  <2>1. rotation[c][x].epoch \in Nat
    BY Entries, Constants DEF KeyIndInv, RotationType
  <2>2. epoch' = [epoch EXCEPT ![c] = rotation[c][x].epoch] /\ rotation[c][x].epoch >= epoch[c]
    BY <1>2, <1>4 DEF RotationMoves
  <2>3. CASE c = d
    <3>1. epoch'[d] = rotation[d][x].epoch
      BY <1>1, <2>2, <2>3
    <3> QED BY <1>1, <2>1, <2>2, <2>3, <3>1
  <2>4. CASE c # d
    <3>1. epoch'[d] = epoch[d]
      BY <1>1, <2>2, <2>4
    <3> QED BY <1>1, <3>1
  <2> QED BY <2>3, <2>4
<1>5. ASSUME NEW c \in Devices,
             \/ Open(c) \/ ReadyArrives(c) \/ EpochAnswered(c) \/ Compare(c) \/ Last(c)
             \/ Upload(c) \/ Remove(c) \/ Reregister(c) \/ Send(c)
             \/ \E m \in sent : Decrypt(c, m)
             \/ \E u \in Users : AskArrives(c, u) \/ UploadLost(c, u)
      PROVE  epoch' = epoch
  BY <1>5 DEF Open, ReadyArrives, EpochAnswered, Compare, Last, Upload, Remove, Reregister, Send, Decrypt,
              AskArrives, UploadLost, keys
<1>6. ASSUME NEW c \in Devices, NEW x \in Devices,
             RotationReads(c, x) \/ RotationWrites(c, x) \/ RotationShares(c, x)
      PROVE  epoch' = epoch
  BY <1>6 DEF RotationReads, RotationWrites, RotationShares, keys
<1>7. FrameLost \/ UNCHANGED vars => epoch' = epoch
  BY DEF FrameLost, vars, keys
<1> QED BY <1>2, <1>3, <1>4, <1>5, <1>6, <1>7 DEF Next

\* EpochNeverFalls: a device goes back to an earlier epoch only where a rotation
\* has moved it between the comparison and the write of syncEpoch.
THEOREM EpochsRise == Spec => EpochNeverFalls
<1>1. ASSUME KeyIndInv, [Next]_vars
      PROVE  [\A d \in Devices : epoch'[d] < epoch[d] => d \in overtaken]_vars
  BY <1>1, StepsRise
<1> QED BY <1>1, InitKeyInv, NextKeyInv, PTL DEF Spec, EpochNeverFalls
=============================================================================
