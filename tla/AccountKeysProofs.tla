--------------------------- MODULE AccountKeysProofs ---------------------------
(***************************************************************************)
(* Proofs about AccountKeys, for any devices, pages and bounds: one        *)
(* identity key unless two pages find none at once, a device that holds    *)
(* the account's key, a fork that is signalled, and denials that hold.     *)
(***************************************************************************)
EXTENDS AccountKeys, FiniteSetTheorems, TLAPS

KeyOrNone == Keys \cup {None}

PageType == [step : Steps, then : {"start", "sync", "later", "reload"}, key : KeyOrNone,
             peer : Pages \cup {NoPage}, need : BOOLEAN, memo : BOOLEAN, link : BOOLEAN, told : KeyOrNone]

ReqType == [status : {"none", "pending", "approved", "denied", "gone"}, key : KeyOrNone]

\* Every key anywhere has been generated.
KeysAreMade ==
    /\ accountKey \in 0..made /\ backup \in 0..made
    /\ \A d \in Devices : jwk[d] \in 0..made /\ spki[d] \in 0..made
    /\ \A p \in Pages : req[p].key \in 0..made

\* Without a race, the page that creates a key creates the first.
FirstKey ==
    ~raced => /\ made <= 1
              /\ \A p \in Pages : Creating(p) => /\ made = 0
                                                 /\ \A q \in Pages : Creating(q) => q = p

NoneCreating(d) == \A q \in Pages : DeviceOf[q] = d => ~Creating(q)

Sane == ~evicted /\ ~tabs /\ ~forkSpread

\* A device that no page is about to overwrite holds the account's key; before
\* there is one, so does every device that could publish its own.
Held ==
    Sane => /\ accountKey # None => \E d \in Devices : jwk[d] = accountKey /\ NoneCreating(d)
            /\ accountKey = None =>
                 \A d \in Devices : spki[d] # None => jwk[d] = spki[d] /\ NoneCreating(d)
            /\ \A p, q \in Pages : Creating(p) /\ Creating(q) /\ DeviceOf[p] = DeviceOf[q] => p = q

\* What holds of the record r of page p.
Fine(r, p) ==
    /\ r.key \in 0..made
    /\ r.step \in {"written", "uploading", "syncing", "importing", "imported", "backing", "approving", "confirming"}
       => r.key # None
    /\ r.step \in {"written", "imported"} => jwk[DeviceOf[p]] # None
    /\ r.step \in {"importing", "imported"} => r.then = "reload"
    /\ r.step \in {"idle", "backing", "approving", "confirming"} => r.then # "reload"
    /\ r.told \in {None, accountKey} \/ r.need = TRUE \/ r.then = "reload"
    /\ r.step = "confirming" /\ r.peer \in Pages /\ req[r.peer].status = "denied" => r.peer \in overtaken
    /\ Sane /\ r.step \in {"written", "uploading", "syncing"} /\ accountKey = None
       => jwk[DeviceOf[p]] = r.key /\ NoneCreating(DeviceOf[p])
    /\ Sane /\ r.step \in {"importing", "imported"} => r.key = accountKey

KeyInv == KeysAreMade /\ FirstKey /\ Held /\ \A p \in Pages : Fine(page[p], p)

AccountInv == TypeOK /\ KeyInv

-----------------------------------------------------------------------------
LEMMA Constants ==
    /\ None \notin Keys /\ MaxKeys \in Nat \ {0} /\ MaxEvents \in Nat /\ None = 0
    /\ NoPage \notin Pages /\ \A p \in Pages : DeviceOf[p] \in Devices
BY BoundAssumption, DeviceAssumption DEF BoundAssumption, DeviceAssumption, Keys, None

\* The types as the steps need them.
LEMMA Entries ==
    ASSUME TypeOK
    PROVE  /\ page \in [Pages -> PageType] /\ req \in [Pages -> ReqType] /\ made \in Nat
           /\ \A p \in Pages : page[p] \in PageType /\ req[p] \in ReqType
           /\ jwk \in [Devices -> KeyOrNone] /\ spki \in [Devices -> KeyOrNone]
BY Constants DEF TypeOK, PageType, ReqType, KeyOrNone

LEMMA PageSet ==
    ASSUME TypeOK, NEW p \in Pages, NEW r \in PageType, Becomes(p, r)
    PROVE  page' \in [Pages -> PageType] /\ page'[p] = r /\ \A q \in Pages : q # p => page'[q] = page[q]
BY Entries DEF Becomes

LEMMA InitAccountInv == ASSUME Init PROVE AccountInv
<1>1. Closed \in PageType /\ Closed.step = "closed" /\ Closed.key = None /\ Closed.told = None
  BY DEF Closed, Fresh, PageType, Steps, KeyOrNone
<1>2. \A p \in Pages : page[p] = Closed
  BY DEF Init
<1>3. TypeOK
  <2>1. page \in [Pages -> PageType]
    BY <1>1 DEF Init
  <2>2. /\ jwk \in [Devices -> KeyOrNone] /\ spki \in [Devices -> KeyOrNone] /\ req \in [Pages -> ReqType]
        /\ accountKey \in KeyOrNone /\ backup \in KeyOrNone
    BY Constants DEF Init, KeyOrNone, ReqType
  <2>3. made \in 0..MaxKeys /\ events \in 0..MaxEvents
    BY Constants DEF Init
  <2>4. /\ \A p \in Pages : req[p].key # None <=> req[p].status = "approved"
        /\ \A d \in Devices : jwk[d] = None => spki[d] = None
    BY DEF Init
  <2> QED BY <2>1, <2>2, <2>3, <2>4 DEF Init, TypeOK, PageType, ReqType, KeyOrNone
<1>4. KeysAreMade /\ FirstKey
  BY <1>1, <1>2, Constants DEF Init, KeysAreMade, FirstKey, Creating
<1>5. Held
  BY <1>1, <1>2, Constants DEF Init, Held, Creating
<1>6. \A p \in Pages : Fine(page[p], p)
  BY <1>1, <1>2, Constants DEF Init, Fine
<1> QED BY <1>3, <1>4, <1>5, <1>6 DEF AccountInv, KeyInv

\* A step of one page that creates nothing and writes nothing but its record
\* and the backup.
LEMMA PageStep ==
    ASSUME AccountInv, NEW p \in Pages, NEW r \in PageType, Becomes(p, r), r.step # "creating", Fine(r, p),
           UNCHANGED <<store, accountKey, req, made, ghosts>>,
           backup' \in 0..made, events' \in 0..MaxEvents
    PROVE  AccountInv'
<1>1. /\ page' \in [Pages -> PageType] /\ page'[p] = r
      /\ \A q \in Pages : q # p => page'[q] = page[q]
  BY PageSet DEF AccountInv
<1>2. made \in 0..MaxKeys /\ MaxKeys \in Nat
  BY Constants DEF AccountInv, TypeOK
<1>3. backup' \in KeyOrNone
  BY <1>2 DEF KeyOrNone, Keys, None
<1>4. TypeOK'
  BY <1>1, <1>3 DEF AccountInv, TypeOK, PageType, KeyOrNone, store, ghosts
<1>5. KeysAreMade'
  BY DEF AccountInv, KeyInv, KeysAreMade, store
<1>6. \A q \in Pages : Creating(q)' => Creating(q)
  BY <1>1 DEF Creating
<1>7. \A d \in Devices : NoneCreating(d) => NoneCreating(d)'
  BY <1>6 DEF NoneCreating
<1>8. FirstKey'
  BY <1>6 DEF AccountInv, KeyInv, FirstKey, ghosts
<1>9. Sane' = Sane
  BY DEF Sane, ghosts
<1>10. Held'
  BY <1>6, <1>7, <1>9 DEF AccountInv, KeyInv, Held, store
<1>11. ASSUME NEW q \in Pages PROVE Fine(page[q], q)'
  <2>1. Fine(page'[q], q)
    BY <1>1 DEF AccountInv, KeyInv
  <2>2. DeviceOf[q] \in Devices
    BY Constants
  <2> QED BY <1>7, <1>9, <2>1, <2>2 DEF Fine, store, ghosts
<1> QED BY <1>4, <1>5, <1>8, <1>10, <1>11 DEF AccountInv, KeyInv

\* A record that is between two operations, looking or reading.
Quiet == {"closed", "looking", "asked", "reading", "idle"}

Answered(r, k) == r.told \in {None, k} \/ r.need = TRUE \/ r.then = "reload"

ToldRight(r) == Answered(r, accountKey)

QuietFine(r) == r.key \in 0..made /\ (r.step = "idle" => r.then # "reload") /\ ToldRight(r)

\* What a page has when it looks, asks or reads the public half.
Awaiting(r) == r.key \in 0..made /\ ToldRight(r)

LEMMA QuietStep ==
    ASSUME AccountInv, NEW p \in Pages, NEW r \in PageType, Becomes(p, r), r.step \in Quiet, QuietFine(r),
           UNCHANGED <<store, accountKey, req, made, ghosts>>,
           backup' \in 0..made, events' \in 0..MaxEvents
    PROVE  AccountInv'
<1>1. r.step # "creating" /\ Fine(r, p)
  BY DEF Quiet, QuietFine, ToldRight, Answered, Fine
<1> QED BY <1>1, PageStep

LEMMA ResolvedIsQuiet ==
    ASSUME NEW r \in PageType, Awaiting(r)
    PROVE  Resolved(r) \in PageType /\ Resolved(r).step \in Quiet /\ QuietFine(Resolved(r))
<1>1. CASE r.then = "start"
  <2>1. Resolved(r) = [r EXCEPT !.then = "sync", !.step = IF r.memo THEN "reading" ELSE "looking", !.memo = TRUE]
    BY <1>1 DEF Resolved
  <2>2. PICK s \in {"reading", "looking"} :
          Resolved(r) = [r EXCEPT !.then = "sync", !.step = s, !.memo = TRUE]
    BY <2>1
  <2> QED BY <1>1, <2>2 DEF Awaiting, QuietFine, ToldRight, Answered, PageType, Steps, Quiet
<1>2. CASE r.then = "later"
  <2>1. Resolved(r) = [r EXCEPT !.step = "idle", !.then = "sync"]
    BY <1>2 DEF Resolved
  <2> QED BY <1>2, <2>1 DEF Awaiting, QuietFine, ToldRight, Answered, PageType, Steps, Quiet
<1>3. CASE r.then \notin {"start", "later"}
  <2>1. Resolved(r) = [r EXCEPT !.step = "reading"]
    BY <1>3 DEF Resolved
  <2> QED BY <2>1 DEF Awaiting, QuietFine, ToldRight, Answered, PageType, Steps, Quiet
<1> QED BY <1>1, <1>2, <1>3

LEMMA FreshIsQuiet ==
    /\ Fresh \in PageType /\ Fresh.step = "looking" /\ Fresh.key = None /\ Fresh.told = None
    /\ Closed \in PageType /\ Closed.step = "closed" /\ Closed.key = None /\ Closed.told = None
BY DEF Closed, Fresh, PageType, Steps, KeyOrNone

LEMMA AfterSyncIsQuiet ==
    ASSUME TypeOK, NEW r \in PageType, ToldRight(r)
    PROVE  AfterSync(r) \in PageType /\ AfterSync(r).step \in Quiet /\ QuietFine(AfterSync(r))
<1>1. 0 \in 0..made
  BY Entries
<1>2. CASE r.then = "reload"
  BY <1>1, <1>2, FreshIsQuiet DEF AfterSync, QuietFine, ToldRight, Answered, Quiet, None
<1>3. CASE r.then # "reload"
  <2>1. AfterSync(r) = [r EXCEPT !.step = "idle", !.key = None]
    BY <1>3 DEF AfterSync
  <2> QED BY <1>1, <1>3, <2>1 DEF QuietFine, ToldRight, Answered, Quiet, PageType, Steps, KeyOrNone, None
<1> QED BY <1>2, <1>3

\* The key and the answer of a page's record, as they are.
LEMMA Page ==
    ASSUME AccountInv, NEW p \in Pages
    PROVE  /\ page[p] \in PageType /\ Fine(page[p], p) /\ Awaiting(page[p])
           /\ jwk[DeviceOf[p]] \in KeyOrNone /\ spki[DeviceOf[p]] \in KeyOrNone
           /\ jwk[DeviceOf[p]] \in 0..made /\ spki[DeviceOf[p]] \in 0..made
           /\ 0 \in 0..made /\ backup \in 0..made /\ events \in 0..MaxEvents
BY Entries, Constants DEF AccountInv, TypeOK, KeyInv, KeysAreMade, Fine, Awaiting, ToldRight, Answered

LEMMA EventCount == ASSUME TypeOK, Event PROVE events' \in 0..MaxEvents
BY Constants DEF TypeOK, Event

-----------------------------------------------------------------------------
(* Steps of one page                                                       *)

LEMMA OpenStep == ASSUME AccountInv, NEW p \in Pages, Open(p) PROVE AccountInv'
<1>1. Becomes(p, Fresh) /\ UNCHANGED <<store, server, req, made, events, ghosts>>
  BY DEF Open
<1>2. Fresh.step \in Quiet /\ QuietFine(Fresh)
  BY FreshIsQuiet, Page DEF Quiet, QuietFine, ToldRight, Answered, None
<1> QED BY <1>1, <1>2, Page, FreshIsQuiet, QuietStep DEF server

LEMMA CloseStep == ASSUME AccountInv, NEW p \in Pages, Close(p) PROVE AccountInv'
<1>1. Becomes(p, Closed) /\ UNCHANGED <<store, server, req, made, ghosts>> /\ events' \in 0..MaxEvents
  BY EventCount DEF Close, AccountInv
<1>2. Closed.step \in Quiet /\ QuietFine(Closed)
  BY FreshIsQuiet, Page DEF Quiet, QuietFine, ToldRight, Answered, None
<1> QED BY <1>1, <1>2, Page, FreshIsQuiet, QuietStep DEF server

LEMMA LookStep == ASSUME AccountInv, NEW p \in Pages, Look(p) PROVE AccountInv'
<1> DEFINE r == Resolved(page[p])
           a == [page[p] EXCEPT !.step = "asked"]
<1>1. (Becomes(p, r) \/ Becomes(p, a)) /\ UNCHANGED <<store, server, req, made, events, ghosts>>
  BY DEF Look
<1>2. r \in PageType /\ r.step \in Quiet /\ QuietFine(r)
  BY Page, ResolvedIsQuiet
<1>3. a \in PageType /\ a.step \in Quiet /\ QuietFine(a)
  BY Page DEF Awaiting, QuietFine, ToldRight, Answered, PageType, Steps, Quiet
<1> HIDE DEF r, a
<1> QED BY <1>1, <1>2, <1>3, Page, QuietStep DEF server

LEMMA AskFailsStep == ASSUME AccountInv, NEW p \in Pages, AskFails(p) PROVE AccountInv'
<1> DEFINE q == [page[p] EXCEPT !.memo = FALSE]
           r == Resolved(q)
<1>1. Becomes(p, r) /\ UNCHANGED <<store, server, req, made, events, ghosts>>
  BY DEF AskFails, Undecided
<1>2. q \in PageType /\ Awaiting(q)
  BY Page DEF Awaiting, ToldRight, Answered, PageType
<1> HIDE DEF q
<1>3. r \in PageType /\ r.step \in Quiet /\ QuietFine(r)
  BY <1>2, ResolvedIsQuiet
<1> HIDE DEF r
<1> QED BY <1>1, <1>3, Page, QuietStep DEF server

LEMMA UseStep == ASSUME AccountInv, NEW p \in Pages, Use(p) PROVE AccountInv'
<1> DEFINE r == [page[p] EXCEPT !.step = "looking", !.then = "later", !.memo = TRUE]
<1>1. page[p].step = "idle" /\ Becomes(p, r) /\ UNCHANGED <<store, server, req, made, events, ghosts>>
  BY DEF Use
<1>2. /\ r \in PageType /\ r.step = "looking" /\ r.then = "later"
      /\ r.key = page[p].key /\ r.need = page[p].need /\ r.told = page[p].told
  BY Page DEF PageType, Steps
<1> HIDE DEF r
<1>3. r.step \in Quiet /\ QuietFine(r)
  BY <1>1, <1>2, Page DEF Fine, Awaiting, QuietFine, ToldRight, Answered, Quiet
<1> QED BY <1>1, <1>2, <1>3, Page, QuietStep DEF server
LEMMA ReadPublicStep == ASSUME AccountInv, NEW p \in Pages, ReadPublic(p) PROVE AccountInv'
<1> DEFINE r == AfterSync(page[p])
           a == [page[p] EXCEPT !.step = "syncing", !.key = spki[DeviceOf[p]]]
<1>1. /\ page[p].step = "reading" /\ UNCHANGED <<store, server, req, made, events, ghosts>>
      /\ Becomes(p, r) \/ (spki[DeviceOf[p]] # None /\ Becomes(p, a))
  BY DEF ReadPublic
<1>2. r \in PageType /\ r.step \in Quiet /\ QuietFine(r)
  BY Page, AfterSyncIsQuiet DEF AccountInv, Awaiting
<1>3. CASE Becomes(p, r)
  <2> HIDE DEF r
  <2> QED BY <1>1, <1>2, <1>3, Page, QuietStep DEF server
<1>4. CASE spki[DeviceOf[p]] # None /\ Becomes(p, a)
  <2>1. a \in PageType /\ a.step = "syncing" /\ a.key = spki[DeviceOf[p]] /\ ToldRight(a)
    BY Page DEF Awaiting, ToldRight, Answered, PageType, Steps
  <2>2. Sane /\ accountKey = None => jwk[DeviceOf[p]] = a.key /\ NoneCreating(DeviceOf[p])
    BY <1>4, <2>1, Constants DEF AccountInv, KeyInv, Held
  <2>3. a.key \in 0..made /\ a.key # None
    BY <1>4, <2>1, Page
  <2> HIDE DEF a
  <2>4. Fine(a, p) /\ a.step # "creating"
    BY <2>1, <2>2, <2>3 DEF Fine, ToldRight, Answered
  <2> QED BY <1>1, <1>4, <2>1, <2>4, Page, PageStep DEF server
<1> QED BY <1>1, <1>3, <1>4

\* The first PUT that reaches the server makes the page's key the account's.
LEMMA PutStep ==
    ASSUME AccountInv, NEW p \in Pages, page[p].step \in {"uploading", "syncing"}, accountKey = None,
           accountKey' = page[p].key,
           NEW r \in PageType, Becomes(p, r), r.step \in Quiet,
           r.key \in 0..made, r.step = "idle" => r.then # "reload", Answered(r, page[p].key),
           UNCHANGED <<store, backup, req, made, events, ghosts>>
    PROVE  AccountInv'
<1>1. /\ page' \in [Pages -> PageType] /\ page'[p] = r
      /\ \A q \in Pages : q # p => page'[q] = page[q]
  BY PageSet DEF AccountInv
<1>2. /\ accountKey' \in 0..made /\ accountKey' # None /\ accountKey' \in KeyOrNone
      /\ Sane => jwk[DeviceOf[p]] = accountKey' /\ NoneCreating(DeviceOf[p])
  BY Page DEF Fine, PageType
<1>3. TypeOK'
  BY <1>1, <1>2 DEF AccountInv, TypeOK, PageType, KeyOrNone, store, ghosts
<1>4. KeysAreMade'
  BY <1>2 DEF AccountInv, KeyInv, KeysAreMade, store
<1>5. \A q \in Pages : Creating(q)' => Creating(q)
  BY <1>1 DEF Creating, Quiet
<1>6. \A d \in Devices : NoneCreating(d) => NoneCreating(d)'
  BY <1>5 DEF NoneCreating
<1>7. FirstKey'
  BY <1>5 DEF AccountInv, KeyInv, FirstKey, ghosts
<1>8. Sane' = Sane /\ DeviceOf[p] \in Devices
  BY Constants DEF Sane, ghosts
<1>9. Held'
  BY <1>2, <1>5, <1>6, <1>8 DEF AccountInv, KeyInv, Held, store
<1>10. ASSUME NEW q \in Pages PROVE Fine(page[q], q)'
  <2>1. CASE q = p
    BY <1>1, <2>1 DEF Fine, Quiet, ToldRight, Answered
  <2>2. CASE q # p
    <3>1. Fine(page[q], q) /\ page'[q] = page[q]
      BY <1>1, <2>2 DEF AccountInv, KeyInv
    <3>2. page[q].told = None \/ page[q].need = TRUE \/ page[q].then = "reload"
      BY <3>1 DEF Fine
    <3>3. Sane => page[q].step \notin {"importing", "imported"}
      BY <3>1 DEF Fine
    <3> QED BY <1>2, <1>8, <3>1, <3>2, <3>3 DEF Fine, store, ghosts
  <2> QED BY <2>1, <2>2
<1> QED BY <1>3, <1>4, <1>7, <1>9, <1>10 DEF AccountInv, KeyInv

LEMMA UploadStep == ASSUME AccountInv, NEW p \in Pages, Upload(p) PROVE AccountInv'
<1> DEFINE q == [page[p] EXCEPT !.key = None]
           r == Resolved(q)
<1>1. /\ page[p].step = "uploading" /\ Becomes(p, r)
      /\ accountKey' = accountKey \/ (accountKey = None /\ accountKey' = page[p].key)
      /\ UNCHANGED <<store, backup, req, made, events, ghosts>>
  BY DEF Upload, PutKey
<1>2. q \in PageType /\ Awaiting(q)
  BY Page DEF Awaiting, ToldRight, Answered, PageType, KeyOrNone, None
<1> HIDE DEF q
<1>3. r \in PageType /\ r.step \in Quiet /\ QuietFine(r)
  BY <1>2, ResolvedIsQuiet
<1> HIDE DEF r
<1>4. CASE accountKey' = accountKey
  BY <1>1, <1>3, <1>4, Page, QuietStep
<1>5. CASE accountKey = None /\ accountKey' = page[p].key
  <2>1. r.key \in 0..made /\ (r.step = "idle" => r.then # "reload") /\ Answered(r, page[p].key)
    BY <1>3, <1>5 DEF QuietFine, ToldRight, Answered
  <2> QED BY <1>1, <1>3, <1>5, <2>1, PutStep
<1> QED BY <1>1, <1>4, <1>5

LEMMA SyncLostStep == ASSUME AccountInv, NEW p \in Pages, SyncLost(p) PROVE AccountInv'
<1> DEFINE r == AfterSync(page[p])
<1>1. /\ page[p].step = "syncing" /\ Becomes(p, r)
      /\ accountKey' = accountKey \/ (accountKey = None /\ accountKey' = page[p].key)
      /\ UNCHANGED <<store, backup, req, made, events, ghosts>>
  BY DEF SyncLost, PutKey
<1>2. r \in PageType /\ r.step \in Quiet /\ QuietFine(r)
  BY Page, AfterSyncIsQuiet DEF AccountInv, Awaiting
<1> HIDE DEF r
<1>3. CASE accountKey' = accountKey
  BY <1>1, <1>2, <1>3, Page, QuietStep
<1>4. CASE accountKey = None /\ accountKey' = page[p].key
  <2>1. r.key \in 0..made /\ (r.step = "idle" => r.then # "reload") /\ Answered(r, page[p].key)
    BY <1>2, <1>4 DEF QuietFine, ToldRight, Answered
  <2> QED BY <1>1, <1>2, <1>4, <2>1, PutStep
<1> QED BY <1>1, <1>3, <1>4

\* A page that has been answered keeps its word: its key is the account's, or
\* it asks for recovery.
LEMMA SyncServedStep == ASSUME AccountInv, NEW p \in Pages, SyncServed(p) PROVE AccountInv'
<1> DEFINE q == [page[p] EXCEPT !.need = Signalled(p), !.told = page[p].key]
           r == AfterSync(q)
<1>1. /\ page[p].step = "syncing" /\ Becomes(p, r)
      /\ accountKey' = IF accountKey = None THEN page[p].key ELSE accountKey
      /\ UNCHANGED <<store, backup, req, made, events, ghosts>>
  BY DEF SyncServed, PutKey
<1>2. Signalled(p) \in BOOLEAN /\ (accountKey \notin {None, page[p].key} => Signalled(p) = TRUE)
  BY Page DEF Signalled, Refused, PageType
<1>3. /\ q \in PageType /\ q.told = page[p].key /\ q.then = page[p].then
      /\ accountKey \notin {None, page[p].key} => q.need = TRUE
  BY <1>2, Page DEF PageType
<1> HIDE DEF q
<1>4. CASE accountKey # None
  <2>1. ToldRight(q)
    BY <1>3, <1>4 DEF ToldRight, Answered
  <2>2. r \in PageType /\ r.step \in Quiet /\ QuietFine(r)
    BY <1>3, <2>1, AfterSyncIsQuiet DEF AccountInv
  <2> HIDE DEF r
  <2> QED BY <1>1, <1>4, <2>2, Page, QuietStep
<1>5. CASE accountKey = None
  <2>1. /\ r \in PageType /\ r.step \in Quiet /\ r.key = None /\ (r.step = "idle" => r.then # "reload")
        /\ r.told \in {None, page[p].key}
    <3>1. CASE q.then = "reload"
      BY <3>1, FreshIsQuiet DEF AfterSync, Quiet
    <3>2. CASE q.then # "reload"
      <4>1. r = [q EXCEPT !.step = "idle", !.key = None]
        BY <3>2 DEF AfterSync
      <4> QED BY <1>3, <3>2, <4>1 DEF Quiet, PageType, Steps, KeyOrNone
    <3> QED BY <3>1, <3>2
  <2>2. Answered(r, page[p].key) /\ r.key \in 0..made
    BY <1>1, <1>5, <2>1, Page DEF ToldRight, Answered, None
  <2> HIDE DEF r
  <2> QED BY <1>1, <1>5, <2>1, <2>2, PutStep
<1> QED BY <1>4, <1>5

LEMMA ApproveStep ==
    ASSUME AccountInv, NEW q \in Pages, NEW p \in Pages, Approve(q, p)
    PROVE  AccountInv'
<1> DEFINE r == [page[q] EXCEPT !.step = "approving", !.key = jwk[DeviceOf[q]], !.peer = p]
<1>1. /\ page[q].step = "idle" /\ jwk[DeviceOf[q]] # None /\ Becomes(q, r)
      /\ UNCHANGED <<store, server, req, made, events, ghosts>>
  BY DEF Approve
<1>2. /\ r \in PageType /\ r.step = "approving" /\ r.key = jwk[DeviceOf[q]]
      /\ r.then = page[q].then /\ r.need = page[q].need /\ r.told = page[q].told
  BY <1>1, Page DEF PageType, Steps
<1> HIDE DEF r
<1>3. Fine(r, q)
  BY <1>1, <1>2, Page DEF Fine
<1> QED BY <1>1, <1>2, <1>3, Page, PageStep DEF server

\* The page is idle again, its operation done.
LEMMA IdleAgain ==
    ASSUME AccountInv, NEW p \in Pages, page[p].step \in {"idle", "backing", "approving", "confirming"},
           NEW r \in PageType, r.step = "idle", r.then = page[p].then, r.need = page[p].need,
           r.told = page[p].told, r.key = None \/ r.key = page[p].key
    PROVE  QuietFine(r)
BY Page DEF Fine, QuietFine, ToldRight, Answered, None

LEMMA ApproveChecksStep == ASSUME AccountInv, NEW q \in Pages, ApproveChecks(q) PROVE AccountInv'
<1> DEFINE r == [page[q] EXCEPT !.step = "confirming"]
           a == [page[q] EXCEPT !.step = "idle", !.key = None, !.peer = NoPage]
<1>1. /\ page[q].step = "approving" /\ UNCHANGED <<store, server, req, made, events, ghosts>>
      /\ (StillPending(page[q].peer) /\ Becomes(q, r)) \/ Becomes(q, a)
  BY DEF ApproveChecks
<1>2. CASE StillPending(page[q].peer) /\ Becomes(q, r)
  <2>1. req[page[q].peer].status # "denied"
    BY <1>2 DEF StillPending
  <2>2. /\ r \in PageType /\ r.step = "confirming" /\ r.key = page[q].key /\ r.peer = page[q].peer
        /\ r.then = page[q].then /\ r.need = page[q].need /\ r.told = page[q].told
    BY Page DEF PageType, Steps
  <2> HIDE DEF r
  <2>3. Fine(r, q)
    BY <1>1, <2>1, <2>2, Page DEF Fine
  <2> QED BY <1>1, <1>2, <2>2, <2>3, Page, PageStep DEF server
<1>3. CASE Becomes(q, a)
  <2>1. /\ a \in PageType /\ a.step = "idle" /\ a.then = page[q].then /\ a.need = page[q].need
        /\ a.told = page[q].told /\ a.key = None
    BY Page DEF PageType, Steps, KeyOrNone
  <2> HIDE DEF a
  <2>2. QuietFine(a) /\ a.step \in Quiet
    BY <1>1, <2>1, IdleAgain DEF Quiet
  <2> QED BY <1>1, <1>3, <2>1, <2>2, Page, QuietStep DEF server
<1> QED BY <1>1, <1>2, <1>3

LEMMA BackupStep == ASSUME AccountInv, NEW p \in Pages, Backup(p) PROVE AccountInv'
<1> DEFINE r == [page[p] EXCEPT !.step = "backing", !.key = jwk[DeviceOf[p]]]
<1>1. /\ page[p].step = "idle" /\ jwk[DeviceOf[p]] # None /\ Becomes(p, r)
      /\ UNCHANGED <<store, server, req, made, ghosts>> /\ events' \in 0..MaxEvents
  BY EventCount DEF Backup, AccountInv
<1>2. /\ r \in PageType /\ r.step = "backing" /\ r.key = jwk[DeviceOf[p]]
      /\ r.then = page[p].then /\ r.need = page[p].need /\ r.told = page[p].told
  BY <1>1, Page DEF PageType, Steps
<1> HIDE DEF r
<1>3. Fine(r, p)
  BY <1>1, <1>2, Page DEF Fine
<1> QED BY <1>1, <1>2, <1>3, Page, PageStep DEF server

LEMMA BackupEndsStep == ASSUME AccountInv, NEW p \in Pages, BackupEnds(p) PROVE AccountInv'
<1> DEFINE r == [page[p] EXCEPT !.step = "idle", !.key = None]
<1>1. /\ page[p].step = "backing" /\ Becomes(p, r) /\ backup' \in {backup, page[p].key}
      /\ UNCHANGED <<store, accountKey, req, made, events, ghosts>>
  BY DEF BackupEnds
<1>2. /\ r \in PageType /\ r.step = "idle" /\ r.then = page[p].then /\ r.need = page[p].need
      /\ r.told = page[p].told /\ r.key = None
  BY Page DEF PageType, Steps, KeyOrNone
<1> HIDE DEF r
<1>3. QuietFine(r) /\ r.step \in Quiet /\ backup' \in 0..made
  BY <1>1, <1>2, Page, IdleAgain DEF Quiet, Awaiting
<1> QED BY <1>1, <1>2, <1>3, Page, QuietStep

\* An import writes the account's key, or is one that forks.
LEMMA ImportStep ==
    ASSUME AccountInv, NEW p \in Pages, NEW k \in Keys, k \in 0..made, page[p].step = "idle", Import(p, k),
           UNCHANGED <<store, server, req, made, raced, tabs, evicted, overtaken>>, events' \in 0..MaxEvents
    PROVE  AccountInv'
<1> DEFINE r == [page[p] EXCEPT !.step = "importing", !.then = "reload", !.key = k, !.link = FALSE]
<1>1. Becomes(p, r) /\ forkSpread' = (forkSpread \/ k # accountKey)
  BY DEF Import
<1>2. /\ r \in PageType /\ r.step = "importing" /\ r.then = "reload" /\ r.key = k
  <2>1. page[p] \in PageType /\ k \in KeyOrNone
    BY Page DEF KeyOrNone
  <2> QED BY <2>1 DEF PageType, Steps
<1> HIDE DEF r
<1>3. /\ page' \in [Pages -> PageType] /\ page'[p] = r
      /\ \A q \in Pages : q # p => page'[q] = page[q]
  BY <1>1, <1>2, PageSet DEF AccountInv
<1>4. TypeOK'
  BY <1>1, <1>3 DEF AccountInv, TypeOK, PageType, KeyOrNone, store, server
<1>5. KeysAreMade'
  BY DEF AccountInv, KeyInv, KeysAreMade, store, server
<1>6. \A q \in Pages : Creating(q)' => Creating(q)
  BY <1>2, <1>3 DEF Creating
<1>7. \A d \in Devices : NoneCreating(d) => NoneCreating(d)'
  BY <1>6 DEF NoneCreating
<1>8. FirstKey'
  BY <1>6 DEF AccountInv, KeyInv, FirstKey
<1>9. Sane' => Sane /\ k = accountKey
  BY <1>1 DEF Sane
<1>10. Held'
  BY <1>6, <1>7, <1>9 DEF AccountInv, KeyInv, Held, store, server
<1>11. ASSUME NEW q \in Pages PROVE Fine(page[q], q)'
  <2>1. DeviceOf[q] \in Devices /\ None \notin Keys
    BY Constants
  <2>2. CASE q = p
    BY <1>2, <1>3, <1>9, <2>1, <2>2 DEF Fine, server
  <2>3. CASE q # p
    <3>1. Fine(page[q], q) /\ page'[q] = page[q]
      BY <1>3, <2>3 DEF AccountInv, KeyInv
    <3> QED BY <1>7, <1>9, <2>1, <3>1 DEF Fine, store, server
  <2> QED BY <2>2, <2>3
<1> QED BY <1>4, <1>5, <1>8, <1>10, <1>11 DEF AccountInv, KeyInv

LEMMA PollStep == ASSUME AccountInv, NEW p \in Pages, PollAnswered(p) PROVE AccountInv'
<1>1. /\ page[p].step = "idle" /\ UNCHANGED <<store, server, req, made, events, raced, tabs, evicted, overtaken>>
  BY DEF PollAnswered
<1>2. CASE req[p].status = "approved" /\ Import(p, req[p].key)
  <2>1. req[p].key \in Keys /\ req[p].key \in 0..made
    BY <1>2, Entries DEF AccountInv, TypeOK, KeyInv, KeysAreMade, ReqType, KeyOrNone
  <2> QED BY <1>1, <1>2, <2>1, Page, ImportStep
<1>3. CASE Becomes(p, [page[p] EXCEPT !.link = FALSE]) /\ UNCHANGED forkSpread
  <2> DEFINE r == [page[p] EXCEPT !.link = FALSE]
  <2>1. /\ r \in PageType /\ r.step = "idle" /\ r.then = page[p].then /\ r.need = page[p].need
        /\ r.told = page[p].told /\ r.key = page[p].key
    BY <1>1, Page DEF PageType
  <2> HIDE DEF r
  <2>2. QuietFine(r) /\ r.step \in Quiet
    BY <1>1, <2>1, IdleAgain DEF Quiet
  <2>3. Becomes(p, r) /\ UNCHANGED <<store, accountKey, backup, req, made, events, ghosts>>
    BY <1>1, <1>3 DEF r, server, ghosts
  <2> QED BY <2>1, <2>2, <2>3, Page, QuietStep
<1> QED BY <1>2, <1>3 DEF PollAnswered

LEMMA RecoverStep == ASSUME AccountInv, NEW p \in Pages, Recover(p) PROVE AccountInv'
<1>1. /\ page[p].step = "idle" /\ backup # None /\ Import(p, backup) /\ events' \in 0..MaxEvents
      /\ UNCHANGED <<store, server, req, made, raced, tabs, evicted, overtaken>>
  BY EventCount DEF Recover, AccountInv
<1>2. backup \in Keys /\ backup \in 0..made
  BY <1>1, Page DEF AccountInv, TypeOK
<1> QED BY <1>1, <1>2, ImportStep

-----------------------------------------------------------------------------
(* Creating a key                                                          *)

LEMMA AskServedStep == ASSUME AccountInv, NEW p \in Pages, AskServed(p) PROVE AccountInv'
<1>1. page[p].step = "asked" /\ UNCHANGED <<store, server, req, made, events, evicted, forkSpread, overtaken>>
  BY DEF AskServed
<1>2. CASE accountKey # None
  <2> DEFINE q == [page[p] EXCEPT !.need = TRUE]
             r == Resolved(q)
  <2>1. Becomes(p, r) /\ UNCHANGED <<raced, tabs>>
    BY <1>2 DEF AskServed
  <2>2. q \in PageType /\ Awaiting(q)
    BY Page DEF Awaiting, ToldRight, Answered, PageType
  <2> HIDE DEF q
  <2>3. r \in PageType /\ r.step \in Quiet /\ QuietFine(r)
    BY <2>2, ResolvedIsQuiet
  <2> HIDE DEF r
  <2> QED BY <1>1, <2>1, <2>3, Page, QuietStep DEF server, ghosts
<1>3. CASE accountKey = None
  <2> DEFINE r == [page[p] EXCEPT !.step = "creating"]
  <2>1. /\ Becomes(p, r)
        /\ raced' = (raced \/ made > 0 \/ \E q \in Pages : Creating(q))
        /\ tabs' = (tabs \/ jwk[DeviceOf[p]] # None
                         \/ \E q \in Pages : Creating(q) /\ DeviceOf[q] = DeviceOf[p])
    BY <1>3 DEF AskServed
  <2>2. /\ r \in PageType /\ r.step = "creating" /\ r.key = page[p].key /\ r.told = page[p].told
        /\ r.need = page[p].need /\ r.then = page[p].then
    BY Page DEF PageType, Steps
  <2> HIDE DEF r
  <2>3. /\ page' \in [Pages -> PageType] /\ page'[p] = r
        /\ \A q \in Pages : q # p => page'[q] = page[q]
    BY <2>1, <2>2, PageSet DEF AccountInv
  <2>4. TypeOK'
    BY <1>1, <2>1, <2>3 DEF AccountInv, TypeOK, PageType, KeyOrNone, store, server
  <2>5. KeysAreMade'
    BY <1>1 DEF AccountInv, KeyInv, KeysAreMade, store, server
  <2>6. \A q \in Pages : Creating(q)' <=> q = p \/ Creating(q)
    BY <2>2, <2>3 DEF Creating
  <2>7. FirstKey'
    <3> SUFFICES ASSUME ~raced' PROVE made' <= 1 /\ \A q \in Pages : Creating(q)' => made' = 0 /\ q = p
      BY DEF FirstKey
    <3>1. ~raced /\ ~(made > 0) /\ \A q \in Pages : ~Creating(q)
      BY <2>1
    <3>2. made' = 0
      BY <1>1, <3>1, Entries DEF AccountInv
    <3> QED BY <2>6, <3>1, <3>2
  <2>8. Sane' => Sane /\ jwk[DeviceOf[p]] = None /\ NoneCreating(DeviceOf[p])
    BY <1>1, <2>1 DEF Sane, NoneCreating
  <2>9. \A d \in Devices : NoneCreating(d) /\ d # DeviceOf[p] => NoneCreating(d)'
    BY <2>6 DEF NoneCreating
  <2>10. DeviceOf[p] \in Devices /\ accountKey' = None
    BY <1>1, <1>3, Constants DEF server
  <2>11. Held'
    <3> SUFFICES ASSUME Sane'
                 PROVE  /\ \A d \in Devices : spki'[d] # None => jwk'[d] = spki'[d] /\ NoneCreating(d)'
                        /\ \A q, s \in Pages : /\ Creating(q)' /\ Creating(s)' /\ DeviceOf[q] = DeviceOf[s]
                                              => q = s
      BY <2>10 DEF Held
    <3>1. spki[DeviceOf[p]] = None
      BY <2>8, <2>10 DEF AccountInv, TypeOK
    <3>2. \A d \in Devices : spki'[d] # None => jwk'[d] = spki'[d] /\ NoneCreating(d)'
      BY <1>1, <1>3, <2>8, <2>9, <3>1 DEF AccountInv, KeyInv, Held, store
    <3>3. \A q, s \in Pages : Creating(q)' /\ Creating(s)' /\ DeviceOf[q] = DeviceOf[s] => q = s
      BY <2>6, <2>8 DEF AccountInv, KeyInv, Held, NoneCreating
    <3> QED BY <3>2, <3>3
  <2>12. ASSUME NEW q \in Pages PROVE Fine(page[q], q)'
    <3>1. DeviceOf[q] \in Devices /\ Fine(page[q], q)
      BY Constants DEF AccountInv, KeyInv
    <3>2. CASE q = p
      BY <1>1, <2>2, <2>3, <3>1, <3>2 DEF Fine, server
    <3>3. CASE q # p
      <4>1. page'[q] = page[q]
        BY <2>3, <3>3
      <4>2. /\ Sane' /\ page[q].step \in {"written", "uploading", "syncing"} =>
                 jwk[DeviceOf[q]] = page[q].key /\ NoneCreating(DeviceOf[q])'
        BY <1>3, <2>8, <2>9, <3>1 DEF Fine
      <4> QED BY <1>1, <2>8, <3>1, <4>1, <4>2 DEF Fine, store, server
    <3> QED BY <3>2, <3>3
  <2> QED BY <2>4, <2>5, <2>7, <2>11, <2>12 DEF AccountInv, KeyInv
<1> QED BY <1>2, <1>3

LEMMA CreatePrivateStep == ASSUME AccountInv, NEW p \in Pages, CreatePrivate(p) PROVE AccountInv'
<1> DEFINE d == DeviceOf[p]
           k == made + 1
           r == [page[p] EXCEPT !.step = "written", !.key = k]
<1>1. /\ page[p].step = "creating" /\ made < MaxKeys /\ made' = k /\ jwk' = [jwk EXCEPT ![d] = k]
      /\ Becomes(p, r) /\ UNCHANGED <<spki, server, req, events, ghosts>>
  BY DEF CreatePrivate
<1>2. /\ made \in Nat /\ k \in Keys /\ k \in 0..MaxKeys /\ k # None /\ d \in Devices
      /\ \A n \in 0..made : n \in 0..k /\ k \in 0..k
  BY <1>1, Entries, Constants DEF AccountInv, Keys
<1> HIDE DEF k, d
<1>3. /\ r \in PageType /\ r.step = "written" /\ r.key = k /\ r.told = page[p].told
      /\ r.need = page[p].need /\ r.then = page[p].then
  BY <1>2, Page DEF PageType, Steps, KeyOrNone
<1> HIDE DEF r
<1>4. /\ page' \in [Pages -> PageType] /\ page'[p] = r
      /\ \A q \in Pages : q # p => page'[q] = page[q]
  BY <1>1, <1>3, PageSet DEF AccountInv
<1>5. /\ jwk' \in [Devices -> KeyOrNone] /\ jwk'[d] = k /\ \A x \in Devices : x # d => jwk'[x] = jwk[x]
  BY <1>1, <1>2, Entries DEF AccountInv, KeyOrNone
<1>6. TypeOK'
  BY <1>1, <1>2, <1>4, <1>5 DEF AccountInv, TypeOK, PageType, KeyOrNone, server, ghosts
<1>7. KeysAreMade'
  BY <1>1, <1>2, <1>5 DEF AccountInv, KeyInv, KeysAreMade, server
<1>8. \A q \in Pages : Creating(q)' <=> q # p /\ Creating(q)
  BY <1>3, <1>4 DEF Creating
<1>9. Creating(p)
  BY <1>1 DEF Creating
<1>10. FirstKey'
  <2> SUFFICES ASSUME ~raced PROVE made' <= 1 /\ \A q \in Pages : ~Creating(q)'
    BY <1>1 DEF FirstKey, ghosts
  <2>1. made = 0 /\ \A q \in Pages : Creating(q) => q = p
    BY <1>9 DEF AccountInv, KeyInv, FirstKey
  <2> QED BY <1>1, <1>8, <2>1 DEF k
<1>11. Sane' = Sane /\ ~NoneCreating(d)
  BY <1>1, <1>9 DEF Sane, ghosts, NoneCreating, d
<1>12. \A x \in Devices : NoneCreating(x) => NoneCreating(x)' /\ x # d
  BY <1>8, <1>11 DEF NoneCreating
<1>13. Sane => NoneCreating(d)'
  BY <1>8, <1>9 DEF AccountInv, KeyInv, Held, NoneCreating, d
<1>14. Held'
  BY <1>1, <1>5, <1>8, <1>11, <1>12 DEF AccountInv, KeyInv, Held, server
<1>15. ASSUME NEW q \in Pages PROVE Fine(page[q], q)'
  <2>1. DeviceOf[q] \in Devices /\ Fine(page[q], q)
    BY Constants DEF AccountInv, KeyInv
  <2>2. CASE q = p
    <3>1. Sane' => jwk'[DeviceOf[p]] = k /\ NoneCreating(DeviceOf[p])'
      BY <1>5, <1>11, <1>13 DEF d
    <3>2. jwk'[DeviceOf[p]] # None /\ accountKey' = accountKey
      BY <1>1, <1>2, <1>5 DEF d, server
    <3> QED BY <1>1, <1>2, <1>3, <1>4, <2>1, <2>2, <3>1, <3>2 DEF Fine
  <2>3. CASE q # p
    <3>1. page'[q] = page[q]
      BY <1>4, <2>3
    <3>2. jwk[DeviceOf[q]] # None => jwk'[DeviceOf[q]] # None
      BY <1>2, <1>5, <2>1
    <3>3. Sane' /\ page[q].step \in {"written", "uploading", "syncing"} /\ accountKey = None =>
            jwk'[DeviceOf[q]] = page[q].key /\ NoneCreating(DeviceOf[q])'
      BY <1>5, <1>11, <1>12, <2>1 DEF Fine
    <3> QED BY <1>1, <1>2, <1>11, <2>1, <3>1, <3>2, <3>3 DEF Fine, server, ghosts
  <2> QED BY <2>2, <2>3
<1> QED BY <1>6, <1>7, <1>10, <1>14, <1>15 DEF AccountInv, KeyInv

\* A write to IndexedDB that leaves the devices other pages rely on alone.
LEMMA StoreStep ==
    ASSUME AccountInv, NEW p \in Pages, NEW r \in PageType, Becomes(p, r), ~Creating(p), r.step # "creating",
           Fine(page[p], p)', Held',
           jwk' \in [Devices -> KeyOrNone], spki' \in [Devices -> KeyOrNone],
           \A x \in Devices : /\ jwk'[x] \in 0..made /\ spki'[x] \in 0..made
                              /\ jwk'[x] = None => jwk[x] = None /\ spki'[x] = None,
           Sane /\ accountKey = None => jwk' = jwk,
           UNCHANGED <<server, req, made, events, ghosts>>
    PROVE  AccountInv'
<1>1. /\ page' \in [Pages -> PageType] /\ page'[p] = r
      /\ \A q \in Pages : q # p => page'[q] = page[q]
  BY PageSet DEF AccountInv
<1>2. TypeOK'
  BY <1>1 DEF AccountInv, TypeOK, PageType, KeyOrNone, server, ghosts
<1>3. KeysAreMade'
  BY DEF AccountInv, KeyInv, KeysAreMade, server
<1>4. \A q \in Pages : Creating(q)' <=> Creating(q)
  BY <1>1 DEF Creating
<1>5. FirstKey'
  BY <1>4 DEF AccountInv, KeyInv, FirstKey, ghosts
<1>6. \A d \in Devices : NoneCreating(d)' <=> NoneCreating(d)
  BY <1>4 DEF NoneCreating
<1>7. Sane' = Sane
  BY DEF Sane, ghosts
<1>8. ASSUME NEW q \in Pages PROVE Fine(page[q], q)'
  <2>1. CASE q = p
    BY <2>1
  <2>2. CASE q # p
    <3>1. page'[q] = page[q] /\ Fine(page[q], q) /\ DeviceOf[q] \in Devices
      BY <1>1, <2>2, Constants DEF AccountInv, KeyInv
    <3> QED BY <1>6, <1>7, <3>1 DEF Fine, server, ghosts
  <2> QED BY <2>1, <2>2
<1> QED BY <1>2, <1>3, <1>5, <1>8 DEF AccountInv, KeyInv

\* Who is about to create a key, and whether anything spoils the claim, after a
\* step of a page that creates none.
LEMMA CreatorsStay ==
    ASSUME AccountInv, NEW p \in Pages, NEW r \in PageType, Becomes(p, r), ~Creating(p), r.step # "creating",
           UNCHANGED ghosts
    PROVE  /\ Sane' = Sane /\ \A q \in Pages : Creating(q)' <=> Creating(q)
           /\ \A d \in Devices : NoneCreating(d)' <=> NoneCreating(d)
<1>1. page'[p] = r /\ \A q \in Pages : q # p => page'[q] = page[q]
  BY PageSet DEF AccountInv
<1> QED BY <1>1 DEF Creating, NoneCreating, Sane, ghosts

LEMMA CreatePublicStep == ASSUME AccountInv, NEW p \in Pages, CreatePublic(p) PROVE AccountInv'
<1> DEFINE d == DeviceOf[p]
           k == page[p].key
           r == [page[p] EXCEPT !.step = "uploading"]
<1>1. /\ page[p].step = "written" /\ spki' = [spki EXCEPT ![d] = k]
      /\ Becomes(p, r) /\ UNCHANGED <<jwk, server, req, made, events, ghosts>>
  BY DEF CreatePublic
<1>2. /\ k \in KeyOrNone /\ k \in 0..made /\ k # None /\ jwk[d] # None /\ d \in Devices
      /\ Sane /\ accountKey = None => jwk[d] = k /\ NoneCreating(d)
  BY <1>1, Page, Constants DEF Fine, PageType
<1>3. /\ r \in PageType /\ r.step = "uploading" /\ r.key = k /\ r.told = page[p].told
      /\ r.need = page[p].need /\ r.then = page[p].then /\ ~Creating(p)
  BY <1>1, Page DEF PageType, Steps, Creating
<1> HIDE DEF r
<1>4. /\ spki' \in [Devices -> KeyOrNone] /\ spki'[d] = k /\ \A x \in Devices : x # d => spki'[x] = spki[x]
  BY <1>1, <1>2, Entries DEF AccountInv
<1>5. /\ Sane' = Sane /\ \A q \in Pages : Creating(q)' <=> Creating(q)
      /\ \A x \in Devices : NoneCreating(x)' <=> NoneCreating(x)
  BY <1>1, <1>3, CreatorsStay
<1>6. Held'
  BY <1>1, <1>2, <1>4, <1>5 DEF AccountInv, KeyInv, Held, server
<1>7. Fine(page[p], p)'
  <2>1. Sane' /\ accountKey' = None => jwk'[d] = k /\ NoneCreating(d)'
    BY <1>1, <1>2, <1>5 DEF server
  <2>2. r.told \in {None, accountKey'} \/ r.need = TRUE \/ r.then = "reload"
    BY <1>1, <1>3, Page DEF Fine, server
  <2>3. page'[p] = r
    BY <1>1, <1>3, PageSet DEF AccountInv
  <2> QED BY <1>1, <1>2, <1>3, <2>1, <2>2, <2>3 DEF Fine
<1>8. spki' \in [Devices -> KeyOrNone] /\ jwk' \in [Devices -> KeyOrNone] /\ jwk' = jwk
  BY <1>1, <1>4, Entries DEF AccountInv
<1>9. \A x \in Devices : /\ jwk'[x] \in 0..made /\ spki'[x] \in 0..made
                         /\ jwk'[x] = None => jwk[x] = None /\ spki'[x] = None
  BY <1>1, <1>2, <1>4 DEF AccountInv, TypeOK, KeyInv, KeysAreMade
<1> QED BY <1>1, <1>3, <1>6, <1>7, <1>8, <1>9, StoreStep

\* An imported key is the account's, unless it forks the account.
LEMMA ImportPrivateStep == ASSUME AccountInv, NEW p \in Pages, ImportPrivate(p) PROVE AccountInv'
<1> DEFINE d == DeviceOf[p]
           k == page[p].key
           r == [page[p] EXCEPT !.step = "imported"]
<1>1. /\ page[p].step = "importing" /\ jwk' = [jwk EXCEPT ![d] = k]
      /\ Becomes(p, r) /\ UNCHANGED <<spki, server, req, made, events, ghosts>>
  BY DEF ImportPrivate
<1>2. /\ k \in KeyOrNone /\ k \in 0..made /\ k # None /\ d \in Devices /\ page[p].then = "reload"
      /\ Sane => k = accountKey
  BY <1>1, Page, Constants DEF Fine, PageType
<1>3. /\ r \in PageType /\ r.step = "imported" /\ r.key = k /\ r.then = page[p].then /\ ~Creating(p)
  BY <1>1, Page DEF PageType, Steps, Creating
<1> HIDE DEF r
<1>4. /\ jwk' \in [Devices -> KeyOrNone] /\ jwk'[d] = k /\ \A x \in Devices : x # d => jwk'[x] = jwk[x]
  BY <1>1, <1>2, Entries DEF AccountInv
<1>5. /\ Sane' = Sane /\ \A q \in Pages : Creating(q)' <=> Creating(q)
      /\ \A x \in Devices : NoneCreating(x)' <=> NoneCreating(x)
  BY <1>1, <1>3, CreatorsStay
<1>6. Held'
  BY <1>1, <1>2, <1>4, <1>5 DEF AccountInv, KeyInv, Held, server
<1>7. Fine(page[p], p)'
  <2>1. page'[p] = r
    BY <1>1, <1>3, PageSet DEF AccountInv
  <2> QED BY <1>1, <1>2, <1>3, <1>4, <1>5, <2>1 DEF Fine, server
<1>8. spki' \in [Devices -> KeyOrNone] /\ spki' = spki /\ (Sane => accountKey # None)
  BY <1>1, <1>2, Entries DEF AccountInv
<1>9. \A x \in Devices : /\ jwk'[x] \in 0..made /\ spki'[x] \in 0..made
                         /\ jwk'[x] = None => jwk[x] = None /\ spki'[x] = None
  BY <1>1, <1>2, <1>4, <1>8 DEF AccountInv, TypeOK, KeyInv, KeysAreMade
<1> QED BY <1>1, <1>3, <1>4, <1>6, <1>7, <1>8, <1>9, StoreStep

LEMMA ImportPublicStep == ASSUME AccountInv, NEW p \in Pages, ImportPublic(p) PROVE AccountInv'
<1> DEFINE d == DeviceOf[p]
           k == page[p].key
<1>1. /\ page[p].step = "imported" /\ spki' = [spki EXCEPT ![d] = k]
      /\ UNCHANGED <<jwk, server, req, made, events, ghosts>>
      /\ \E s \in {"reading", "looking"} : Becomes(p, [page[p] EXCEPT !.step = s, !.need = FALSE])
  BY DEF ImportPublic
<1>2. PICK s \in {"reading", "looking"} : Becomes(p, [page[p] EXCEPT !.step = s, !.need = FALSE])
  BY <1>1
<1> DEFINE r == [page[p] EXCEPT !.step = s, !.need = FALSE]
<1>3. /\ k \in KeyOrNone /\ k \in 0..made /\ k # None /\ d \in Devices /\ page[p].then = "reload"
      /\ jwk[d] # None /\ (Sane => k = accountKey)
  BY <1>1, Page, Constants DEF Fine, PageType
<1>4. /\ r \in PageType /\ r.step \in {"reading", "looking"} /\ r.key = k /\ r.then = page[p].then /\ ~Creating(p)
  <2>1. page[p] \in PageType
    BY Page
  <2>2. r \in PageType /\ r.step = s /\ r.key = k /\ r.then = page[p].then
    BY <2>1 DEF PageType, Steps
  <2> QED BY <1>1, <2>2 DEF Creating
<1>5. Becomes(p, r)
  BY <1>2
<1> HIDE DEF r
<1>6. /\ spki' \in [Devices -> KeyOrNone] /\ spki'[d] = k /\ \A x \in Devices : x # d => spki'[x] = spki[x]
  BY <1>1, <1>3, Entries DEF AccountInv
<1>7. /\ Sane' = Sane /\ \A q \in Pages : Creating(q)' <=> Creating(q)
      /\ \A x \in Devices : NoneCreating(x)' <=> NoneCreating(x)
  BY <1>1, <1>4, <1>5, CreatorsStay
<1>8. Held'
  BY <1>1, <1>3, <1>6, <1>7 DEF AccountInv, KeyInv, Held, server
<1>9. Fine(page[p], p)'
  <2>1. page'[p] = r
    BY <1>4, <1>5, PageSet DEF AccountInv
  <2> QED BY <1>1, <1>3, <1>4, <2>1 DEF Fine
<1>10. jwk' \in [Devices -> KeyOrNone] /\ jwk' = jwk
  BY <1>1, Entries DEF AccountInv
<1>11. \A x \in Devices : /\ jwk'[x] \in 0..made /\ spki'[x] \in 0..made
                          /\ jwk'[x] = None => jwk[x] = None /\ spki'[x] = None
  BY <1>1, <1>3, <1>6 DEF AccountInv, TypeOK, KeyInv, KeysAreMade
<1> QED BY <1>1, <1>4, <1>5, <1>6, <1>8, <1>9, <1>10, <1>11, StoreStep

LEMMA EvictStep == ASSUME AccountInv, NEW d \in Devices, Evict(d) PROVE AccountInv'
<1>1. /\ \A p \in Pages : DeviceOf[p] = d => page[p].step = "closed"
      /\ jwk' = [jwk EXCEPT ![d] = None] /\ spki' = [spki EXCEPT ![d] = None] /\ evicted' = TRUE
      /\ UNCHANGED <<server, page, req, made, raced, tabs, forkSpread, overtaken>> /\ events' \in 0..MaxEvents
  BY EventCount DEF Evict, AccountInv
<1>2. /\ jwk' \in [Devices -> KeyOrNone] /\ spki' \in [Devices -> KeyOrNone]
      /\ jwk'[d] = None /\ spki'[d] = None
      /\ \A x \in Devices : x # d => jwk'[x] = jwk[x] /\ spki'[x] = spki[x]
  BY <1>1, Entries DEF AccountInv, KeyOrNone
<1>3. TypeOK'
  BY <1>1, <1>2 DEF AccountInv, TypeOK, KeyOrNone, server
<1>4. 0 \in 0..made
  BY Entries DEF AccountInv
<1>5. KeysAreMade'
  BY <1>1, <1>2, <1>4 DEF AccountInv, KeyInv, KeysAreMade, server, None
<1>6. FirstKey' /\ Held'
  BY <1>1 DEF AccountInv, KeyInv, FirstKey, Held, Sane, Creating
<1>7. ASSUME NEW p \in Pages PROVE Fine(page[p], p)'
  <2>1. page'[p] = page[p] /\ Fine(page[p], p) /\ DeviceOf[p] \in Devices /\ ~Sane'
    BY <1>1, Constants DEF AccountInv, KeyInv, Sane
  <2>2. page[p].step \in {"written", "imported"} => jwk'[DeviceOf[p]] # None
    BY <1>1, <1>2, <2>1 DEF Fine
  <2> QED BY <1>1, <2>1, <2>2 DEF Fine, server
<1> QED BY <1>3, <1>5, <1>6, <1>7 DEF AccountInv, KeyInv

-----------------------------------------------------------------------------
(* Requests                                                                *)

LEMMA LinkStep == ASSUME AccountInv, NEW p \in Pages, Link(p) PROVE AccountInv'
<1> DEFINE r == [page[p] EXCEPT !.link = TRUE]
<1>1. /\ page[p].step = "idle" /\ Becomes(p, r) /\ req[p].status = "none"
      /\ UNCHANGED <<store, server, made, ghosts>> /\ events' \in 0..MaxEvents
  BY EventCount DEF Link, AccountInv
<1>2. /\ req' \in [Pages -> ReqType]
      /\ \A q \in Pages : \/ req'[q] = req[q]
                          \/ req'[q].status \in {"pending", "gone"} /\ req'[q].key = None
  <2> DEFINE row(status) == [status |-> status, key |-> None]
             new(q) == IF q = p THEN row("pending")
                       ELSE IF DeviceOf[q] = DeviceOf[p] /\ req[q].status = "pending" THEN row("gone")
                       ELSE req[q]
  <2>1. req' = [q \in Pages |-> new(q)]
    BY DEF Link
  <2>2. \A q \in Pages : new(q) \in {row("pending"), row("gone"), req[q]}
    OBVIOUS
  <2>3. \A status \in {"pending", "gone"} : row(status) \in ReqType
    BY DEF ReqType, KeyOrNone
  <2> HIDE DEF new
  <2>4. \A q \in Pages : new(q) \in ReqType
    BY <2>2, <2>3, Entries DEF AccountInv
  <2>5. \A q \in Pages : req'[q] = new(q)
    BY <2>1
  <2> QED BY <2>1, <2>2, <2>4, <2>5
<1>3. /\ r \in PageType /\ r.step = "idle" /\ r.then = page[p].then /\ r.need = page[p].need
      /\ r.told = page[p].told /\ r.key = page[p].key
  BY <1>1, Page DEF PageType
<1> HIDE DEF r
<1>4. /\ page' \in [Pages -> PageType] /\ page'[p] = r
      /\ \A q \in Pages : q # p => page'[q] = page[q]
  BY <1>1, <1>3, PageSet DEF AccountInv
<1>5. TypeOK'
  BY <1>1, <1>2, <1>4 DEF AccountInv, TypeOK, PageType, ReqType, KeyOrNone, store, server, ghosts
<1>6. KeysAreMade'
  BY <1>1, <1>2, Page DEF AccountInv, KeyInv, KeysAreMade, store, server, None
<1>7. \A q \in Pages : Creating(q)' <=> Creating(q)
  BY <1>1, <1>3, <1>4 DEF Creating
<1>8. /\ Sane' = Sane /\ \A d \in Devices : NoneCreating(d)' <=> NoneCreating(d)
  BY <1>1, <1>7 DEF Sane, NoneCreating, ghosts
<1>9. FirstKey' /\ Held'
  BY <1>1, <1>7, <1>8 DEF AccountInv, KeyInv, FirstKey, Held, store, server, ghosts
<1>10. ASSUME NEW q \in Pages PROVE Fine(page[q], q)'
  <2>1. Fine(page[q], q) /\ DeviceOf[q] \in Devices
    BY Constants DEF AccountInv, KeyInv
  <2>2. CASE q = p
    BY <1>1, <1>3, <1>4, <2>1, <2>2 DEF Fine, server
  <2>3. CASE q # p
    BY <1>1, <1>2, <1>4, <1>8, <2>1, <2>3 DEF Fine, store, server, ghosts
  <2> QED BY <2>2, <2>3
<1> QED BY <1>5, <1>6, <1>9, <1>10 DEF AccountInv, KeyInv

\* ApproveAuthRequest's UPDATE: of a denied request only if the denial came after
\* its SELECT.
LEMMA ApproveWritesStep == ASSUME AccountInv, NEW q \in Pages, ApproveWrites(q) PROVE AccountInv'
<1> DEFINE p == page[q].peer
           k == page[q].key
           r == [page[q] EXCEPT !.step = "idle", !.key = None, !.peer = NoPage]
<1>1. /\ page[q].step = "confirming" /\ Becomes(q, r)
      /\ UNCHANGED <<store, server, made, events, ghosts>>
  BY DEF ApproveWrites
<1>2. k \in KeyOrNone /\ k \in 0..made /\ k # None
  BY <1>1, Page DEF Fine, PageType
<1>3. /\ req' \in [Pages -> ReqType]
      /\ \A s \in Pages : \/ req'[s] = req[s]
                          \/ req'[s].status = "approved" /\ req'[s].key = k
  <2> DEFINE row == [status |-> "approved", key |-> k]
             new == IF req[p].status = "gone" THEN req[p] ELSE row
  <2>1. req' = [req EXCEPT ![p] = new]
    BY DEF ApproveWrites
  <2>2. row \in ReqType /\ row.status = "approved" /\ row.key = k
    BY <1>2 DEF ReqType
  <2> HIDE DEF row
  <2>3. CASE p \in Pages
    <3>1. new \in ReqType /\ new \in {req[p], row}
      BY <2>2, <2>3, Entries DEF AccountInv
    <3> HIDE DEF new, p
    <3> QED BY <2>1, <2>2, <2>3, <3>1, Entries DEF AccountInv
  <2>4. CASE p \notin Pages
    <3> HIDE DEF new, p
    <3>1. req' = req
      BY <2>1, <2>4, Entries DEF AccountInv
    <3> QED BY <3>1, Entries DEF AccountInv
  <2> QED BY <2>3, <2>4
<1>4. /\ r \in PageType /\ r.step = "idle" /\ r.then = page[q].then /\ r.need = page[q].need
      /\ r.told = page[q].told /\ r.key = None
  BY <1>1, Page DEF PageType, Steps, KeyOrNone
<1> HIDE DEF r, p, k
<1>5. /\ page' \in [Pages -> PageType] /\ page'[q] = r
      /\ \A s \in Pages : s # q => page'[s] = page[s]
  BY <1>1, <1>4, PageSet DEF AccountInv
<1>6. TypeOK'
  BY <1>1, <1>2, <1>3, <1>5 DEF AccountInv, TypeOK, PageType, ReqType, KeyOrNone, store, server, ghosts
<1>7. KeysAreMade'
  BY <1>1, <1>2, <1>3 DEF AccountInv, KeyInv, KeysAreMade, store, server
<1>8. \A s \in Pages : Creating(s)' <=> Creating(s)
  BY <1>1, <1>4, <1>5 DEF Creating
<1>9. /\ Sane' = Sane /\ \A d \in Devices : NoneCreating(d)' <=> NoneCreating(d)
  BY <1>1, <1>8 DEF Sane, NoneCreating, ghosts
<1>10. FirstKey' /\ Held'
  BY <1>1, <1>8, <1>9 DEF AccountInv, KeyInv, FirstKey, Held, store, server, ghosts
<1>11. ASSUME NEW s \in Pages PROVE Fine(page[s], s)'
  <2>1. Fine(page[s], s) /\ DeviceOf[s] \in Devices
    BY Constants DEF AccountInv, KeyInv
  <2>2. CASE s = q
    BY <1>1, <1>4, <1>5, <2>1, <2>2, Page DEF Fine, server, None
  <2>3. CASE s # q
    BY <1>1, <1>3, <1>5, <1>9, <2>1, <2>3 DEF Fine, store, server, ghosts
  <2> QED BY <2>2, <2>3
<1> QED BY <1>6, <1>7, <1>10, <1>11 DEF AccountInv, KeyInv

LEMMA DenyStep == ASSUME AccountInv, NEW p \in Pages, Deny(p) PROVE AccountInv'
<1>1. /\ req[p].status = "pending" /\ req' = [req EXCEPT ![p].status = "denied"]
      /\ UNCHANGED <<store, server, page, made, events, raced, tabs, evicted, forkSpread>>
      /\ overtaken' = IF \E q \in Pages : page[q].step = "confirming" /\ page[q].peer = p
                      THEN overtaken \cup {p} ELSE overtaken
  BY DEF Deny
<1>2. /\ req' \in [Pages -> ReqType] /\ req'[p].status = "denied" /\ req'[p].key = req[p].key
      /\ \A s \in Pages : s # p => req'[s] = req[s]
  BY <1>1, Entries DEF AccountInv, ReqType
<1>3. overtaken \subseteq overtaken' /\ overtaken' \subseteq Pages
  BY <1>1 DEF AccountInv, TypeOK
<1>4. TypeOK'
  BY <1>1, <1>2, <1>3 DEF AccountInv, TypeOK, ReqType, KeyOrNone, store, server
<1>5. KeysAreMade' /\ FirstKey' /\ Held'
  BY <1>1, <1>2 DEF AccountInv, KeyInv, KeysAreMade, FirstKey, Held, Sane, NoneCreating, Creating, store, server
<1>6. ASSUME NEW s \in Pages PROVE Fine(page[s], s)'
  <2>1. Fine(page[s], s) /\ page'[s] = page[s]
    BY <1>1 DEF AccountInv, KeyInv
  <2>2. page[s].step = "confirming" /\ page[s].peer = p => p \in overtaken'
    BY <1>1
  <2> QED BY <1>1, <1>2, <1>3, <2>1, <2>2 DEF Fine, Sane, NoneCreating, Creating, store, server
<1> QED BY <1>4, <1>5, <1>6 DEF AccountInv, KeyInv

-----------------------------------------------------------------------------
LEMMA NextAccountInv == ASSUME AccountInv, [Next]_vars PROVE AccountInv'
<1>1. CASE UNCHANGED vars
  <2>1. TypeOK'
    BY <1>1 DEF vars, AccountInv, TypeOK
  <2>2. KeysAreMade' /\ FirstKey' /\ Held'
    BY <1>1 DEF vars, AccountInv, KeyInv, KeysAreMade, FirstKey, Held, Sane, NoneCreating, Creating
  <2>3. ASSUME NEW p \in Pages PROVE Fine(page[p], p)'
    <3>1. Fine(page[p], p) /\ page'[p] = page[p]
      BY <1>1 DEF vars, AccountInv, KeyInv
    <3> QED BY <1>1, <3>1 DEF vars, Fine, Sane, NoneCreating, Creating
  <2> QED BY <2>1, <2>2, <2>3 DEF AccountInv, KeyInv
<1>2. ASSUME NEW d \in Devices, Evict(d) PROVE AccountInv'
  BY <1>2, EvictStep
<1>3. ASSUME NEW p \in Pages,
             \/ Open(p) \/ Look(p) \/ AskServed(p) \/ AskFails(p) \/ CreatePrivate(p) \/ CreatePublic(p)
             \/ Upload(p) \/ Use(p) \/ ReadPublic(p) \/ SyncServed(p) \/ SyncLost(p)
      PROVE  AccountInv'
  BY <1>3, OpenStep, LookStep, AskServedStep, AskFailsStep, CreatePrivateStep, CreatePublicStep, UploadStep,
     UseStep, ReadPublicStep, SyncServedStep, SyncLostStep
<1>4. ASSUME NEW p \in Pages,
             \/ Link(p) \/ ApproveChecks(p) \/ ApproveWrites(p) \/ Deny(p) \/ PollAnswered(p)
             \/ ImportPrivate(p) \/ ImportPublic(p) \/ Backup(p) \/ BackupEnds(p) \/ Recover(p) \/ Close(p)
      PROVE  AccountInv'
  BY <1>4, LinkStep, ApproveChecksStep, ApproveWritesStep, DenyStep, PollStep, ImportPrivateStep,
     ImportPublicStep, BackupStep, BackupEndsStep, RecoverStep, CloseStep
<1>5. ASSUME NEW p \in Pages, NEW q \in Pages, Approve(q, p) PROVE AccountInv'
  BY <1>5, ApproveStep
<1> QED BY <1>1, <1>2, <1>3, <1>4, <1>5 DEF Next

\* TypeOK: stores, rows, pages and requests keep their types; an approved request
\* has a key, and the public half is never stored alone.
THEOREM AccountTypes == Spec => []TypeOK
<1>1. AccountInv => TypeOK
  BY DEF AccountInv
<1> QED BY <1>1, InitAccountInv, NextAccountInv, PTL DEF Spec

LEMMA AtMostKeyOne == ASSUME AccountInv PROVE OneAccountKey
<1> SUFFICES ASSUME ~raced PROVE Cardinality(AllKeys) <= 1
  BY DEF OneAccountKey
<1>1. made \in Nat /\ made <= 1
  BY Entries DEF AccountInv, KeyInv, FirstKey
<1>2. \A p \in Pages : page[p].key \in 0..made
  BY DEF AccountInv, KeyInv, Fine
<1>3. AllKeys \subseteq {1}
  <2>1. \A k \in AllKeys : k \in 0..made /\ k # 0
    BY <1>2 DEF AccountInv, KeyInv, KeysAreMade, AllKeys, None
  <2> QED BY <1>1, <2>1
<1>4. CASE AllKeys = {}
  BY <1>4, FS_EmptySet
<1>5. CASE AllKeys # {}
  <2>1. AllKeys = {1}
    BY <1>3, <1>5
  <2>2. Cardinality({1}) = 1
    BY FS_Singleton
  <2> QED BY <2>1, <2>2
<1> QED BY <1>4, <1>5

\* OneAccountKey: without two pages that find no key at once, there is one
\* identity key anywhere, however many devices, pages, links and recoveries.
THEOREM OneKeyEver == Spec => []OneAccountKey
<1> QED BY InitAccountInv, NextAccountInv, AtMostKeyOne, PTL DEF Spec

\* AccountKeyHeld: some device holds the private half of the account's key.
THEOREM TheKeyIsHeld == Spec => []AccountKeyHeld
<1>1. AccountInv => AccountKeyHeld
  BY DEF AccountInv, KeyInv, Held, Sane, AccountKeyHeld
<1> QED BY <1>1, InitAccountInv, NextAccountInv, PTL DEF Spec

\* ForkIsSignalled: a page that has been answered about its device's key, which
\* is not the account's, asks for recovery or has two unmatched halves.
THEOREM ForksAreSignalled == Spec => []ForkIsSignalled
<1>1. ASSUME AccountInv PROVE ForkIsSignalled
  <2> SUFFICES ASSUME NEW p \in Pages, page[p].step = "idle", page[p].told = spki[DeviceOf[p]],
                      jwk[DeviceOf[p]] \notin {None, accountKey}, jwk[DeviceOf[p]] = spki[DeviceOf[p]]
               PROVE  page[p].need
    BY DEF ForkIsSignalled
  <2> QED BY <1>1 DEF AccountInv, KeyInv, Fine
<1> QED BY <1>1, InitAccountInv, NextAccountInv, PTL DEF Spec

LEMMA DenialStep ==
    ASSUME AccountInv, [Next]_vars, NEW p \in Pages, req[p].status = "denied", req'[p].status # "denied"
    PROVE  p \in overtaken
<1>1. req' # req
  OBVIOUS
<1>2. ASSUME NEW q \in Pages, ApproveWrites(q) PROVE p \in overtaken
  <2>1. page[q].peer = p
    BY <1>2, Entries DEF ApproveWrites, AccountInv
  <2> QED BY <1>2, <2>1 DEF ApproveWrites, AccountInv, KeyInv, Fine
<1>3. ASSUME NEW q \in Pages, Link(q) PROVE FALSE
  BY <1>3 DEF Link
<1>4. ASSUME NEW q \in Pages, Deny(q) PROVE FALSE
  <2>1. req' = [req EXCEPT ![q].status = "denied"] /\ req[q].status = "pending"
    BY <1>4 DEF Deny
  <2> QED BY <2>1, Entries DEF AccountInv
<1>5. ASSUME NEW q \in Pages,
             \/ Open(q) \/ Look(q) \/ AskServed(q) \/ AskFails(q) \/ CreatePrivate(q) \/ CreatePublic(q)
             \/ Upload(q) \/ Use(q) \/ ReadPublic(q) \/ SyncServed(q) \/ SyncLost(q)
             \/ ApproveChecks(q) \/ PollAnswered(q) \/ ImportPrivate(q) \/ ImportPublic(q) \/ Backup(q)
             \/ BackupEnds(q) \/ Recover(q) \/ Close(q) \/ \E s \in Pages : Approve(s, q)
      PROVE  req' = req
  BY <1>5 DEF Open, Look, AskServed, AskFails, CreatePrivate, CreatePublic, Upload, Use, ReadPublic, SyncServed,
              SyncLost, ApproveChecks, PollAnswered, ImportPrivate, ImportPublic, Backup, BackupEnds, Recover,
              Close, Approve
<1>6. (\E d \in Devices : Evict(d)) \/ UNCHANGED vars => req' = req
  BY DEF Evict, vars
<1> QED BY <1>1, <1>2, <1>3, <1>4, <1>5, <1>6 DEF Next

\* DenialHolds: a denied request is approved only by an approval that had found
\* it pending before the denial.
THEOREM DenialsHold == Spec => DenialHolds
<1>1. ASSUME AccountInv, [Next]_vars
      PROVE  [\A p \in Pages : req[p].status = "denied" /\ req'[p].status # "denied" => p \in overtaken]_vars
  BY <1>1, DenialStep
<1> QED BY <1>1, InitAccountInv, NextAccountInv, PTL DEF Spec, DenialHolds
=============================================================================
