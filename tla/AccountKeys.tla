----------------------------- MODULE AccountKeys -----------------------------
(***************************************************************************)
(* The identity key of one account: created by the first device that finds *)
(* the account without one, kept in the IndexedDB all pages of a device    *)
(* share, published to user_keys, copied to other devices by an approved   *)
(* link request or by a password backup.                                   *)
(*                                                                         *)
(* A key pair is its number.  IndexedDB keeps the private half (jwk) and   *)
(* the public half (spki) in two writes.  A page runs one key operation at *)
(* a time; the pages of a device interleave at every await.                *)
(***************************************************************************)
EXTENDS Naturals, FiniteSets

CONSTANTS
    Devices,
    Pages,
    DeviceOf,  \* the device a page is open on
    NoPage,    \* no page: an approval that is not under way
    MaxKeys,   \* bound: key pairs generated
    MaxEvents  \* bound: links, backups, recoveries, closed pages, evictions

ASSUME DeviceAssumption == DeviceOf \in [Pages -> Devices] /\ NoPage \notin Pages
ASSUME BoundAssumption == MaxKeys \in Nat \ {0} /\ MaxEvents \in Nat

VARIABLES
    jwk, spki,   \* IndexedDB per device
    accountKey,  \* the row of user_keys
    backup,      \* the key in user_keys_backup
    page,        \* per page: CryptoService and DeviceAuthComponent
    req,         \* per page: its row in device_auth_requests
    made,        \* key pairs generated so far
    events,
    raced,       \* ghost: a page was told "no key" when one had been generated or was about to be
    tabs,        \* ghost: two pages of one device created a key at once
    evicted,     \* ghost: a device's storage was evicted
    forkSpread,  \* ghost: a key other than the account's was imported
    overtaken    \* ghost: requests denied while an approval was between its two statements

vars == <<jwk, spki, accountKey, backup, page, req, made, events,
          raced, tabs, evicted, forkSpread, overtaken>>
store == <<jwk, spki>>
server == <<accountKey, backup>>
ghosts == <<raced, tabs, evicted, forkSpread, overtaken>>

None == 0
Keys == 1..MaxKeys
Fresh == [step |-> "looking", then |-> "start", key |-> None, peer |-> NoPage,
          need |-> FALSE, memo |-> TRUE, link |-> FALSE, told |-> None]
Closed == [Fresh EXCEPT !.step = "closed"]

Steps == {"closed", "looking", "asked", "creating", "written", "uploading", "reading", "syncing",
          "idle", "importing", "imported", "backing", "approving", "confirming"}

TypeOK ==
    /\ jwk \in [Devices -> Keys \cup {None}] /\ spki \in [Devices -> Keys \cup {None}]
    /\ accountKey \in Keys \cup {None} /\ backup \in Keys \cup {None}
    /\ page \in [Pages -> [step : Steps, then : {"start", "sync", "later", "reload"},
                           key : Keys \cup {None}, peer : Pages \cup {NoPage},
                           need : BOOLEAN, memo : BOOLEAN, link : BOOLEAN,
                           told : Keys \cup {None}]]
    /\ req \in [Pages -> [status : {"none", "pending", "approved", "denied", "gone"},
                          key : Keys \cup {None}]]
    /\ made \in 0..MaxKeys /\ events \in 0..MaxEvents
    /\ raced \in BOOLEAN /\ tabs \in BOOLEAN /\ evicted \in BOOLEAN /\ forkSpread \in BOOLEAN
    /\ overtaken \subseteq Pages
    /\ \A p \in Pages : req[p].key # None <=> req[p].status = "approved"
    /\ \A d \in Devices : jwk[d] = None => spki[d] = None

Init ==
    /\ jwk = [d \in Devices |-> None] /\ spki = [d \in Devices |-> None]
    /\ accountKey = None /\ backup = None
    /\ page = [p \in Pages |-> Closed]
    /\ req = [p \in Pages |-> [status |-> "none", key |-> None]]
    /\ made = 0 /\ events = 0
    /\ raced = FALSE /\ tabs = FALSE /\ evicted = FALSE /\ forkSpread = FALSE /\ overtaken = {}

Event == events < MaxEvents /\ events' = events + 1
Becomes(p, r) == page' = [page EXCEPT ![p] = r]

\* Mutant: the first version of PutKey, which replaced the row.
Overwrites(k) == accountKey' = k

\* PutKey: ON CONFLICT DO NOTHING, and 409 when the stored key is another one.
PutKey(k) == accountKey' = IF accountKey = None THEN k ELSE accountKey
Refused(k) == accountKey \notin {None, k}

-----------------------------------------------------------------------------
(* init()                                                                  *)

\* A signed-in start: AppComponent and DeviceAuthComponent await one init().
Open(p) ==
    /\ page[p].step = "closed" /\ Becomes(p, Fresh)
    /\ UNCHANGED <<store, server, req, made, events, ghosts>>

\* What the awaiting code does when init resolves with page record r: at the
\* start syncPublicKey calls init again, which runs again if the check had no
\* answer, and goes on to read the public half.
Resolved(r) ==
    CASE r.then = "start" -> [r EXCEPT !.then = "sync",
                                       !.step = IF r.memo THEN "reading" ELSE "looking", !.memo = TRUE]
      [] r.then = "later" -> [r EXCEPT !.step = "idle", !.then = "sync"]
      [] OTHER            -> [r EXCEPT !.step = "reading"]

Look(p) ==
    /\ page[p].step = "looking"
    /\ Becomes(p, IF jwk[DeviceOf[p]] # None THEN Resolved(page[p])
                  ELSE [page[p] EXCEPT !.step = "asked"])
    /\ UNCHANGED <<store, server, req, made, events, ghosts>>

Creating(p) == page[p].step = "creating"

\* GET /account-key: 404 lets the page create a key, any key asks for recovery.
AskServed(p) ==
    /\ page[p].step = "asked"
    /\ IF accountKey # None
       THEN Becomes(p, Resolved([page[p] EXCEPT !.need = TRUE])) /\ UNCHANGED <<raced, tabs>>
       ELSE /\ Becomes(p, [page[p] EXCEPT !.step = "creating"])
            /\ raced' = (raced \/ made > 0 \/ \E q \in Pages : Creating(q))
            /\ tabs' = (tabs \/ jwk[DeviceOf[p]] # None
                             \/ \E q \in Pages : Creating(q) /\ DeviceOf[q] = DeviceOf[p])
    /\ UNCHANGED <<store, server, req, made, events, evicted, forkSpread, overtaken>>

\* Mutant: no answer is taken for "the account has no key".
GuessesMissing(p) == [page[p] EXCEPT !.step = "creating"]

\* No answer, or 401: decide nothing, and let the next init ask again.
Undecided(p) == Resolved([page[p] EXCEPT !.memo = FALSE])

AskFails(p) ==
    /\ page[p].step = "asked" /\ Becomes(p, Undecided(p))
    /\ UNCHANGED <<store, server, req, made, events, ghosts>>

\* Mutant: the public half is stored first.
PublicFirst(p) ==
    /\ page[p].step = "creating" /\ made < MaxKeys
    /\ made' = made + 1
    /\ spki' = [spki EXCEPT ![DeviceOf[p]] = made']
    /\ Becomes(p, [page[p] EXCEPT !.step = "written", !.key = made'])
    /\ UNCHANGED <<jwk, server, req, events, ghosts>>

CreatePrivate(p) ==
    /\ page[p].step = "creating" /\ made < MaxKeys
    /\ made' = made + 1
    /\ jwk' = [jwk EXCEPT ![DeviceOf[p]] = made']
    /\ Becomes(p, [page[p] EXCEPT !.step = "written", !.key = made'])
    /\ UNCHANGED <<spki, server, req, events, ghosts>>

CreatePublic(p) ==
    /\ page[p].step = "written"
    /\ spki' = [spki EXCEPT ![DeviceOf[p]] = page[p].key]
    /\ Becomes(p, [page[p] EXCEPT !.step = "uploading"])
    /\ UNCHANGED <<jwk, server, req, made, events, ghosts>>

\* The PUT of a new key: whatever the answer, or none, init resolves.
Upload(p) ==
    /\ page[p].step = "uploading"
    /\ PutKey(page[p].key) \/ UNCHANGED accountKey
    /\ Becomes(p, Resolved([page[p] EXCEPT !.key = None]))
    /\ UNCHANGED <<store, backup, req, made, events, ghosts>>

\* Any later use of the service: init asks again if it had no answer.
Use(p) ==
    /\ page[p].step = "idle" /\ ~page[p].memo
    /\ Becomes(p, [page[p] EXCEPT !.step = "looking", !.then = "later", !.memo = TRUE])
    /\ UNCHANGED <<store, server, req, made, events, ghosts>>

-----------------------------------------------------------------------------
(* syncPublicKey                                                           *)

\* An import ends with a reload of the page.
AfterSync(r) == IF r.then = "reload" THEN Fresh ELSE [r EXCEPT !.step = "idle", !.key = None]

ReadPublic(p) ==
    /\ page[p].step = "reading"
    /\ Becomes(p, IF spki[DeviceOf[p]] = None THEN AfterSync(page[p])
                  ELSE [page[p] EXCEPT !.step = "syncing", !.key = spki[DeviceOf[p]]])
    /\ UNCHANGED <<store, server, req, made, events, ghosts>>

\* Mutant: a refusal is only logged.
OnlyLogs(p) == page[p].need

Signalled(p) == page[p].need \/ Refused(page[p].key)

SyncServed(p) ==
    /\ page[p].step = "syncing"
    /\ PutKey(page[p].key)
    /\ Becomes(p, AfterSync([page[p] EXCEPT !.need = Signalled(p), !.told = page[p].key]))
    /\ UNCHANGED <<store, backup, req, made, events, ghosts>>

\* The answer is lost, or the request before it.
SyncLost(p) ==
    /\ page[p].step = "syncing"
    /\ PutKey(page[p].key) \/ UNCHANGED accountKey
    /\ Becomes(p, AfterSync(page[p]))
    /\ UNCHANGED <<store, backup, req, made, events, ghosts>>

-----------------------------------------------------------------------------
(* Linking a device                                                        *)

\* startNewDeviceFlow and CreateAuthRequest, which drops what the device still
\* has pending.  Bound: one request for each page.
Link(p) ==
    /\ Event /\ page[p].step = "idle" /\ req[p].status = "none"
    /\ Becomes(p, [page[p] EXCEPT !.link = TRUE])
    /\ req' = [q \in Pages |->
                 IF q = p THEN [status |-> "pending", key |-> None]
                 ELSE IF DeviceOf[q] = DeviceOf[p] /\ req[q].status = "pending"
                 THEN [status |-> "gone", key |-> None] ELSE req[q]]
    /\ UNCHANGED <<store, server, made, ghosts>>

\* approveRequest on another device wraps the key that device has by then.
Approve(q, p) ==
    /\ page[q].step = "idle" /\ DeviceOf[q] # DeviceOf[p]
    /\ req[p].status = "pending" /\ jwk[DeviceOf[q]] # None
    /\ Becomes(q, [page[q] EXCEPT !.step = "approving", !.key = jwk[DeviceOf[q]], !.peer = p])
    /\ UNCHANGED <<store, server, req, made, events, ghosts>>

\* Mutant: ApproveAuthRequest without its SELECT.
AnyRequest(p) == TRUE

StillPending(p) == req[p].status = "pending"

\* ApproveAuthRequest: a SELECT, then an UPDATE that asks for nothing.
ApproveChecks(q) ==
    /\ page[q].step = "approving"
    /\ Becomes(q, IF StillPending(page[q].peer) THEN [page[q] EXCEPT !.step = "confirming"]
                  ELSE [page[q] EXCEPT !.step = "idle", !.key = None, !.peer = NoPage])
    /\ UNCHANGED <<store, server, req, made, events, ghosts>>

ApproveWrites(q) ==
    /\ page[q].step = "confirming"
    /\ LET p == page[q].peer
       IN req' = [req EXCEPT ![p] = IF @.status = "gone" THEN @
                                    ELSE [status |-> "approved", key |-> page[q].key]]
    /\ Becomes(q, [page[q] EXCEPT !.step = "idle", !.key = None, !.peer = NoPage])
    /\ UNCHANGED <<store, server, made, events, ghosts>>

\* denyRequest on another device, or cancel() on this one, whose polls may still
\* be under way.  No request expires: the driver hands expires_at over in a form
\* that GetAuthRequest cannot parse.
Deny(p) ==
    /\ req[p].status = "pending"
    /\ req' = [req EXCEPT ![p].status = "denied"]
    /\ overtaken' = IF \E q \in Pages : page[q].step = "confirming" /\ page[q].peer = p
                    THEN overtaken \cup {p} ELSE overtaken
    /\ UNCHANGED <<store, server, page, made, events, raced, tabs, evicted, forkSpread>>

\* Both imports: the key k is about to be written.
Import(p, k) ==
    /\ Becomes(p, [page[p] EXCEPT !.step = "importing", !.then = "reload", !.key = k, !.link = FALSE])
    /\ forkSpread' = (forkSpread \/ k # accountKey)

\* startPolling, handleDeviceApproved.
PollAnswered(p) ==
    /\ page[p].step = "idle" /\ page[p].link
    /\ \/ req[p].status = "approved" /\ Import(p, req[p].key)
       \/ req[p].status = "denied" /\ Becomes(p, [page[p] EXCEPT !.link = FALSE]) /\ UNCHANGED forkSpread
    /\ UNCHANGED <<store, server, req, made, events, raced, tabs, evicted, overtaken>>

-----------------------------------------------------------------------------
(* Backup and recovery, storage, pages                                     *)

ImportPrivate(p) ==
    /\ page[p].step = "importing"
    /\ jwk' = [jwk EXCEPT ![DeviceOf[p]] = page[p].key]
    /\ Becomes(p, [page[p] EXCEPT !.step = "imported"])
    /\ UNCHANGED <<spki, server, req, made, events, ghosts>>

\* needsRecovery falls, and syncPublicKey follows.
ImportPublic(p) ==
    /\ page[p].step = "imported"
    /\ spki' = [spki EXCEPT ![DeviceOf[p]] = page[p].key]
    /\ Becomes(p, [page[p] EXCEPT !.step = IF page[p].memo THEN "reading" ELSE "looking",
                                  !.need = FALSE])
    /\ UNCHANGED <<jwk, server, req, made, events, ghosts>>

\* createKeyBackup, then UploadKeyBackup.
Backup(p) ==
    /\ Event /\ page[p].step = "idle" /\ page[p].memo /\ jwk[DeviceOf[p]] # None
    /\ Becomes(p, [page[p] EXCEPT !.step = "backing", !.key = jwk[DeviceOf[p]]])
    /\ UNCHANGED <<store, server, req, made, ghosts>>

BackupEnds(p) ==
    /\ page[p].step = "backing"
    /\ backup' \in {backup, page[p].key}
    /\ Becomes(p, [page[p] EXCEPT !.step = "idle", !.key = None])
    /\ UNCHANGED <<store, accountKey, req, made, events, ghosts>>

\* doRecover with the right password.
Recover(p) ==
    /\ Event /\ page[p].step = "idle" /\ backup # None
    /\ Import(p, backup)
    /\ UNCHANGED <<store, server, req, made, raced, tabs, evicted, overtaken>>

\* A page closed, reloaded or killed between any two awaits.
Close(p) ==
    /\ Event /\ page[p].step # "closed" /\ Becomes(p, Closed)
    /\ UNCHANGED <<store, server, req, made, ghosts>>

\* The browser evicts the storage of an origin no page of which is open.
Evict(d) ==
    /\ Event /\ jwk[d] # None
    /\ \A p \in Pages : DeviceOf[p] = d => page[p].step = "closed"
    /\ jwk' = [jwk EXCEPT ![d] = None] /\ spki' = [spki EXCEPT ![d] = None]
    /\ evicted' = TRUE
    /\ UNCHANGED <<server, page, req, made, raced, tabs, forkSpread, overtaken>>

Next ==
    \/ \E p \in Pages :
         \/ Open(p) \/ Look(p) \/ AskServed(p) \/ AskFails(p) \/ CreatePrivate(p) \/ CreatePublic(p)
         \/ Upload(p) \/ Use(p) \/ ReadPublic(p) \/ SyncServed(p) \/ SyncLost(p)
         \/ Link(p) \/ ApproveChecks(p) \/ ApproveWrites(p) \/ Deny(p) \/ PollAnswered(p)
         \/ ImportPrivate(p) \/ ImportPublic(p) \/ Backup(p) \/ BackupEnds(p) \/ Recover(p) \/ Close(p)
         \/ \E q \in Pages : Approve(q, p)
    \/ \E d \in Devices : Evict(d)

Spec == Init /\ [][Next]_vars

-----------------------------------------------------------------------------
(* Properties                                                              *)

AllKeys == ({accountKey, backup} \cup {jwk[d] : d \in Devices} \cup {spki[d] : d \in Devices}
            \cup {page[p].key : p \in Pages} \cup {req[p].key : p \in Pages}) \ {None}

\* Until two pages find the account without a key before either has published
\* one, there is a single identity key anywhere: failed checks, lost uploads,
\* links, backups, recoveries, closed pages and evictions create no second one.
OneAccountKey == ~raced => Cardinality(AllKeys) <= 1

\* Some device holds the private half of the account's key, unless a storage
\* was evicted, two pages of one device created keys at once, or a key other
\* than the account's was imported over it.
AccountKeyHeld ==
    accountKey # None /\ ~evicted /\ ~tabs /\ ~forkSpread => \E d \in Devices : jwk[d] = accountKey

\* A page whose device keeps another key than the account's, and that has
\* been answered about it, asks for recovery; only a device whose two halves
\* belong to different pairs is told that all is well.
ForkIsSignalled ==
    \A p \in Pages :
        LET d == DeviceOf[p]
        IN page[p].step = "idle" /\ page[p].told = spki[d] /\ jwk[d] \notin {None, accountKey}
           => page[p].need \/ jwk[d] # spki[d]

\* A denied request is not approved, unless the approval had already found it
\* pending when the denial came.
DenialHolds ==
    [][\A p \in Pages : req[p].status = "denied" /\ req'[p].status # "denied" => p \in overtaken]_vars
=============================================================================
