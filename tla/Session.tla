------------------------------- MODULE Session -------------------------------
(***************************************************************************)
(* One account signed in from tabs that share one storage: the refresh of  *)
(* an expired access token, its retry after a timeout, the claim of the    *)
(* refresh token on the server with its grace window, and logout.          *)
(*                                                                         *)
(* A refresh token is its row in refresh_tokens: fresh, used (exchanged    *)
(* within the grace window) or gone (exchanged before it, or deleted: both *)
(* are refused).  An access token is valid or expired.  A token that no    *)
(* tab, no call and no request remembers can never be presented again: its *)
(* row is left out and its name is used again.                             *)
(***************************************************************************)
EXTENDS Naturals, FiniteSets

CONSTANTS
    Tabs,     \* pages of one origin
    Tokens,   \* bound: names of refresh tokens, numbers
    MaxEvents \* bound: logins, logouts, reloads, timeouts that leave a request on its way

ASSUME TokensAssumption == IsFiniteSet(Tokens) /\ Tokens \subseteq Nat \ {0}
ASSUME EventsAssumption == MaxEvents \in Nat

VARIABLES
    user,     \* per tab: currentUser is set
    access,   \* per tab: the accessToken signal
    store,    \* localStorage: the refresh token and whether a user is saved
    call,     \* per tab: its POST /refresh
    stray,    \* tokens of POST /refresh requests on their way that nobody waits for
    ending,   \* per tab: its POST /logout waits for a slot of the request gate
    rows,     \* refresh_tokens
    events,   \* logins, logouts, reloads and such timeouts so far
    excused,  \* ghost: somebody logged out, or no tab stored an exchange's answer
    ousted    \* ghost: a tab was signed out without being asked

vars == <<user, access, store, call, stray, ending, rows, events, excused, ousted>>

None == 0
Idle == [step |-> "idle", token |-> None, new |-> None, retries |-> 0]
Sent(token, retries) == [step |-> "sent", token |-> token, new |-> None, retries |-> retries]

TypeOK ==
    /\ user \in [Tabs -> BOOLEAN]
    /\ access \in [Tabs -> {"none", "valid", "expired"}]
    /\ store \in [token : Tokens \cup {None}, user : BOOLEAN]
    /\ call \in [Tabs -> [step : {"idle", "sent", "claimed", "answered", "refused"},
                          token : Tokens \cup {None}, new : Tokens \cup {None}, retries : 0..1]]
    /\ stray \subseteq Tokens /\ ending \in [Tabs -> BOOLEAN]
    /\ rows \in [Tokens -> {"gone", "fresh", "used"}]
    /\ events \in 0..MaxEvents /\ excused \in BOOLEAN /\ ousted \in BOOLEAN
    /\ \A t \in Tabs : user[t] => access[t] # "none"

Init ==
    /\ user = [t \in Tabs |-> FALSE] /\ access = [t \in Tabs |-> "none"]
    /\ store = [token |-> None, user |-> FALSE]
    /\ call = [t \in Tabs |-> Idle] /\ stray = {} /\ ending = [t \in Tabs |-> FALSE]
    /\ rows = [n \in Tokens |-> "gone"]
    /\ events = 0 /\ excused = FALSE /\ ousted = FALSE

Remembered ==
    {store.token} \cup stray \cup {call[t].token : t \in Tabs} \cup {call[t].new : t \in Tabs}

\* generateTokenID: a name nobody remembers.
Unused == Tokens \ Remembered
NewToken == CHOOSE n \in Unused : TRUE

Event == events < MaxEvents /\ events' = events + 1

\* The last conjunct of an action: the rows it leaves.
RowsBecome(r) == rows' = [n \in Tokens |-> IF n \in Remembered' THEN r[n] ELSE "gone"]

-----------------------------------------------------------------------------
(* Signing in and out                                                      *)

\* Login with a password or a credential, storeAuth.
Login(t) ==
    /\ Event /\ ~user[t] /\ Unused # {}
    /\ store' = [token |-> NewToken, user |-> TRUE]
    /\ user' = [user EXCEPT ![t] = TRUE] /\ access' = [access EXCEPT ![t] = "valid"]
    /\ UNCHANGED <<call, stray, ending, excused, ousted>>
    /\ RowsBecome([rows EXCEPT ![NewToken] = "fresh"])

\* Mutant: the user stays on a page whose tokens are gone.
KeepsTheUser(t) ==
    /\ ending' = [ending EXCEPT ![t] = @ \/ access[t] # "none"]
    /\ store' = [token |-> None, user |-> FALSE]
    /\ user' = user /\ access' = [access EXCEPT ![t] = "none"]

\* logout(): the POST is queued, what the tab and the storage hold goes at once.
SignsOut(t) ==
    /\ ending' = [ending EXCEPT ![t] = @ \/ access[t] # "none"]
    /\ store' = [token |-> None, user |-> FALSE]
    /\ user' = [user EXCEPT ![t] = FALSE] /\ access' = [access EXCEPT ![t] = "none"]

LogsOut(t) ==
    /\ Event /\ user[t] /\ SignsOut(t)
    /\ excused' = TRUE
    /\ UNCHANGED <<call, stray, ousted>>
    /\ RowsBecome(rows)

\* The gate starts the request later, and authInterceptor then reads the token
\* the tab has by that time.  Without a valid one the answer is 401, which for
\* this path nobody follows up.
LogoutServed(t) ==
    /\ ending[t]
    /\ ending' = [ending EXCEPT ![t] = FALSE]
    /\ rows' = IF access[t] = "valid" THEN [n \in Tokens |-> "gone"] ELSE rows
    /\ excused' = (excused \/ access[t] = "valid")
    /\ UNCHANGED <<user, access, store, call, stray, events, ousted>>

-----------------------------------------------------------------------------
(* Refreshing                                                              *)

AccessExpires(t) ==
    /\ access[t] = "valid"
    /\ access' = [access EXCEPT ![t] = "expired"]
    /\ UNCHANGED <<user, store, call, stray, ending, rows, events, excused, ousted>>

\* refreshAccessToken after a 401, or before a connection: one call in flight.
StartRefresh(t) ==
    /\ user[t] /\ access[t] = "expired" /\ call[t].step = "idle"
    /\ IF store.token = None
       THEN SignsOut(t) /\ ousted' = TRUE /\ UNCHANGED call
       ELSE /\ call' = [call EXCEPT ![t] = Sent(store.token, 0)]
            /\ UNCHANGED <<user, access, store, ending, ousted>>
    /\ UNCHANGED <<stray, events, excused>>
    /\ RowsBecome(rows)

\* Mutant: a token is good for one exchange.
OnlyFresh(row) == row = "fresh"

\* A token exchanged within RefreshGrace is honoured again.
Honoured(row) == row \in {"fresh", "used"}

\* ClaimRefreshToken.
Claim(t) ==
    /\ call[t].step = "sent"
    /\ LET token == call[t].token
           ok == Honoured(rows[token])
       IN  /\ call' = [call EXCEPT ![t].step = IF ok THEN "claimed" ELSE "refused"]
           /\ rows' = [rows EXCEPT ![token] = IF ok THEN "used" ELSE "gone"]
    /\ UNCHANGED <<user, access, store, stray, ending, events, excused, ousted>>

\* SaveRefreshToken, a statement of its own.
Save(t) ==
    /\ call[t].step = "claimed" /\ Unused # {}
    /\ call' = [call EXCEPT ![t].step = "answered", ![t].new = NewToken]
    /\ UNCHANGED <<user, access, store, stray, ending, events, excused, ousted>>
    /\ RowsBecome([rows EXCEPT ![NewToken] = "fresh"])

\* Mutant: the answer's access token is kept, its refresh token is not.
KeepsOldToken(t) == store

Stored(t) == [store EXCEPT !.token = call[t].new]

Answered(t) ==
    /\ call[t].step = "answered"
    /\ store' = Stored(t)
    /\ access' = [access EXCEPT ![t] = "valid"]
    /\ call' = [call EXCEPT ![t] = Idle]
    /\ UNCHANGED <<user, stray, ending, events, excused, ousted>>
    /\ RowsBecome(rows)

\* A 401 ends the session, in authInterceptor and in the retry timer alike.
Refused(t) ==
    /\ call[t].step = "refused"
    /\ SignsOut(t)
    /\ ousted' = (ousted \/ user[t])
    /\ call' = [call EXCEPT ![t] = Idle]
    /\ UNCHANGED <<stray, events, excused>>
    /\ RowsBecome(rows)

\* Mutant: a timeout is retried for ever.
RetriesForever(t) == TRUE

\* One retry, and only of a call that timed out.
MayRetry(t) == call[t].retries = 0

\* Nobody waits for the request any longer; the server may still receive it.  One
\* whose token has been exchanged already changes nothing then and is left out.
Abandons(t) ==
    \/ stray' = stray
    \/ /\ call[t].step = "sent" /\ rows[call[t].token] = "fresh"
       /\ stray' = stray \cup {call[t].token}

\* No answer in time: the same body once more, then status 0, on which nobody
\* signs out.  A request cut off while the server works ends as if it had been
\* cut off just after.
TimesOut(t) ==
    /\ call[t].step \in {"sent", "answered", "refused"}
    /\ IF MayRetry(t)
       THEN /\ call' = [call EXCEPT ![t] = Sent(call[t].token, 1)]
            /\ UNCHANGED excused
       ELSE /\ call' = [call EXCEPT ![t] = Idle]
            /\ excused' = (excused \/ rows[call[t].token] # "fresh")
    /\ Abandons(t) /\ (IF stray' = stray THEN events' = events ELSE Event)
    /\ UNCHANGED <<user, access, store, ending, ousted>>
    /\ RowsBecome(rows)

\* The page is loaded anew and reads the session from storage; a call it had in
\* flight is answered to nobody.
Reload(t) ==
    /\ Event /\ call[t].step # "claimed"
    /\ user' = [user EXCEPT ![t] = store.user /\ store.token # None]
    /\ \E a \in {"valid", "expired"} :
           access' = [access EXCEPT ![t] = IF user'[t] THEN a ELSE "none"]
    /\ call' = [call EXCEPT ![t] = Idle] /\ ending' = [ending EXCEPT ![t] = FALSE]
    /\ excused' = (excused \/ (call[t].step # "idle" /\ rows[call[t].token] # "fresh"))
    /\ Abandons(t)
    /\ UNCHANGED <<store, ousted>>
    /\ RowsBecome(rows)

\* Refresh for a request that was given up: its token is exchanged, perhaps
\* before the retry presents it, and what it is answered reaches no tab.
StrayServed(n) ==
    /\ n \in stray /\ stray' = stray \ {n}
    /\ excused' = (excused \/ (rows[n] = "fresh" /\ \A t \in Tabs : call[t].token # n))
    /\ UNCHANGED <<user, access, store, call, ending, events, ousted>>
    /\ RowsBecome([rows EXCEPT ![n] = IF Honoured(@) THEN "used" ELSE "gone"])

\* Sixty seconds are longer than two attempts of twelve: the window of a token
\* is not over while a call that presents it is under way.
GraceOver(n) ==
    /\ rows[n] = "used" /\ \A t \in Tabs : call[t].token # n
    /\ rows' = [rows EXCEPT ![n] = "gone"]
    /\ UNCHANGED <<user, access, store, call, stray, ending, events, excused, ousted>>

CallStep(t) == Claim(t) \/ Save(t) \/ Answered(t) \/ Refused(t) \/ TimesOut(t)

Next ==
    \/ \E t \in Tabs : \/ Login(t) \/ LogsOut(t) \/ LogoutServed(t) \/ AccessExpires(t)
                       \/ StartRefresh(t) \/ Reload(t)
                       \/ CallStep(t)
    \/ \E n \in Tokens : GraceOver(n) \/ StrayServed(n)

\* A call under way goes on; the retry's timers run.
Fairness == \A t \in Tabs : WF_vars(CallStep(t))

Spec == Init /\ [][Next]_vars /\ Fairness

-----------------------------------------------------------------------------
\* Tabs that share one storage do not sign each other out: a tab loses its
\* session unasked only after somebody logged out, or after an exchange whose
\* answer reached no tab.  This is what RefreshGrace is for.
KeptSignedIn == ousted => excused

\* The storage never keeps a refresh token the server will refuse, whichever
\* tab's answer was stored last, short of the same two.
StoredTokenLives ==
    store.token # None => rows[store.token] \in {"fresh", "used"} \/ excused

\* A refresh ends, answered, refused or failed: whatever waits for it, every
\* request that was answered 401 and every reconnect of the tab, goes on.
RefreshEnds == \A t \in Tabs : call[t].step # "idle" ~> call[t].step = "idle"
=============================================================================
