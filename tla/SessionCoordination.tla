-------------------------- MODULE SessionCoordination --------------------------
(***************************************************************************)
(* The tabs of one browser: their SessionCoordinators (revisions, local    *)
(* suppression), the hooks that drive them (bootstrap, sign-in, sign-out,  *)
(* inspection of pending actions), the cookie lock that orders their       *)
(* requests, and outside of them the cookie jar, the requests on the wire  *)
(* and the sessions of the server.                                         *)
(*                                                                         *)
(* Abstractions.  A session is named by the sign-in action that created    *)
(* it (CookieExchange).  A tab's revision grows with every publication,    *)
(* and is only ever compared with the current one: Publish retires what    *)
(* was bound to the old one.  localStorage is one register for all tabs,   *)
(* and its marker lock, held for synchronous work only, is always          *)
(* obtained.  Every decision of the code first rereads the marker; it is   *)
(* modelled in a tab that has seen the current one, and the reread is      *)
(* Refresh.                                                                *)
(***************************************************************************)
EXTENDS SessionMarker, CookieExchange, FiniteSets

CONSTANTS
    Tabs,
    FaultyTabs,  \* tabs whose localStorage or cache may fail
    MaxCalls     \* bound on the calls of signIn and signOut

ASSUME CoordinationAssumption ==
    /\ FaultyTabs \subseteq Tabs
    /\ NoSession \notin Nat
    /\ MaxCalls \in Nat

VARIABLES
    hasLocks,   \* does the browser have Web Locks?
    marker,     \* the marker in localStorage
    uuids,      \* ids handed out so far
    tab,        \* CoordinationSnapshot and bootstrap of each tab
    signingIn, signingOut, \* where each tab's signIn and signOut are
    held,       \* id of the cookie action a tab has dispatched
    reply,      \* what its request has returned
    calls,      \* calls so far
    owed        \* sessions that were live when the tab's signOut was called

storageVars == <<marker, uuids>>
callVars == <<signingIn, signingOut, held, reply>>
vars == <<hasLocks, marker, uuids, tab, signingIn, signingOut, held, reply,
          cookie, live, requests, calls, owed>>

NoRead == [stage |-> "none", session |-> NoSession]

Tab == [open : BOOLEAN,       \* a closed tab does nothing until it is opened again
        seen : Marker \cup {NoMarker}, failure : {"none", "invalid", "unavailable"},
        localLogout : BOOLEAN,
        fault : BOOLEAN,      \* cache retirement failed at this revision
        shown : Id,           \* session resolved at this revision
        read : [stage : {"none", "sent", "user", "invalid", "unavailable"},
                session : Id],
        current : BOOLEAN,    \* the revision signIn was called at
        inspecting : BOOLEAN] \* inspectPending waits for the cookie lock

FreshId == uuids + 1

-----------------------------------------------------------------------------
(* Snapshots. *)

\* A new revision: resolutions, reads and queued sign-ins of the old one are
\* void.  The effect on "pending" queues an inspection when it comes to hold.
Publish(s, seen, localLogout, failure) ==
    [open |-> TRUE, seen |-> seen, failure |-> failure, localLogout |-> localLogout,
     fault |-> FALSE, shown |-> NoSession, read |-> NoRead, current |-> FALSE,
     inspecting |-> s.inspecting \/ (IsPending(seen) /\ ~IsPending(s.seen))]

\* refresh once m is what localStorage holds.
Seen(s, m) ==
    IF s.seen = m THEN s ELSE Publish(s, m, s.localLogout, "none")

Invalidated(s) == Publish(s, NoMarker, s.localLogout, s.failure)

Unsuppressed(s) == Publish(s, s.seen, FALSE, s.failure)

\* The finally block of signOut, its intent being durable.
Resumed(s) == IF s.localLogout THEN Unsuppressed(s) ELSE s

CanRead(s) ==
    /\ s.seen # NoMarker
    /\ ~s.localLogout /\ ~s.seen.logoutIntent /\ s.seen.action = NoAction

CanRegister(s) ==
    /\ s.seen # NoMarker
    /\ ~s.localLogout
    /\ AcceptsSignIn(s.seen)

ConfirmedLogout(m) ==
    m # NoMarker /\ m.logoutIntent /\ m.revocation = "confirmed" /\ m.action = NoAction

Suppressed(s) == s.localLogout \/ (s.seen # NoMarker /\ s.seen.logoutIntent)

Withheld(s) == s.fault \/ RequiresReset(s.seen) \/ IsPending(s.seen)

\* selectSessionView: is the anonymous view, or that of a session, shown?
Anonymous(s) ==
    /\ ~Withheld(s)
    /\ \/ ConfirmedLogout(s.seen) /\ ~s.localLogout
       \/ ~Suppressed(s) /\ s.failure = "invalid"

Authenticated(s) ==
    /\ ~Withheld(s) /\ ~Suppressed(s)
    /\ s.failure = "none" /\ s.shown # NoSession

AccountActionsAvailable(s) ==
    /\ hasLocks
    /\ ~Withheld(s) /\ ~s.localLogout
    /\ s.seen.logoutIntent => ConfirmedLogout(s.seen)

\* The cookie lock is held from its grant until the request has settled.
LockFree == \A t \in Tabs : signingIn[t] \notin {"checked", "sent"}
                            /\ signingOut[t] # "sent"

UpToDate(t) == tab[t].seen = marker

\* A transition that changes nothing consumes no id that anybody could see.
Write(m) == marker' = m /\ uuids' = IF m = marker THEN uuids ELSE FreshId

\* The request of t's cookie action is over for its caller.
Forget(t) ==
    /\ held' = [held EXCEPT ![t] = 0]
    /\ reply' = [reply EXCEPT ![t] = "none"]

Show(t, s) == tab' = [tab EXCEPT ![t] = s]
SignInGoes(t, l) == signingIn' = [signingIn EXCEPT ![t] = l]
SignOutGoes(t, l) == signingOut' = [signingOut EXCEPT ![t] = l]

-----------------------------------------------------------------------------
(* Rereading and bootstrap. *)

\* A storage event, a peer's hint, or the reread before a decision.
Refresh(t) ==
    /\ ~UpToDate(t)
    /\ Show(t, Seen(tab[t], marker))
    /\ UNCHANGED <<hasLocks, storageVars, callVars, worldVars, calls, owed>>

\* reconcileSession cannot retire the cache.
CacheFails(t) ==
    /\ t \in FaultyTabs
    /\ UpToDate(t)
    /\ ~tab[t].fault /\ tab[t].read = NoRead /\ tab[t].shown = NoSession
    /\ Show(t, [tab[t] EXCEPT !.fault = TRUE])
    /\ UNCHANGED <<hasLocks, storageVars, callVars, worldVars, calls, owed>>

\* Me, or a product read through the session fence, leaves with the cookie.
StartRead(t) ==
    /\ UpToDate(t)
    /\ CanRead(tab[t]) /\ tab[t].failure = "none" /\ ~tab[t].fault
    /\ tab[t].read = NoRead
    /\ Show(t, [tab[t] EXCEPT !.read = [stage |-> "sent", session |-> cookie]])
    /\ UNCHANGED <<hasLocks, storageVars, callVars, worldVars, calls, owed>>

\* The server validates the credential it got, or is unavailable.
ServeRead(t) ==
    /\ tab[t].read.stage = "sent"
    /\ \E stage \in {IF tab[t].read.session \in live THEN "user" ELSE "invalid",
                     "unavailable"} :
          Show(t, [tab[t] EXCEPT !.read.stage = stage])
    /\ UNCHANGED <<hasLocks, storageVars, callVars, worldVars, calls, owed>>

\* The answer at a revision that is still current: an identity is resolved
\* once, a failure is published.
Delivered(s) ==
    IF s.read.stage = "user"
    THEN [s EXCEPT !.shown = IF @ = NoSession THEN s.read.session ELSE @,
                   !.read = NoRead]
    ELSE Publish(s, s.seen, s.localLogout, s.read.stage)

\* Mutant: delivery does not reread the marker.
DeliverReadUnfenced(t) ==
    /\ tab[t].read.stage \in {"user", "invalid", "unavailable"}
    /\ Show(t, Delivered(tab[t]))
    /\ UNCHANGED <<hasLocks, storageVars, callVars, worldVars, calls, owed>>

DeliverRead(t) ==
    /\ UpToDate(t)
    /\ tab[t].read.stage \in {"user", "invalid", "unavailable"}
    /\ Show(t, Delivered(tab[t]))
    /\ UNCHANGED <<hasLocks, storageVars, callVars, worldVars, calls, owed>>

\* The user retries after an unavailable read or a cache failure.
RetryRead(t) ==
    /\ UpToDate(t)
    /\ CanRead(tab[t]) \/ CanRegister(tab[t])
    /\ tab[t].failure = "unavailable" \/ tab[t].fault
    /\ Show(t, Publish(tab[t], tab[t].seen, tab[t].localLogout, "none"))
    /\ UNCHANGED <<hasLocks, storageVars, callVars, worldVars, calls, owed>>

-----------------------------------------------------------------------------
(* signIn. *)

Call ==
    /\ calls < MaxCalls
    /\ calls' = calls + 1

StartSignIn(t) ==
    /\ signingIn[t] = "idle"
    /\ AccountActionsAvailable(tab[t]) /\ Anonymous(tab[t])
    /\ Call
    /\ SignInGoes(t, "queued")
    /\ Show(t, [tab[t] EXCEPT !.current = TRUE])
    /\ UNCHANGED <<hasLocks, storageVars, signingOut, held, reply, worldVars, owed>>

\* The lock is granted; a revision that has changed since the call cancels.
CheckSignIn(t) ==
    /\ signingIn[t] = "queued" /\ LockFree
    /\ UpToDate(t)
    /\ SignInGoes(t, IF tab[t].current /\ ~tab[t].localLogout
                     THEN "checked" ELSE "idle")
    /\ Show(t, [tab[t] EXCEPT !.current = FALSE])
    /\ UNCHANGED <<hasLocks, storageVars, signingOut, held, reply, worldVars,
                   calls, owed>>

SignInTimesOut(t) ==
    /\ signingIn[t] = "queued" /\ ~LockFree
    /\ SignInGoes(t, "idle")
    /\ Show(t, [tab[t] EXCEPT !.current = FALSE])
    /\ UNCHANGED <<hasLocks, storageVars, signingOut, held, reply, worldVars,
                   calls, owed>>

\* The pending action is written, then the request leaves.
Dispatch(t, kind) ==
    /\ Write(IF kind = "sign-in" THEN BeginSignIn(marker, FreshId)
                                ELSE BeginSignOut(marker, FreshId))
    /\ held' = [held EXCEPT ![t] = FreshId]
    /\ Departs(FreshId, kind)
    /\ Show(t, Seen(tab[t], marker'))

DispatchSignIn(t) ==
    /\ signingIn[t] = "checked"
    /\ \/ AcceptsSignIn(marker) /\ Dispatch(t, "sign-in") /\ SignInGoes(t, "sent")
       \/ /\ ~AcceptsSignIn(marker)
          /\ SignInGoes(t, "idle")
          /\ Show(t, Seen(tab[t], marker))
          /\ UNCHANGED <<storageVars, held, requests>>
    /\ UNCHANGED <<hasLocks, signingOut, reply, cookie, live, calls, owed>>

\* The outcome is recorded; any failure ends the local suppression as well.
SettleSignIn(t) ==
    /\ signingIn[t] = "sent" /\ reply[t] # "none"
    /\ IF reply[t] = "ok"
       THEN /\ Write(AcknowledgeSignIn(marker, held[t], FreshId))
            /\ Show(t, Seen(tab[t], marker'))
       ELSE /\ Write(FailCookieAction(marker, held[t], FreshId, reply[t]))
            /\ Show(t, Unsuppressed(Seen(tab[t], marker')))
    /\ SignInGoes(t, "idle")
    /\ Forget(t)
    /\ UNCHANGED <<hasLocks, signingOut, worldVars, calls, owed>>

-----------------------------------------------------------------------------
(* signOut. *)

\* The tab suppresses itself at once.
StartSignOut(t) ==
    /\ signingOut[t] \in {"idle", "done"}
    /\ Call
    /\ SignOutGoes(t, "intent")
    /\ owed' = [owed EXCEPT ![t] = live]
    /\ Show(t, Publish(tab[t], tab[t].seen, TRUE, "none"))
    /\ UNCHANGED <<hasLocks, storageVars, signingIn, held, reply, worldVars>>

\* The intent is written; a browser without Web Locks goes no further.
RecordIntent(t) ==
    /\ signingOut[t] = "intent"
    /\ Write(PublishLogoutIntent(marker, FreshId))
    /\ SignOutGoes(t, IF hasLocks THEN "queued" ELSE "idle")
    /\ Show(t, IF hasLocks THEN Seen(tab[t], marker')
                           ELSE Resumed(Seen(tab[t], marker')))
    /\ UNCHANGED <<hasLocks, signingIn, held, reply, worldVars, calls, owed>>

SignOutTimesOut(t) ==
    /\ signingOut[t] = "queued" /\ ~LockFree
    /\ SignOutGoes(t, "idle")
    /\ Show(t, Resumed(tab[t]))
    /\ UNCHANGED <<hasLocks, storageVars, signingIn, held, reply, worldVars,
                   calls, owed>>

\* Dispatch, unless a peer's logout or a newer login made it obsolete ("done")
\* or an earlier action is unresolved ("idle", an error).
DispatchSignOut(t) ==
    /\ signingOut[t] = "queued" /\ LockFree
    /\ \/ /\ MayDispatchSignOut(marker)
          /\ Dispatch(t, "sign-out")
          /\ SignOutGoes(t, "sent")
       \/ /\ ~MayDispatchSignOut(marker)
          /\ SignOutGoes(t, IF SignOutSuperseded(marker) THEN "done" ELSE "idle")
          /\ Show(t, Resumed(Seen(tab[t], marker)))
          /\ UNCHANGED <<storageVars, held, requests>>
    /\ UNCHANGED <<hasLocks, signingIn, reply, cookie, live, calls, owed>>

\* Mutant: any answer of the server counts as an acknowledgement.
SettleSignOutCompleted(t) ==
    /\ signingOut[t] = "sent" /\ reply[t] # "none"
    /\ IF reply[t] = "ok" \/ Completed(reply[t])
       THEN /\ Write(AcknowledgeSignOut(marker, held[t], FreshId))
            /\ SignOutGoes(t, "done")
       ELSE /\ Write(FailCookieAction(marker, held[t], FreshId, reply[t]))
            /\ SignOutGoes(t, "idle")
    /\ Show(t, Unsuppressed(Seen(tab[t], marker')))
    /\ Forget(t)
    /\ UNCHANGED <<hasLocks, signingIn, worldVars, calls, owed>>

SettleSignOut(t) ==
    /\ signingOut[t] = "sent" /\ reply[t] # "none"
    /\ IF reply[t] = "ok"
       THEN /\ Write(AcknowledgeSignOut(marker, held[t], FreshId))
            /\ SignOutGoes(t, "done")
       ELSE /\ Write(FailCookieAction(marker, held[t], FreshId, reply[t]))
            /\ SignOutGoes(t, "idle")
    /\ Show(t, Unsuppressed(Seen(tab[t], marker')))
    /\ Forget(t)
    /\ UNCHANGED <<hasLocks, signingIn, worldVars, calls, owed>>

-----------------------------------------------------------------------------
(* Orphans, faults and restarts. *)

\* Mutant: a pending action is left to its owner.
InspectPendingGivesUp(t) ==
    /\ hasLocks
    /\ tab[t].inspecting /\ LockFree
    /\ Show(t, [Seen(tab[t], marker) EXCEPT !.inspecting = FALSE])
    /\ UNCHANGED <<hasLocks, storageVars, callVars, worldVars, calls, owed>>

\* With the cookie lock in hand, a pending action has no owner any more.
InspectPending(t) ==
    /\ hasLocks
    /\ tab[t].inspecting /\ LockFree
    /\ Write(OrphanPendingAction(marker, FreshId))
    /\ Show(t, [Seen(tab[t], marker') EXCEPT !.inspecting = FALSE])
    /\ UNCHANGED <<hasLocks, callVars, worldVars, calls, owed>>

InspectionTimesOut(t) ==
    /\ tab[t].inspecting /\ ~LockFree
    /\ Show(t, [tab[t] EXCEPT !.inspecting = FALSE])
    /\ UNCHANGED <<hasLocks, storageVars, callVars, worldVars, calls, owed>>

\* localStorage throws: when a tab rereads, or within the update of one of
\* its steps.  The snapshot is invalidated, and the step's call fails; a
\* logout keeps its local suppression only if its intent was not recorded.
StorageFails(t) ==
    LET s == Invalidated(tab[t]) IN
    /\ t \in FaultyTabs
    /\ \/ /\ tab[t].seen # NoMarker
          /\ Show(t, s)
          /\ UNCHANGED callVars
       \/ /\ signingIn[t] = "checked"
          /\ SignInGoes(t, "idle")
          /\ Show(t, s)
          /\ UNCHANGED <<signingOut, held, reply>>
       \/ /\ signingIn[t] = "sent" /\ reply[t] # "none"
          /\ SignInGoes(t, "idle") /\ Forget(t)
          /\ Show(t, s)
          /\ UNCHANGED signingOut
       \/ /\ signingOut[t] = "intent"
          /\ SignOutGoes(t, "idle")
          /\ Show(t, s)
          /\ UNCHANGED <<signingIn, held, reply>>
       \/ /\ signingOut[t] = "queued" /\ LockFree
          /\ SignOutGoes(t, "idle")
          /\ Show(t, Resumed(s))
          /\ UNCHANGED <<signingIn, held, reply>>
       \/ /\ signingOut[t] = "sent" /\ reply[t] # "none"
          /\ SignOutGoes(t, "idle") /\ Forget(t)
          /\ Show(t, Resumed(s))
          /\ UNCHANGED signingIn
       \/ /\ tab[t].inspecting /\ LockFree
          /\ Show(t, [s EXCEPT !.inspecting = FALSE])
          /\ UNCHANGED callVars
    /\ UNCHANGED <<hasLocks, storageVars, worldVars, calls, owed>>

\* A tab that starts on the marker it finds.
NewTab(m) == [open |-> TRUE, seen |-> m, failure |-> "none", localLogout |-> FALSE,
              fault |-> FALSE, shown |-> NoSession, read |-> NoRead,
              current |-> FALSE, inspecting |-> IsPending(m)]

ClosedTab == [NewTab(NoMarker) EXCEPT !.open = FALSE]

\* A tab is closed, by the user or by a crash: its locks are released, its requests
\* are not undone.
Close(t) ==
    /\ Show(t, ClosedTab)
    /\ SignInGoes(t, "idle")
    /\ SignOutGoes(t, "idle")
    /\ Forget(t)
    /\ UNCHANGED <<hasLocks, storageVars, worldVars, calls, owed>>

\* A tab is opened, as a new one or by a reload of the page.
Open(t) ==
    /\ Show(t, NewTab(marker))
    /\ UNCHANGED <<hasLocks, storageVars, callVars, worldVars, calls, owed>>

-----------------------------------------------------------------------------
(* The gateway, the platform and the network. *)

ServeSignIn(r) ==
    /\ SignInServed(r)
    /\ UNCHANGED <<hasLocks, storageVars, tab, callVars, calls, owed>>

ServeSignOut(r) ==
    /\ SignOutServed(r)
    /\ UNCHANGED <<hasLocks, storageVars, tab, callVars, calls, owed>>

Awaits(t, r) ==
    /\ signingIn[t] = "sent" \/ signingOut[t] = "sent"
    /\ reply[t] = "none" /\ held[t] = r.id

\* The browser obeys the answer's Set-Cookie whoever still waits; to the caller it may
\* be unreadable, which leaves it as uncertain as no answer.
Arrive(r) ==
    /\ Arrives(r)
    /\ \E outcome \in {r.stage, "unknown"} :
          reply' = [t \in Tabs |-> IF Awaits(t, r) THEN outcome ELSE reply[t]]
    /\ UNCHANGED <<hasLocks, storageVars, tab, signingIn, signingOut, held, calls, owed>>

Lose(r) ==
    /\ IsLost(r)
    /\ UNCHANGED <<hasLocks, storageVars, tab, callVars, calls, owed>>

\* The request deadline, or a transport error: the request itself may go on.
RequestTimesOut(t) ==
    /\ signingIn[t] = "sent" \/ signingOut[t] = "sent"
    /\ reply[t] = "none"
    /\ reply' = [reply EXCEPT ![t] = "unknown"]
    /\ UNCHANGED <<hasLocks, storageVars, tab, signingIn, signingOut, held,
                   worldVars, calls, owed>>

Expire ==
    /\ SessionExpires
    /\ UNCHANGED <<hasLocks, storageVars, tab, callVars, calls, owed>>

-----------------------------------------------------------------------------
Init ==
    /\ hasLocks \in BOOLEAN
    /\ marker \in {InitialMarker, LegacyMarker}
    /\ uuids = 0
    /\ tab = [t \in Tabs |-> NewTab(marker)]
    /\ signingIn = [t \in Tabs |-> "idle"]
    /\ signingOut = [t \in Tabs |-> "idle"]
    /\ held = [t \in Tabs |-> 0]
    /\ reply = [t \in Tabs |-> "none"]
    /\ ExchangeInit
    /\ calls = 0
    /\ owed = [t \in Tabs |-> {}]

\* What a tab does by itself once a call has been made or the marker has
\* changed.
TabStep(t) ==
    \/ Refresh(t)
    \/ CheckSignIn(t) \/ DispatchSignIn(t) \/ SettleSignIn(t)
    \/ RecordIntent(t) \/ DispatchSignOut(t) \/ SettleSignOut(t)
    \/ RequestTimesOut(t)
    \/ InspectPending(t)

OpenTabs == {t \in Tabs : tab[t].open}

Next ==
    \/ \E t \in OpenTabs :
          \/ TabStep(t)
          \/ CacheFails(t) \/ StartRead(t) \/ ServeRead(t) \/ DeliverRead(t)
          \/ RetryRead(t)
          \/ StartSignIn(t) \/ SignInTimesOut(t)
          \/ StartSignOut(t) \/ SignOutTimesOut(t)
          \/ InspectionTimesOut(t) \/ StorageFails(t) \/ Close(t)
    \/ \E t \in Tabs \ OpenTabs : Open(t)
    \/ \E r \in requests :
          ServeSignIn(r) \/ ServeSignOut(r) \/ Arrive(r) \/ Lose(r)
    \/ Expire

Spec == Init /\ [][Next]_vars
-----------------------------------------------------------------------------
(* Properties *)

\* Every variable has its type, and every id is one that was handed out.
TypeOK ==
    /\ hasLocks \in BOOLEAN
    /\ marker \in Marker
    /\ uuids \in Nat
    /\ tab \in [Tabs -> Tab]
    /\ signingIn \in [Tabs -> {"idle", "queued", "checked", "sent"}]
    /\ signingOut \in [Tabs -> {"idle", "intent", "queued", "sent", "done"}]
    /\ held \in [Tabs -> Nat]
    /\ reply \in [Tabs -> {"none", "ok", "rejected", "error", "unknown"}]
    /\ cookie \in Id
    /\ live \subseteq Nat
    /\ requests \subseteq Request
    /\ calls \in 0..MaxCalls
    /\ owed \in [Tabs -> SUBSET Nat]

\* No interleaving of transitions writes a marker that the next reader would
\* refuse (assertMarkerConsistency): the browser is never blocked by its own
\* record.
MarkerIsConsistent == Consistent(marker)

\* A request that can still change the cookie jar or the sessions, its caller
\* waiting, timed out, crashed or gone, is covered by the marker: the action
\* it belongs to is recorded as pending or unknown.  So there is at most one,
\* and no tab reads or signs in meanwhile.
RequestsAreCovered ==
    \A r \in requests :
        /\ marker.action # NoAction
        /\ marker.action.id = r.id
        /\ marker.action.status \in {"pending", "unknown"}

\* What the browser has on record about its session can be relied on: it has its
\* type, the next reader accepts it, and it covers every request under way.
MarkerIsSound == TypeOK /\ MarkerIsConsistent /\ RequestsAreCovered

\* Whenever a new sign-in may begin, no session but the one in the cookie jar
\* is live, so none is forgotten by being replaced; and a confirmed logout
\* leaves none at all.
NoSessionIsForgotten ==
    AcceptsSignIn(marker) =>
        /\ live \subseteq {cookie}
        /\ marker.revocation = "confirmed" => live = {}

\* A signOut that returns without an error has ended every session that was
\* live when it was called, although it may not have been the one to send the
\* request.
SignOutMeansRevoked ==
    \A t \in Tabs : signingOut[t] = "done" => owed[t] \cap live = {}

\* No session outlives what the user was told of it: none is lost by a sign-in that
\* replaces it, and none survives a signOut that has returned.
SessionsAreAccountedFor == NoSessionIsForgotten /\ SignOutMeansRevoked

\* The identity an up-to-date tab shows is that of the cookie its requests
\* carry.
AuthenticatedViewIsCurrent ==
    \A t \in Tabs :
        (Authenticated(tab[t]) /\ UpToDate(t)) => tab[t].shown = cookie

\* An identity is resolved only while it is still the cookie's, with no cookie
\* request under way: a late answer of an earlier account is dropped.
ReadsAreFenced ==
    [][\A t \in Tabs :
          (tab'[t].shown # tab[t].shown /\ tab'[t].shown # NoSession) =>
             tab'[t].shown = cookie /\ requests = {}]_vars

\* What a tab shows is whose cookie its requests carry, when it is first shown and
\* for as long as the tab is up to date.
ShownIsCurrent == []AuthenticatedViewIsCurrent /\ ReadsAreFenced

\* Logout intent ends only with a sign-in that was begun after the logout had
\* been confirmed; a login that was under way when the user logged out never
\* wins.
LogoutIsNeverLost ==
    [][(marker.logoutIntent /\ ~marker'.logoutIntent) =>
          /\ marker.revocation = "confirmed"
          /\ live \subseteq {marker.action.id}]_vars

\* A state that requires a reset of the browser is never left without one.
ResetIsAbsorbing ==
    [][RequiresReset(marker) => RequiresReset(marker')]_vars

\* docs/browser-session.md: "If only a logout marker write fails, the tab keeps
\* local suppression".  What a failed signOut has left suppressed stays so
\* until the logout is on record, the next signOut, or the end of the tab.
LocalSuppressionIsKept ==
    [][\A t \in Tabs :
          (tab[t].localLogout /\ signingOut[t] = "idle") =>
             \/ tab'[t].localLogout
             \/ marker'.logoutIntent
             \/ ~tab'[t].open]_vars
-----------------------------------------------------------------------------
(* Why they hold: the inductive invariant. *)

HoldsForSignIn(t) == signingIn[t] \in {"checked", "sent"}
HoldsForSignOut(t) == signingOut[t] = "sent"

\* The cookie lock has one holder, in one of the two procedures of one tab.
LockIsExclusive ==
    \A t, u \in Tabs :
        /\ HoldsForSignIn(t) /\ HoldsForSignIn(u) => t = u
        /\ HoldsForSignOut(t) /\ HoldsForSignOut(u) => t = u
        /\ ~(HoldsForSignIn(t) /\ HoldsForSignOut(u))

\* As long as a tab waits for its request, the pending action is its own.
HolderOwnsAction ==
    \A t \in Tabs :
        /\ signingIn[t] = "sent" =>
              OwnsPending(marker, held[t]) /\ marker.action.kind = "sign-in"
        /\ signingOut[t] = "sent" =>
              OwnsPending(marker, held[t]) /\ marker.action.kind = "sign-out"
        /\ reply[t] # "none" => signingIn[t] = "sent" \/ signingOut[t] = "sent"

\* A sign-out is dispatched with its revocation outstanding; a sign-in begins
\* with none outstanding, and only a newer logout intent changes that.
PendingIsLawful(m) ==
    IsPending(m) =>
        IF m.action.kind = "sign-in"
        THEN m.epoch = m.action.id <=> m.revocation # "unconfirmed"
        ELSE m.revocation = "unconfirmed"

\* No id in use is newer than the last one handed out.
IdsWereHandedOut ==
    /\ marker.epoch <= uuids
    /\ marker.action # NoAction => marker.action.id <= uuids
    /\ \A t \in Tabs : tab[t].seen # NoMarker => tab[t].seen.epoch <= uuids
    /\ live \subseteq 0..uuids
    /\ \A t \in Tabs : owed[t] \subseteq 0..uuids

\* At most one request is under way.  It belongs to the marker's action, and
\* the sessions it leaves are those its procedure reckons with.
RequestsAreOrderly ==
    /\ \A q, r \in requests : q = r
    /\ \A r \in requests :
          /\ r.kind = marker.action.kind
          /\ r.kind = "sign-in" =>
                /\ live \subseteq {r.id}
                /\ r.stage # "ok" => live = {}
                /\ r.stage = "ok" => r.jar = "set"
                /\ r.stage = "sent" => \A t \in Tabs : r.id \notin owed[t]
          /\ r.kind = "sign-out" =>
                /\ r.stage = "sent" => live \subseteq {r.cookie}
                /\ r.stage = "ok" => live = {}

\* What an answer vouches for when its caller hears it.
RepliesAreSound ==
    \A t \in Tabs :
        /\ reply[t] \in {"ok", "rejected", "error"} => requests = {}
        /\ signingIn[t] = "sent" =>
              /\ reply[t] = "ok" => cookie = held[t]
              /\ reply[t] \in {"rejected", "error"} => live = {}
        /\ signingOut[t] = "sent" /\ reply[t] = "ok" => live = {}

\* Which sessions may be live, by the state of the marker.
SessionsAreKnown ==
    /\ AcceptsSignIn(marker) =>
          /\ live \subseteq {cookie}
          /\ marker.revocation = "confirmed" => live = {}
          /\ \A t \in Tabs : signingIn[t] = "checked" => live = {}
    /\ marker.action # NoAction =>
          /\ marker.action.status = "ready" => live \subseteq {cookie}
          /\ IsPending(marker) /\ marker.action.kind = "sign-in" =>
                live \subseteq {marker.action.id}

\* What a tab shows, has asked for or has concluded belongs to the marker it
\* has seen, which had no action then.
TabIsFenced(s, m, jar, sessions) ==
    /\ (s.shown # NoSession \/ s.read.stage # "none" \/ s.failure # "none" \/ s.current)
          /\ s.seen # NoMarker => s.seen.action = NoAction
    /\ s.read.stage # "none" /\ s.seen # NoMarker => ~s.seen.logoutIntent
    /\ s.seen = m =>
          /\ s.shown # NoSession => s.shown = jar
          /\ s.read.stage # "none" => s.read.session = jar
          /\ s.read.stage = "invalid" => jar \notin sessions
          /\ s.failure = "invalid" \/ s.current => sessions = {}

TabsAreFenced == \A t \in Tabs : TabIsFenced(tab[t], marker, cookie, live)

\* A signOut owes nothing once it may return.
DebtsAreSettled ==
    \A t \in Tabs :
        \/ signingOut[t] = "done"
        \/ signingOut[t] = "queued" /\ SignOutSuperseded(marker)
        => owed[t] \cap live = {}

IInv ==
    /\ TypeOK /\ Consistent(marker) /\ PendingIsLawful(marker)
    /\ LockIsExclusive /\ HolderOwnsAction /\ IdsWereHandedOut
    /\ RequestsAreCovered /\ RequestsAreOrderly /\ RepliesAreSound
    /\ SessionsAreKnown /\ TabsAreFenced /\ DebtsAreSettled
-----------------------------------------------------------------------------
\* An open tab's own steps are taken: requests have a deadline, locks are granted
\* when free, and React effects run.
FairSpec == Spec /\ \A t \in Tabs : WF_vars(tab[t].open /\ TabStep(t))

\* A pending action is attended to by the tab that waits for its answer, or by one
\* that has asked for the cookie lock and can be granted it.
Attended ==
    \E t \in OpenTabs :
        \/ signingIn[t] = "sent" \/ signingOut[t] = "sent"
        \/ tab[t].inspecting /\ LockFree

\* Once localStorage works and no tab is closed in the midst of an inspection, no
\* cookie action that is attended to again and again stays pending for ever, although
\* its tab may have been closed and another may have given up on the lock.  A tab that
\* has given up does not look again: where its owner is gone, the action stays
\* pending until a tab is opened.
PendingIsSettled ==
    /\ <>[][\A t \in Tabs : ~StorageFails(t) /\ (tab[t].inspecting => tab'[t].open)]_vars
    /\ []<>Attended
    => []<>(~IsPending(marker))
=============================================================================
