---------------------- MODULE SessionCoordinationProofs ----------------------
(***************************************************************************)
(* Proofs about the coordination of one browser's tabs, for every set of   *)
(* tabs, of faulty ones and every number of calls.                         *)
(*                                                                         *)
(* The transitions of the marker come first: from a marker that is sound,  *)
(* each leads to a sound one, and a packaged predicate (SignInIsRecorded,  *)
(* FailureIsRecorded...) says what is in it.  Then what a tab may be told  *)
(* without losing its fences.  The steps fall into three families, each    *)
(* with a lemma that carries IInv over what its steps have in common: the  *)
(* steps of a tab that leave the marker and the world alone (TabMoves),    *)
(* those of the server and the network (WorldMoves), and those that write  *)
(* the marker (WriteKeeps, DispatchMoves, SettleMoves).                    *)
(***************************************************************************)
EXTENDS SessionCoordination, TLAPS

Sound(m) == m \in Marker /\ Consistent(m) /\ PendingIsLawful(m)

\* A marker by its fields.
Is(n, action, epoch, intent, revocation) ==
    /\ n \in Marker
    /\ n.action = action /\ n.epoch = epoch
    /\ n.logoutIntent = intent /\ n.revocation = revocation

LEMMA ActionFields ==
    ASSUME NEW a \in Action
    PROVE  /\ a.id \in Nat
           /\ a.kind \in {"sign-in", "sign-out"}
           /\ a.status \in {"ready", "pending", "failed", "unknown"}
           /\ a.kind = "sign-in" => a.status \in {"pending", "unknown"}
           /\ a # NoAction
  BY MarkerAssumption DEF Action

LEMMA MarkerFields ==
    ASSUME NEW m \in Marker
    PROVE  /\ m.action \in Action \cup {NoAction}
           /\ m.epoch \in Nat
           /\ m.logoutIntent \in BOOLEAN
           /\ m.revocation \in {"none", "unconfirmed", "confirmed"}
           /\ m # NoMarker
  BY MarkerAssumption DEF Marker

LEMMA ActionOf ==
    ASSUME NEW id \in Nat
    PROVE  /\ [id |-> id, kind |-> "sign-in", status |-> "pending"] \in Action
           /\ [id |-> id, kind |-> "sign-out", status |-> "pending"] \in Action
           /\ ReadySignOut(id) \in Action
  BY DEF Action, ReadySignOut

LEMMA StatusOf ==
    ASSUME NEW a \in Action, NEW status \in {"failed", "unknown"},
           a.kind = "sign-in" => status = "unknown"
    PROVE  /\ [a EXCEPT !.status = status] \in Action
           /\ [a EXCEPT !.status = status].id = a.id
           /\ [a EXCEPT !.status = status].kind = a.kind
           /\ [a EXCEPT !.status = status].status = status
  BY DEF Action

LEMMA BeginSignInStep ==
    ASSUME NEW m, Sound(m), NEW id \in Nat, AcceptsSignIn(m),
           NEW n, n = BeginSignIn(m, id)
    PROVE  /\ Sound(n) /\ n # m
           /\ Is(n, [id |-> id, kind |-> "sign-in", status |-> "pending"], id,
                 m.logoutIntent, m.revocation)
  <1> DEFINE a == [id |-> id, kind |-> "sign-in", status |-> "pending"]
  <1>1. a \in Action /\ a # NoAction
    BY ActionFields, ActionOf
  <1>2. Is(n, a, id, m.logoutIntent, m.revocation)
    BY <1>1 DEF Marker, Sound, BeginSignIn, Is
  <1>3. n # m
    BY <1>1, <1>2 DEF Is, AcceptsSignIn
  <1>4. Consistent(n)
    BY <1>1, <1>2 DEF Is, Sound, Consistent
  <1>5. PendingIsLawful(n)
    BY <1>1, <1>2, MarkerFields DEF Is, Sound, Consistent, PendingIsLawful, AcceptsSignIn
  <1> QED
    BY <1>2, <1>3, <1>4, <1>5 DEF Sound, Is

LEMMA BeginSignOutStep ==
    ASSUME NEW m, Sound(m), NEW id \in Nat, MayDispatchSignOut(m),
           NEW n, n = BeginSignOut(m, id)
    PROVE  /\ Sound(n) /\ n # m
           /\ Is(n, [id |-> id, kind |-> "sign-out", status |-> "pending"], id,
                 TRUE, "unconfirmed")
  <1> DEFINE a == [id |-> id, kind |-> "sign-out", status |-> "pending"]
  <1>1. a \in Action /\ a # NoAction
    BY ActionFields, ActionOf
  <1>2. m.logoutIntent = TRUE /\ m.revocation = "unconfirmed"
    BY MarkerFields DEF MayDispatchSignOut, SignOutSuperseded, Sound, Consistent
  <1>3. Is(n, a, id, TRUE, "unconfirmed")
    BY <1>1, <1>2 DEF Marker, Sound, BeginSignOut, Is
  <1>4. n # m
    BY <1>1, <1>3 DEF Is, MayDispatchSignOut
  <1> QED
    BY <1>1, <1>3, <1>4 DEF Is, Sound, Consistent, PendingIsLawful

\* An acknowledged sign-in: accepted, or superseded by a newer logout intent.
SignInIsRecorded(m, id, epoch, n) ==
    /\ Sound(n)
    /\ m.epoch = id => /\ Is(n, NoAction, epoch, FALSE, "none")
                       /\ m.revocation # "unconfirmed"
    /\ m.epoch # id => /\ Is(n, ReadySignOut(epoch), epoch, TRUE, "unconfirmed")
                       /\ m.revocation = "unconfirmed"

LEMMA AcknowledgeSignInStep ==
    ASSUME NEW m, Sound(m), NEW id \in Nat, NEW epoch \in Nat,
           OwnsPending(m, id), m.action.kind = "sign-in",
           NEW n, n = AcknowledgeSignIn(m, id, epoch)
    PROVE  SignInIsRecorded(m, id, epoch, n)
  <1> USE DEF OwnsPending, IsPending, SignInIsRecorded
  <1>1. CASE m.epoch = id
    <2>1. Is(n, NoAction, epoch, FALSE, "none")
      BY <1>1 DEF Marker, Sound, AcknowledgeSignIn, Is
    <2> QED  BY <1>1, <2>1 DEF Is, Sound, Consistent, PendingIsLawful
  <1>2. CASE m.epoch # id
    <2>1. m.revocation = "unconfirmed" /\ m.logoutIntent = TRUE
      BY <1>2, MarkerFields DEF Sound, PendingIsLawful, Consistent
    <2>2. Is(n, ReadySignOut(epoch), epoch, TRUE, "unconfirmed")
      BY <1>2, <2>1, ActionOf DEF Marker, Sound, AcknowledgeSignIn, Is
    <2> QED  BY <1>2, <2>1, <2>2 DEF Is, Sound, Consistent, PendingIsLawful, ReadySignOut
  <1> QED  BY <1>1, <1>2

LEMMA AcknowledgeSignOutStep ==
    ASSUME NEW m, Sound(m), NEW id \in Nat, NEW epoch \in Nat,
           OwnsPending(m, id), m.action.kind = "sign-out",
           NEW n, n = AcknowledgeSignOut(m, id, epoch)
    PROVE  Sound(n) /\ Is(n, NoAction, epoch, TRUE, "confirmed")
  <1>1. Is(n, NoAction, epoch, TRUE, "confirmed")
    BY DEF Marker, Sound, AcknowledgeSignOut, Is
  <1> QED  BY <1>1 DEF Is, Sound, Consistent, PendingIsLawful, IsPending

\* What a failed cookie action leaves in the marker.
FailureIsRecorded(m, id, epoch, r, n) ==
    /\ Sound(n) /\ n.epoch = epoch
    /\ \/ /\ RequiresReset(n) /\ n.action # NoAction /\ n.action.id = id
          /\ n.action.kind = m.action.kind /\ n.action.status \in {"failed", "unknown"}
          /\ n.action.status = "failed" => r # "unknown"
          /\ n.revocation = "unconfirmed" /\ n.logoutIntent = TRUE
       \/ /\ r # "unknown" /\ m.action.kind = "sign-in"
          /\ Is(n, ReadySignOut(epoch), epoch, TRUE, "unconfirmed")
       \/ /\ r = "rejected" /\ m.action.kind = "sign-in"
          /\ m.revocation # "unconfirmed"
          /\ Is(n, NoAction, epoch, m.logoutIntent, m.revocation)

LEMMA FailCookieActionStep ==
    ASSUME NEW m, Sound(m), NEW id \in Nat, NEW epoch \in Nat,
           OwnsPending(m, id), NEW r \in {"rejected", "error", "unknown"},
           NEW n, n = FailCookieAction(m, id, epoch, r)
    PROVE  FailureIsRecorded(m, id, epoch, r, n)
  <1> USE DEF FailureIsRecorded
  <1> USE DEF OwnsPending, IsPending
  <1>0. m.action \in Action /\ m \in Marker
    BY MarkerFields DEF Sound
  <1> DEFINE u == [m.action EXCEPT !.status = "unknown"]
             f == [m.action EXCEPT !.status = "failed"]
  <1>1. CASE r = "unknown"
    <2>1. /\ u \in Action
          /\ u.id = id /\ u.kind = m.action.kind /\ u.status = "unknown" /\ u # NoAction
      BY <1>0, StatusOf, ActionFields
    <2>2. Is(n, u, epoch, TRUE, "unconfirmed")
      BY <1>0, <1>1, <2>1 DEF FailCookieAction, Failed, Completed, Marker, Is
    <2> QED  BY <1>1, <2>1, <2>2 DEF Is, Sound, Consistent, PendingIsLawful, RequiresReset
  <1>2. CASE r # "unknown" /\ m.action.kind = "sign-out"
    <2>1. /\ f \in Action
          /\ f.id = id /\ f.kind = m.action.kind /\ f.status = "failed" /\ f # NoAction
      BY <1>0, <1>2, StatusOf, ActionFields
    <2>2. m.revocation = "unconfirmed" /\ m.logoutIntent = TRUE
      BY <1>0, <1>2, MarkerFields DEF Sound, PendingIsLawful, Consistent
    <2>3. Is(n, f, epoch, TRUE, "unconfirmed")
      BY <1>0, <1>2, <2>1, <2>2 DEF FailCookieAction, Failed, Completed, Marker, Is
    <2> QED  BY <1>2, <2>1, <2>3 DEF Is, Sound, Consistent, PendingIsLawful, RequiresReset
  <1>3. CASE r # "unknown" /\ m.action.kind = "sign-in"
    <2>1. CASE r = "rejected" /\ ~(m.logoutIntent /\ m.revocation = "unconfirmed")
      <3>1. Is(n, NoAction, epoch, m.logoutIntent, m.revocation)
        BY <1>0, <1>3, <2>1, MarkerFields DEF FailCookieAction, Failed, Completed, Marker, Is
      <3>2. m.revocation # "unconfirmed"
        BY <2>1 DEF Sound, Consistent
      <3> QED  BY <1>3, <2>1, <3>1, <3>2 DEF Is, Sound, Consistent, PendingIsLawful
    <2>2. CASE ~(r = "rejected" /\ ~(m.logoutIntent /\ m.revocation = "unconfirmed"))
      <3>1. Is(n, ReadySignOut(epoch), epoch, TRUE, "unconfirmed")
        BY <1>0, <1>3, <2>2, ActionOf, MarkerFields
           DEF FailCookieAction, Failed, Completed, Marker, Is
      <3> QED  BY <1>3, <3>1 DEF Is, Sound, Consistent, PendingIsLawful, ReadySignOut
    <2> QED  BY <2>1, <2>2
  <1> QED  BY <1>0, <1>1, <1>2, <1>3, ActionFields

ActionIsOrphaned(m, epoch, n) ==
    /\ Sound(n) /\ RequiresReset(n) /\ n.epoch = epoch
    /\ n.action # NoAction /\ n.action.id = m.action.id
    /\ n.action.kind = m.action.kind /\ n.action.status = "unknown"
    /\ n.revocation = "unconfirmed" /\ n.logoutIntent = TRUE

LEMMA OrphanStep ==
    ASSUME NEW m, Sound(m), NEW epoch \in Nat, IsPending(m),
           NEW n, n = OrphanPendingAction(m, epoch)
    PROVE  ActionIsOrphaned(m, epoch, n)
  <1> DEFINE u == [m.action EXCEPT !.status = "unknown"]
  <1>1. m.action \in Action /\ m \in Marker
    BY MarkerFields DEF Sound, IsPending
  <1>2. /\ u \in Action
        /\ u.id = m.action.id /\ u.kind = m.action.kind /\ u.status = "unknown" /\ u # NoAction
    BY <1>1, StatusOf, ActionFields
  <1>3. Is(n, u, epoch, TRUE, "unconfirmed")
    BY <1>1, <1>2 DEF OrphanPendingAction, Marker, Is
  <1> QED
    BY <1>2, <1>3
       DEF ActionIsOrphaned, Is, Sound, Consistent, PendingIsLawful, RequiresReset, IsPending

IntentIsRecorded(m, epoch, n) ==
    /\ Sound(n) /\ n.logoutIntent = TRUE /\ n.revocation = "unconfirmed"
    /\ \/ n = m /\ RequiresReset(m)
       \/ /\ ~RequiresReset(m) /\ n.epoch = epoch
          /\ n.action = IF m.action = NoAction THEN ReadySignOut(epoch) ELSE m.action

LEMMA PublishIntentStep ==
    ASSUME NEW m, Sound(m), NEW epoch \in Nat, NEW n, n = PublishLogoutIntent(m, epoch),
           m.action # NoAction => m.action.id # epoch
    PROVE  IntentIsRecorded(m, epoch, n)
  <1> USE DEF IntentIsRecorded
  <1> USE MarkerFields
  <1>1. CASE RequiresReset(m)
    BY <1>1 DEF PublishLogoutIntent, RequiresReset, Sound, Consistent
  <1>2. CASE ~RequiresReset(m)
    <2> DEFINE a == IF m.action = NoAction THEN ReadySignOut(epoch) ELSE m.action
    <2>1. a \in Action
      BY ActionOf DEF Sound
    <2>2. Is(n, a, epoch, TRUE, "unconfirmed")
      BY <1>2, <2>1 DEF PublishLogoutIntent, Marker, Is, Sound
    <2>3. Consistent(n)
      BY <2>1, <2>2, ActionFields DEF Is, Consistent, Sound, ReadySignOut
    <2>4. PendingIsLawful(n)
      BY <2>1, <2>2, ActionFields DEF Is, PendingIsLawful, Sound, ReadySignOut, IsPending
    <2> QED  BY <1>2, <2>2, <2>3, <2>4 DEF Is, Sound
  <1> QED  BY <1>1, <1>2

-----------------------------------------------------------------------------
(* Tabs. *)

\* A tab that has its type and is fenced, uuids ids having been handed out.
TabSound(s, m, jar, sessions, n) ==
    /\ s \in Tab
    /\ s.seen # NoMarker => s.seen.epoch <= n
    /\ TabIsFenced(s, m, jar, sessions)

LEMMA TabFields ==
    ASSUME NEW s \in Tab
    PROVE  /\ s.seen \in Marker \cup {NoMarker}
           /\ s.failure \in {"none", "invalid", "unavailable"}
           /\ s.localLogout \in BOOLEAN /\ s.fault \in BOOLEAN
           /\ s.current \in BOOLEAN /\ s.inspecting \in BOOLEAN /\ s.open \in BOOLEAN
           /\ s.shown \in Id
           /\ s.read.stage \in {"none", "sent", "user", "invalid", "unavailable"}
           /\ s.read.session \in Id
  BY DEF Tab

LEMMA PublishedTab ==
    ASSUME NEW s \in Tab, NEW seen \in Marker \cup {NoMarker}, NEW logout \in BOOLEAN,
           NEW failure \in {"none", "invalid", "unavailable"}
    PROVE  /\ Publish(s, seen, logout, failure) \in Tab
           /\ Publish(s, seen, logout, failure).seen = seen
  BY DEF Publish, Tab, NoRead, Id, IsPending

\* A publication retires what was bound to the old revision.
LEMMA PublicationRetires ==
    ASSUME NEW s, NEW seen, NEW logout, NEW failure
    PROVE  /\ Publish(s, seen, logout, failure).failure = failure
           /\ Publish(s, seen, logout, failure).shown = NoSession
           /\ ~Publish(s, seen, logout, failure).current
           /\ Publish(s, seen, logout, failure).read.stage = "none"
  BY DEF Publish, NoRead

LEMMA PublishIsSound ==
    ASSUME NEW s \in Tab, NEW seen \in Marker \cup {NoMarker}, NEW logout \in BOOLEAN,
           NEW failure \in {"none", "invalid", "unavailable"},
           NEW m, NEW jar, NEW sessions, NEW n,
           seen # NoMarker => /\ seen.epoch <= n
                              /\ failure # "none" => seen.action = NoAction,
           seen = m /\ failure = "invalid" => sessions = {}
    PROVE  TabSound(Publish(s, seen, logout, failure), m, jar, sessions, n)
  <1> DEFINE p == Publish(s, seen, logout, failure)
  <1>1. /\ p \in Tab /\ p.seen = seen /\ p.failure = failure
        /\ p.shown = NoSession /\ ~p.current /\ p.read.stage = "none"
    BY PublishedTab, PublicationRetires
  <1> HIDE DEF p
  <1>2. TabIsFenced(p, m, jar, sessions)
    BY <1>1 DEF TabIsFenced
  <1>3. TabSound(p, m, jar, sessions, n)
    BY <1>1, <1>2 DEF TabSound
  <1> QED  BY <1>3 DEF p

\* Rereading a marker that is current.
LEMMA SeenIsSound ==
    ASSUME NEW s \in Tab, NEW m \in Marker, NEW jar, NEW sessions, NEW n, m.epoch <= n,
           s.seen = m => TabSound(s, m, jar, sessions, n)
    PROVE  /\ TabSound(Seen(s, m), m, jar, sessions, n)
           /\ Seen(s, m).seen = m
  <1>1. CASE s.seen = m
    BY <1>1 DEF Seen
  <1>2. CASE s.seen # m
    <2>1. /\ Seen(s, m) = Publish(s, m, s.localLogout, "none")
          /\ s.localLogout \in BOOLEAN /\ "none" \in {"none", "invalid", "unavailable"}
      BY <1>2, TabFields DEF Seen
    <2>2. TabSound(Publish(s, m, s.localLogout, "none"), m, jar, sessions, n)
      BY <2>1, PublishIsSound
    <2>3. Publish(s, m, s.localLogout, "none").seen = m
      BY <2>1, PublishedTab
    <2> QED  BY <2>1, <2>2, <2>3
  <1> QED  BY <1>1, <1>2

LEMMA UnsuppressedIsSound ==
    ASSUME NEW m, NEW jar, NEW sessions, NEW n, NEW s, TabSound(s, m, jar, sessions, n)
    PROVE  /\ TabSound(Unsuppressed(s), m, jar, sessions, n)
           /\ TabSound(Resumed(s), m, jar, sessions, n)
           /\ Unsuppressed(s).seen = s.seen /\ Resumed(s).seen = s.seen
  <1>1. /\ s \in Tab /\ s.seen \in Marker \cup {NoMarker} /\ FALSE \in BOOLEAN
        /\ s.failure \in {"none", "invalid", "unavailable"}
    BY TabFields DEF TabSound
  <1>2. /\ s.seen # NoMarker => /\ s.seen.epoch <= n
                                /\ s.failure # "none" => s.seen.action = NoAction
        /\ s.seen = m /\ s.failure = "invalid" => sessions = {}
    BY DEF TabSound, TabIsFenced
  <1>3. TabSound(Publish(s, s.seen, FALSE, s.failure), m, jar, sessions, n)
    BY <1>1, <1>2, PublishIsSound
  <1>4. Publish(s, s.seen, FALSE, s.failure).seen = s.seen
    BY <1>1, PublishedTab
  <1> QED  BY <1>3, <1>4 DEF Unsuppressed, Resumed

LEMMA InvalidatedIsSound ==
    ASSUME NEW s \in Tab, NEW m \in Marker, NEW jar, NEW sessions, NEW n
    PROVE  TabSound(Invalidated(s), m, jar, sessions, n)
  BY TabFields, MarkerFields, PublishIsSound DEF Invalidated

LEMMA NewTabIsSound ==
    ASSUME NEW m \in Marker, NEW jar, NEW sessions, NEW n, m.epoch <= n
    PROVE  TabSound(NewTab(m), m, jar, sessions, n)
  BY DEF NewTab, Tab, TabSound, TabIsFenced, NoRead, Id, IsPending

LEMMA ClosedTabIsSound ==
    ASSUME NEW m \in Marker, NEW jar, NEW sessions, NEW n
    PROVE  TabSound(ClosedTab, m, jar, sessions, n)
  BY MarkerFields DEF ClosedTab, NewTab, Tab, TabSound, TabIsFenced, NoRead, Id, IsPending

\* A tab that has not seen the new marker.
LEMMA StaleTabIsSound ==
    ASSUME NEW s, NEW m, NEW jar, NEW sessions, NEW n \in Nat,
           TabSound(s, m, jar, sessions, n),
           NEW k \in Marker, k.epoch = n + 1, NEW jar2, NEW sessions2
    PROVE  TabSound(s, k, jar2, sessions2, n + 1)
  BY TabFields, MarkerFields DEF TabSound, TabIsFenced

\* Under an action of the marker no tab has anything to protect.
LEMMA CoveredTabIsSound ==
    ASSUME NEW s, NEW m \in Marker, m.action # NoAction, NEW jar, NEW sessions, NEW n,
           TabSound(s, m, jar, sessions, n), NEW jar2, NEW sessions2
    PROVE  TabSound(s, m, jar2, sessions2, n)
  BY MarkerFields DEF TabSound, TabIsFenced

LEMMA FewerSessionsAreSound ==
    ASSUME NEW s, NEW m, NEW jar, NEW sessions, NEW n,
           TabSound(s, m, jar, sessions, n), NEW fewer \in SUBSET sessions
    PROVE  TabSound(s, m, jar, fewer, n)
  BY DEF TabSound, TabIsFenced

-----------------------------------------------------------------------------
(* A tab's steps that leave the marker and the world alone. *)

SoundNow(t) == TabSound(tab[t], marker, cookie, live, uuids)

LEMMA InvariantFacts ==
    ASSUME IInv
    PROVE  Sound(marker) /\ \A t \in Tabs : SoundNow(t)
  BY DEF IInv, TypeOK, Sound, SoundNow, TabSound, TabsAreFenced, IdsWereHandedOut

OthersRest(t) ==
    \A u \in Tabs : u # t =>
        /\ tab'[u] = tab[u] /\ owed'[u] = owed[u]
        /\ signingIn'[u] = signingIn[u] /\ signingOut'[u] = signingOut[u]
        /\ held'[u] = held[u] /\ reply'[u] = reply[u]

\* A tab that holds the lock or waits for its request has done so before; one
\* that is granted the lock for a sign-in finds no session.
ProcedureRests(t) ==
    /\ signingIn'[t] = "checked" =>
          signingIn[t] = "checked" \/ (LockFree /\ (AcceptsSignIn(marker) => live = {}))
    /\ signingIn'[t] = "sent" => signingIn[t] = "sent"
    /\ signingOut'[t] = "sent" => signingOut[t] = "sent"
    /\ signingIn'[t] = "sent" \/ signingOut'[t] = "sent" =>
          held'[t] = held[t] /\ reply'[t] = reply[t]
    /\ reply'[t] # "none" => signingIn'[t] = "sent" \/ signingOut'[t] = "sent"

\* signOut returns, or may do so, only with nothing owed.
DebtRests(t) ==
    /\ owed'[t] \in {owed[t], live}
    /\ signingOut'[t] = "done" \/ (signingOut'[t] = "queued" /\ SignOutSuperseded(marker)) =>
          /\ owed'[t] = owed[t]
          /\ signingOut[t] = "done" \/ (signingOut[t] = "queued" /\ SignOutSuperseded(marker))

LEMMA TabMoves ==
    ASSUME IInv, TypeOK', NEW t \in Tabs, OthersRest(t), ProcedureRests(t), DebtRests(t),
           UNCHANGED <<storageVars, worldVars>>, SoundNow(t)'
    PROVE  IInv'
  <1> USE DEF IInv, storageVars, worldVars
  <1>1. Consistent(marker)' /\ PendingIsLawful(marker)' /\ RequestsAreCovered'
    BY DEF RequestsAreCovered
  <1>2. LockIsExclusive'
    BY DEF LockIsExclusive, HoldsForSignIn, HoldsForSignOut, OthersRest, ProcedureRests, LockFree
  <1>3. HolderOwnsAction'
    BY DEF HolderOwnsAction, OthersRest, ProcedureRests
  <1>4. \A u \in Tabs : SoundNow(u)'
    BY InvariantFacts DEF SoundNow, OthersRest
  <1>5. TabsAreFenced'
    BY <1>4 DEF TabsAreFenced, SoundNow, TabSound
  <1>6. IdsWereHandedOut'
    <2>1. \A u \in Tabs : tab'[u].seen # NoMarker => tab'[u].seen.epoch <= uuids
      BY <1>4 DEF SoundNow, TabSound
    <2>2. \A u \in Tabs : owed'[u] \subseteq 0..uuids
      BY DEF IdsWereHandedOut, OthersRest, DebtRests
    <2> QED  BY <2>1, <2>2 DEF IdsWereHandedOut
  <1>7. RequestsAreOrderly'
    <2>1. \A r \in requests : r.kind = "sign-in" /\ r.stage = "sent" =>
              \A u \in Tabs : r.id \notin owed'[u]
      BY DEF RequestsAreOrderly, OthersRest, DebtRests
    <2> QED  BY <2>1 DEF RequestsAreOrderly
  <1>8. RepliesAreSound'
    BY DEF RepliesAreSound, OthersRest, ProcedureRests
  <1>9. SessionsAreKnown'
    BY DEF SessionsAreKnown, OthersRest, ProcedureRests
  <1>10. DebtsAreSettled'
    BY DEF DebtsAreSettled, OthersRest, DebtRests
  <1> QED
    BY <1>1, <1>2, <1>3, <1>5, <1>6, <1>7, <1>8, <1>9, <1>10

\* Only the snapshot changes.
LEMMA OnlyTabChanges ==
    ASSUME IInv, NEW t \in Tabs, NEW s, TabSound(s, marker, cookie, live, uuids), Show(t, s),
           UNCHANGED <<hasLocks, storageVars, callVars, worldVars, calls, owed>>
    PROVE  IInv'
  <1> USE DEF storageVars, callVars, worldVars
  <1>1. TypeOK /\ s \in Tab
    BY DEF IInv, TabSound
  <1>2. tab' \in [Tabs -> Tab] /\ tab'[t] = s /\ \A u \in Tabs : u # t => tab'[u] = tab[u]
    BY <1>1 DEF TypeOK, Show
  <1>3. TypeOK'
    BY <1>1, <1>2 DEF TypeOK
  <1>4. OthersRest(t) /\ ProcedureRests(t) /\ SoundNow(t)'
    BY <1>2 DEF OthersRest, ProcedureRests, SoundNow, IInv, HolderOwnsAction
  <1>5. DebtRests(t)
    BY DEF DebtRests
  <1> QED  BY <1>3, <1>4, <1>5, TabMoves

\* The snapshot of a tab with one of its fields replaced.
LEMMA TabWith ==
    ASSUME NEW s \in Tab
    PROVE  /\ [s EXCEPT !.fault = TRUE] \in Tab
           /\ [s EXCEPT !.current = FALSE] \in Tab
           /\ [s EXCEPT !.current = TRUE] \in Tab
           /\ [s EXCEPT !.inspecting = FALSE] \in Tab
           /\ \A stage \in {"sent", "user", "invalid", "unavailable"}, id \in Id :
                 [s EXCEPT !.read = [stage |-> stage, session |-> id]] \in Tab
           /\ \A stage \in {"sent", "user", "invalid", "unavailable"} :
                 [s EXCEPT !.read.stage = stage] \in Tab
           /\ \A id \in Id : [s EXCEPT !.shown = id, !.read = NoRead] \in Tab
  BY DEF Tab, NoRead, Id

\* The fences do not depend on the flags; to cancel a queued sign-in is safe.
LEMMA FlagsAreFree ==
    ASSUME NEW s, NEW m, NEW jar, NEW sessions, NEW n, TabSound(s, m, jar, sessions, n)
    PROVE  /\ TabSound([s EXCEPT !.fault = TRUE], m, jar, sessions, n)
           /\ TabSound([s EXCEPT !.inspecting = FALSE], m, jar, sessions, n)
           /\ TabSound([s EXCEPT !.current = FALSE], m, jar, sessions, n)
  <1> DEFINE Like(d) ==
                /\ d \in Tab /\ d.seen = s.seen /\ d.shown = s.shown /\ d.read = s.read
                /\ d.failure = s.failure /\ (d.current => s.current)
  <1>1. ASSUME NEW d, Like(d) PROVE TabSound(d, m, jar, sessions, n)
    BY <1>1 DEF TabSound, TabIsFenced
  <1>2. s \in Tab
    BY DEF TabSound
  <1>3. Like([s EXCEPT !.fault = TRUE])
    <2>1. [s EXCEPT !.fault = TRUE] \in Tab
      BY <1>2, TabWith
    <2> QED  BY <1>2, <2>1 DEF Tab
  <1>5. Like([s EXCEPT !.inspecting = FALSE])
    <2>1. [s EXCEPT !.inspecting = FALSE] \in Tab
      BY <1>2, TabWith
    <2> QED  BY <1>2, <2>1 DEF Tab
  <1>4. Like([s EXCEPT !.current = FALSE])
    <2>1. [s EXCEPT !.current = FALSE] \in Tab
      BY <1>2, TabWith
    <2> QED  BY <1>2, <2>1 DEF Tab
  <1> HIDE DEF Like
  <1> QED  BY <1>1, <1>3, <1>4, <1>5

LEMMA RefreshKeeps ==
    ASSUME IInv, NEW t \in Tabs, Refresh(t)
    PROVE  IInv'
  <1>1. tab[t] \in Tab /\ marker \in Marker /\ marker.epoch <= uuids
    BY DEF IInv, TypeOK, IdsWereHandedOut
  <1>2. TabSound(Seen(tab[t], marker), marker, cookie, live, uuids)
    BY <1>1, SeenIsSound DEF Refresh, UpToDate
  <1> QED  BY <1>2, OnlyTabChanges DEF Refresh

LEMMA CacheFailsKeeps ==
    ASSUME IInv, NEW t \in Tabs, CacheFails(t)
    PROVE  IInv'
  <1>1. TabSound([tab[t] EXCEPT !.fault = TRUE], marker, cookie, live, uuids)
    BY InvariantFacts, FlagsAreFree DEF SoundNow
  <1> QED  BY <1>1, OnlyTabChanges DEF CacheFails

\* The step that asks leaves with the cookie of a marker without an action.
LEMMA StartReadKeeps ==
    ASSUME IInv, NEW t \in Tabs, StartRead(t)
    PROVE  IInv'
  <1> DEFINE s == [tab[t] EXCEPT !.read = [stage |-> "sent", session |-> cookie]]
  <1>1. SoundNow(t) /\ tab[t] \in Tab /\ cookie \in Id
    BY InvariantFacts DEF SoundNow, TabSound, IInv, TypeOK
  <1>2. s \in Tab
    BY <1>1, TabWith
  <1>3. TabIsFenced(s, marker, cookie, live)
    BY <1>1 DEF SoundNow, TabSound, TabIsFenced, StartRead, CanRead, Tab
  <1>4. TabSound(s, marker, cookie, live, uuids)
    BY <1>1, <1>2, <1>3 DEF SoundNow, TabSound, Tab
  <1> QED  BY <1>4, OnlyTabChanges DEF StartRead

LEMMA ServeReadKeeps ==
    ASSUME IInv, NEW t \in Tabs, ServeRead(t)
    PROVE  IInv'
  <1>1. PICK stage \in {IF tab[t].read.session \in live THEN "user" ELSE "invalid",
                        "unavailable"} :
           Show(t, [tab[t] EXCEPT !.read.stage = stage])
    BY DEF ServeRead
  <1> DEFINE s == [tab[t] EXCEPT !.read.stage = stage]
  <1>2. SoundNow(t) /\ tab[t] \in Tab
    BY InvariantFacts DEF SoundNow, TabSound
  <1>3. s \in Tab
    BY <1>2, TabWith
  <1>4. /\ s.read.stage = stage /\ s.read.session = tab[t].read.session
        /\ s.seen = tab[t].seen /\ s.failure = tab[t].failure /\ s.shown = tab[t].shown
        /\ s.current = tab[t].current
    BY <1>2 DEF Tab
  <1>5. TabIsFenced(s, marker, cookie, live)
    BY <1>2, <1>4 DEF SoundNow, TabSound, TabIsFenced, ServeRead
  <1>6. TabSound(s, marker, cookie, live, uuids)
    BY <1>2, <1>3, <1>4, <1>5 DEF SoundNow, TabSound
  <1> QED  BY <1>1, <1>6, OnlyTabChanges DEF ServeRead

\* An answer at the current marker is about the cookie: if it says that the
\* session is invalid, no session is live.
LEMMA DeliveredIsSound ==
    ASSUME IInv, NEW t \in Tabs, DeliverRead(t)
    PROVE  TabSound(Delivered(tab[t]), marker, cookie, live, uuids)
  <1> DEFINE s == tab[t]
             stage == s.read.stage
  <1>1. SoundNow(t) /\ s \in Tab /\ s.seen = marker /\ marker \in Marker
    BY InvariantFacts DEF SoundNow, TabSound, DeliverRead, UpToDate, Sound
  <1>2. s.read.stage # "none" /\ s.seen # NoMarker
    BY <1>1, MarkerFields DEF DeliverRead
  <1>3. marker.action = NoAction /\ ~marker.logoutIntent /\ s.read.session = cookie
    BY <1>1, <1>2 DEF SoundNow, TabSound, TabIsFenced
  <1>4. CASE s.read.stage = "user"
    <2> DEFINE id == IF s.shown = NoSession THEN s.read.session ELSE s.shown
               d == [s EXCEPT !.shown = id, !.read = NoRead]
    <2>1. id \in Id /\ id = cookie
      BY <1>1, <1>3, TabFields DEF SoundNow, TabSound, TabIsFenced
    <2>2. d \in Tab
      BY <1>1, <2>1, TabWith
    <2>3. /\ d.shown = cookie /\ d.read.stage = "none" /\ d.seen = s.seen
          /\ d.failure = s.failure /\ d.current = s.current
      BY <1>1, <2>1 DEF Tab, NoRead
    <2>4. TabSound(d, marker, cookie, live, uuids)
      <3> HIDE DEF d
      <3> QED  BY <1>1, <1>2, <1>3, <2>2, <2>3 DEF SoundNow, TabSound, TabIsFenced
    <2>5. Delivered(s) = d
      BY <1>4 DEF Delivered
    <2> QED  BY <2>4, <2>5
  <1>5. CASE s.read.stage # "user"
    <2>1. /\ Delivered(s) = Publish(s, s.seen, s.localLogout, stage)
          /\ stage \in {"none", "invalid", "unavailable"} /\ s.localLogout \in BOOLEAN
      BY <1>1, <1>5, TabFields DEF Delivered, DeliverRead
    <2>2. stage = "invalid" => live = {}
      <3>1. AcceptsSignIn(marker)
        BY <1>3 DEF AcceptsSignIn
      <3> QED  BY <1>1, <1>3, <3>1 DEF IInv, SessionsAreKnown, SoundNow, TabSound, TabIsFenced
    <2>3. s.seen.epoch <= uuids
      BY <1>1, <1>2 DEF SoundNow, TabSound
    <2> QED  BY <1>1, <1>3, <2>1, <2>2, <2>3, PublishIsSound
  <1> QED  BY <1>4, <1>5

LEMMA DeliverReadKeeps ==
    ASSUME IInv, NEW t \in Tabs, DeliverRead(t)
    PROVE  IInv'
  BY DeliveredIsSound, OnlyTabChanges DEF DeliverRead

LEMMA RetryReadKeeps ==
    ASSUME IInv, NEW t \in Tabs, RetryRead(t)
    PROVE  IInv'
  <1> DEFINE s == tab[t]
  <1>1. /\ SoundNow(t) /\ s \in Tab /\ s.seen \in Marker \cup {NoMarker}
        /\ s.localLogout \in BOOLEAN
    BY InvariantFacts, TabFields DEF SoundNow, TabSound
  <1>2. TabSound(Publish(s, s.seen, s.localLogout, "none"), marker, cookie, live, uuids)
    BY <1>1, PublishIsSound DEF SoundNow, TabSound
  <1> QED  BY <1>2, OnlyTabChanges DEF RetryRead

LEMMA InspectionTimesOutKeeps ==
    ASSUME IInv, NEW t \in Tabs, InspectionTimesOut(t)
    PROVE  IInv'
  <1>1. TabSound([tab[t] EXCEPT !.inspecting = FALSE], marker, cookie, live, uuids)
    BY InvariantFacts, FlagsAreFree DEF SoundNow
  <1> QED  BY <1>1, OnlyTabChanges DEF InspectionTimesOut

\* An anonymous tab that has seen the current marker has concluded that no
\* session is live.
LEMMA AnonymousMeansNoSession ==
    ASSUME IInv, NEW t \in Tabs, Anonymous(tab[t]), tab[t].seen = marker
    PROVE  live = {} /\ marker.action = NoAction
  <1>1. SoundNow(t) /\ marker \in Marker
    BY InvariantFacts DEF Sound
  <1>2. CASE ConfirmedLogout(tab[t].seen)
    BY <1>2 DEF ConfirmedLogout, IInv, SessionsAreKnown, AcceptsSignIn
  <1>3. CASE tab[t].failure = "invalid"
    BY <1>1, <1>3, MarkerFields DEF SoundNow, TabSound, TabIsFenced
  <1> QED  BY <1>2, <1>3 DEF Anonymous

LEMMA StartSignInKeeps ==
    ASSUME IInv, NEW t \in Tabs, StartSignIn(t)
    PROVE  IInv'
  <1> DEFINE s == [tab[t] EXCEPT !.current = TRUE]
  <1> USE DEF StartSignIn, Show, SignInGoes, storageVars, worldVars
  <1>1. TypeOK /\ SoundNow(t) /\ tab[t] \in Tab /\ marker \in Marker
    BY InvariantFacts DEF IInv, TypeOK, Sound
  <1>2. s \in Tab
    BY <1>1, TabWith
  <1>3. /\ s.seen = tab[t].seen /\ s.shown = tab[t].shown /\ s.read = tab[t].read
        /\ s.failure = tab[t].failure
    BY <1>1 DEF Tab
  <1>4. tab[t].seen # NoMarker => tab[t].seen.action = NoAction
    BY <1>1 DEF Anonymous, ConfirmedLogout, SoundNow, TabSound, TabIsFenced
  <1>5. tab[t].seen = marker => live = {}
    BY AnonymousMeansNoSession
  <1>6. TabSound(s, marker, cookie, live, uuids)
    <2> HIDE DEF s
    <2> QED  BY <1>1, <1>2, <1>3, <1>4, <1>5 DEF SoundNow, TabSound, TabIsFenced
  <1>7. /\ tab' \in [Tabs -> Tab] /\ tab'[t] = s
        /\ signingIn' \in [Tabs -> {"idle", "queued", "checked", "sent"}]
        /\ signingIn'[t] = "queued"
        /\ \A u \in Tabs : u # t => tab'[u] = tab[u] /\ signingIn'[u] = signingIn[u]
    BY <1>1, <1>2 DEF TypeOK
  <1>8. TypeOK'
    BY <1>1, <1>7, CoordinationAssumption DEF TypeOK, Call
  <1>9. OthersRest(t) /\ ProcedureRests(t) /\ DebtRests(t) /\ SoundNow(t)'
    BY <1>6, <1>7 DEF OthersRest, ProcedureRests, DebtRests, SoundNow, IInv, HolderOwnsAction
  <1> QED  BY <1>8, <1>9, TabMoves

\* A tab's signIn leaves the queue, or gives up.
LEMMA SignInMoves ==
    ASSUME IInv, NEW t \in Tabs, NEW l \in {"idle", "checked"}, SignInGoes(t, l),
           signingIn[t] # "sent",
           l = "checked" => LockFree /\ (AcceptsSignIn(marker) => live = {}),
           NEW s, TabSound(s, marker, cookie, live, uuids), Show(t, s),
           UNCHANGED <<hasLocks, storageVars, signingOut, held, reply, worldVars, calls, owed>>
    PROVE  IInv'
  <1> USE DEF Show, SignInGoes, storageVars, worldVars
  <1>1. TypeOK /\ s \in Tab
    BY DEF IInv, TabSound
  <1>2. /\ tab' \in [Tabs -> Tab] /\ tab'[t] = s
        /\ signingIn' \in [Tabs -> {"idle", "queued", "checked", "sent"}]
        /\ signingIn'[t] = l
        /\ \A u \in Tabs : u # t => tab'[u] = tab[u] /\ signingIn'[u] = signingIn[u]
    BY <1>1 DEF TypeOK
  <1>3. TypeOK'
    BY <1>1, <1>2 DEF TypeOK
  <1>4. OthersRest(t) /\ ProcedureRests(t) /\ DebtRests(t) /\ SoundNow(t)'
    BY <1>2 DEF OthersRest, ProcedureRests, DebtRests, SoundNow, IInv, HolderOwnsAction
  <1> QED  BY <1>3, <1>4, TabMoves

LEMMA CheckSignInKeeps ==
    ASSUME IInv, NEW t \in Tabs, CheckSignIn(t)
    PROVE  IInv'
  <1>1. TabSound([tab[t] EXCEPT !.current = FALSE], marker, cookie, live, uuids)
    BY InvariantFacts, FlagsAreFree DEF SoundNow
  <1>2. tab[t].current => live = {}
    BY InvariantFacts DEF SoundNow, TabSound, TabIsFenced, CheckSignIn, UpToDate
  <1>3. CASE tab[t].current /\ ~tab[t].localLogout
    BY <1>1, <1>2, <1>3, SignInMoves DEF CheckSignIn
  <1>4. CASE ~(tab[t].current /\ ~tab[t].localLogout)
    BY <1>1, <1>4, SignInMoves DEF CheckSignIn
  <1> QED  BY <1>3, <1>4

LEMMA SignInTimesOutKeeps ==
    ASSUME IInv, NEW t \in Tabs, SignInTimesOut(t)
    PROVE  IInv'
  <1>1. TabSound([tab[t] EXCEPT !.current = FALSE], marker, cookie, live, uuids)
    BY InvariantFacts, FlagsAreFree DEF SoundNow
  <1> QED  BY <1>1, SignInMoves DEF SignInTimesOut

\* What the tab shows after it has reread the marker.
LEMMA RereadIsSound ==
    ASSUME IInv, NEW t \in Tabs
    PROVE  /\ TabSound(Seen(tab[t], marker), marker, cookie, live, uuids)
           /\ TabSound(Resumed(Seen(tab[t], marker)), marker, cookie, live, uuids)
           /\ TabSound(Resumed(tab[t]), marker, cookie, live, uuids)
  <1>1. tab[t] \in Tab /\ marker \in Marker /\ marker.epoch <= uuids /\ SoundNow(t)
    BY InvariantFacts DEF IInv, TypeOK, IdsWereHandedOut
  <1>2. TabSound(Seen(tab[t], marker), marker, cookie, live, uuids)
    BY <1>1, SeenIsSound DEF SoundNow
  <1> QED  BY <1>1, <1>2, UnsuppressedIsSound DEF SoundNow

LEMMA StartSignOutKeeps ==
    ASSUME IInv, NEW t \in Tabs, StartSignOut(t)
    PROVE  IInv'
  <1> DEFINE s == Publish(tab[t], tab[t].seen, TRUE, "none")
  <1> USE DEF StartSignOut, Show, SignOutGoes, storageVars, worldVars
  <1>1. TypeOK /\ SoundNow(t) /\ tab[t] \in Tab /\ tab[t].seen \in Marker \cup {NoMarker}
    BY InvariantFacts, TabFields DEF IInv, TypeOK
  <1>2. TabSound(s, marker, cookie, live, uuids)
    BY <1>1, PublishIsSound DEF SoundNow, TabSound
  <1> HIDE DEF s
  <1>3. /\ tab' \in [Tabs -> Tab] /\ tab'[t] = s
        /\ signingOut' \in [Tabs -> {"idle", "intent", "queued", "sent", "done"}]
        /\ signingOut'[t] = "intent"
        /\ owed' \in [Tabs -> SUBSET Nat] /\ owed'[t] = live
        /\ \A u \in Tabs : u # t => /\ tab'[u] = tab[u] /\ signingOut'[u] = signingOut[u]
                                    /\ owed'[u] = owed[u]
    BY <1>1, <1>2 DEF TypeOK, TabSound, s
  <1>6. calls' \in 0..MaxCalls
    BY <1>1, CoordinationAssumption DEF TypeOK, Call
  <1>4. TypeOK'
    BY <1>1, <1>3, <1>6 DEF TypeOK
  <1>5. OthersRest(t) /\ ProcedureRests(t) /\ DebtRests(t) /\ SoundNow(t)'
    BY <1>2, <1>3 DEF OthersRest, ProcedureRests, DebtRests, SoundNow, IInv, HolderOwnsAction
  <1> QED  BY <1>4, <1>5, TabMoves

\* A tab's signOut leaves the queue without a request.
LEMMA SignOutMoves ==
    ASSUME IInv, NEW t \in Tabs, NEW l \in {"idle", "done"}, SignOutGoes(t, l),
           signingOut[t] # "sent",
           l = "done" => signingOut[t] = "queued" /\ SignOutSuperseded(marker),
           NEW s, TabSound(s, marker, cookie, live, uuids), Show(t, s),
           UNCHANGED <<hasLocks, storageVars, signingIn, held, reply, worldVars, calls, owed>>
    PROVE  IInv'
  <1> USE DEF Show, SignOutGoes, storageVars, worldVars
  <1>1. TypeOK /\ s \in Tab
    BY DEF IInv, TabSound
  <1>2. /\ tab' \in [Tabs -> Tab] /\ tab'[t] = s
        /\ signingOut' \in [Tabs -> {"idle", "intent", "queued", "sent", "done"}]
        /\ signingOut'[t] = l
        /\ \A u \in Tabs : u # t => tab'[u] = tab[u] /\ signingOut'[u] = signingOut[u]
    BY <1>1 DEF TypeOK
  <1>3. TypeOK'
    BY <1>1, <1>2 DEF TypeOK
  <1>4. OthersRest(t) /\ ProcedureRests(t) /\ DebtRests(t) /\ SoundNow(t)'
    BY <1>2 DEF OthersRest, ProcedureRests, DebtRests, SoundNow, IInv, HolderOwnsAction
  <1> QED  BY <1>3, <1>4, TabMoves

LEMMA SignOutTimesOutKeeps ==
    ASSUME IInv, NEW t \in Tabs, SignOutTimesOut(t)
    PROVE  IInv'
  BY RereadIsSound, SignOutMoves DEF SignOutTimesOut

LEMMA OpenKeeps ==
    ASSUME IInv, NEW t \in Tabs, Open(t)
    PROVE  IInv'
  <1>1. TabSound(NewTab(marker), marker, cookie, live, uuids)
    BY NewTabIsSound DEF IInv, TypeOK, IdsWereHandedOut
  <1> QED  BY <1>1, OnlyTabChanges DEF Open

LEMMA CloseKeeps ==
    ASSUME IInv, NEW t \in Tabs, Close(t)
    PROVE  IInv'
  <1> DEFINE s == ClosedTab
  <1> USE DEF Close, Show, SignInGoes, SignOutGoes, Forget, storageVars, worldVars
  <1>1. TypeOK /\ marker.epoch <= uuids
    BY DEF IInv, IdsWereHandedOut
  <1>2. TabSound(s, marker, cookie, live, uuids)
    BY <1>1, ClosedTabIsSound DEF TypeOK
  <1> HIDE DEF s
  <1>3. /\ tab' \in [Tabs -> Tab] /\ tab'[t] = s
        /\ signingIn'[t] = "idle" /\ signingOut'[t] = "idle" /\ reply'[t] = "none"
        /\ \A u \in Tabs : u # t =>
              /\ tab'[u] = tab[u] /\ signingIn'[u] = signingIn[u]
              /\ signingOut'[u] = signingOut[u] /\ held'[u] = held[u] /\ reply'[u] = reply[u]
    BY <1>1, <1>2 DEF TypeOK, TabSound, s
  <1>4. TypeOK'
    BY <1>1, <1>3 DEF TypeOK
  <1>5. OthersRest(t) /\ ProcedureRests(t) /\ DebtRests(t) /\ SoundNow(t)'
    BY <1>2, <1>3 DEF OthersRest, ProcedureRests, DebtRests, SoundNow
  <1> QED  BY <1>4, <1>5, TabMoves

\* A procedure fails with its request, if any, answered or timed out.
LEMMA ProcedureFails ==
    ASSUME IInv, NEW t \in Tabs, NEW s, TabSound(s, marker, cookie, live, uuids), Show(t, s),
           \/ SignInGoes(t, "idle") /\ UNCHANGED signingOut /\ signingIn[t] = "sent"
           \/ SignOutGoes(t, "idle") /\ UNCHANGED signingIn /\ signingOut[t] = "sent",
           Forget(t),
           UNCHANGED <<hasLocks, storageVars, worldVars, calls, owed>>
    PROVE  IInv'
  <1> USE DEF Show, SignInGoes, SignOutGoes, Forget, storageVars, worldVars
  <1>1. TypeOK /\ s \in Tab
    BY DEF IInv, TabSound
  <1>2. /\ tab' \in [Tabs -> Tab] /\ tab'[t] = s
        /\ \A u \in Tabs : u # t => tab'[u] = tab[u]
    BY <1>1 DEF TypeOK
  <1>3. /\ held' \in [Tabs -> Nat] /\ reply' \in [Tabs -> {"none", "ok", "rejected", "error", "unknown"}]
        /\ reply'[t] = "none"
        /\ \A u \in Tabs : u # t => held'[u] = held[u] /\ reply'[u] = reply[u]
    BY <1>1 DEF TypeOK
  <1>4. /\ signingIn' \in [Tabs -> {"idle", "queued", "checked", "sent"}]
        /\ signingOut' \in [Tabs -> {"idle", "intent", "queued", "sent", "done"}]
        /\ signingIn'[t] # "sent" /\ signingOut'[t] # "sent"
        /\ signingIn'[t] \in {"idle", signingIn[t]} /\ signingOut'[t] \in {"idle", signingOut[t]}
        /\ \A u \in Tabs : u # t => signingIn'[u] = signingIn[u] /\ signingOut'[u] = signingOut[u]
    BY <1>1 DEF TypeOK, IInv, LockIsExclusive, HoldsForSignIn, HoldsForSignOut
  <1>5. TypeOK'
    BY <1>1, <1>2, <1>3, <1>4 DEF TypeOK
  <1>6. OthersRest(t)
    BY <1>2, <1>3, <1>4 DEF OthersRest
  <1>7. ProcedureRests(t) /\ DebtRests(t) /\ SoundNow(t)'
    BY <1>2, <1>3, <1>4 DEF ProcedureRests, DebtRests, SoundNow
  <1> QED  BY <1>5, <1>6, <1>7, TabMoves

LEMMA StorageFailsKeeps ==
    ASSUME IInv, NEW t \in Tabs, StorageFails(t)
    PROVE  IInv'
  <1> DEFINE s == Invalidated(tab[t])
  <1>1. TabSound(s, marker, cookie, live, uuids)
    BY InvalidatedIsSound DEF IInv, TypeOK
  <1>2. /\ TabSound(Resumed(s), marker, cookie, live, uuids)
        /\ TabSound([s EXCEPT !.inspecting = FALSE], marker, cookie, live, uuids)
    BY <1>1, UnsuppressedIsSound, FlagsAreFree
  <1> HIDE DEF s
  <1>3. UNCHANGED <<hasLocks, storageVars, worldVars, calls, owed>>
    BY DEF StorageFails
  <1>4. CASE (Show(t, s) \/ Show(t, [s EXCEPT !.inspecting = FALSE])) /\ UNCHANGED callVars
    BY <1>1, <1>2, <1>3, <1>4, OnlyTabChanges
  <1>5. CASE /\ signingIn[t] = "checked" /\ SignInGoes(t, "idle") /\ Show(t, s)
             /\ UNCHANGED <<signingOut, held, reply>>
    BY <1>1, <1>3, <1>5, SignInMoves
  <1>6. CASE /\ signingIn[t] = "sent" /\ SignInGoes(t, "idle") /\ Forget(t) /\ Show(t, s)
             /\ UNCHANGED signingOut
    BY <1>1, <1>3, <1>6, ProcedureFails
  <1>7. CASE /\ signingOut[t] \in {"intent", "queued"} /\ SignOutGoes(t, "idle")
             /\ Show(t, s) \/ Show(t, Resumed(s))
             /\ UNCHANGED <<signingIn, held, reply>>
    BY <1>1, <1>2, <1>3, <1>7, SignOutMoves
  <1>8. CASE /\ signingOut[t] = "sent" /\ SignOutGoes(t, "idle") /\ Forget(t)
             /\ Show(t, Resumed(s)) /\ UNCHANGED signingIn
    BY <1>2, <1>3, <1>8, ProcedureFails
  <1> QED  BY <1>4, <1>5, <1>6, <1>7, <1>8 DEF StorageFails, s

-----------------------------------------------------------------------------
(* The steps of the gateway, the platform and the network. *)

LEMMA RequestFields ==
    ASSUME NEW r \in Request
    PROVE  /\ r.id \in Nat /\ r.kind \in {"sign-in", "sign-out"} /\ r.cookie \in Id
           /\ r.stage \in {"sent", "ok", "rejected", "error"}
           /\ r.jar \in {"keep", "set", "clear"}
  BY DEF Request

\* A request on the wire is the only one, and the marker stands for it.
LEMMA RequestFacts ==
    ASSUME IInv, NEW r \in requests
    PROVE  /\ r \in Request /\ requests = {r}
           /\ marker.action # NoAction /\ marker.action.id = r.id /\ r.id <= uuids
           /\ marker.action.status \in {"pending", "unknown"}
           /\ marker.action.kind = r.kind
           /\ \A t \in Tabs : reply[t] \in {"none", "unknown"}
  BY DEF IInv, TypeOK, RequestsAreCovered, RequestsAreOrderly, RepliesAreSound, IdsWereHandedOut

\* What such a step has to respect: it ends no session's or answer's standing.
LEMMA WorldMoves ==
    ASSUME IInv,
           UNCHANGED <<hasLocks, storageVars, tab, signingIn, signingOut, held, calls, owed>>,
           cookie' \in Id, live' \subseteq 0..uuids, requests' \subseteq Request,
           reply' \in [Tabs -> {"none", "ok", "rejected", "error", "unknown"}],
           \A t \in Tabs : reply'[t] # "none" => signingIn[t] = "sent" \/ signingOut[t] = "sent",
           RequestsAreCovered', RequestsAreOrderly', RepliesAreSound',
           SessionsAreKnown', DebtsAreSettled',
           (cookie' = cookie /\ live' \subseteq live) \/ marker.action # NoAction
    PROVE  IInv'
  <1> USE DEF storageVars
  <1>1. uuids \in Nat /\ marker \in Marker
    BY DEF IInv, TypeOK
  <1>2. TypeOK'
    BY <1>1 DEF IInv, TypeOK
  <1>3. \A t \in Tabs : SoundNow(t)'
    BY <1>1, InvariantFacts, CoveredTabIsSound, FewerSessionsAreSound DEF SoundNow
  <1>4. TabsAreFenced' /\ IdsWereHandedOut'
    BY <1>3 DEF TabsAreFenced, SoundNow, TabSound, IdsWereHandedOut, IInv
  <1>5. HolderOwnsAction'
    BY DEF HolderOwnsAction, IInv
  <1>6. LockIsExclusive' /\ Consistent(marker)' /\ PendingIsLawful(marker)'
    BY DEF LockIsExclusive, HoldsForSignIn, HoldsForSignOut, IInv
  <1> QED  BY <1>2, <1>4, <1>5, <1>6 DEF IInv

\* A request in a later stage.
LEMMA RequestWith ==
    ASSUME NEW r \in Request, NEW stage \in {"ok", "rejected", "error"}
    PROVE  /\ [r EXCEPT !.stage = stage] \in Request
           /\ [r EXCEPT !.stage = stage].id = r.id
           /\ [r EXCEPT !.stage = stage].kind = r.kind
           /\ [r EXCEPT !.stage = stage].stage = stage
  BY DEF Request

LEMMA RequestWithJar ==
    ASSUME NEW r \in Request, NEW stage \in {"ok", "rejected", "error"},
           NEW jar \in {"set", "clear"}
    PROVE  /\ [r EXCEPT !.stage = stage, !.jar = jar] \in Request
           /\ [r EXCEPT !.stage = stage, !.jar = jar].id = r.id
           /\ [r EXCEPT !.stage = stage, !.jar = jar].kind = r.kind
           /\ [r EXCEPT !.stage = stage, !.jar = jar].stage = stage
           /\ [r EXCEPT !.stage = stage, !.jar = jar].jar = jar
  BY DEF Request

\* The server has answered r with q.
LEMMA ServeMoves ==
    ASSUME IInv, NEW r \in requests, r.stage = "sent",
           NEW q \in Request, q.id = r.id, q.kind = r.kind, q.stage \in {"ok", "rejected", "error"},
           requests' = (requests \ {r}) \cup {q},
           IF r.kind = "sign-in"
           THEN IF q.stage = "ok" THEN q.jar = "set" /\ live' \subseteq live \cup {r.id}
                ELSE live' = live
           ELSE IF q.stage = "ok" THEN live' = live \ {r.cookie}
                ELSE live' \subseteq live,
           UNCHANGED <<hasLocks, storageVars, tab, callVars, cookie, calls, owed>>
    PROVE  IInv'
  <1> USE DEF storageVars, callVars
  <1>1. /\ r \in Request /\ requests' = {q}
        /\ marker.action # NoAction /\ marker.action.id = r.id /\ r.id <= uuids
        /\ marker.action.status \in {"pending", "unknown"}
        /\ marker.action.kind = r.kind
        /\ r.kind \in {"sign-in", "sign-out"} /\ r.id \in Nat
    BY RequestFacts, RequestFields
  <1>2. /\ r.kind = "sign-in" => /\ live = {}
                                 /\ \A t \in Tabs : r.id \notin owed[t]
        /\ r.kind = "sign-out" => live \subseteq {r.cookie}
        /\ live \subseteq 0..uuids /\ uuids \in Nat
    BY DEF IInv, TypeOK, RequestsAreOrderly, IdsWereHandedOut
  <1>3. live' \subseteq 0..uuids /\ cookie' \in Id /\ requests' \subseteq Request
    BY <1>1, <1>2 DEF IInv, TypeOK
  <1>4. RequestsAreCovered' /\ RequestsAreOrderly'
    BY <1>1, <1>2 DEF RequestsAreCovered, RequestsAreOrderly
  <1>5. RepliesAreSound'
    <2>1. \A t \in Tabs : reply[t] \in {"none", "unknown"}
      BY RequestFacts
    <2> QED  BY <2>1 DEF RepliesAreSound
  <1>6. SessionsAreKnown'
    BY <1>1, <1>2 DEF SessionsAreKnown, AcceptsSignIn, IInv
  <1>7. DebtsAreSettled'
    BY <1>1, <1>2 DEF DebtsAreSettled, IInv
  <1> QED
    BY <1>1, <1>3, <1>4, <1>5, <1>6, <1>7, WorldMoves DEF IInv, TypeOK, HolderOwnsAction

LEMMA ServeSignInKeeps ==
    ASSUME IInv, NEW r \in requests, ServeSignIn(r)
    PROVE  IInv'
  <1>1. r \in Request
    BY RequestFacts
  <1>2. CASE /\ live' \in {live, live \cup {r.id}}
             /\ requests' = (requests \ {r}) \cup {[r EXCEPT !.stage = "ok", !.jar = "set"]}
    BY <1>1, <1>2, RequestWith, RequestWithJar, ServeMoves DEF ServeSignIn, SignInServed
  <1>3. ASSUME NEW stage \in {"rejected", "error"},
               requests' = (requests \ {r}) \cup {[r EXCEPT !.stage = stage]}, UNCHANGED live
        PROVE  IInv'
    <2> DEFINE q == [r EXCEPT !.stage = stage]
    <2>1. q \in Request /\ q.id = r.id /\ q.kind = r.kind /\ q.stage = stage
      <3>1. stage \in {"ok", "rejected", "error"}
        BY <1>3
      <3> HIDE DEF q
      <3> QED  BY <1>1, <3>1, RequestWith, ZenonT(20) DEF q
    <2>2. r.kind = "sign-in" /\ r.stage = "sent"
          /\ UNCHANGED <<hasLocks, storageVars, tab, callVars, cookie, calls, owed>>
      BY DEF ServeSignIn, SignInServed
    <2> HIDE DEF q
    <2>3. requests' = (requests \ {r}) \cup {q} /\ live' = live
      BY <1>3 DEF q
    <2> QED  BY <2>1, <2>2, <2>3, ServeMoves
  <1> QED  BY <1>2, <1>3 DEF ServeSignIn, SignInServed

LEMMA ServeSignOutKeeps ==
    ASSUME IInv, NEW r \in requests, ServeSignOut(r)
    PROVE  IInv'
  <1>1. r \in Request
    BY RequestFacts
  <1>2. CASE /\ live' = live \ {r.cookie}
             /\ requests' = (requests \ {r}) \cup {[r EXCEPT !.stage = "ok", !.jar = "clear"]}
    BY <1>1, <1>2, RequestWith, RequestWithJar, ServeMoves DEF ServeSignOut, SignOutServed
  <1>3. CASE /\ live' \in {live, live \ {r.cookie}}
             /\ requests' = (requests \ {r}) \cup {[r EXCEPT !.stage = "error", !.jar = "clear"]}
    BY <1>1, <1>3, RequestWith, RequestWithJar, ServeMoves DEF ServeSignOut, SignOutServed
  <1>4. CASE /\ requests' = (requests \ {r}) \cup {[r EXCEPT !.stage = "error"]}
             /\ UNCHANGED live
    BY <1>1, <1>4, RequestWith, RequestWithJar, ServeMoves DEF ServeSignOut, SignOutServed
  <1> QED  BY <1>2, <1>3, <1>4 DEF ServeSignOut, SignOutServed

\* The answer ends the request: what it vouches for holds as it is heard.
LEMMA ArriveKeeps ==
    ASSUME IInv, NEW r \in requests, Arrive(r)
    PROVE  IInv'
  <1> USE DEF storageVars, Arrives
  <1>1. PICK outcome \in {r.stage, "unknown"} :
           reply' = [t \in Tabs |-> IF Awaits(t, r) THEN outcome ELSE reply[t]]
    BY DEF Arrive
  <1>2. /\ r \in Request /\ requests' = {} /\ r.stage # "sent"
        /\ marker.action # NoAction /\ marker.action.id = r.id
        /\ marker.action.status \in {"pending", "unknown"}
        /\ marker.action.kind = r.kind
        /\ \A t \in Tabs : reply[t] \in {"none", "unknown"}
        /\ r.kind \in {"sign-in", "sign-out"} /\ r.id \in Nat
        /\ r.stage \in {"ok", "rejected", "error"} /\ r.jar \in {"keep", "set", "clear"}
    BY RequestFacts, RequestFields DEF Arrive
  <1>3. /\ cookie' \in Id /\ (r.jar = "set" => cookie' = r.id)
        /\ live' = live /\ live \subseteq 0..uuids
        /\ reply' \in [Tabs -> {"none", "ok", "rejected", "error", "unknown"}]
        /\ \A t \in Tabs : reply'[t] = IF Awaits(t, r) THEN outcome ELSE reply[t]
    BY <1>1, <1>2 DEF Arrive, IInv, TypeOK, Id, IdsWereHandedOut
  <1>4. \A t \in Tabs : reply'[t] # "none" => signingIn[t] = "sent" \/ signingOut[t] = "sent"
    BY <1>3 DEF Awaits, IInv, HolderOwnsAction
  <1>5. RequestsAreCovered' /\ RequestsAreOrderly'
    BY <1>2 DEF RequestsAreCovered, RequestsAreOrderly
  <1>6. RepliesAreSound'
    <2>1. ASSUME NEW t \in Tabs, reply'[t] \in {"ok", "rejected", "error"}
          PROVE  Awaits(t, r) /\ reply'[t] = r.stage /\ held[t] = r.id
      BY <1>1, <1>2, <1>3, <2>1 DEF Awaits
    <2>2. ASSUME NEW t \in Tabs, signingIn[t] = "sent" PROVE marker.action.kind = "sign-in"
      BY <2>2 DEF IInv, HolderOwnsAction
    <2>3. ASSUME NEW t \in Tabs, signingOut[t] = "sent" PROVE marker.action.kind = "sign-out"
      BY <2>3 DEF IInv, HolderOwnsAction
    <2>4. /\ r.kind = "sign-in" => /\ r.stage # "ok" => live = {}
                                   /\ r.stage = "ok" => cookie' = r.id
          /\ r.kind = "sign-out" => (r.stage = "ok" => live = {})
      BY <1>3 DEF IInv, RequestsAreOrderly
    <2> QED  BY <1>2, <1>3, <2>1, <2>2, <2>3, <2>4 DEF RepliesAreSound, Arrive
  <1>7. SessionsAreKnown' /\ DebtsAreSettled'
    BY <1>2, <1>3 DEF SessionsAreKnown, DebtsAreSettled, AcceptsSignIn, IInv, Arrive
  <1> QED
    BY <1>2, <1>3, <1>4, <1>5, <1>6, <1>7, WorldMoves DEF Arrive

LEMMA LoseKeeps ==
    ASSUME IInv, NEW r \in requests, Lose(r)
    PROVE  IInv'
  <1> USE DEF storageVars, callVars, IsLost
  <1>1. requests' = {} /\ cookie' \in Id /\ live' \subseteq 0..uuids
    BY RequestFacts DEF Lose, IInv, TypeOK, IdsWereHandedOut
  <1>2. RequestsAreCovered' /\ RequestsAreOrderly' /\ RepliesAreSound'
    BY <1>1 DEF RequestsAreCovered, RequestsAreOrderly, RepliesAreSound, Lose, IInv
  <1>3. SessionsAreKnown' /\ DebtsAreSettled'
    BY DEF SessionsAreKnown, DebtsAreSettled, Lose, IInv
  <1> QED
    BY <1>1, <1>2, <1>3, WorldMoves DEF Lose, IInv, TypeOK, HolderOwnsAction

LEMMA RequestTimesOutKeeps ==
    ASSUME IInv, NEW t \in Tabs, RequestTimesOut(t)
    PROVE  IInv'
  <1> USE DEF storageVars, worldVars
  <1>1. /\ reply' \in [Tabs -> {"none", "ok", "rejected", "error", "unknown"}]
        /\ \A u \in Tabs : reply'[u] = IF u = t THEN "unknown" ELSE reply[u]
    BY DEF RequestTimesOut, IInv, TypeOK
  <1>2. \A u \in Tabs : reply'[u] # "none" => signingIn[u] = "sent" \/ signingOut[u] = "sent"
    BY <1>1 DEF RequestTimesOut, IInv, HolderOwnsAction
  <1>3. RequestsAreCovered' /\ RequestsAreOrderly' /\ RepliesAreSound'
    BY <1>1 DEF RequestsAreCovered, RequestsAreOrderly, RepliesAreSound, RequestTimesOut, IInv
  <1>4. SessionsAreKnown' /\ DebtsAreSettled'
    BY DEF SessionsAreKnown, DebtsAreSettled, RequestTimesOut, IInv
  <1>5. cookie' \in Id /\ live' \subseteq 0..uuids /\ requests' \subseteq Request
    BY DEF RequestTimesOut, IInv, TypeOK, IdsWereHandedOut
  <1> QED
    BY <1>1, <1>2, <1>3, <1>4, <1>5, WorldMoves DEF RequestTimesOut

LEMMA ExpireKeeps ==
    ASSUME IInv, Expire
    PROVE  IInv'
  <1> USE DEF storageVars, callVars, SessionExpires
  <1>1. /\ live' \subseteq live /\ live' \subseteq 0..uuids
        /\ cookie' \in Id /\ requests' \subseteq Request
    BY DEF Expire, IInv, TypeOK, IdsWereHandedOut
  <1>2. RequestsAreCovered' /\ RequestsAreOrderly' /\ RepliesAreSound'
    BY <1>1 DEF RequestsAreCovered, RequestsAreOrderly, RepliesAreSound, Expire, IInv
  <1>3. SessionsAreKnown' /\ DebtsAreSettled'
    BY <1>1 DEF SessionsAreKnown, DebtsAreSettled, Expire, IInv
  <1> QED
    BY <1>1, <1>2, <1>3, WorldMoves DEF Expire, IInv, TypeOK, HolderOwnsAction

-----------------------------------------------------------------------------
(* The steps that write the marker. *)

\* Either nothing is written, or a marker of a new epoch that no tab has seen.
Written ==
    /\ \/ marker' = marker /\ uuids' = uuids
       \/ marker' # marker /\ uuids' = uuids + 1 /\ marker'.epoch = uuids + 1
    /\ Sound(marker') /\ marker'.epoch <= uuids'
    /\ marker'.action # NoAction => marker'.action.id <= uuids'

LEMMA StorageFacts ==
    ASSUME IInv
    PROVE  /\ uuids \in Nat /\ FreshId = uuids + 1 /\ FreshId \in Nat
           /\ Sound(marker) /\ marker \in Marker
           /\ marker.epoch \in Nat /\ marker.epoch <= uuids
           /\ marker.action # NoAction => /\ marker.action \in Action
                                          /\ marker.action.id \in Nat /\ marker.action.id <= uuids
                                          /\ marker.action.id # FreshId
  BY InvariantFacts, MarkerFields, ActionFields
     DEF IInv, TypeOK, IdsWereHandedOut, FreshId, Sound

\* What the writing tab shows, in any of its forms.
LEMMA WriterIsSound ==
    ASSUME IInv, NEW t \in Tabs, Written
    PROVE  /\ TabSound(Seen(tab[t], marker'), marker', cookie, live, uuids')
           /\ TabSound(Unsuppressed(Seen(tab[t], marker')), marker', cookie, live, uuids')
           /\ TabSound(Resumed(Seen(tab[t], marker')), marker', cookie, live, uuids')
           /\ TabSound([Seen(tab[t], marker') EXCEPT !.inspecting = FALSE],
                       marker', cookie, live, uuids')
  <1>1. /\ SoundNow(t) /\ tab[t] \in Tab /\ marker' \in Marker /\ marker'.epoch <= uuids'
        /\ uuids \in Nat
    BY InvariantFacts, StorageFacts DEF Written, Sound, SoundNow, TabSound
  <1>2. tab[t].seen = marker' => TabSound(tab[t], marker', cookie, live, uuids')
    <2>1. CASE marker' = marker /\ uuids' = uuids
      BY <1>1, <2>1 DEF SoundNow
    <2>2. CASE marker'.epoch = uuids + 1
      BY <1>1, <2>2, MarkerFields DEF SoundNow, TabSound
    <2> QED  BY <2>1, <2>2 DEF Written
  <1>3. TabSound(Seen(tab[t], marker'), marker', cookie, live, uuids')
    BY <1>1, <1>2, SeenIsSound
  <1> QED  BY <1>3, UnsuppressedIsSound, FlagsAreFree

\* The parts of the invariant that hold whatever is written.
LEMMA WriteKeeps ==
    ASSUME IInv, Written, NEW t \in Tabs,
           NEW s, TabSound(s, marker', cookie, live, uuids'), Show(t, s),
           UNCHANGED <<hasLocks, cookie, live, calls, owed>>
    PROVE  /\ hasLocks' \in BOOLEAN /\ marker' \in Marker /\ uuids' \in Nat
           /\ tab' \in [Tabs -> Tab] /\ cookie' \in Id /\ live' \subseteq Nat
           /\ calls' \in 0..MaxCalls /\ owed' \in [Tabs -> SUBSET Nat]
           /\ Consistent(marker)' /\ PendingIsLawful(marker)'
           /\ IdsWereHandedOut' /\ TabsAreFenced'
  <1>1. /\ TypeOK /\ uuids \in Nat /\ s \in Tab /\ Sound(marker) /\ marker' \in Marker
        /\ \A u \in Tabs : SoundNow(u)
    BY InvariantFacts DEF IInv, TypeOK, Written, TabSound, Sound
  <1>2. /\ tab' \in [Tabs -> Tab] /\ tab'[t] = s
        /\ \A u \in Tabs : u # t => tab'[u] = tab[u]
    BY <1>1 DEF TypeOK, Written, Show
  <1>3. \A u \in Tabs : SoundNow(u)'
    <2>1. ASSUME NEW u \in Tabs, u # t PROVE SoundNow(u)'
      BY <1>1, <1>2, <2>1, StaleTabIsSound DEF SoundNow, Written
    <2> QED  BY <1>2, <2>1 DEF SoundNow, Written
  <1>4. TabsAreFenced' /\ \A u \in Tabs : tab'[u].seen # NoMarker => tab'[u].seen.epoch <= uuids'
    BY <1>3 DEF TabsAreFenced, SoundNow, TabSound
  <1>5. IdsWereHandedOut'
    BY <1>1, <1>4 DEF IdsWereHandedOut, Written, IInv
  <1>6. uuids' \in Nat
    BY <1>1 DEF Written
  <1> QED  BY <1>1, <1>2, <1>4, <1>5, <1>6 DEF TypeOK, Written, Sound

LEMMA RecordIntentKeeps ==
    ASSUME IInv, NEW t \in Tabs, RecordIntent(t)
    PROVE  IInv'
  <1> DEFINE s == IF hasLocks THEN Seen(tab[t], marker') ELSE Resumed(Seen(tab[t], marker'))
  <1> USE DEF storageVars, worldVars
  <1>1. TypeOK
    BY DEF IInv
  <1>2. /\ marker' = PublishLogoutIntent(marker, FreshId)
        /\ uuids' = IF marker' = marker THEN uuids ELSE FreshId
    BY DEF RecordIntent, Write
  <1>3. IntentIsRecorded(marker, FreshId, marker')
    BY <1>2, StorageFacts, PublishIntentStep
  <1>4. marker'.action # NoAction => marker'.action.id <= uuids'
    <2>1. CASE marker' = marker
      BY <1>2, <2>1, StorageFacts
    <2>2. CASE marker' # marker /\ marker.action # NoAction
      BY <1>2, <1>3, <2>2, StorageFacts DEF IntentIsRecorded
    <2>3. CASE marker' # marker /\ marker.action = NoAction
      <3>1. marker'.action.id = FreshId
        BY <1>3, <2>3 DEF ReadySignOut, IntentIsRecorded
      <3> QED  BY <1>2, <2>3, <3>1, StorageFacts
    <2> QED  BY <2>1, <2>2, <2>3
  <1>5. Written /\ TabSound(s, marker', cookie, live, uuids') /\ Show(t, s)
    <2>1. Written
      BY <1>2, <1>3, <1>4, StorageFacts DEF Written, IntentIsRecorded
    <2> QED  BY <2>1, WriterIsSound DEF RecordIntent
  <1> HIDE DEF s
  <1>6. /\ signingOut' \in [Tabs -> {"idle", "intent", "queued", "sent", "done"}]
        /\ signingOut'[t] \in {"idle", "queued"} /\ signingOut[t] = "intent"
        /\ \A u \in Tabs : u # t => signingOut'[u] = signingOut[u]
    BY <1>1 DEF TypeOK, RecordIntent, SignOutGoes
  <1>7. LockIsExclusive'
    BY <1>6 DEF LockIsExclusive, HoldsForSignIn, HoldsForSignOut, IInv, RecordIntent
  <1>8. /\ RequestsAreCovered' /\ RequestsAreOrderly' /\ RepliesAreSound' /\ HolderOwnsAction'
    <2>1. marker.action # NoAction => marker'.action = marker.action
      BY <1>3 DEF IntentIsRecorded
    <2>2. IsPending(marker) => IsPending(marker')
      BY <1>3, <2>1, MarkerFields DEF IsPending, Sound, IntentIsRecorded
    <2> QED
      BY <1>2, <1>6, <2>1, <2>2
         DEF RequestsAreCovered, RequestsAreOrderly, RepliesAreSound, HolderOwnsAction,
             OwnsPending, IsPending, IInv, RecordIntent
  <1>9. SessionsAreKnown'
    <2>1. ~AcceptsSignIn(marker')
      BY <1>3 DEF AcceptsSignIn, IntentIsRecorded
    <2>2. CASE marker' = marker
      BY <1>2, <2>1, <2>2 DEF SessionsAreKnown, IInv, RecordIntent
    <2>3. CASE marker.action = NoAction /\ ~RequiresReset(marker)
      <3>1. AcceptsSignIn(marker)
        BY <2>3, MarkerFields, StorageFacts DEF RequiresReset, AcceptsSignIn, Sound, Consistent
      <3>2. marker'.action.status = "ready"
        BY <1>3, <2>3 DEF IntentIsRecorded, ReadySignOut
      <3> QED
        BY <2>1, <3>1, <3>2 DEF SessionsAreKnown, IInv, RecordIntent, IsPending
    <2>4. CASE marker.action # NoAction /\ ~RequiresReset(marker)
      <3>1. marker'.action = marker.action /\ (IsPending(marker') => IsPending(marker))
        BY <1>3, <2>4, StorageFacts, MarkerFields DEF IsPending, IntentIsRecorded
      <3> QED
        BY <2>1, <2>4, <3>1 DEF SessionsAreKnown, IInv, RecordIntent
    <2> QED  BY <1>3, <2>2, <2>3, <2>4 DEF IntentIsRecorded
  <1>10. DebtsAreSettled'
    BY <1>2, <1>3, <1>6 DEF DebtsAreSettled, SignOutSuperseded, IntentIsRecorded, IInv, RecordIntent
  <1>11. TypeOK'
    BY <1>1, <1>5, <1>6, WriteKeeps DEF TypeOK, RecordIntent
  <1> QED
    BY <1>5, <1>7, <1>8, <1>9, <1>10, <1>11, WriteKeeps DEF IInv, RecordIntent

\* No request and no answer is about when the lock changes hands.
LEMMA NobodyWaits ==
    ASSUME IInv, \A t \in Tabs : signingIn[t] # "sent" /\ signingOut[t] # "sent"
    PROVE  \A t \in Tabs : reply[t] = "none"
  BY DEF IInv, HolderOwnsAction

\* The holder of the lock begins an action: it is pending under a fresh id,
\* and its request is the only one.
LEMMA DispatchMoves ==
    ASSUME IInv, NEW t \in Tabs, NEW kind \in {"sign-in", "sign-out"}, Dispatch(t, kind),
           requests = {},
           kind = "sign-in" => /\ signingIn[t] = "checked" /\ AcceptsSignIn(marker)
                               /\ SignInGoes(t, "sent") /\ UNCHANGED signingOut /\ live = {},
           kind = "sign-out" => /\ signingOut[t] = "queued" /\ LockFree
                                /\ MayDispatchSignOut(marker)
                                /\ SignOutGoes(t, "sent") /\ UNCHANGED signingIn
                                /\ live \subseteq {cookie},
           UNCHANGED <<hasLocks, reply, cookie, live, calls, owed>>
    PROVE  IInv'
  <1> DEFINE a == [id |-> FreshId, kind |-> kind, status |-> "pending"]
             r == [id |-> FreshId, kind |-> kind, cookie |-> cookie,
                   stage |-> "sent", jar |-> "keep"]
             s == Seen(tab[t], marker')
  <1> USE DEF SignInGoes, SignOutGoes
  <1>1. TypeOK
    BY DEF IInv
  <1>2. \A u \in Tabs : /\ signingIn[u] # "sent" /\ signingOut[u] # "sent"
                        /\ u # t => signingIn[u] # "checked"
                        /\ kind = "sign-out" => signingIn[u] # "checked"
    BY DEF IInv, LockIsExclusive, HoldsForSignIn, HoldsForSignOut, LockFree
  <1>3. \A u \in Tabs : reply[u] = "none"
    BY <1>2, NobodyWaits
  <1>4. /\ Sound(marker') /\ marker' # marker
        /\ marker'.action = a /\ marker'.epoch = FreshId
        /\ kind = "sign-out" => marker'.logoutIntent = TRUE /\ marker'.revocation = "unconfirmed"
        /\ kind = "sign-in" => marker'.revocation = marker.revocation
                               /\ marker'.logoutIntent = marker.logoutIntent
    <2>1. CASE kind = "sign-in"
      <3>1. marker' = BeginSignIn(marker, FreshId) /\ AcceptsSignIn(marker)
        BY <2>1 DEF Dispatch, Write
      <3>2. /\ Sound(marker') /\ marker' # marker
            /\ Is(marker', [id |-> FreshId, kind |-> "sign-in", status |-> "pending"], FreshId,
                  marker.logoutIntent, marker.revocation)
        BY <3>1, StorageFacts, BeginSignInStep
      <3> QED  BY <2>1, <3>2 DEF Is
    <2>2. CASE kind = "sign-out"
      <3>1. marker' = BeginSignOut(marker, FreshId) /\ MayDispatchSignOut(marker)
        BY <2>2 DEF Dispatch, Write
      <3>2. /\ Sound(marker') /\ marker' # marker
            /\ Is(marker', [id |-> FreshId, kind |-> "sign-out", status |-> "pending"], FreshId,
                  TRUE, "unconfirmed")
        BY <3>1, StorageFacts, BeginSignOutStep
      <3> QED  BY <2>2, <3>2 DEF Is
    <2> QED  BY <2>1, <2>2
  <1>5. /\ uuids' = FreshId /\ requests' = {r} /\ Show(t, s)
        /\ held' = [held EXCEPT ![t] = FreshId]
    BY <1>4 DEF Dispatch, Departs, Write
  <1>6. a.id = FreshId /\ a.kind = kind /\ a.status = "pending" /\ a # NoAction
    BY StorageFacts, ActionOf, ActionFields
  <1>7. /\ r \in Request /\ r.id = FreshId /\ r.kind = kind /\ r.cookie = cookie
        /\ r.stage = "sent"
    BY <1>1, StorageFacts DEF Request, TypeOK
  <1>8. Written
    BY <1>4, <1>5, <1>6, StorageFacts DEF Written
  <1>9. TabSound(s, marker', cookie, live, uuids')
    BY <1>8, WriterIsSound
  <1> HIDE DEF s, r, a
  <1>10. IsPending(marker') /\ OwnsPending(marker', FreshId)
    BY <1>4, <1>6, MarkerFields DEF IsPending, OwnsPending, Sound
  <1>11. held'[t] = FreshId /\ held' \in [Tabs -> Nat]
    BY <1>1, <1>5, StorageFacts DEF TypeOK
  <1>12. /\ signingIn' \in [Tabs -> {"idle", "queued", "checked", "sent"}]
         /\ signingOut' \in [Tabs -> {"idle", "intent", "queued", "sent", "done"}]
         /\ kind = "sign-in" => signingIn'[t] = "sent" /\ signingOut' = signingOut
         /\ kind = "sign-out" => signingOut'[t] = "sent" /\ signingIn' = signingIn
         /\ \A u \in Tabs : u # t => signingIn'[u] = signingIn[u] /\ signingOut'[u] = signingOut[u]
    BY <1>1 DEF TypeOK
  <1>13. TypeOK'
    BY <1>1, <1>5, <1>7, <1>8, <1>9, <1>11, <1>12, WriteKeeps DEF TypeOK
  <1>14. LockIsExclusive'
    BY <1>2, <1>12 DEF LockIsExclusive, HoldsForSignIn, HoldsForSignOut
  <1>15. HolderOwnsAction'
    BY <1>2, <1>3, <1>4, <1>6, <1>10, <1>11, <1>12 DEF HolderOwnsAction
  <1>16. RequestsAreCovered'
    BY <1>4, <1>5, <1>6, <1>7 DEF RequestsAreCovered
  <1>17. RequestsAreOrderly'
    <2>1. \A u \in Tabs : FreshId \notin owed[u]
      BY StorageFacts DEF IInv, IdsWereHandedOut
    <2> QED  BY <1>4, <1>5, <1>6, <1>7, <2>1 DEF RequestsAreOrderly
  <1>18. RepliesAreSound'
    BY <1>3 DEF RepliesAreSound
  <1>19. SessionsAreKnown'
    BY <1>4, <1>6 DEF SessionsAreKnown, AcceptsSignIn
  <1>20. DebtsAreSettled'
    <2>1. \A u \in Tabs : signingOut'[u] \in {"done", "queued"} => signingOut'[u] = signingOut[u]
      BY <1>12
    <2>2. SignOutSuperseded(marker') => SignOutSuperseded(marker)
      BY <1>4 DEF SignOutSuperseded
    <2> QED  BY <2>1, <2>2 DEF DebtsAreSettled, IInv
  <1> QED
    BY <1>5, <1>8, <1>9, <1>13, <1>14, <1>15, <1>16, <1>17, <1>18, <1>19, <1>20, WriteKeeps
       DEF IInv

LEMMA DispatchSignInKeeps ==
    ASSUME IInv, NEW t \in Tabs, DispatchSignIn(t)
    PROVE  IInv'
  <1>1. CASE AcceptsSignIn(marker) /\ Dispatch(t, "sign-in") /\ SignInGoes(t, "sent")
    <2>1. requests = {} /\ live = {}
      BY <1>1 DEF DispatchSignIn, AcceptsSignIn, IInv, RequestsAreCovered, SessionsAreKnown
    <2> QED  BY <1>1, <2>1, DispatchMoves DEF DispatchSignIn
  <1>2. CASE /\ ~AcceptsSignIn(marker) /\ SignInGoes(t, "idle")
             /\ Show(t, Seen(tab[t], marker)) /\ UNCHANGED <<storageVars, held, requests>>
    BY <1>2, RereadIsSound, SignInMoves DEF DispatchSignIn, worldVars
  <1> QED  BY <1>1, <1>2 DEF DispatchSignIn

LEMMA DispatchSignOutKeeps ==
    ASSUME IInv, NEW t \in Tabs, DispatchSignOut(t)
    PROVE  IInv'
  <1>1. CASE MayDispatchSignOut(marker) /\ Dispatch(t, "sign-out") /\ SignOutGoes(t, "sent")
    <2>1. requests = {} /\ live \subseteq {cookie}
      BY <1>1 DEF MayDispatchSignOut, IInv, RequestsAreCovered, SessionsAreKnown
    <2> QED  BY <1>1, <2>1, DispatchMoves DEF DispatchSignOut
  <1>2. CASE /\ ~MayDispatchSignOut(marker)
             /\ SignOutGoes(t, IF SignOutSuperseded(marker) THEN "done" ELSE "idle")
             /\ Show(t, Resumed(Seen(tab[t], marker)))
             /\ UNCHANGED <<storageVars, held, requests>>
    <2> DEFINE l == IF SignOutSuperseded(marker) THEN "done" ELSE "idle"
    <2>1. l \in {"idle", "done"} /\ (l = "done" => SignOutSuperseded(marker))
      OBVIOUS
    <2> QED  BY <1>2, <2>1, RereadIsSound, SignOutMoves DEF DispatchSignOut, worldVars
  <1> QED  BY <1>1, <1>2 DEF DispatchSignOut

\* The action of the marker is still that of a request that may be under way.
StaysCovered ==
    /\ marker'.action # NoAction /\ marker.action # NoAction
    /\ marker'.action.id = marker.action.id /\ marker'.action.kind = marker.action.kind
    /\ marker'.action.status \in {"pending", "unknown"}

\* What the marker promises of the sessions when an action has ended.
EndsWell ==
    /\ AcceptsSignIn(marker') =>
          live \subseteq {cookie} /\ (marker'.revocation = "confirmed" => live = {})
    /\ marker'.action # NoAction =>
          /\ marker'.action.status # "pending"
          /\ marker'.action.status = "ready" => live \subseteq {cookie}
    /\ SignOutSuperseded(marker') => SignOutSuperseded(marker) \/ live = {}

\* The caller has recorded the outcome of its action.
LEMMA SettleMoves ==
    ASSUME IInv, NEW t \in Tabs,
           \/ signingIn[t] = "sent" /\ SignInGoes(t, "idle") /\ UNCHANGED signingOut
           \/ /\ signingOut[t] = "sent" /\ UNCHANGED signingIn
              /\ SignOutGoes(t, "idle") \/ (SignOutGoes(t, "done") /\ live = {}),
           Forget(t), Written, EndsWell,
           NEW s, TabSound(s, marker', cookie, live, uuids'), Show(t, s),
           requests = {} \/ StaysCovered,
           UNCHANGED <<hasLocks, worldVars, calls, owed>>
    PROVE  IInv'
  <1> USE DEF SignInGoes, SignOutGoes, Forget, worldVars
  <1>1. TypeOK
    BY DEF IInv
  <1>2. /\ signingIn' \in [Tabs -> {"idle", "queued", "checked", "sent"}]
        /\ signingOut' \in [Tabs -> {"idle", "intent", "queued", "sent", "done"}]
        /\ \A u \in Tabs : /\ signingOut'[u] = "done" => signingOut[u] = "done" \/ live = {}
                           /\ signingOut'[u] = "queued" => signingOut[u] = "queued"
        /\ \A u \in Tabs : signingIn'[u] \notin {"checked", "sent"} /\ signingOut'[u] # "sent"
    <2>1. \A u \in Tabs :
             u # t => signingIn[u] \notin {"checked", "sent"} /\ signingOut[u] # "sent"
      BY DEF IInv, LockIsExclusive, HoldsForSignIn, HoldsForSignOut
    <2>2. CASE signingIn[t] = "sent" /\ SignInGoes(t, "idle") /\ UNCHANGED signingOut
      <3>1. signingOut[t] # "sent"
        BY <2>2 DEF IInv, LockIsExclusive, HoldsForSignIn, HoldsForSignOut
      <3> QED  BY <1>1, <2>1, <2>2, <3>1 DEF TypeOK
    <2>3. CASE /\ signingOut[t] = "sent" /\ UNCHANGED signingIn
               /\ SignOutGoes(t, "idle") \/ (SignOutGoes(t, "done") /\ live = {})
      <3>1. signingIn[t] \notin {"checked", "sent"}
        BY <2>3 DEF IInv, LockIsExclusive, HoldsForSignIn, HoldsForSignOut
      <3> QED  BY <1>1, <2>1, <2>3, <3>1 DEF TypeOK
    <2> QED  BY <2>2, <2>3
  <1>3. /\ held' \in [Tabs -> Nat]
        /\ reply' \in [Tabs -> {"none", "ok", "rejected", "error", "unknown"}]
        /\ \A u \in Tabs : reply'[u] = "none"
    BY <1>1 DEF TypeOK, IInv, HolderOwnsAction, LockIsExclusive, HoldsForSignIn, HoldsForSignOut
  <1>4. TypeOK'
    BY <1>1, <1>2, <1>3, WriteKeeps DEF TypeOK
  <1>5. LockIsExclusive' /\ HolderOwnsAction' /\ RepliesAreSound'
    BY <1>2, <1>3 DEF LockIsExclusive, HoldsForSignIn, HoldsForSignOut, HolderOwnsAction,
       RepliesAreSound
  <1>6. RequestsAreCovered' /\ RequestsAreOrderly'
    BY DEF RequestsAreCovered, RequestsAreOrderly, StaysCovered, IInv
  <1>7. SessionsAreKnown'
    BY <1>2 DEF SessionsAreKnown, EndsWell, IsPending
  <1>8. DebtsAreSettled'
    BY <1>2 DEF DebtsAreSettled, EndsWell, IInv
  <1> QED
    BY <1>4, <1>5, <1>6, <1>7, <1>8, WriteKeeps DEF IInv

\* A failure is recorded: the request is over, or the marker goes on standing
\* for it.
LEMMA FailureMoves ==
    ASSUME IInv, NEW t \in Tabs, OwnsPending(marker, held[t]),
           reply[t] \in {"rejected", "error", "unknown"},
           Write(FailCookieAction(marker, held[t], FreshId, reply[t])),
           marker.action.kind = "sign-in" => (reply[t] # "unknown" => live = {})
    PROVE  Written /\ EndsWell /\ (requests = {} \/ StaysCovered)
  <1>1. held[t] \in Nat /\ marker.action.id = held[t] /\ marker.action # NoAction
    BY DEF IInv, TypeOK, OwnsPending, IsPending
  <1>2. FailureIsRecorded(marker, held[t], FreshId, reply[t], marker')
    BY <1>1, StorageFacts, FailCookieActionStep DEF Write
  <1>3. reply[t] # "unknown" => requests = {}
    BY DEF IInv, RepliesAreSound
  <1>4. marker' # marker /\ uuids' = FreshId /\ marker'.epoch = FreshId /\ Sound(marker')
    BY <1>2, StorageFacts DEF Write, FailureIsRecorded
  <1>5. CASE /\ marker'.action # NoAction /\ marker'.action.id = held[t]
             /\ marker'.action.kind = marker.action.kind
             /\ marker'.action.status \in {"failed", "unknown"}
             /\ (marker'.action.status = "failed" => reply[t] # "unknown")
             /\ marker'.revocation = "unconfirmed" /\ marker'.logoutIntent = TRUE
    <2>1. Written
      BY <1>1, <1>4, <1>5, StorageFacts DEF Written
    <2>2. EndsWell
      BY <1>5 DEF EndsWell, AcceptsSignIn, SignOutSuperseded
    <2> QED  BY <1>1, <1>3, <1>5, <2>1, <2>2 DEF StaysCovered
  <1>6. CASE /\ reply[t] # "unknown" /\ marker.action.kind = "sign-in"
             /\ Is(marker', ReadySignOut(FreshId), FreshId, TRUE, "unconfirmed")
    <2>1. /\ ReadySignOut(FreshId).id = FreshId /\ ReadySignOut(FreshId).status = "ready"
          /\ ReadySignOut(FreshId) # NoAction
      BY StorageFacts, ActionOf, ActionFields DEF ReadySignOut
    <2>2. Written
      BY <1>4, <1>6, <2>1, StorageFacts DEF Written, Is
    <2>3. EndsWell
      BY <1>6, <2>1 DEF EndsWell, AcceptsSignIn, SignOutSuperseded, Is
    <2> QED  BY <1>3, <1>6, <2>2, <2>3
  <1>7. CASE /\ reply[t] = "rejected" /\ marker.action.kind = "sign-in"
             /\ marker.revocation # "unconfirmed"
             /\ Is(marker', NoAction, FreshId, marker.logoutIntent, marker.revocation)
    <2>1. Written
      BY <1>4, <1>7, StorageFacts DEF Written, Is
    <2>2. EndsWell
      BY <1>7 DEF EndsWell, AcceptsSignIn, SignOutSuperseded, Is
    <2> QED  BY <1>3, <1>7, <2>1, <2>2
  <1> QED  BY <1>2, <1>5, <1>6, <1>7 DEF FailureIsRecorded

LEMMA SettleSignInKeeps ==
    ASSUME IInv, NEW t \in Tabs, SettleSignIn(t)
    PROVE  IInv'
  <1>1. /\ held[t] \in Nat /\ OwnsPending(marker, held[t]) /\ marker.action.kind = "sign-in"
        /\ marker.action.id = held[t] /\ marker.action # NoAction
        /\ reply[t] \in {"ok", "rejected", "error", "unknown"}
    BY DEF IInv, TypeOK, HolderOwnsAction, SettleSignIn, OwnsPending, IsPending
  <1>2. /\ signingIn[t] = "sent" /\ SignInGoes(t, "idle") /\ UNCHANGED signingOut /\ Forget(t)
        /\ UNCHANGED <<hasLocks, worldVars, calls, owed>>
    BY DEF SettleSignIn
  <1>3. CASE reply[t] = "ok"
    <2>1. marker' = AcknowledgeSignIn(marker, held[t], FreshId)
          /\ uuids' = IF marker' = marker THEN uuids ELSE FreshId
      BY <1>3 DEF SettleSignIn, Write
    <2>2. live \subseteq {cookie} /\ requests = {}
      BY <1>1, <1>2, <1>3 DEF IInv, SessionsAreKnown, RepliesAreSound, OwnsPending
    <2>3. SignInIsRecorded(marker, held[t], FreshId, marker')
      BY <1>1, <2>1, StorageFacts, AcknowledgeSignInStep
    <2>4. Written /\ EndsWell
      <3>1. marker' # marker /\ uuids' = FreshId /\ marker'.epoch = FreshId /\ Sound(marker')
        BY <2>1, <2>3, StorageFacts DEF SignInIsRecorded, Is
      <3>2. CASE marker.epoch = held[t]
        <4>1. Is(marker', NoAction, FreshId, FALSE, "none") /\ marker.revocation # "unconfirmed"
          BY <2>3, <3>2 DEF SignInIsRecorded
        <4>2. SignOutSuperseded(marker)
          BY StorageFacts, MarkerFields, <4>1 DEF SignOutSuperseded, Sound, Consistent
        <4> QED
          BY <2>2, <3>1, <4>1, <4>2, StorageFacts DEF Written, EndsWell, AcceptsSignIn, Is
      <3>3. CASE marker.epoch # held[t]
        <4>1. Is(marker', ReadySignOut(FreshId), FreshId, TRUE, "unconfirmed")
          BY <2>3, <3>3 DEF SignInIsRecorded
        <4>2. /\ ReadySignOut(FreshId).id = FreshId /\ ReadySignOut(FreshId).status = "ready"
              /\ ReadySignOut(FreshId) # NoAction
          BY StorageFacts, ActionOf, ActionFields DEF ReadySignOut
        <4>3. Written
          BY <3>1, <4>1, <4>2, StorageFacts DEF Written, Is
        <4>4. EndsWell
          BY <2>2, <4>1, <4>2 DEF EndsWell, AcceptsSignIn, SignOutSuperseded, Is
        <4> QED  BY <4>3, <4>4
      <3> QED  BY <3>2, <3>3
    <2>5. Show(t, Seen(tab[t], marker'))
      BY <1>3 DEF SettleSignIn
    <2> QED  BY <1>2, <2>2, <2>4, <2>5, WriterIsSound, SettleMoves
  <1>4. CASE reply[t] # "ok"
    <2>1. /\ Write(FailCookieAction(marker, held[t], FreshId, reply[t]))
          /\ Show(t, Unsuppressed(Seen(tab[t], marker')))
      BY <1>4 DEF SettleSignIn
    <2>2. reply[t] # "unknown" => live = {}
      BY <1>1, <1>2, <1>4 DEF IInv, RepliesAreSound
    <2>3. Written /\ EndsWell /\ (requests = {} \/ StaysCovered)
      BY <1>1, <1>4, <2>1, <2>2, FailureMoves
    <2> QED  BY <1>2, <2>1, <2>3, WriterIsSound, SettleMoves
  <1> QED  BY <1>3, <1>4

LEMMA SettleSignOutKeeps ==
    ASSUME IInv, NEW t \in Tabs, SettleSignOut(t)
    PROVE  IInv'
  <1>1. /\ held[t] \in Nat /\ OwnsPending(marker, held[t]) /\ marker.action.kind = "sign-out"
        /\ reply[t] \in {"ok", "rejected", "error", "unknown"}
    BY DEF IInv, TypeOK, HolderOwnsAction, SettleSignOut
  <1>2. /\ signingOut[t] = "sent" /\ UNCHANGED signingIn /\ Forget(t)
        /\ UNCHANGED <<hasLocks, worldVars, calls, owed>>
        /\ Show(t, Unsuppressed(Seen(tab[t], marker')))
    BY DEF SettleSignOut
  <1>3. CASE reply[t] = "ok"
    <2>1. /\ marker' = AcknowledgeSignOut(marker, held[t], FreshId)
          /\ uuids' = IF marker' = marker THEN uuids ELSE FreshId
          /\ SignOutGoes(t, "done")
      BY <1>3 DEF SettleSignOut, Write
    <2>2. live = {} /\ requests = {}
      BY <1>2, <1>3 DEF IInv, RepliesAreSound
    <2>3. Sound(marker') /\ Is(marker', NoAction, FreshId, TRUE, "confirmed")
      BY <1>1, <2>1, StorageFacts, AcknowledgeSignOutStep
    <2>4. Written
      BY <2>1, <2>3, StorageFacts DEF Written, Is
    <2>5. EndsWell
      BY <2>2, <2>3 DEF EndsWell, Is
    <2> QED  BY <1>2, <2>1, <2>2, <2>4, <2>5, WriterIsSound, SettleMoves
  <1>4. CASE reply[t] # "ok"
    <2>1. /\ Write(FailCookieAction(marker, held[t], FreshId, reply[t]))
          /\ SignOutGoes(t, "idle")
      BY <1>4 DEF SettleSignOut
    <2>3. Written /\ EndsWell /\ (requests = {} \/ StaysCovered)
      BY <1>1, <1>4, <2>1, FailureMoves
    <2> QED  BY <1>2, <2>1, <2>3, WriterIsSound, SettleMoves
  <1> QED  BY <1>3, <1>4

\* A pending action without an owner is declared unknown.
LEMMA InspectPendingKeeps ==
    ASSUME IInv, NEW t \in Tabs, InspectPending(t)
    PROVE  IInv'
  <1> DEFINE s == [Seen(tab[t], marker') EXCEPT !.inspecting = FALSE]
  <1> USE DEF callVars, worldVars
  <1>1. TypeOK
    BY DEF IInv
  <1>2. /\ \A u \in Tabs : signingIn[u] \notin {"checked", "sent"} /\ signingOut[u] # "sent"
        /\ \A u \in Tabs : reply[u] = "none"
    BY NobodyWaits DEF InspectPending, LockFree
  <1>3. /\ marker' = OrphanPendingAction(marker, FreshId)
        /\ uuids' = IF marker' = marker THEN uuids ELSE FreshId
    BY DEF InspectPending, Write
  <1>4. CASE ~IsPending(marker)
    <2>1. UNCHANGED storageVars
      BY <1>3, <1>4 DEF OrphanPendingAction, storageVars
    <2>2. TabSound(s, marker, cookie, live, uuids) /\ Show(t, s)
      BY <2>1, RereadIsSound, FlagsAreFree DEF InspectPending, storageVars
    <2> HIDE DEF s
    <2> QED  BY <2>1, <2>2, OnlyTabChanges DEF InspectPending
  <1>5. CASE IsPending(marker)
    <2>1. ActionIsOrphaned(marker, FreshId, marker')
      BY <1>3, <1>5, StorageFacts, OrphanStep
    <2>2. /\ Written /\ marker'.action # NoAction
          /\ ~AcceptsSignIn(marker') /\ ~IsPending(marker') /\ marker'.action.status = "unknown"
      BY <1>3, <1>5, <2>1, StorageFacts
         DEF Written, ActionIsOrphaned, AcceptsSignIn, IsPending, Sound
    <2>3. TabSound(s, marker', cookie, live, uuids') /\ Show(t, s)
      BY <2>2, WriterIsSound DEF InspectPending
    <2> HIDE DEF s
    <2>4. TypeOK'
      BY <1>1, <2>2, <2>3, WriteKeeps DEF TypeOK, InspectPending
    <2>5. LockIsExclusive' /\ HolderOwnsAction' /\ RepliesAreSound'
      BY <1>2 DEF LockIsExclusive, HolderOwnsAction, RepliesAreSound, HoldsForSignIn,
         HoldsForSignOut, InspectPending
    <2>6. RequestsAreCovered' /\ RequestsAreOrderly'
      BY <2>1, <2>2 DEF RequestsAreCovered, RequestsAreOrderly, ActionIsOrphaned, IInv,
         InspectPending
    <2>7. SessionsAreKnown'
      BY <2>2 DEF SessionsAreKnown
    <2>8. DebtsAreSettled'
      BY <2>1 DEF DebtsAreSettled, SignOutSuperseded, ActionIsOrphaned, IInv, InspectPending
    <2> QED
      BY <2>2, <2>3, <2>4, <2>5, <2>6, <2>7, <2>8, WriteKeeps DEF IInv, InspectPending
  <1> QED  BY <1>4, <1>5

LEMMA InitHolds == Init => IInv
  <1> SUFFICES ASSUME Init PROVE IInv
    OBVIOUS
  <1> USE DEF ExchangeInit
  <1>1. InitialMarker \in Marker /\ LegacyMarker \in Marker
    BY DEF InitialMarker, LegacyMarker, Marker
  <1>2. /\ marker \in Marker /\ marker.action = NoAction /\ marker.epoch = 0
        /\ Consistent(marker) /\ marker.revocation # "confirmed"
    <2>1. Is(InitialMarker, NoAction, 0, FALSE, "none")
      BY <1>1 DEF InitialMarker, Is
    <2>2. Is(LegacyMarker, NoAction, 0, TRUE, "unconfirmed")
      BY <1>1 DEF InitialMarker, LegacyMarker, Is
    <2>3. CASE marker = InitialMarker
      BY <2>1, <2>3 DEF Is, Consistent
    <2>4. CASE marker = LegacyMarker
      BY <2>2, <2>4 DEF Is, Consistent
    <2> QED  BY <2>3, <2>4 DEF Init
  <1>3. TabSound(NewTab(marker), marker, cookie, live, 0)
    BY <1>2, NewTabIsSound
  <1>4. \A t \in Tabs : SoundNow(t)
    BY <1>3 DEF Init, SoundNow
  <1>5. TypeOK
    BY <1>2, <1>3, CoordinationAssumption DEF Init, TypeOK, TabSound, Id
  <1>6. TabsAreFenced /\ IdsWereHandedOut
    BY <1>2, <1>4 DEF SoundNow, TabSound, TabsAreFenced, IdsWereHandedOut, Init
  <1>7. LockIsExclusive /\ HolderOwnsAction /\ RequestsAreCovered /\ RequestsAreOrderly
        /\ RepliesAreSound /\ DebtsAreSettled
    BY DEF Init, LockIsExclusive, HoldsForSignIn, HoldsForSignOut, HolderOwnsAction,
       RequestsAreCovered, RequestsAreOrderly, RepliesAreSound, DebtsAreSettled
  <1>8. SessionsAreKnown /\ PendingIsLawful(marker)
    BY <1>2 DEF Init, SessionsAreKnown, PendingIsLawful, IsPending
  <1> QED  BY <1>2, <1>5, <1>6, <1>7, <1>8 DEF IInv

LEMMA NextKeeps == IInv /\ [Next]_vars => IInv'
  <1> SUFFICES ASSUME IInv, [Next]_vars PROVE IInv'
    OBVIOUS
  <1>1. ASSUME NEW t \in Tabs, TabStep(t) PROVE IInv'
    BY <1>1, RefreshKeeps, CheckSignInKeeps, DispatchSignInKeeps, SettleSignInKeeps,
       RecordIntentKeeps, DispatchSignOutKeeps, SettleSignOutKeeps, RequestTimesOutKeeps,
       InspectPendingKeeps DEF TabStep
  <1>2. ASSUME NEW t \in Tabs,
               \/ CacheFails(t) \/ StartRead(t) \/ ServeRead(t) \/ DeliverRead(t)
               \/ RetryRead(t)
        PROVE  IInv'
    BY <1>2, CacheFailsKeeps, StartReadKeeps, ServeReadKeeps, DeliverReadKeeps, RetryReadKeeps
  <1>3. ASSUME NEW t \in Tabs,
               \/ StartSignIn(t) \/ SignInTimesOut(t) \/ StartSignOut(t) \/ SignOutTimesOut(t)
               \/ InspectionTimesOut(t) \/ StorageFails(t) \/ Close(t) \/ Open(t)
        PROVE  IInv'
    BY <1>3, StartSignInKeeps, SignInTimesOutKeeps, StartSignOutKeeps, SignOutTimesOutKeeps,
       InspectionTimesOutKeeps, StorageFailsKeeps, CloseKeeps,
       OpenKeeps
  <1>4. ASSUME NEW r \in requests, ServeSignIn(r) \/ ServeSignOut(r) \/ Arrive(r) \/ Lose(r)
        PROVE  IInv'
    BY <1>4, ServeSignInKeeps, ServeSignOutKeeps, ArriveKeeps, LoseKeeps
  <1>5. CASE UNCHANGED vars
    <2>1. UNCHANGED <<hasLocks, marker, uuids, tab, signingIn, signingOut, held, reply>>
      BY <1>5 DEF vars
    <2>2. UNCHANGED <<cookie, live, requests, calls, owed>>
      BY <1>5 DEF vars
    <2> QED
      BY <2>1, <2>2 DEF IInv, TypeOK, LockIsExclusive, HoldsForSignIn, HoldsForSignOut,
         HolderOwnsAction, IdsWereHandedOut, RequestsAreCovered, RequestsAreOrderly,
         RepliesAreSound, SessionsAreKnown, TabsAreFenced, DebtsAreSettled
  <1> QED  BY <1>1, <1>2, <1>3, <1>4, <1>5, ExpireKeeps DEF Next, OpenTabs

\* The invariant that the properties of the coordination follow from: it relates the
\* marker, the cookie lock, the one request on the wire, its answer, the sessions of
\* the server and what each tab has seen, asked for and concluded.
THEOREM CoordinationInvariant == Spec => []IInv
  BY InitHolds, NextKeeps, PTL DEF Spec

\* Whatever tabs, faults and the network do, the marker is one the next reader accepts
\* and stands for every cookie request under way.
THEOREM MarkerCanBeTrusted == Spec => []MarkerIsSound
  <1>1. IInv => MarkerIsSound
    BY DEF IInv, MarkerIsSound, MarkerIsConsistent
  <1> QED  BY <1>1, CoordinationInvariant, PTL

\* No live session is replaced by a sign-in without its revocation, and none outlives
\* a signOut that returned without an error.
THEOREM SessionsAreNotForgotten == Spec => []SessionsAreAccountedFor
  <1>1. IInv => SessionsAreAccountedFor
    BY DEF IInv, SessionsAreAccountedFor, NoSessionIsForgotten, SignOutMeansRevoked,
       SessionsAreKnown, DebtsAreSettled
  <1> QED  BY <1>1, CoordinationInvariant, PTL

-----------------------------------------------------------------------------
(* Steps: what no step may do. *)

\* Only these steps write the marker.
LEMMA MarkerWriters ==
    ASSUME [Next]_vars, marker' # marker
    PROVE  \E t \in Tabs : \/ DispatchSignIn(t) \/ SettleSignIn(t) \/ RecordIntent(t)
                          \/ DispatchSignOut(t) \/ SettleSignOut(t) \/ InspectPending(t)
  BY DEF Next, OpenTabs, TabStep, vars, storageVars, Refresh, CheckSignIn, RequestTimesOut,
     CacheFails, StartRead, ServeRead, DeliverRead, RetryRead, StartSignIn, SignInTimesOut, StartSignOut,
     SignOutTimesOut, InspectionTimesOut, StorageFails, Close, Open, ServeSignIn,
     ServeSignOut, Arrive, Lose, Expire

\* What a procedure's caller settles is a pending action.
LEMMA SettlersOwn ==
    ASSUME IInv, NEW t \in Tabs
    PROVE  /\ SettleSignIn(t) => /\ OwnsPending(marker, held[t]) /\ held[t] \in Nat
                                 /\ marker.action.kind = "sign-in"
                                 /\ reply[t] \in {"ok", "rejected", "error", "unknown"}
           /\ SettleSignOut(t) => /\ OwnsPending(marker, held[t]) /\ held[t] \in Nat
                                  /\ marker.action.kind = "sign-out"
                                  /\ reply[t] \in {"ok", "rejected", "error", "unknown"}
  BY DEF IInv, TypeOK, HolderOwnsAction, SettleSignIn, SettleSignOut

\* Nothing is dispatched, settled or orphaned in a state that requires a reset,
\* and recording the intent to log out leaves it alone.
LEMMA ResetStays ==
    ASSUME IInv, [Next]_vars, RequiresReset(marker)
    PROVE  marker' = marker
  <1>1. marker # NoMarker /\ ~IsPending(marker) /\ ~AcceptsSignIn(marker)
        /\ ~MayDispatchSignOut(marker)
    BY StorageFacts, MarkerFields
       DEF RequiresReset, IsPending, AcceptsSignIn, MayDispatchSignOut
  <1>2. ASSUME NEW t \in Tabs,
               DispatchSignIn(t) \/ RecordIntent(t) \/ DispatchSignOut(t) \/ InspectPending(t)
        PROVE  marker' = marker
    BY <1>1, <1>2 DEF DispatchSignIn, RecordIntent, DispatchSignOut, InspectPending, Write,
       PublishLogoutIntent, OrphanPendingAction, storageVars
  <1>3. ASSUME NEW t \in Tabs, SettleSignIn(t) \/ SettleSignOut(t) PROVE FALSE
    BY <1>1, <1>3, SettlersOwn DEF OwnsPending
  <1> QED  BY <1>2, <1>3, MarkerWriters

\* A browser that must be reset stays so: no tab, answer or interleaving of them
\* talks the record out of it.
THEOREM ResetCannotBeSkipped == Spec => ResetIsAbsorbing
  <1>1. IInv /\ [Next]_vars => [RequiresReset(marker) => RequiresReset(marker')]_vars
    BY ResetStays
  <1> QED  BY <1>1, CoordinationInvariant, PTL DEF Spec, ResetIsAbsorbing

\* Of all that is written, only the acknowledgement of a sign-in that no newer
\* intent has overtaken drops the intent.
LEMMA IntentEnds ==
    ASSUME IInv, [Next]_vars, marker.logoutIntent, ~marker'.logoutIntent
    PROVE  marker.revocation = "confirmed" /\ live \subseteq {marker.action.id}
  <1> DEFINE Kept == marker'.logoutIntent = marker.logoutIntent \/ marker'.logoutIntent = TRUE
  <1>1. ASSUME NEW t \in Tabs, DispatchSignIn(t) PROVE Kept
    <2>1. CASE AcceptsSignIn(marker) /\ marker' = BeginSignIn(marker, FreshId)
      BY <2>1, StorageFacts, BeginSignInStep DEF Is
    <2> QED  BY <1>1, <2>1 DEF DispatchSignIn, Dispatch, Write, storageVars
  <1>2. ASSUME NEW t \in Tabs, DispatchSignOut(t) PROVE Kept
    <2>1. CASE MayDispatchSignOut(marker) /\ marker' = BeginSignOut(marker, FreshId)
      BY <2>1, StorageFacts, BeginSignOutStep DEF Is
    <2> QED  BY <1>2, <2>1 DEF DispatchSignOut, Dispatch, Write, storageVars
  <1>3. ASSUME NEW t \in Tabs, RecordIntent(t) PROVE Kept
    <2>1. marker' = PublishLogoutIntent(marker, FreshId)
      BY <1>3 DEF RecordIntent, Write
    <2> QED  BY <2>1, StorageFacts, PublishIntentStep DEF IntentIsRecorded
  <1>4. ASSUME NEW t \in Tabs, InspectPending(t) PROVE Kept
    <2>1. marker' = OrphanPendingAction(marker, FreshId)
      BY <1>4 DEF InspectPending, Write
    <2>2. CASE IsPending(marker)
      BY <2>1, <2>2, StorageFacts, OrphanStep DEF ActionIsOrphaned
    <2> QED  BY <2>1, <2>2 DEF OrphanPendingAction
  <1>5. ASSUME NEW t \in Tabs, SettleSignOut(t) PROVE Kept
    <2>1. CASE reply[t] = "ok"
      <3>1. marker' = AcknowledgeSignOut(marker, held[t], FreshId)
        BY <1>5, <2>1 DEF SettleSignOut, Write
      <3> QED  BY <1>5, <3>1, StorageFacts, SettlersOwn, AcknowledgeSignOutStep DEF Is
    <2>2. CASE reply[t] # "ok"
      <3>1. marker' = FailCookieAction(marker, held[t], FreshId, reply[t])
        BY <1>5, <2>2 DEF SettleSignOut, Write
      <3>2. FailureIsRecorded(marker, held[t], FreshId, reply[t], marker')
        BY <1>5, <2>2, <3>1, StorageFacts, SettlersOwn, FailCookieActionStep
      <3> QED  BY <3>2 DEF FailureIsRecorded, Is
    <2> QED  BY <2>1, <2>2
  <1>6. ASSUME NEW t \in Tabs, SettleSignIn(t)
        PROVE  Kept \/ (marker.revocation = "confirmed" /\ live \subseteq {marker.action.id})
    <2>1. CASE reply[t] = "ok"
      <3>1. marker' = AcknowledgeSignIn(marker, held[t], FreshId)
        BY <1>6, <2>1 DEF SettleSignIn, Write
      <3>2. SignInIsRecorded(marker, held[t], FreshId, marker')
        BY <1>6, <3>1, StorageFacts, SettlersOwn, AcknowledgeSignInStep
      <3>3. CASE marker.epoch = held[t]
        <4>1. marker.revocation = "confirmed"
          BY <3>2, <3>3, StorageFacts, MarkerFields DEF SignInIsRecorded, Sound, Consistent
        <4>2. live \subseteq {marker.action.id}
          BY <1>6, SettlersOwn DEF IInv, SessionsAreKnown, OwnsPending, IsPending
        <4> QED  BY <4>1, <4>2
      <3>4. CASE marker.epoch # held[t]
        BY <3>2, <3>4 DEF SignInIsRecorded, Is
      <3> QED  BY <3>3, <3>4
    <2>2. CASE reply[t] # "ok"
      <3>1. marker' = FailCookieAction(marker, held[t], FreshId, reply[t])
        BY <1>6, <2>2 DEF SettleSignIn, Write
      <3>2. FailureIsRecorded(marker, held[t], FreshId, reply[t], marker')
        BY <1>6, <2>2, <3>1, StorageFacts, SettlersOwn, FailCookieActionStep
      <3> QED  BY <3>2 DEF FailureIsRecorded, Is
    <2> QED  BY <2>1, <2>2
  <1>7. marker' # marker
    OBVIOUS
  <1> QED  BY <1>1, <1>2, <1>3, <1>4, <1>5, <1>6, <1>7, MarkerWriters

\* A logout intent ends only with a sign-in begun after its confirmation: no late
\* acknowledgement of an earlier one brings a session back.
THEOREM LogoutPrevails == Spec => LogoutIsNeverLost
  <1>1. IInv /\ [Next]_vars =>
          [(marker.logoutIntent /\ ~marker'.logoutIntent) =>
              /\ marker.revocation = "confirmed"
              /\ live \subseteq {marker.action.id}]_vars
    BY IntentEnds
  <1> QED  BY <1>1, CoordinationInvariant, PTL DEF Spec, LogoutIsNeverLost

-----------------------------------------------------------------------------
(* What a tab shows. *)

\* d shows nothing that s did not show.
ShowsNoMore(d, s) == d.shown \in {s.shown, NoSession}

LEMMA PublicationsShowNoMore ==
    ASSUME NEW s, NEW seen, NEW logout, NEW failure, NEW m, NEW d, ShowsNoMore(d, s)
    PROVE  /\ ShowsNoMore(Publish(d, seen, logout, failure), s)
           /\ ShowsNoMore(Seen(d, m), s)
           /\ ShowsNoMore(Unsuppressed(d), s) /\ ShowsNoMore(Resumed(d), s)
           /\ ShowsNoMore(Invalidated(d), s)
  BY DEF ShowsNoMore, Publish, Seen, Unsuppressed, Resumed, Invalidated

LEMMA FlagsShowNoMore ==
    ASSUME NEW s, NEW d \in Tab, ShowsNoMore(d, s)
    PROVE  /\ ShowsNoMore([d EXCEPT !.fault = TRUE], s)
           /\ ShowsNoMore([d EXCEPT !.current = TRUE], s)
           /\ ShowsNoMore([d EXCEPT !.current = FALSE], s)
           /\ ShowsNoMore([d EXCEPT !.inspecting = FALSE], s)
           /\ \A read : ShowsNoMore([d EXCEPT !.read = read], s)
           /\ \A stage : ShowsNoMore([d EXCEPT !.read.stage = stage], s)
  BY DEF ShowsNoMore, Tab
\* Only the delivery of an answer may show somebody.
LEMMA OnlyDeliveryShows ==
    ASSUME IInv, [Next]_vars, NEW u \in Tabs
    PROVE  DeliverRead(u) \/ ShowsNoMore(tab'[u], tab[u])
  <1>1. tab \in [Tabs -> Tab]
    BY DEF IInv, TypeOK
  <1>2. ASSUME NEW t \in Tabs, NEW d, Show(t, d), ShowsNoMore(d, tab[t])
        PROVE  ShowsNoMore(tab'[u], tab[u])
    BY <1>1, <1>2 DEF Show, ShowsNoMore
  <1>3. \A t \in Tabs : ShowsNoMore(tab[t], tab[t]) /\ tab[t] \in Tab
    BY <1>1 DEF ShowsNoMore
  <1>4. CASE tab' = tab
    BY <1>3, <1>4
  <1>5. ASSUME NEW t \in Tabs,
               \/ Refresh(t) \/ DispatchSignIn(t) \/ SettleSignIn(t) \/ RecordIntent(t)
               \/ DispatchSignOut(t) \/ SettleSignOut(t) \/ RetryRead(t) \/ StartSignOut(t)
               \/ SignOutTimesOut(t)
        PROVE  \E d : Show(t, d) /\ ShowsNoMore(d, tab[t])
    <2>1. \A m : /\ ShowsNoMore(Seen(tab[t], m), tab[t])
                 /\ ShowsNoMore(Resumed(Seen(tab[t], m)), tab[t])
                 /\ ShowsNoMore(Unsuppressed(Seen(tab[t], m)), tab[t])
      BY <1>3, PublicationsShowNoMore
    <2>2. ShowsNoMore(Resumed(tab[t]), tab[t])
      BY <1>3, PublicationsShowNoMore
    <2>3. \A seen, logout, failure : ShowsNoMore(Publish(tab[t], seen, logout, failure), tab[t])
      BY <1>3, PublicationsShowNoMore
    <2>4. CASE Refresh(t) \/ SignOutTimesOut(t)
      BY <2>1, <2>2, <2>4 DEF Refresh, SignOutTimesOut
    <2>5. CASE RetryRead(t) \/ StartSignOut(t)
      BY <2>3, <2>5 DEF RetryRead, StartSignOut
    <2>6. CASE DispatchSignIn(t) \/ DispatchSignOut(t)
      BY <2>1, <2>6 DEF DispatchSignIn, DispatchSignOut, Dispatch
    <2>7. CASE SettleSignIn(t) \/ SettleSignOut(t)
      BY <2>1, <2>7 DEF SettleSignIn, SettleSignOut
    <2>8. CASE RecordIntent(t)
      BY <2>1, <2>8 DEF RecordIntent
    <2> QED  BY <1>5, <2>4, <2>5, <2>6, <2>7, <2>8
  <1>6. ASSUME NEW t \in Tabs,
               \/ CheckSignIn(t) \/ CacheFails(t) \/ StartRead(t) \/ ServeRead(t)
               \/ StartSignIn(t) \/ SignInTimesOut(t) \/ InspectionTimesOut(t)
        PROVE  \E d : Show(t, d) /\ ShowsNoMore(d, tab[t])
    BY <1>3, <1>6, FlagsShowNoMore
       DEF CheckSignIn, CacheFails, StartRead, ServeRead, StartSignIn, SignInTimesOut,
           InspectionTimesOut
  <1>7. ASSUME NEW t \in Tabs, InspectPending(t)
        PROVE  \E d : Show(t, d) /\ ShowsNoMore(d, tab[t])
    <2> DEFINE s == Seen(tab[t], marker')
    <2>1. ShowsNoMore(s, tab[t])
      BY <1>3, PublicationsShowNoMore
    <2>2. marker' \in Marker
      <3>1. CASE IsPending(marker)
        <4>1. marker' = OrphanPendingAction(marker, FreshId)
          BY <1>7 DEF InspectPending, Write
        <4>2. ActionIsOrphaned(marker, FreshId, marker')
          BY <3>1, <4>1, StorageFacts, OrphanStep
        <4> QED  BY <4>2 DEF ActionIsOrphaned, Sound
      <3>2. CASE ~IsPending(marker)
        BY <1>7, <3>2, StorageFacts DEF InspectPending, Write, OrphanPendingAction
      <3> QED  BY <3>1, <3>2
    <2>3. s \in Tab
      BY <1>3, <2>2, TabFields, PublishedTab DEF Seen
    <2>4. Show(t, [s EXCEPT !.inspecting = FALSE])
      BY <1>7 DEF InspectPending
    <2> HIDE DEF s
    <2> QED  BY <2>1, <2>3, <2>4, FlagsShowNoMore
  <1>8. ASSUME NEW t \in Tabs, StorageFails(t)
        PROVE  \E d : Show(t, d) /\ ShowsNoMore(d, tab[t])
    <2> DEFINE s == Invalidated(tab[t])
    <2>1. ShowsNoMore(s, tab[t]) /\ s \in Tab
      BY <1>3, PublicationsShowNoMore, PublishedTab, TabFields DEF Invalidated
    <2>2. Show(t, s) \/ Show(t, Resumed(s)) \/ Show(t, [s EXCEPT !.inspecting = FALSE])
      BY <1>8 DEF StorageFails
    <2> HIDE DEF s
    <2> QED  BY <2>1, <2>2, PublicationsShowNoMore, FlagsShowNoMore
  <1>9. ASSUME NEW t \in Tabs, Close(t) \/ Open(t)
        PROVE  \E d : Show(t, d) /\ ShowsNoMore(d, tab[t])
    BY <1>9 DEF Close, ClosedTab, Open, NewTab, ShowsNoMore
  <1>10. ASSUME NEW t \in Tabs, DeliverRead(t), t # u
         PROVE  ShowsNoMore(tab'[u], tab[u])
    BY <1>1, <1>10 DEF DeliverRead, Show, ShowsNoMore
  <1>11. \/ tab' = tab
         \/ \E t \in Tabs :
              \/ TabStep(t)
              \/ CacheFails(t) \/ StartRead(t) \/ ServeRead(t) \/ DeliverRead(t)
              \/ RetryRead(t)
              \/ StartSignIn(t) \/ SignInTimesOut(t)
              \/ StartSignOut(t) \/ SignOutTimesOut(t)
              \/ InspectionTimesOut(t) \/ StorageFails(t) \/ Close(t) \/ Open(t)
    BY DEF Next, OpenTabs, vars, ServeSignIn, ServeSignOut, Arrive, Lose, Expire
  <1>12. ASSUME NEW t \in Tabs, TabStep(t), tab' # tab
         PROVE  \E d : Show(t, d) /\ ShowsNoMore(d, tab[t])
    BY <1>5, <1>6, <1>7, <1>12 DEF TabStep, RequestTimesOut
  <1> QED  BY <1>2, <1>4, <1>5, <1>6, <1>8, <1>9, <1>10, <1>11, <1>12

\* The answer is delivered at the marker it was asked at, which has no action and so
\* stands for no request.
LEMMA DeliveryIsFenced ==
    ASSUME IInv, NEW t \in Tabs, DeliverRead(t), tab'[t].shown # NoSession
    PROVE  tab'[t].shown = cookie /\ requests = {}
  <1>1. tab'[t] = Delivered(tab[t]) /\ tab[t].seen = marker
    BY DEF DeliverRead, Show, IInv, TypeOK, UpToDate
  <1>2. TabSound(Delivered(tab[t]), marker, cookie, live, uuids)
    BY DeliveredIsSound
  <1>3. Delivered(tab[t]).seen = marker
    BY <1>1, InvariantFacts DEF Delivered, Publish, SoundNow, TabSound, Tab
  <1>4. Delivered(tab[t]).shown = cookie
    BY <1>1, <1>2, <1>3 DEF TabSound, TabIsFenced
  <1>5. marker.action = NoAction
    BY <1>1, <1>2, <1>3, StorageFacts, MarkerFields DEF TabSound, TabIsFenced
  <1> QED  BY <1>1, <1>4, <1>5 DEF IInv, RequestsAreCovered

\* An identity is shown only when it is the cookie's and nothing under way can change
\* the cookie; as long as the tab is up to date it stays so.
THEOREM ShownIsTheCookies == Spec => ShownIsCurrent
  <1> DEFINE A == \A t \in Tabs :
          (tab'[t].shown # tab[t].shown /\ tab'[t].shown # NoSession) =>
             tab'[t].shown = cookie /\ requests = {}
  <1>1. IInv => AuthenticatedViewIsCurrent
    BY DEF IInv, TabsAreFenced, TabIsFenced, AuthenticatedViewIsCurrent, Authenticated, UpToDate
  <1>2. IInv /\ [Next]_vars => [A]_vars
    BY OnlyDeliveryShows, DeliveryIsFenced DEF ShowsNoMore
  <1>3. Spec => []AuthenticatedViewIsCurrent
    BY <1>1, CoordinationInvariant, PTL
  <1>4. Spec => ReadsAreFenced
    BY <1>2, CoordinationInvariant, PTL DEF Spec, ReadsAreFenced
  <1> QED  BY <1>3, <1>4 DEF ShownIsCurrent
-----------------------------------------------------------------------------
(* The tabs keep to the exchange they are built on. *)

\* The cookie is one that an answer has set.
CookieIsKnown == cookie \in 0..uuids \cup {NoSession}

\* A tab does nothing to the world but send a request under an id of its own.
LEMMA TabsOnlySend ==
    ASSUME IInv, CookieIsKnown,
           NEW t \in Tabs, TabStep(t) \/ StartSignIn(t) \/ SignInTimesOut(t)
                           \/ StartSignOut(t) \/ SignOutTimesOut(t)
    PROVE  /\ ExchangeNext \/ UNCHANGED worldVars
           /\ uuids' \in {uuids, uuids + 1} /\ cookie' = cookie
  <1> USE DEF storageVars, worldVars
  <1>1. ASSUME NEW kind \in {"sign-in", "sign-out"}, Dispatch(t, kind), UNCHANGED <<cookie, live>>
        PROVE  ExchangeNext /\ uuids' \in {uuids, uuids + 1}
    <2>1. FreshId \in Nat /\ FreshId # cookie /\ FreshId \notin live
      BY StorageFacts, CoordinationAssumption DEF CookieIsKnown, IInv, IdsWereHandedOut
    <2>2. Departs(FreshId, kind)
      BY <1>1 DEF Dispatch
    <2>3. ExchangeNext
      <3> DEFINE r == [id |-> FreshId, kind |-> kind, cookie |-> cookie,
                       stage |-> "sent", jar |-> "keep"]
      <3>1. r \in requests' /\ r.id = FreshId /\ r.kind = kind
        BY <2>2 DEF Departs
      <3>2. Departs(r.id, r.kind) /\ r.id \in Nat \ (live \cup {cookie})
        BY <2>1, <2>2, <3>1
      <3> HIDE DEF r
      <3> QED  BY <1>1, <3>1, <3>2 DEF ExchangeNext, Sends
    <2> QED  BY <1>1, <2>3 DEF Dispatch, Write, FreshId
  <1>2. CASE DispatchSignIn(t) \/ DispatchSignOut(t)
    BY <1>1, <1>2 DEF DispatchSignIn, DispatchSignOut
  <1>3. CASE SettleSignIn(t) \/ SettleSignOut(t) \/ RecordIntent(t) \/ InspectPending(t)
    BY <1>3 DEF SettleSignIn, SettleSignOut, RecordIntent, InspectPending, Write, FreshId
  <1>4. CASE Refresh(t) \/ CheckSignIn(t) \/ RequestTimesOut(t)
    BY <1>4 DEF Refresh, CheckSignIn, RequestTimesOut
  <1>5. CASE StartSignIn(t) \/ SignInTimesOut(t) \/ StartSignOut(t) \/ SignOutTimesOut(t)
    BY <1>5 DEF StartSignIn, SignInTimesOut, StartSignOut, SignOutTimesOut
  <1> QED  BY <1>2, <1>3, <1>4, <1>5 DEF TabStep

LEMMA ExchangeGoesOn ==
    ASSUME IInv, CookieIsKnown, [Next]_vars
    PROVE  [ExchangeNext]_worldVars /\ CookieIsKnown'
  <1> USE DEF storageVars, worldVars
  <1>1. uuids \in Nat
    BY StorageFacts
  <1>2. ASSUME NEW t \in Tabs, TabStep(t) \/ StartSignIn(t) \/ SignInTimesOut(t)
                              \/ StartSignOut(t) \/ SignOutTimesOut(t)
        PROVE  [ExchangeNext]_worldVars /\ CookieIsKnown'
    BY <1>1, <1>2, TabsOnlySend DEF CookieIsKnown
  <1>3. ASSUME NEW t \in Tabs, \/ CacheFails(t) \/ StartRead(t) \/ ServeRead(t) \/ DeliverRead(t)
                               \/ RetryRead(t) \/ InspectionTimesOut(t) \/ StorageFails(t)
                               \/ Close(t) \/ Open(t)
        PROVE  UNCHANGED worldVars /\ uuids' = uuids
    BY <1>3 DEF CacheFails, StartRead, ServeRead, DeliverRead, RetryRead, InspectionTimesOut,
       StorageFails, Close, Open
  <1>4. ASSUME NEW r \in requests, Arrive(r)
        PROVE  ExchangeNext /\ CookieIsKnown'
    <2>1. r.id \in Nat /\ r.id <= uuids /\ r.jar \in {"keep", "set", "clear"}
      BY RequestFacts, RequestFields
    <2> QED  BY <1>1, <1>4, <2>1 DEF Arrive, Arrives, ExchangeNext, CookieIsKnown
  <1>5. ASSUME NEW r \in requests, ServeSignIn(r) \/ ServeSignOut(r) \/ Lose(r)
        PROVE  ExchangeNext /\ UNCHANGED <<cookie, uuids>>
    BY <1>5 DEF ServeSignIn, ServeSignOut, Lose, SignInServed, SignOutServed, IsLost, ExchangeNext
  <1>6. CASE Expire
    BY <1>6 DEF Expire, SessionExpires, ExchangeNext, CookieIsKnown
  <1>7. CASE UNCHANGED vars
    BY <1>7 DEF vars, CookieIsKnown
  <1> QED  BY <1>2, <1>3, <1>4, <1>5, <1>6, <1>7 DEF Next, OpenTabs, CookieIsKnown

\* Seen from outside, the tabs of a browser are a client of the exchange that
\* RequestProofs shows the gateway to provide: they send requests under fresh ids with
\* the cookie of the jar, and touch neither the jar nor a session themselves.
THEOREM TabsKeepToTheExchange == Spec => ExchangeSpec
  <1>1. Init => CookieIsKnown /\ ExchangeInit
    BY DEF Init, ExchangeInit, CookieIsKnown
  <1>2. IInv /\ CookieIsKnown /\ [Next]_vars => [ExchangeNext]_worldVars /\ CookieIsKnown'
    BY ExchangeGoesOn
  <1> QED  BY <1>1, <1>2, CoordinationInvariant, PTL DEF Spec, ExchangeSpec
=============================================================================
