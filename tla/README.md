# Aspectloop: TLA+ models and proofs

Models of the parts of Aspectloop whose correctness depends on the order in
which concurrent callers, browser tabs, requests, timeouts and crashes take
their turns, or on what a small algorithm makes of an unusual input.  Every
definition is written from the source; `PROJECT.json` names, for each one, the
file and the lines it stands for.

| Modules | What they model | Section |
|---|---|---|
| `SourceObjectReservation`, `WriteOnceObject`, `SourceObjectReservationProofs` | write path of a document's source object, what it promises, proofs | 2 |
| `ArtifactStorage`, `PlatformProofs` | the S3 adapter; its proof, that of section 8 and the dependency gate's (13) | 3 |
| `SessionMarker`, `SessionCoordination`, `SessionCoordinationProofs` | the tabs of a browser and the cookie lock | 4 |
| `CookieExchange` | what the tabs rely on: the network, the gateway and the platform as they see them | 4 |
| `SessionFence`, `WebRegistration`, `WebRegistrationProofs` | one tab's reads, sign-up, resend and confirmation | 5 |
| `RequestPath`, `RootFields`, `LooseJson`, `RequestProofs` | a GraphQL request through the gateway; proofs of the first two | 6 |
| `CookiePath` | the request path as the exchange that the tabs rely on | 6 |
| `AuthDatabase`, `Registration`, `AuthSessions`, `Accounts`, `AccountsProofs` | users, tokens and sessions in the platform's database | 7 |
| `IdentityLimiter` | sign-in and registration limits by email; proofs in `PlatformProofs` | 8 |
| `MailDispatcher`, `RecoveryProofs` | the mail queue and its SMTP attempts; proofs, also of section 12 and the first two parts of 13 | 9 |
| `CorrectionSessions`, `CorrectionSessionsProofs`, `CorrectionDocuments` | opening, saving and submitting corrections; what happens to the payload | 10 |
| `DocumentTypes`, `DocumentRegistry` | the types of documents and who caches them; proof in `CorrectionSessionsProofs` | 11 |
| `CorrectionOutbox` | relay of corrected-document events to RabbitMQ; proofs in `RecoveryProofs` | 12 |
| `GarageBootstrap`, `LiveVerification`, `DependencyPolicy` | the repository's own machinery; proofs in `RecoveryProofs` and `PlatformProofs` | 13 |
| `RecoveryParts` | the machines of sections 9, 12 and of the first two of 13 under one roof, with their constants' assumptions | below |
| `MCSourceObjectReservation`, `MCPlatform`, `MCSessionCoordination`, `MCAccounts`, `MCRequestPath`, `MCCorrectionSessions`, `MCRecovery` | instances for TLC | below |

Several MC modules check more than one machine in one run.  They have a variable
`subject` which is chosen initially and never changes: a behaviour is of one
machine, whose next-state relation it follows while the variables of the others
rest.  The machines in such a module share nothing in the code either, or
only what each of them models on its own, so their product would add states
and no behaviours.  A property that speaks of one machine either mentions only
its variables, which then hold their initial values in all other behaviours, or
begins with `subject = ... =>`.

## 1. Inventory

Aspectloop extracts structured data from documents and lets people correct it.
A React application talks GraphQL to a gateway; the gateway talks HTTP to the
platform service, which owns PostgreSQL and S3, and to an external persistence
service; corrected documents are announced on RabbitMQ.

| Component | State | Operations | Hard behaviour | What makes it correct |
|---|---|---|---|---|
| Source-object reservation (`platform-service/documents/source-object`) | `document_object_reservation` rows with a lease, an attempt count and a status; immutable `document_object` rows | `createSourceObject` = acquire, upload, verify, finalize or fail | no transaction spans storage I/O; leases expire under a working caller; crashes; retries up to ten | a document gets one object, only after its bytes are stored, and nothing is ever replaced |
| S3 artifact storage (`platform-service/storage`) | objects in one bucket | `getObject`, `headObject`, `verifyObject`, `writeObject` (HEAD, conditional PUT) | PUTs that land after their timeout; HEAD and PUT are separate; 409/412; damaged and foreign objects | a success vouches for its bytes |
| Web session coordination (`web/auth/session-coordination`, `useSessionBootstrap`, `useSessionActions`, `session-view`) | a marker in localStorage; per tab: revision, local suppression, resolved session; Web Locks | `signIn`, `signOut`, `inspectPending`, `retryRead`, `fail`, bootstrap | tabs race; answers arrive late; requests outlive their deadline; tabs crash; storage fails | the newest logout wins, no live session is forgotten, no identity is shown that is not the cookie's |
| Web registration and the fence (`web/auth/email-confirmation`, `pages/`, `graphql/runtime`) | a confirmation attempt per document, pages, operations behind the fence | sign up, resend, confirm, read | an answer is lost after the token was consumed; generations retire what is under way | what a page says is true; nothing of one account is shown to the next |
| Gateway browser session (`gateway-api/auth/session`) | none (cookie effects) | `signIn`, `signOut`, authentication of requests | the cookie is cleared even if revocation failed | a cookie is set only for a session that exists |
| Gateway request protection (`graphql/request-protection`, `graphql/operations`) | windows by address | root-field inspection, policies, admission | documents are inspected before they are validated | what is charged and recorded is what the engine executes |
| Gateway GraphQL layer (`graphql/errors`, `graphql/scalars`, `platform/platform-http-transport`) | none | masking, transport, JSON scalar | errors change their form at every hop; strings that look like data | a definite verdict is true; a payload is stored as it was written |
| Platform auth sessions (`platform-service/auth/sessions`) | `auth_session` rows | create, validate and extend, sign out | conditional updates after unlocked reads; one time per transaction | no session authorises after revocation or expiry; activity never revives one |
| Registration and confirmation (`platform-service/auth/registration`) | users, `email_verification_token` rows | `signUp`, `resend`, `confirm` | resend races confirm; mail is queued after the commit | one usable token per user; consumed once; verified only by it |
| Identity limiter (`platform-service/auth/limits`) | two in-memory maps of windows | `admitRegistration`, `reserveSignIn` with `settle` | checks settle after their window; the key table is full | failures plus pending checks never exceed five per window |
| Mail dispatcher and SMTP attempt (`platform-service/mail`) | waiting queue, active set | `enqueue`, deadline, result, shutdown | deadline races result; cancellation fails | each mail settles once; never more connections than slots |
| Correction sessions and submission (`gateway-api/correction-sessions`, `corrections`) | `correction_session` rows, external documents | `openSession`, `saveDraft`, `submitCorrections`; normalise, flatten, merge | external writes before a version check under the lock; payloads of two shapes, rows without names | no accepted edit is lost; versions only grow; the audit is the history |
| Document registry (`document-registry` of both services) | the types of a deployment; the gateway's cache of promises | validate and load, `getDocumentTypeOrThrow` | failures shared by several callers; upgrades under a running gateway | every accepted type can be edited by; one configuration per process |
| Outbox relay and publisher (`corrections/services`, `rabbitmq`) | outbox rows, a channel | periodic flush, flush by ids | two flushes of one row; no confirms; no reconnect | every submitted correction is announced at least once |
| Local object-store bootstrap (`infra/local/garage`) | two env files, Garage's layout, keys, buckets and grants | `init-credentials`, `bootstrap` | a run may end between any two calls and is repeated; hands in between | ready means isolated; a refusal has a cause |
| Live browser verification (`scripts/e2e`, `web/test/e2e-live`, `local-e1-tool.sh`) | a ledger directory, a worker, tool containers | spawn, interrupt, clean up; create accounts, stop the platform, register | the worker, a tool or the runner dies at any step | what a run leaves behind is on its ledger |
| Dependency gate (`scripts/dependencies`) | none | `check-policy`, `audit-policy` | several files that together decide what is installed | nothing passes that was not reviewed |

How the parts interact: a tab holds the *cookie lock* of the browser while its
GraphQL mutation runs; the gateway turns it into a platform call and a
`Set-Cookie`; reads carry the cookie, pass the tab's fence on their way out and
back, and are validated by the platform once per request.  Independently,
callers inside the platform write a document's source: a row in PostgreSQL is
reserved, the bytes are PUT, verified, and the object row is inserted with the
reservation's finalization in one transaction.  Corrections merge edits into a
payload by the document type that the gateway has cached from the platform, PUT
it to the external service, and leave an outbox row for the relay.

Each of these boundaries is modelled from both sides where both are in the
repository: `SessionCoordination` has the server as its effects on cookie and
sessions, which are the actions of `CookieExchange`; `RequestPath` has it hop by
hop, and implements them (`PathKeepsTheExchange`); `WebRegistration` has each call to
the platform as one step, `Registration` has its statements;
`SourceObjectReservation` has storage requests as steps of its callers,
`ArtifactStorage` has the adapter's own judgement of what comes back.

### Not modelled

* Users, roles and credentials (`users`, `auth/authorization`,
  `auth/credentials`): reads of a row, a pure check and one library call each.
  They occur in the models as values and choices.
* Migrations, seeds and `db/verify`: DDL, fixtures, and scenario files that are
  themselves tests.  The unique indexes the code relies on are modelled with the
  code; the fixtures' ownership rules are part of `LiveVerification`.
* Of the GraphQL layer: resolvers that hand their arguments on, the DateTime
  scalar, module wiring.
* `extraction-service` and `correction-service`: a bootstrap and a health
  endpoint each, so far.
* The user interface (components, theme, i18n, forms, the mock server): state
  local to a component, without a protocol.
* Logging, telemetry and output filtering: they follow the outcomes that are
  modelled.  Contracts, process wiring, lint rules, generated code, the
  vendored `mockServiceWorker.js` and the design prototype have no behaviour of
  the system.

### Runs

| Run | Instance | Question |
|---|---|---|
| `reservation` | `MCPlatform`, `SourceReservation.cfg` | the write path's inductive invariant and promises (2); beside it the S3 adapter (3), the identity limiter (8), the dependency gate (13) |
| `identities` | `MCSourceObjectReservation`, `SourceReservationIdentities.cfg` | two documents that claim one object; refinement; liveness (2) |
| `tabs` | `MCSessionCoordination`, `SessionCoordination.cfg` | the marker under storage faults and crashes; liveness (4) |
| `logins_and_logouts` | `MCSessionCoordination`, `SessionOrdering.cfg` | three sign-ins and sign-outs race (4) |
| `web_registration` | `WebRegistration` | one tab registers and confirms (5) |
| `request_path` | `MCRequestPath` | the path of a request, its roots, the JSON scalar (6) |
| `accounts` | `MCAccounts` | three calls on one user (7) |
| `corrections` | `MCCorrectionSessions`, `CorrectionSessions.cfg` | concurrent calls on a session, its payload (10), the registry (11) |
| `recovery` | `MCRecovery` | the mail dispatcher (9), the outbox relay (12), the bootstrap and the live verification (13): what fails, and whether all of it ends |
| `upload_after_expiry`, `suppression_after_failed_write`, `stale_draft_saves` | | expected violations (14) |

In `reservation`, symmetry is over the callers, of the write path and of the adapter;
the other subjects do not mention them.  Runs with a liveness property use no symmetry.
Deadlock is checked except where a subject comes to rest by its nature or its bound:
a JSON text is read once, the gate's changes are used up, a mail dispatcher has
stopped, all rows are published, the last command has been answered.

## 2. Source-object reservation

`SourceObjectReservation.tla` has any number of concurrent callers of
`createSourceObject`.  Each `pc` value is a point between two awaits; every
database transaction, storage request and answer is an action of its own.

| Model | Code |
|---|---|
| `reservation`, `documentObject` | the two tables, by document; unique indexes are `SharesIdentity` |
| `bytes`, `wire` | the bucket, and PUT requests that the storage may still execute |
| `FindReservation`, `FindObject`, `InsertPending`, `AdoptFinalized` | the statements of `acquireInTransaction`; an insert that hits a unique index rolls back and continues with `Reacquire`, the second transaction of `acquire` |
| `DecideAndApplyExisting` | `decideAndApplyExisting`: same identity, lease live, attempts left |
| `HeadObject`, `PutRequest`, `PutLands`, `PutConflicts`, `PutTimesOut` | `writeObject` |
| `VerifyWritten`, `VerifyFinalized` | the two uses of `verifyObject` |
| `Fail`, `Finalize` | the transactions of the same names, with their lease checks |
| `Tick`, `Crash` | the database clock; the process of a caller dies |

Abstractions.  The digest stands for all immutable metadata the code compares.
A lease id is a random UUID; as each grant increments the attempt count, a
lease is named by its attempt number.  Time is the number of ticks a lease has
left.  Other vendor errors (a 404 of PUT) behave as "unavailable" does and are
not told apart from it.  What a verification reports says little when it fails:
bytes that are as expected may be cut or damaged on the way, or lie under other
metadata, so "ok" is said of the right bytes only, and `integrity_mismatch` and
`invalid_response` of any (`Misread`; section 3 has the reading itself).  The
status of the document itself, which no step reads or writes, is left out.

`WriteOnceObject.tla` is the abstract promise: bytes appear once under a key, a
document is given its object once and after its bytes, and a caller is answered
"finalized" only for an object that is registered and stored.

Runs:

* `reservation` - two callers, one document, competing bytes, a stranger,
  possibly a legacy row or stray bytes, three attempts, leases of one tick.
  The inductive invariant `IInv`, whose conjuncts include that registered
  objects have their bytes and leases are exclusive; what the database has
  promised is kept (`PromisesAreKept`: a
  final state is final, a live lease is respected); and bytes are written once
  (`BytesAreWrittenOnce`).  Two callers and three attempts suffice for a late
  PUT to meet a successor and for that successor to have one of its own.
* `identities` - two callers and two documents that claim one object id, one
  also in a foreign bucket: unique identities (`IdentitiesAreUnique`), and the
  abstract specification (`WriteOncePromise`), in the presence of unique
  violations; and, under fairness, a source that is
  requested again and again is eventually final, refused for good, or out of
  attempts.
* `upload_after_expiry` - expected violation, see section 14.

An integrity failure is no promise: the row keeps `integrity_mismatch` as the reason
of its last failure, and a retry may find the same bytes in order.

Fairness: each step of a call in progress is eventually taken, because every
storage request and every lock wait has a timeout and the event loop runs on;
and the database clock advances.  Nothing forces a call to be made, a PUT to
land, or a storage request to succeed.

### Proofs

`SourceObjectReservationProofs.tla` proves, for any sets of callers, documents,
objects, requests, any lease length and any limit of attempts:

| Theorem | Statement |
|---|---|
| `TypeCorrect` | `Spec => []TypeOK` |
| `SafetyHolds` | `Spec => []IInv` |
| `IdentitiesStayUnique` | `Spec => []IdentitiesAreUnique` |
| `PromisesKept` | `Spec => PromisesAreKept`, from the next two |
| `FinalizedForever` | `Spec => FinalizedIsForever` |
| `LiveLeaseRespected` | `Spec => LiveLeaseIsRespected` |
| `BytesForever` | `Spec => BytesAreWrittenOnce` |
| `WriteOnceKept` | `Spec => WriteOncePromise` (refinement of `WriteOnceObject`) |

They rest on `ConstantsAssumption` alone: positive bounds, requests and legacy
rows made of the constants, absent values distinct from present ones.

The argument.  What one would like to say, "a registered object has its bytes",
is not inductive: nothing in it forbids a PUT that is still under way to
replace those bytes.  The code does not prevent such PUTs: a caller checks its
lease when it finalizes or fails, never before or after it uploads.  What makes
them harmless is `PutsAgree`: whoever is about to PUT, and every PUT on the
wire, was granted a lease of a reservation for exactly these bytes, which no
later grant can change, and the key is either empty or already has them.
`HoldersAreGranted` and `KnowledgeIsStable` say what a caller's `pc` stands for
(after verification the bytes are there; a failure tells nothing of them),
and `RowsAtHome` files rows under their documents.  The step
proof goes action by action, grouped by what they disturb: local steps, steps
on bytes (`PutLandsSafe`), steps on rows (`TickSafe`, `FailSafe`,
`InsertPendingSafe`, `AdoptFinalizedSafe`, `DecideSafe`, `FinalizeSafe`).
The refinement maps `documentObject`, `bytes` and the answers of callers; only
`PutLands` and `Finalize` are abstract steps that change something durable.

Liveness (`RetriesSettle`) is checked by TLC only.

## 3. S3 artifact storage

`ArtifactStorage.tla` is the adapter, with one key and the callers that use it
at the same time, against a provider that answers late, not at all or with an
error, may carry out a PUT whose caller has given up or whose condition no longer
holds, may return a damaged or cut body, and may hold an object stored there by
other means.

| Model | Code |
|---|---|
| `call[c]` | a call of one of the four operations, and its answer |
| `Invoke` | the arguments; a location outside the adapter's bucket or with another object's key is refused before any request |
| `Read` | `getObject` and `verifyObject`: location, metadata, length and digest of the whole body, what the caller expected |
| `head`, `SendPut`, `ServePut`, `GiveUp` | `headObject` and the two requests of `writeObject`; 409 and 412 become `already_exists` |
| `written`, `call[c].taken` | history: what puts have stored, and whether the key was in use before the call |
| `Accident` | bytes rot, or someone stores an object without the adapter's metadata |

Abstractions.  A body is its own digest; all bodies have one length but a cut
one.  Locations are this key or another; telemetry is left out.

Run `reservation`, subject `adapter` - two callers, two bodies, one accident, two
puts under way at most (`MaxPuts`).  `SuccessVouches` says that what a get returns
and what a verification confirms was stored here whole by a put that declared it, a
verification's being what its caller expected; that what a write reports was stored;
that a write which begins when the key is in use is never told of success; and that
"already exists" is only said of a key that has an object or is about to.  Two
callers let two puts be under way at once, each possibly abandoned; a second
accident could only repair or repeat the first.

Garage does not enforce If-None-Match atomically
(`docs/decisions/0003-local-s3-and-recovery-boundary.md:90`), so a put may be stored
over an object and answered with success: two writers that both find the key empty may
both succeed, with different bodies.  No property says otherwise.  That the bytes of a
registered object are written once rests on the reservation before the write and the
verification after it (section 2).

`AdapterVouches` (in `PlatformProofs`) proves `SuccessVouches` for
any callers, bodies and number of puts and accidents, assuming that the cut body is
none of the bodies, and that `Nothing` is no body, object or answer
(`AdapterAssumption`).  It needs that a put which is awaited is its caller's only one
and has the body the caller was given (`PutsAreAwaitedOnce`), that the provider
declares only what a put has declared (`DigestsAreWritten`), and that the object a
write found before it began is there for good and keeps it from a put
(`TakenStaysTaken`).  TLC found nothing against the invariant with two callers, two
bodies and any number of puts (1,574,630 states).

## 4. Web session coordination

`SessionMarker.tla` has the transitions of the marker
(`session-marker-transitions.ts`): an epoch, a logout intent with its
revocation, and the one cookie action under way.  `SessionCoordination.tla`
has the tabs that apply them.  What is around the tabs, the cookie jar, the
requests on the wire, the gateway's effects on both and the sessions the
platform accepts, is `CookieExchange.tla`, which `SessionCoordination` extends:
a specification of its own, of what a browser can rely on.

| Model | Code |
|---|---|
| `marker` | the JSON record in localStorage |
| `tab[t]` | `CoordinationSnapshot` and the bootstrap resolution of a tab |
| `signingIn`, `signingOut`, `held`, `reply` | where a tab's `signIn` and `signOut` await, the id of the dispatched action, what its request returned |
| `Refresh`, `Seen`, `Publish` | `refresh` and `publish`: a new revision voids resolutions, reads and queued sign-ins |
| `StartSignIn`, `CheckSignIn`, `DispatchSignIn`, `SettleSignIn` | `useSessionActions.signIn` and the stages of `SessionCoordinator.signIn` |
| `StartSignOut`, `RecordIntent`, `DispatchSignOut`, `SettleSignOut` | the stages of `signOut` |
| `InspectPending`, `InspectionTimesOut` | `inspectPending` with the acquisition deadline |
| `StartRead`, `ServeRead`, `DeliverRead`, `CacheFails`, `RetryRead` | `reconcileSession`, the session fence and the user's retry |
| `ServeSignIn`, `ServeSignOut` (`SignInServed`, `SignOutServed`) | `BrowserSessionService` |
| `Arrive`, `Lose`, `RequestTimesOut` | the network, and the deadline of `requestCookieAction` |
| `StorageFails`, `Close`, `Open` | localStorage throws; a tab is closed or crashes; one is opened, or comes back |

Abstractions.  A session is named by the sign-in action that created it; a
session whose credential no cookie holds or will hold is of no use to anybody
and is left out.  Revisions are only ever compared with the current one, so
a tab remembers what is valid at the current one.  localStorage is one
register for all tabs.  The marker lock is held for synchronous work only and
is always obtained; the cookie lock, held for a whole request, is modelled
with its acquisition deadline.  A decision of the code that first rereads the
marker is an action enabled in an up-to-date tab, `Refresh` being the reread.
Removal of the marker by the user or another program is external and left out,
as is more than one bootstrap read at a time: a revision has one.

Runs:

* `tabs` - two tabs, one of them with storage and cache faults, crashes, lost and
  late answers, two calls: the marker stays well-formed and consistent and
  covers every cookie request that may still take effect (`MarkerIsSound`), and
  cannot leave a state that requires a reset (`ResetIsAbsorbing`); under
  fairness, a pending action that is attended to is settled or marked unknown once
  localStorage works again (`PendingIsSettled`).
* `logins_and_logouts` - two tabs without faults, three calls, which is what a
  login, a logout during it and a newer login take: no live session is
  forgotten when signing in is possible again, and a logout that reports success
  has revoked what was live (`SessionsAreAccountedFor`); identities shown and
  resolved are the cookie's (`ShownIsCurrent`); and a logout intent is ended
  only by a later sign-in (`LogoutIsNeverLost`).
* `suppression_after_failed_write` - expected violation, see section 14.

`PendingIsSettled` has two premises beside a working localStorage.  From some time on
no tab is closed in the midst of an inspection.  And the action is attended to again
and again (`Attended`): its tab waits for the answer, or a tab has asked for the
cookie lock and can be granted it.  The second is needed, for a tab inspects only
when it comes to see a pending action (`useSessionBootstrap.ts:70`), and a lock that is
not granted in time is swallowed.  If one tab has given up in this way and the action's
own tab is then closed, the action stays pending until a tab is opened, and TLC shows
that without the premise; without the first it shows a tab closed in each inspection.

Crashes, timeouts and lost answers happen in every run; `FaultyTabs` limits only
storage and cache faults.  Tabs are symmetric, and a symmetry set is used where no
liveness property is checked.

Fairness: `WF(TabStep(t))` for an open tab.  A request has a deadline, a free lock is granted,
rereads follow storage events, and React runs the effects of a tab, as long as it is
open.  Nothing forces the user to act or to open a tab, the server to answer, or the network to
deliver.

### Proofs

`SessionCoordinationProofs.tla` proves, for any tabs, any of them faulty, and any
number of calls, all safety properties of both runs (`MarkerCanBeTrusted`,
`SessionsAreNotForgotten`, `ResetCannotBeSkipped`, `LogoutPrevails`,
`ShownIsTheCookies`) from one inductive invariant (`CoordinationInvariant`) and
the module's assumption, of which it needs that `NoSession` is not the name of a
session.

The argument.  "No live session is forgotten" says nothing of how sessions come
to be live, so the invariant follows one cookie action through the system.  The
cookie lock has one holder (`LockIsExclusive`) and the pending action is its own
(`HolderOwnsAction`) until its tab dies or times out, after which the action is
unknown and only a sign-out resolves it; therefore at most one request is under
way, and which sessions it can leave is known by its kind and stage
(`RequestsAreOrderly`), what its answer vouches for (`RepliesAreSound`), and, by
the state of the marker, which sessions may be live at all (`SessionsAreKnown`:
when a sign-in may begin, the cookie's; while one is pending, the new one; after
a confirmed logout, none).  Ids are handed out once (`IdsWereHandedOut`), so an epoch
never recurs, and a tab that has seen the marker as it is now knows that nothing
has happened since (`TabsAreFenced`).  `DebtsAreSettled` is what a sign-out that
returns owes.  The step proof has a lemma for each action.

`TabsKeepToTheExchange` proves that a behaviour of the tabs is one of
`CookieExchange`: nothing the tabs do touches cookie, sessions or wire but to send
a request under an id that no session has.  All that these theorems assume
of the server is therefore the exchange, and section 6 proves that of the server.

TLC checked the invariant with two tabs, one of them faulty, and two calls
(518,736 states) and with both faulty and three calls (5,242,374).

## 5. Web registration

`SessionFence.tla` is the Apollo link through which every operation of a tab
passes, over a coordinator that keeps of the marker only what a read or a
registration may do: other tabs, sign-in and sign-out are whoever else writes it
(`MarkerChanges`).  `WebRegistration.tla` adds the registration pages, the
confirmation attempt of the document, the network, and the registration of the
platform with each call in one step.

| Model | Code |
|---|---|
| `durable`, `coordinator` | the marker, and a tab's snapshot of it with what it resolved to |
| `fenced` | operations behind the fence: `retired` by a publication since they captured their revision, `overtaken` if the page that submitted them was older |
| `Dispatch`, `Deliver`, `Classified` | `createFencedObservable` and `classifySessionFailure`: reread, compare, deliver or cancel |
| `StartMe`, `StartInbox`, `DeliverRead`, `RetryRead`, `Notice` | bootstrap, the inbox, the boundary's retry, a storage event |
| `OpenDocument`, `Confirm`, `SettleConfirm`, `ConfirmTimesOut` | `main.tsx`, `ConfirmationAttempt` |
| `SubmitResend`, `SettleResend`, `ResendTimesOut`, `CountdownEnds` | `useResendConfirmation` |
| `SubmitSignUp`, `SettleSignUp`, `SignUpTimesOut` | `SignUpPage`, `useSessionActions` |
| `Redirect`, `FollowLink` | the routes |
| `ServeRegistration`, `ServeConfirm`, `TokenExpires` | the platform, the limits and the gateway |

Abstractions.  One mailbox; expiry, cooldown and limits may strike at any time; a
link may be opened as soon as it has been issued.  React's commit of a new
state is part of the step that causes it.

Run `web_registration` - two links and three events, an event being a command
or a change of the marker.  Two links are what a replaced one takes; three
events allow a retry after a lost answer, or a change of session between a
command and its answer, and one more command to overtake it.
`PageIsTruthful`: a confirmation that a page reports was made with its own link,
a link that it gives up can confirm nothing more, and a button waits only for a
request that was sent.  `OutcomesAreFinal`: late answers of earlier clicks
change no definite outcome.  `GenerationsAreKept`: identity and rows on the screen
are of one generation of the session, and the page that follows a sign-up is
earned in the generation it was submitted in.  `BusyIsSettled`: no
button is blocked for ever.

Fairness: the deadlines of the three requests, which are timers of the page.
Nothing is assumed of the network or of the platform.

`WebRegistrationProofs.tla` proves the three safety properties for any number of
links and events (`PagesAreTruthful`, `OutcomesStayFinal`, `GenerationsStayApart`).
An outcome is true because the answer it is drawn from was true when it was given
and a link that is not current never becomes it again (`AnswerIsTrue`), and
because an answer reaches only the attempt or the page that its request was sent
for (`ReachesItsPage`, `AttemptIsOfTheDocument`).  A screen is of one generation
because every publication removes what it retires, so that whatever waits behind
the fence was asked for at the revision the tab is at (`FencedAreOfTheRevision`,
`ScreenIsOfTheRevision`).  TLC found nothing against this invariant within the run's
bounds (694,755 states).

What does not hold, and no property claims: that a confirmation whose answer was
lost is told so.  Its token is consumed, and the retry is told that the link is
invalid.  A sign-up may be accepted by the platform and cancelled by the fence,
and a sign-up's promise outlives its page, so its acceptance navigates from
wherever the user has gone.  The countdown of a resend only disables the button
of one mount.

## 6. A request through the gateway

`RequestPath.tla` follows one request of a browser at a time from its arrival to
the verdict that the web application draws from the answer.

| Model | Code |
|---|---|
| `Parse`, `Protect` | the hooks of `gateway-request-protection.plugin.ts` in their order: form, sole roots, charges |
| `charged`, `WindowExpires` | the windows of `AuthIpLimiter` for one address |
| `StartPublic`, `Guard`, `Resolve` | the resolvers behind `@PublicBrowserSession` and `BrowserSessionGuard`; mutations one after the other, queries together |
| `validation` | the validation that the fields of one request share |
| `Receive`, `TimesOut`, `Settle` | `PlatformHttpTransport` with its response policies, `mapBrowserSessionError`, `maskGraphqlError` |
| `Serve` | a call at the platform, and its exception filter |
| `Arrive`, `GiveUp`, `Verdict` | the browser: the cookie, and which errors the web application takes for definite |

`RootFields.tla` is `root-field-inspection.ts`: the worklist over a document that
has not been validated, with fragments that are shared, cyclic or missing, and
`@skip` and `@include` on variables of any kind.  It is compared with
what an engine executes (`FoundIsExecuted`).  `LooseJson.tla` is `json.scalar.ts`:
three parsers of one text, each with the grammar it has in the code, tried in
their order; `PayloadIsKept` compares what is stored with what a client wrote in
JSON, in GraphQL or by hand.

Abstractions.  A body is known by the schema it satisfies.  An operation's
effect on the platform is told by its root and its session.  A JSON text is a
sequence of tokens.  A window that expires during a request makes its difference
when the next request is charged.

Run `request_path` - two requests of up to two roots, two attempts per window:
two requests let an abandoned command of the first land during the second, two
roots share a validation and a window.  The browser starts with no cookie, an
unreadable one, or one whose session is live or has ended.  Documents have
an operation of up to two
selections and three blocks they can spread; texts are all of up to four tokens,
objects with one member and three tokens after its key, and payloads of nested
lists and objects in each style.

* `VerdictsAreSound`: what the web application calls accepted or rejected is what
  happened and cannot change any more, whatever was lost, cut or late; and
  fields of one response do not disagree about the session.
* `CookieIsKept`: an accepted sign-in leaves its session in the browser, an accepted
  sign-out leaves none (`CookieFollowsVerdict`); and to the tabs the whole path is
  `CookieExchange`.  `CookiePath.tla` has the mapping: of the requests, those that
  sign in or out, with the stage that their root tells; of the sessions, those
  whose credential a response has carried, which the history variable `carried`
  remembers.  A session that a command creates after the gateway has given it up
  is live at the platform, and nobody will ever hold its credential.
* `PolicyIsKept`: activity is recorded only for product operations that are
  executed, and no more commands are sent on a window than are allowed.
* `InputIsRead`: the roots on which both decisions rest are the engine's
  (`FoundIsExecuted`), and payloads are kept (`PayloadIsKept`).
* `RequestsEnd`: a request is answered whatever the platform does, and the
  inspection of any document ends.  Fairness: the gateway's event loop runs and
  its timers fire (`WF(Executes)`, `WF` of the timeouts); the inspection is a
  loop.

What does not hold, and no property claims: a string such as `"12"`, `"null"` or
`"true"` becomes a number, null or a Boolean; strings nested in a GraphQL
literal are read once more, strings nested in JSON are not; and a variable inside
an inline literal is refused.

### Proofs

`RequestProofs.tla` proves `VerdictsAreSound`, `CookieIsKept` and
`PolicyIsKept` for any number of requests, of roots in one and of attempts in a
window (`VerdictsHold`, `PathKeepsTheExchange`, `PolicyHolds`; `PathAssumption` is the
module's own: the limits are naturals, and an absent or malformed
cookie is no session).  Their invariant says what each result of a root stands
for.  A call that the platform has not carried out yet belongs to a root that
still waits for it, or is a command that the gateway has given up and reported as
unavailable; one that was refused was not carried out; and no root has two
(`CallsAreTracked`).  Hence a result tells what has been committed (`RootsAreTrue`),
and the browser's verdict is the result's or uncertain (`VerdictsFollow`).  The
protected fields of a request share one validation (`SessionIsShared`), and a field
that touches the cookie is alone in its request (`CookieIsTold`).
`CommandsAreCharged` follows from counting: what was sent on a window and what the
request has still to send was charged (`ChargesCover`).  TLC checked the invariant
with two attempts and two requests of two roots (430,055 states), one request of
three roots (154,860), and three requests of one root (253,612).

`PathKeepsTheExchange` is a refinement: every step of the path is, to the tabs, a step
of `CookieExchange` or none.  The steps that count are far apart from those that do
the work.  The platform commits a sign-out first, which is the end of a session;
the command's answer, if it reaches the gateway, becomes the response, which says
`ok` of a session that has ended already.  So `CookieIInv` adds to the invariant that a
pending sign-out is for the browser's own cookie, and that an answer which says
success is of a session no longer live, nor ever again (`RevocationIsTheCookies`);
that a credential is carried by the response that sets it and by no other, and a
sign-in that is still to be served has none (`CarriedIsKnown`); and what stage of the
exchange each form of the response stands for (`AnswerIsFormed`).  A lemma for each
action shows its step of the exchange: most are none, an answer or a refusal serves
the command, `Serve` and `SessionEnds` may end a session, the browser's two are
`Arrives` and `IsLost`.

TLC checked `CookieIInv` with the limits of the run (494,790 states).

`RootsAreFound` proves `FoundIsExecuted` for every document: however fragments
are shared, skipped, missing or cyclic, an inspection that ends without a refusal
has found the fields that an engine executes.  These are the fields of the least
set of blocks that contains the operation and, with a block, all that it spreads.
Nothing is computed by recursion, so no induction is needed: whatever a block that
has been visited leads to is visited or on the worklist (`WorklistIsSound`), and
when the worklist is empty the visited blocks are closed; and each of them
is in every closed set.  The hypothesis `Written` says that a document's blocks are
sequences of selections and that an inline block exists; a fragment need not.

## 7. Accounts: registration and browser sessions

Registration and sessions share the users table, its row locks and the database
clock, and nothing else; `AuthDatabase.tla` has these and the life of a call.
`Registration.tla` and `AuthSessions.tla` each add their actions and
properties, and `Accounts.tla` puts them together: the calls that run at
once are of any kind, so a confirmation, a resend and a sign-in of one user
meet at one lock.

PostgreSQL runs these transactions at READ COMMITTED, so each statement is an
action: it sees what is committed when it starts, and the clock may advance
before the next.  In every transaction the writes come last; the action that
writes commits.

| Model | Code |
|---|---|
| `call[c]` | a call: what it does, the statement it is at, what it has read (`at`, the clock; `seen`, the last activity) |
| `lock`, `LockUser` | `findOne` with `pessimistic_write`; for a sign-up also the row it has inserted |
| `CheckEligibility`, `Issue`, `EnqueueMail` | `issueIfEligible`, and `enqueueCommitted` after the commit |
| `Confirm`, `ReadToken`, `Consume` | the discovery, the reading under the lock, and the conditional update of `confirm` |
| `SignIn`, `ReadClock`, `InsertSession` | `authenticateVerifiedUser` and `createBrowserSession` |
| `Validate`, `LoadSession`, `RecordActivity`, `ReloadSession` | `validateBrowserSession`, which reads the clock once and then the row up to twice |
| `SignOut`, `FindSession`, `Revoke` | `signOutBrowserSession` |
| `Abort` | lock timeout, database failure, restart, lost acknowledgement |

Abstractions.  A credential is the name of its row: digests match, and only who
has a link or a cookie uses it.  Passwords are right, and permissions, which
the service never changes, are sufficient.  Which requests the identity limiter
admits is the subject of section 8.

Run `accounts` - three calls at once, one user (absent or seeded), two tokens,
one session, time up to four, with a cooldown and a write interval of one tick,
tokens and idle time of two and an absolute life of three.  Three calls let an
extension race another and a sign-out; four ticks let a token be replaced after
its cooldown and a session be extended up to its absolute end.  It shows that
one link decides (`NewestTokenConfirms`), also when a resend waited for a
confirmation or a token expires between its reading and its use, and that
concurrent requests cannot beat the cooldown (with the former,
`RegistrationsAreSerialised`); that no validation started after a sign-out
returned is accepted, that sessions end within their bounds however extensions
race, and that locks are held by calls that need them (`SessionsAreControlled`).

`AccountsProofs.tla` proves all three properties for any callers, users, tokens,
sessions and durations (`RegistrationsSerialise`, `SessionsStayControlled`,
`VerifiedByNewestToken`).  What a call has read before its last statement is of use
only if it is still true then, and `CallsKnow` says of each step what is: under
the lock of its user nobody else writes that user or its tokens, so an eligible
user stays eligible; session rows are never deleted; and `extend` compares what
was read with what is there.  `CurrentIsNewest`, a usable token is the newest of
its user, turns "one usable token" into "the newest link decides".
`AccountsAssumption` has finitely many tokens, positive durations (the cooldown may
be zero) and an absent value that is no name and no row.
TLC found nothing against the invariant within the run's bounds (1,063,144 states).

What does not hold, and no property claims: since a validation judges and
extends by the time at which it started, a slow one may extend a session that a
faster one has just refused as idle for too long.

## 8. Sign-in and registration limits

`IdentityLimiter.tla` is `AuthIdentityLimiter`: two bounded maps of windows, and
the password checks that a reservation of an attempt admits.  A password check
is the await between `reserveSignIn` and its `settle` callback; everything else
is synchronous, hence one action.

| Model | Code |
|---|---|
| `signIn`, `registrations` | the two maps, by key |
| a check and its window | the closure of `settle`, which keeps the window it was admitted to, whatever has become of the map's entry |
| `ReserveSignIn`, `RefuseSignIn`, `Settle` | `reserveSignIn` with its sweep and limits, and the callback |
| `AdmitRegistration` | `admitRegistration` with its sweep |
| `LimiterTick` | the clock the limiter is given |

Abstractions.  The digest of an email is the email; a time is a tick; the two
maps have the same capacity.

Run `reservation`, subjects `signIn` and `signUp` - two emails, four checks, one key
of capacity, two attempts per window, windows of one tick, time up to two.  The second email meets a full
table; four checks let one window be succeeded by another with checks of both
in flight, settling in any order; time two lets a window expire twice.  It
shows that no email gets more guesses in a window than the limit, that each
pending check is counted in the state it was admitted to and no entry in use is
evicted, and that the maps stay within their capacity (`LimitsHold`), and that a
window once begun loses what it has admitted only by a success or by its end
(`BudgetsAreKept`).  The two maps share nothing but the clock, so each is
explored on its own; checks are named in the order of their reservation.

`PlatformProofs.tla` proves both for any emails, checks, limits and capacity
(`LimitsAreKept`, `NoRefunds`).  The limit on guesses is not inductive by itself,
because a window may succeed another while checks of both are in flight and
`settle` writes to the window a check was admitted to.  What is inductive: in a
live window the failures are all of the rejections, and with the checks
pending in its state, whichever window they are of, they stay within the limit
(`LiveWindowsCount`); a state has one window at a time, made for it
(`NamesAreOwned`).  `LimitsAssumption` has finitely many emails and checks, positive
limits and an absent value that is no check and no window.  TLC checked the
invariant with two emails, three checks, two attempts and time up to three (1,043,596 states).

## 9. Mail dispatch

`MailDispatcher.tla` is `BoundedMailDispatcher` with the `SmtpMailAttempt` of
each mail.  JavaScript runs each callback to its end, so each callback, with the
dispatching and the cascade of cancellations that it causes, is one action;
what is interleaved are the callbacks: deadlines, results, shutdown, and the
events of the SMTP connection.

| Model | Code |
|---|---|
| `waiting`, `active`, `stopped` | the fields of the dispatcher |
| `mail[m]` | the receipt: admission, then what `completion` resolves to |
| `connection[m]`, `result[m]` | what `SmtpOwnedResources` owns; the promise `result` of the attempt, resolved before the dispatcher hears of it |
| `DispatchWaiting` | the loop: takes mails while workers are free; a start that throws settles its mail and frees the worker |
| `CancelSucceeds`, `CancelFails` | the two ends of `finish`: offer the worker to the queue, or stop for good |
| `Connected`, `Authenticated`, `Submitted`, `Fail` | the callbacks of the attempt, void once it is settled |

Abstractions.  Messages are valid and each is enqueued once; greeting, STARTTLS
and login are one phase; reports of outcomes are left out.

Run `recovery`, subject `mail` - four mails, two workers (the code's number) and
a queue of one: one mail waits while one is refused, and the freed worker has a mail to take.
It shows that connections never outnumber workers, those left behind by a
failed cancellation included, and that no wake-up and no worker is lost
(`MailIsBounded`), that outcomes are final
(`SettledOnce`), and, under fairness, that every admitted mail is settled (part
of `EverythingSettles`).
Fairness is `WF(Deadline(m))` alone: timers fire; nothing is assumed of the
server.  The dispatcher may stop for good, so deadlock is not an error.

`RecoveryProofs.tla` proves both for any mails, workers and queue
(`BoundsAreKept`, `SettledForGood`, from `DispatcherInvariant`).  After a
cancellation has failed its worker is gone and its connection may not be, so
counting workers is not counting connections.  The invariant: until the
dispatcher stops there is a worker for every open connection; from then on there
are neither workers nor a queue (`WorkersOwnConnections`), so nothing is started
again and what is open can only become less.  What no worker has been given has no
attempt (`AttemptsAreTheWorkers`).  The loop that takes mails while workers are free
is one step, which says how many it takes and which of them fail to start; the
lemmas about it hold for any number.  Only that there are finitely many mails, one
worker at least and room for one mail is assumed (`MailAssumption`).  TLC found
nothing against the invariant with four mails, two workers and a queue of one
(4,925 states).

## 10. Correction sessions

`CorrectionSessions.tla` is the session of one document under concurrent calls
of `openSession`, `saveDraft` and `submitCorrections`.  All three read the row
without a lock and await an HTTP request before they write.

| Model | Code |
|---|---|
| `session`, `outbox` | the row of `correction_session`; the events of `correction_event_outbox`, by the version each announces |
| `stored` | what the external persistence service has held for the document |
| `call[c]` | a call between two awaits; `seen` is the entity it works on, `loaded` the row that TypeORM's `save` selects |
| `accepted` | history: the saves and submissions that have committed, with the version each was based on |
| `OpenSession`, `FetchDocument`, `InsertSession` | `openSession`; the unique index on `document_id` decides between two |
| `SaveDraft`, `PutDocument`, `SelectForSave`, `UpdateSession` | `saveDraft`; TypeORM updates the columns in which the entity differs from the selected row, by primary key |
| `SubmitCorrections`, `PutDocument`, `CommitSubmission` | `submitCorrections`; the transaction locks the row, compares the version and writes |
| `Throw`, `PutDocumentFails` | a refused input, a failed or timed-out request, a failed statement, the end of the process |

Abstractions.  A payload is a set of edits on top of the source; the merge over
document paths is union; normalisation, document paths and audit rows are
`CorrectionDocuments`'s.  The
submission's transaction is one action: its only read is under the row lock,
others see its writes at the commit, and an update of the row waits for it.
`FetchDocument` may read whatever the store has held, as a late PUT may bring
it back.

Runs:

* `corrections` - two users, two calls, one edit, four commands: the creator
  owns the session, also when two users open it at once (`TypeOK`); submissions
  commit one after the other, unless a stale save sets the version back
  (`SubmissionsAreSerialised`); and every draft of the session is one that the
  store has held (`DraftHasBeenStored`).  Four commands let two saves and two
  submissions meet in any order; two calls suffice, as a call that comes third
  sees only what these committed.
* `stale_draft_saves` - expected violation, see section 14.

`CorrectionSessionsProofs.tla` proves the three invariants for any callers,
users, edits and bound (`SessionsHaveOneOwner`, `Serialisation`,
`StoreIsNeverBehind`) from their inductive invariant (`CorrectionsInvariant`) and
`CorrectionsAssumption`, which only tells absent values from present ones.
`SubmissionsAreSerialised` is not inductive: it
relates two commits, and says nothing of when the second may happen.
`BasesAreBehind` does: the session's version is above the base of every
accepted submission, or a save based below has been accepted since.  A
submission moves the version up from its base; a save writes the version after
its own base, so if that is not above the base of a submission, the save is the
witness.  `VersionsAreCounted` and `CallsRemember` bound versions by the number
of accepted commands and tie what a call remembers to its owner;
`PayloadsAreStored` says that a call past its PUT has its payload stored.  Steps
that leave the database alone are covered by one lemma (`CallMoves`), and both
kinds of acceptance share `AcceptedKeeps`.

### The payload

`CorrectionDocuments.tla` is what the three calls do to a payload: flat payloads
of the older shape are rewritten (`normalizePayloadForDocumentType`), the fields
of the type are shown with their values (`flattenFields`), edits of shown
fields are merged (`applyEdits`) with an audit entry for each change, and a
client may replace the draft as a whole.  Document paths follow
`document-paths.ts`: arrays are addressed by digits, missing ancestors are
created in the shape that the next segment asks for.  The calls come one after
the other; which of them are let through is `CorrectionSessions`'s matter.

Run `corrections`, subject `payload` - four document types (nested
paths, repeated rows, a list of scalars, a reference by index), eight
payloads (either shape, both at once, null and wrong ancestors, rows with an id, a
lineId, one id twice or none), clearing and setting a field, submissions
of one and two edits, edits that mix up two fields or name none, and two
commands.  `EditsAreAudited`: what is read back of a submission is what was typed
last, and what it did not touch is unchanged; a refused one changes nothing; and
the audit leads from the draft it starts with to the values shown, each entry
having found the value that it calls the previous one.  `TypesAreUsable`: whatever
is shown can be edited, as long as no two rows go by one name; reading a session
again changes nothing.

What does not hold, and no property claims: rows that share an id share their
fields' ids, and the last one gets an edit of both.  An edit to null of a
field that is absent is audited as a change from null to null.  A scalar in the
place of an object is overwritten without an audit of its own.  The source's
value of a field in a row is looked up under the path the row has in the draft.

## 11. Document types

`DocumentTypes.tla` is the validation of a type's file, `DocumentRegistry.tla` the
platform that loads all files when it starts or does not start, the deployment
that replaces them, and the gateway that keeps the promise of each type's
answer.  Run `corrections`, subject `types` - two calls, three requests, five
directories (an upgrade, a type that appears, one type twice, a bad version, no
file).  `TypesAreUsable`: the next call is never given an old failure, and all
calls of one process work with one configuration of a type, although the
platform is upgraded under them.  The gateway never refreshes a type; a new
version reaches it when it restarts.  With the types that the validation refuses
the payload run would break: they are among the types it chooses from, and
only `ValidDocumentType` keeps them out.

`OneVersionOfAType` (in `CorrectionSessionsProofs`) proves the part about the gateway
(`RegistryIsShared`) for any calls, directories and number of requests.  A promise
that has not failed is the one in the cache (`CacheIsCurrent`): a request is sent
only for a type that is not cached, and its failure empties the cache before
anybody hears of it.  TLC found nothing against this invariant within the run's
bounds (8,386 states).

The paths of a type are validated for being there, not for their segments: a
path made of dots alone passes, and has none.

## 12. Outbox relay

`CorrectionOutbox.tla` has the rows of the outbox, known by their order of
creation, and the agents that flush them: each submitting call flushes its own
row after the commit, and the relay's timer the oldest unpublished rows.  Each
works on rows it has read before; none looks at a row's status again.

| Model | Code |
|---|---|
| `flush[a]` | the loop of `flushOutboxByIds` or `flushPendingOutbox`: the rows still to do and where `flushRow` is |
| `FlushPendingOutbox`, `isFlushing` | a tick of the interval |
| `Publish`, `PublishFails` | `publishToQueue`; `getChannel` throws once the connection has closed |
| `SavePublished`, `SavePublishedFails`, `SaveFailure`, `SaveFailureFails` | the two saves of `flushRow` and their failures, which may have been done all the same |
| `wire`, `queue`, `lost`, `Deliver`, `ConnectionCloses` | the channel's buffer and the broker (external) |
| `Exit`, `Start` | the process ends, by a crash or by the unhandled rejection of a timer's flush; `connect` of a new one succeeds |

A row save is one action, although TypeORM selects the row before it updates
it: a save that finds its status there changes nothing, as of the select;
any other writes its status, as of the update.

Run `recovery`, subject `outbox` - two callers and the timer, two
rows, scans of one row (so that a backlog takes several), two faults: a row is published only after its
event was sent, and an agent has rows to do exactly while it flushes
(`OutboxIsSound`), and every committed event is published for good if the gateway
is up and connected from some time on (`EventsArePublished`, part of
`EverythingSettles`).  Two faults allow
a crash and a failed save, or a failure saved over a publication.  Fairness: the
timer fires and the event loop resolves what a flush awaits; nothing restarts
the gateway or the connection, which the code never opens again.  The run may stop when all rows are
published and the faults are used up, so deadlock is not an error.

`RecoveryProofs.tla` proves `OutboxIsSound` for any constants (`RelayIsSound`;
`PublicationsWereSent` is the part about events), from the fact that whoever is
about to record a publication has sent the event (`SentInv`).  That a scan reads
rows that exist, the oldest of those that are unpublished, is a fact about ranks in a
finite set of numbers; it is proved from every such set having a least element, not
by induction, which the provers do not have.

What does not hold, and no property claims: that a published event has reached
the queue.  The channel has no confirms, so what is in its buffer when the
connection breaks is lost while its row says published.

## 13. The repository's own machinery

### Local object store

`GarageBootstrap.tla` is `init-credentials.mjs` and `bootstrap.mjs`, call by call,
against what Garage has stored.  A run may end between any two calls (`Fail`), the
last of them having had its effect, and is started again; between runs, and
beside one until it begins to verify, the files are edited, the volumes
deleted, and keys, buckets and grants made with Garage's CLI.

| Model | Code |
|---|---|
| `infra`, `platform` | the two env files |
| `garage` | layout version, roles, staged roles; keys, buckets, grants; objects left by probes |
| `InitCredentials`, `SyncPlatform` | `init-credentials.mjs`: fill in what is unset, refuse what is malformed, copy the Platform's part |
| `configuration` .. `AllowBucketKey` | `bootstrap.mjs`: validation, readiness, layout, keys, buckets, all grants withdrawn, own grants given |
| `HeadOwnBucket` .. `HeadAnonymously` | `verifyS3`, with the probe that has to be removed |

Run `recovery`, subject `bootstrap` - two services, two readiness attempts, three
runs and one change from outside: an interrupted run, a change, a repetition, and
a run after that.  `ReadyMeansIsolated`: a run that reports ready leaves the
layout, keys and grants of the env files, whatever earlier runs and hands had
left.  `RefusalsHaveACause`: while nobody meddles, a run is refused only over a
layout that was staged and not applied, and each key in Garage is one the file
can still open.  That every run ends is part of `EverythingSettles`.  Fairness:
`WF(Proceed)`, since each call has a timeout and each wait a last attempt.

Not claimed, because the code does not provide it: a run that ends between
staging and applying the layout makes all later runs fail until the volumes are
deleted, although ADR 0003 calls the bootstrap idempotent.  A repetition
withdraws the services' access for a moment.  A service's right to write to its
own bucket is granted and never verified.  A key whose secret differs from the
file's is accepted by its id, and only `verifyS3` finds out.

`RecoveryProofs.tla` proves both for any services, attempts, runs and changes
(`ReadyIsIsolated`, `RefusedForACause`), assuming that the services' names are
different strings and that unset and malformed values are told from keys
(`GarageServices`).  Changes from outside are made until the run begins to verify;
what a run has read (`FilesAreRead`), found in order (`LayoutIsChecked`), given
(`OwnAccessIsGiven`) and seen (`VerifiedSoFar`) therefore holds until it reports.
Refusals need the whole history: while nobody meddles there is one set of
credentials, on file before Garage learns any of it, one layout, and no grants but
the services' own (`Undisturbed`).  TLC checked the invariant within the run's
bounds (6,868 states), with two changes (78,879) and with three services (17,968).

### Live browser verification

`LiveVerification.tla` is the runner (`run-live.mjs`), its worker, the tool
containers both start, and the platform as these see it.

| Model | Code |
|---|---|
| `ledger` | the run's directory: scope, ownership of a registration, intent to stop the platform |
| `child`, `worker`, `job` | the test process; what it is doing; tools that outlive it |
| `Preflight` .. `Join` | the runner until the worker has ended, by itself, on request or by force |
| `RestorePlatform` .. `Finish` | its `finally`: each part may fail, and then the ledger is kept |
| `CreateAccount` .. `WorkerExits` | the fixtures, the owned outage, the registration |
| `StartContainer` .. `DeliverMail` | tools and requests on their own way |

Run `recovery`, subject `verification` - two accounts, two mails.
`NothingIsForgotten`: whatever is left of a run, at any time and whoever died, the
directory that names it is still there, unless a tool whose worker was gone
acted behind the cleanup's back.  The exception is real: a container that
`docker compose run` had not started yet when its account was cleaned up is
found by nobody, although `local-e1-tool.sh:46` means to stop it first; the
history variable `late` records exactly these.  That the runner ends is part of
`EverythingSettles`; fairness is the runner's own timers and the boundedness of
tools and requests, and nothing of the worker.  Signals during the cleanup are
not handled by the code and kill the runner (`RunnerDies`).

`RecoveryProofs.tla` proves it for any accounts and mails (`LedgerIsKept`; `LedgerNames`:
the registration and the tool that stops the platform are not called as an
account).  A worker lives only while the runner waits for it, or was killed waiting
(`WorkerIsJoined`), so the only actors beside the cleanup are tools and requests on
their own way.  `OutageIsOwned`, `RegistrationIsOwned` and
`AccountsAreOwned` say for each thing a run can leave behind by which entry it is
found and when the cleanup may say that it is gone.  TLC found nothing against the
invariant within the run's bounds (35,219 states).

### Dependency gate

`DependencyPolicy.tla` is `check-policy.mjs` and `audit-policy.mjs` as predicates
over manifests, lockfile, npm configuration, reviewed install scripts and an audit
report.  Run `reservation`, subject `gate`, starts with a repository that both
accept and makes any two changes: the smallest number with which one change can
hide another.  `GateIsNarrow`: a report that passes has no high or critical
package that another than the reviewed advisory reaches, and none outside
development; a repository that passes installs from the registry and its own
workspaces, and runs only install scripts of approved versions.  The reference for
the former follows advisories to their ends; the code compares lists of parents.
Both walks along the report, the code's to `braces` and the reference's to the
advisories, are least closed sets, so nothing in the module is recursive.

`PlatformProofs` proves `GateIsNarrow` for any reviewed chain, any starting repository
that the gate accepts and any number of changes (`GateIsClosed`; `GateAssumption`:
the chain contains `braces` and the parents of each of its packages, and the
advisory is not a package).  In a report that passes, the high and critical packages
name as causes only packages of the chain, and `braces` only the advisory
(`ReviewedChainOnly`); so these packages and the advisory are a closed set, the
least one is within it, and no other advisory is (`OnlyReviewedIsReached`).

Not claimed: an approval without a version beside one with the right version goes
unnoticed; a script is looked up under the name a package is installed as, not
under the one it is an alias of; and prefixes of specs are compared case-sensitively.

## 14. Where code and documents disagree

* `upload_after_expiry` (`OnlyLeaseHolderUploads`).  `docs/data-and-recovery.md:151` says that only the
  lease holder can upload.  `source-object-coordinator.ts:106` sends the PUT
  without looking at the lease again: TLC shows a caller that uploads after its
  lease expired and was granted to another.  No harm follows (`PutsAgree`).
* `suppression_after_failed_write` (`LocalSuppressionIsKept`).  `docs/browser-session.md:66` says that
  after a failed logout marker write the tab keeps its local suppression until
  a successful intent write.  `session-coordinator.ts:299` lifts it whenever a
  cookie action of the tab fails: TLC shows a sign-in under way, a sign-out of
  the same tab whose intent cannot be written, and the sign-in's rejection,
  after which the tab is no longer suppressed and no logout is on record.
* `stale_draft_saves` (`EachVersionIsAcceptedOnce`).  `docs/general-plan.md:90` speaks of optimistic versions.
  `correction-sessions.service.ts:177` compares the version of a row read
  without a lock, and the save at line 202 compares nothing: TLC shows two
  commands with one expected version that both succeed.  If one of them is a
  submission, the overtaken save replaces its draft and sets the version back.

## 15. What is proved, what is checked, what is left

Every safety property of the passing runs is proved for all values of the
constants, except those that speak of a recursive algorithm, or do so among
other things: `EditsAreAudited` and part of `TypesAreUsable`
(`CorrectionDocuments`), and `PayloadIsKept` of `InputIsRead` (`LooseJson`).  These
modules declare RECURSIVE operators over trees, which the provers cannot reason
about, and what they compute for every input is a matter of induction over data.
They stay with TLC.  So does liveness under fairness: `RetriesSettle`,
`PendingIsSettled`, `EverythingSettles`, `BusyIsSettled`, `RequestsEnd`.

The bounds of the runs (`MaxCalls`, `MaxEvents`, `MaxTime`, ...) are constants like
the others, so the theorems hold for any; that they are finite plays no part but
where an assumption says so.

Three forms of argument recur.  What an actor read before it last waited is
listed, with the reason why it is still true (`CallsRemember`, `CallsKnow`,
`KnowledgeIsStable`, `TabsAreFenced`, `CallsAreTracked`).  Whatever is on its way is
tied to what it can still change (`PutsAgree`, `RequestsAreOrderly`, `WireIsSound`).
And induction, which the provers lack, is replaced by a least element: the oldest
row of a scan (`RecoveryProofs`), the first root that is refused, and the least
closed set of blocks (`RequestProofs`) or of advisories (`PlatformProofs`).

Each inductive invariant was checked by TLC as an invariant before it was proved, on
the instances named in the sections.

Left to do:

1. The parts of `TypesAreUsable` and `InputIsRead` that need no recursion are
   proved under names of their own (`OneVersionOfAType`, `RootsAreFound`); the rest
   would need the merge over document paths and the JSON grammars as recursive
   functions, and an induction that the provers cannot do.
2. The exchange is what the tabs rely on when they sign in or out.  What they rely on
   when they read, that `Me` answers with the user of a session that was live, is an
   action of `SessionCoordination` (`ServeRead`) and a path of `RequestPath` (`Guard`,
   `Receive`, `Resolve`), without a theorem between them.
3. `RequestPath` has a call to the platform as one step on `live`, the sessions that
   have not ended for good; that `AuthSessions` implements this step is an argument.
   A session whose idle time has run out can be extended by a call that began before
   (section 7), so `live` says nothing of who is refused as idle: a validation of a
   live session may be answered either way.
4. An abstract specification of the limiter (a budget for each window) with a
   refinement, in the manner of `WriteOnceObject`.
