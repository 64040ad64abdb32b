--------------------------- MODULE WebRegistration ---------------------------
(***************************************************************************)
(* Sign-up, resend and confirmation as one browser tab sees them: the      *)
(* pages, the private confirmation attempt of the document, the fence, the *)
(* network between, and the registration of the platform service.          *)
(*                                                                         *)
(* Abstractions.  One mailbox; the pages' fields, texts and layout are     *)
(* left out.  The server is module Registration's, each call in one step   *)
(* (there its transactions are serialized by row locks); expiry, cooldown  *)
(* and the limits may strike at any time, and a link may be opened as soon *)
(* as it has been issued, or never.                                        *)
(***************************************************************************)
EXTENDS SessionFence, Sequences

CONSTANTS MaxLinks  \* bound on the confirmation links that are issued

ASSUME LinksAssumption == MaxLinks \in Nat

VARIABLES
    wire,    \* commands between the browser and the platform
    token,   \* the mailbox's email_verification_token rows, in their order
    path,    \* where the router is
    opened,  \* link the document was opened with
    attempt, \* the document's ConfirmationAttempt
    resend   \* state of the mounted RegistrationPendingPage

wireVars == <<wire, sent>>
pageVars == <<path, opened, attempt, resend>>
vars == <<fenceVars, wireVars, token, pageVars>>

Paths == {"/signin", "/signup", "/corrections", "/registration-pending",
          "/confirm-email"}

Links == 1..MaxLinks

\* Issuing the first token inserts the users row, using one verifies it.
Registered == token # <<>>
Verified == \E l \in DOMAIN token : token[l] = "used"

Attempt ==
    [link : Links \cup {None}, requests : SUBSET (1..MaxEvents),
     status : {"ready", "busy", "success", "invalid", "rateLimited", "unknown"}]


\* "waits": the countdown runs.  The feedback is left out.
Resend == [request : 0..MaxEvents, waits : BOOLEAN]

NoResend == [request |-> 0, waits |-> FALSE]

\* Both public registration commands pass the fence as they are.
Send(op, link) ==
    /\ sent + durable.version < MaxEvents
    /\ sent' = sent + 1
    /\ wire' = wire \cup {[id |-> sent + 1, op |-> op, link |-> link,
                           answer |-> None]}

-----------------------------------------------------------------------------
(* ConfirmEmailPage and its attempt. *)

\* main.tsx: the fragment is captured and removed before anything is loaded;
\* without a well-formed one there is no link.
InitialAttempt(link) ==
    [link |-> link, requests |-> {},
     status |-> IF link = None THEN "invalid" ELSE "ready"]

OpenDocument ==
    /\ \E link \in DOMAIN token \cup {None} :
          /\ opened' = link
          /\ attempt' = InitialAttempt(link)
          /\ path' = IF link = None THEN path ELSE "/confirm-email"
    /\ resend' = NoResend
    /\ coordinator' = NewCoordinator
    /\ fenced' = {}
    /\ UNCHANGED <<durable, wireVars, token>>

\* Mutant: another click while a request is under way.
CanConfirmWhenBusy(status) == status \in {"ready", "busy", "unknown", "rateLimited"}

CanConfirm(status) == status \in {"ready", "unknown", "rateLimited"}

Confirm ==
    /\ path = "/confirm-email"
    /\ attempt.link # None /\ CanConfirm(attempt.status)
    /\ Send("confirm", attempt.link)
    /\ attempt' = [attempt EXCEPT !.status = "busy", !.requests = @ \cup {sent + 1}]
    /\ UNCHANGED <<fenceVars, token, path, opened, resend>>

\* Mutant: a failure of any kind is taken for an invalid link.
StatusOfFailure(answer) == IF answer = "ok" THEN "success" ELSE "invalid"

\* Delivery or consumption may have happened if the outcome is not definite.
StatusAfter(answer) ==
    CASE answer = "ok" -> "success"
      [] answer = "invalidLink" -> "invalid"
      [] answer = "limited" -> "rateLimited"
      [] OTHER -> "unknown"

\* Only a definite outcome discards the link.
Settled(id, answer) ==
    [link |-> IF StatusAfter(answer) \in {"success", "invalid"} THEN None
              ELSE attempt.link,
     requests |-> attempt.requests \ {id},
     status |-> StatusAfter(answer)]

SettleConfirm(r) ==
    /\ r.answer # None /\ r.id \in attempt.requests
    /\ attempt' = Settled(r.id, r.answer)
    /\ wire' = wire \ {r}
    /\ UNCHANGED <<fenceVars, sent, token, path, opened, resend>>

\* Mutant: the error of the deadline is not caught.
ConfirmTimesOutUncaught == attempt.requests # {} /\ UNCHANGED vars

\* The request deadline, or a transport error.
ConfirmTimesOut ==
    /\ \E id \in attempt.requests : attempt' = Settled(id, "none")
    /\ UNCHANGED <<fenceVars, wireVars, token, path, opened, resend>>

-----------------------------------------------------------------------------
(* RegistrationPendingPage. *)

SubmitResend ==
    /\ path = "/registration-pending"
    /\ resend.request = 0 /\ ~resend.waits
    /\ Send("resend", None)
    /\ resend' = [request |-> sent + 1, waits |-> FALSE]
    /\ UNCHANGED <<fenceVars, token, path, opened, attempt>>

\* RESEND_UI_WAIT_MS, or the delay that a rate limit asks for.
ResendAnswered(answer) ==
    [request |-> 0, waits |-> answer \in {"ok", "limited"}]

\* An answer for a mount that is gone is not awaited any more.
SettleResend(r) ==
    /\ r.op = "resend" /\ r.answer # None /\ r.id = resend.request
    /\ resend' = ResendAnswered(r.answer)
    /\ wire' = wire \ {r}
    /\ UNCHANGED <<fenceVars, sent, token, path, opened, attempt>>

ResendTimesOut ==
    /\ resend.request # 0
    /\ resend' = ResendAnswered("failed")
    /\ UNCHANGED <<fenceVars, wireVars, token, path, opened, attempt>>

\* The countdown of useResendCountdown runs out.
CountdownEnds ==
    /\ resend.waits
    /\ resend' = [resend EXCEPT !.waits = FALSE]
    /\ UNCHANGED <<fenceVars, wireVars, token, path, opened, attempt>>

-----------------------------------------------------------------------------
(* SignUpPage, and the routes. *)

\* A new mount of the pending page starts with an empty form.
GoTo(p) ==
    /\ path' = p
    /\ resend' = IF p = path THEN resend ELSE NoResend
    /\ UNCHANGED <<opened, attempt>>

SubmitSignUp ==
    /\ path = "/signup" /\ Status(coordinator) = "anonymous"
    /\ ~Waits("signUp") /\ Registrable(coordinator)
    /\ Dispatch("signUp", sent + 1)
    /\ IF \E o \in fenced' : o.request = sent + 1
       THEN Send("signUp", None) ELSE UNCHANGED wireVars
    /\ UNCHANGED <<token, pageVars>>

\* The fence delivers it, and the page that submitted it has not been
\* overtaken by another generation.
Accepts(c, o, answer) ==
    IsCurrentOperation(c, o) /\ ~o.overtaken /\ answer = "ok"

\* The promise outlives the page: an acceptance navigates wherever the user
\* has gone.
SettleSignUp(o, r) ==
    /\ o.kind = "signUp" /\ r.id = o.request /\ r.answer # None
    /\ Deliver(o, r.answer)
    /\ wire' = wire \ {r} /\ UNCHANGED sent
    /\ IF coordinator.seen = durable /\ Accepts(coordinator, o, r.answer)
       THEN GoTo("/registration-pending") ELSE UNCHANGED pageVars
    /\ UNCHANGED token

SignUpTimesOut(o) ==
    /\ o.kind = "signUp"
    /\ Deliver(o, "error")
    /\ UNCHANGED <<wireVars, token, pageVars>>

\* ProtectedRoute and PublicOnlyRoute.
Redirect ==
    /\ \/ path = "/corrections" /\ Status(coordinator) = "anonymous"
          /\ GoTo("/signin")
       \/ path \in {"/signin", "/signup"} /\ Status(coordinator) = "authenticated"
          /\ GoTo("/corrections")
    /\ UNCHANGED <<fenceVars, wireVars, token>>

\* The links of the pages, within their boundary; the registration pages
\* have none.
FollowLink ==
    /\ \/ path \in {"/registration-pending", "/confirm-email"}
       \/ Status(coordinator) = "anonymous"
    /\ \E p \in Paths \ {path, "/corrections", "/confirm-email"} : GoTo(p)
    /\ UNCHANGED <<fenceVars, wireVars, token>>

-----------------------------------------------------------------------------
(* The servers and the network. *)

IsCurrent(l) == token[l] = "current"

\* issueIfEligible: nothing for a verified user or during the cooldown.
Issue ==
    /\ ~Verified
    /\ Len(token) < MaxLinks
    /\ token' = Append([l \in DOMAIN token |->
                          IF IsCurrent(l) THEN "void" ELSE token[l]], "current")

Awaited(r) ==
    \/ r.id \in attempt.requests \/ r.id = resend.request
    \/ \E o \in fenced : r.id = o.request

\* An answer that nobody awaits is dropped; one that is lost is never awaited
\* long enough.
Answer(r, answers) ==
    \E a \in answers :
       wire' = (wire \ {r}) \cup (IF Awaited(r) THEN {[r EXCEPT !.answer = a]} ELSE {})

\* A call and its answer; the answer may turn into a failure on its way, and
\* the gateway or the limiter may refuse the call before anything is done.
ServeRegistration(r) ==
    /\ r.op \in {"signUp", "resend"} /\ r.answer = None
    /\ \/ /\ Registered \/ r.op = "signUp"
          /\ Issue
          /\ Answer(r, {"ok", "error"})
       \/ /\ Registered \/ r.op = "resend"
          /\ UNCHANGED token
          /\ Answer(r, {"ok"})
       \/ /\ UNCHANGED token
          /\ Answer(r, {"limited", "error", "unavailable"})
    /\ UNCHANGED <<fenceVars, sent, pageVars>>

ServeConfirm(r) ==
    /\ r.op = "confirm" /\ r.answer = None
    /\ \/ /\ IsCurrent(r.link)
          /\ token' = [token EXCEPT ![r.link] = "used"]
          /\ Answer(r, {"ok", "error"})
       \/ /\ ~IsCurrent(r.link)
          /\ UNCHANGED token
          /\ Answer(r, {"invalidLink"})
       \/ /\ UNCHANGED token
          /\ Answer(r, {"limited", "error"})
    /\ UNCHANGED <<fenceVars, sent, pageVars>>

TokenExpires ==
    /\ \E l \in DOMAIN token : IsCurrent(l) /\ token' = [token EXCEPT ![l] = "void"]
    /\ UNCHANGED <<fenceVars, wireVars, pageVars>>

-----------------------------------------------------------------------------
Init ==
    /\ durable \in [version : {0}, state : {"open", "loggedOut"}]
    /\ coordinator = NewCoordinator
    /\ fenced = {} /\ wire = {} /\ sent = 0
    /\ token = <<>>
    /\ path = "/signup" /\ opened = None
    /\ attempt = InitialAttempt(None)
    /\ resend = NoResend

FenceStep ==
    /\ \/ StartMe \/ StartInbox \/ RetryRead \/ Notice \/ MarkerChanges
       \/ \E o \in fenced : DeliverRead(o)
    /\ UNCHANGED <<wireVars, token, pageVars>>

\* Every request of a page has a deadline.
Deadline ==
    \/ ConfirmTimesOut \/ ResendTimesOut
    \/ \E o \in fenced : SignUpTimesOut(o)

Next ==
    \/ FenceStep \/ Deadline
    \/ OpenDocument \/ Confirm \/ SubmitResend \/ CountdownEnds \/ SubmitSignUp
    \/ Redirect \/ FollowLink
    \/ \E r \in wire :
          \/ SettleConfirm(r) \/ SettleResend(r)
          \/ \E o \in fenced : SettleSignUp(o, r)
          \/ ServeRegistration(r) \/ ServeConfirm(r)
    \/ TokenExpires

Spec == Init /\ [][Next]_vars

FairSpec ==
    Spec /\ WF_vars(ConfirmTimesOut) /\ WF_vars(ResendTimesOut)
         /\ WF_vars(\E o \in fenced : SignUpTimesOut(o))
-----------------------------------------------------------------------------
(* Properties *)

\* Types; a page waits only for a request it has sent, and the fence only for
\* operations of the current revision.
TypeOK ==
    /\ durable \in Durable
    /\ coordinator \in Coordinator
    /\ fenced \subseteq Fenced
    /\ \A o \in fenced : IsCurrentOperation(coordinator, o) /\ o.request <= sent
    /\ token \in Seq({"current", "used", "void"}) /\ Len(token) <= MaxLinks
    /\ path \in Paths /\ opened \in Links \cup {None}
    /\ attempt \in Attempt /\ resend \in Resend
    /\ attempt.status = "busy" <=> attempt.requests # {}

\* A confirmation that the page reports is one the platform has made with the
\* link the document was opened with; a link that the page gives up has been
\* used, replaced or has expired, and could not confirm any more.  It may have
\* confirmed: an earlier answer may have been lost.
OutcomesAreTrue ==
    /\ attempt.status = "success" =>
          opened # None /\ token[opened] = "used"
    /\ (attempt.status = "invalid" /\ opened # None) =>
          ~IsCurrent(opened)

\* What the page says is true, and what it waits for is really under way.
PageIsTruthful == TypeOK /\ OutcomesAreTrue

\* A definite outcome is final for its document, however many answers of
\* earlier clicks are still under way.
OutcomesAreFinal ==
    [][attempt.status \in {"success", "invalid"} =>
          \/ attempt' = attempt
          \/ fenced' = {} /\ attempt' = InitialAttempt(opened')]_vars

\* The instructions to look into the mailbox follow a sign-up only when the
\* platform has accepted one, in the generation of the session that the page
\* was rendered for and that still is the browser's.
PendingPageIsEarned ==
    [][\A o \in fenced :
          (o \notin fenced' /\ o.kind = "signUp" /\ path' # path
             /\ path' = "/registration-pending") =>
             /\ Registered
             /\ o.version = durable.version /\ ~o.overtaken]_vars

\* What is shown belongs to one generation of the session: the identity and the rows
\* of the inbox, and the page that follows a sign-up.
GenerationsAreKept == ScreenIsOfOneGeneration /\ PendingPageIsEarned

\* Nothing a page waits for blocks its button for ever, although answers are
\* lost, generations retired and pages left.
BusyIsSettled ==
    /\ []<>(attempt.status # "busy")
    /\ []<>(resend.request = 0)
    /\ []<>(~Waits("signUp"))

-----------------------------------------------------------------------------
(* Why they hold: the inductive invariant. *)

Command ==
    [id : Nat, op : {"signUp", "resend", "confirm"}, link : Links \cup {None},
     answer : {"ok", "error", "limited", "unavailable", "invalidLink", None}]

\* The attempt has at most one request, for the link of its document.
AttemptIsOfTheDocument ==
    /\ opened # None => opened \in DOMAIN token
    /\ attempt.link \in {None, opened}
    /\ attempt.requests \subseteq 1..sent
    /\ \A i, j \in attempt.requests : i = j

\* Whom the answer to a command is for.
ReachesItsPage(r) ==
    /\ r.id \in attempt.requests => r.op = "confirm" /\ r.link = opened
    /\ \A o \in fenced : o.kind = "signUp" /\ r.id = o.request => r.op = "signUp"

\* An answer was true when it was given, and still is: a link that is not
\* current never becomes it again.
AnswerIsTrue(r) ==
    /\ r.op = "confirm" =>
          /\ r.link \in DOMAIN token
          /\ r.answer = "invalidLink" /\ r.answer # None => ~IsCurrent(r.link)
          /\ r.answer = "ok" /\ r.answer # None => token[r.link] = "used"
    /\ r.op = "signUp" /\ r.answer = "ok" /\ r.answer # None => Registered

WireIsSound ==
    \A r \in wire : r \in Command /\ r.id \in 1..sent /\ ReachesItsPage(r) /\ AnswerIsTrue(r)

IInv ==
    /\ sent \in Nat
    /\ PageIsTruthful /\ FencedAreOfTheRevision /\ ScreenIsOfTheRevision
    /\ AttemptIsOfTheDocument /\ WireIsSound
=============================================================================
