----------------------------- MODULE RequestPath -----------------------------
(***************************************************************************)
(* A browser's GraphQL request on its way through the gateway to the       *)
(* platform service and back: request protection, shared validation of the *)
(* session, the bounded HTTP transport, and what each hop makes of an      *)
(* error, up to the verdict of the web application.                        *)
(*                                                                         *)
(* Abstractions.  The browser has one request under way.  A body is known  *)
(* by the schema it satisfies.  A call is one step of the platform; what   *)
(* it commits there is told by its root.  The roots of a document are      *)
(* given; module RootFields finds them.                                    *)
(***************************************************************************)
EXTENDS Naturals, Sequences, FiniteSets, TLC

CONSTANTS
    MaxRequests,  \* bound on requests
    MaxRoots,     \* bound on the roots of a document
    Attempts,     \* attempts a group allows an address in a window
    Malformed,    \* a Cookie header that holds no single canonical credential
    None

ASSUME PathAssumption ==
    /\ MaxRequests \in Nat /\ MaxRoots \in Nat /\ Attempts \in Nat
    /\ Malformed \notin Nat /\ None \notin Nat

VARIABLES
    requests,   \* requests made so far; it numbers the sessions issued
    request,    \* the request under way
    stage,      \* "idle", "received", "admitted", "executing", "answered"
    root,       \* result of each root, or how far it is
    validation, \* the validation that the fields of the request share
    calls,      \* calls to the platform whose answers have not been dropped
    committed,  \* roots of the request whose command the platform committed
    live,       \* sessions that may still be accepted: not ended for good
    cookie,     \* the browser's cookie
    setCookie,  \* what the response does to it
    charged,    \* attempts charged to each group in its window
    sent,       \* commands of each group sent on what was charged in it
    verdict     \* what the web application makes of each root's answer

gatewayVars == <<request, stage, root, validation, setCookie>>
platformVars == <<calls, committed, live>>
browserVars == <<requests, cookie, verdict>>
limitVars == <<charged, sent>>
vars == <<gatewayVars, platformVars, browserVars, limitVars>>

-----------------------------------------------------------------------------
(* The operations and their policies. *)

Queries == {"me", "documentTypes"}
Mutations == {"signIn", "signOut", "signUp", "confirmEmail", "submit"}

\* @PublicBrowserSession
Public == {"signIn", "signOut", "signUp", "confirmEmail"}

\* Those whose effect at the platform the properties speak of.
Commands == {"signIn", "signOut", "confirmEmail"}

Groups == {"signIn", "registration", "confirmation"}

\* getOperationPolicy.  Resend shares the policy and the path of sign-up.
Policy(field) ==
    [rateLimit |-> CASE field = "signIn" -> {"signIn"}
                     [] field = "signUp" -> {"registration"}
                     [] field = "confirmEmail" -> {"confirmation"}
                     [] OTHER -> {},
     requiresSoleRoot |-> field \in {"signIn", "signOut"},
     recordActivity |-> field \in {"documentTypes", "submit"}]

\* A root that @skip or @include leaves out is declared, not executed.
Roots(fields) ==
    UNION {[1..n -> [field : fields, executed : BOOLEAN]] : n \in 1..MaxRoots}

\* Documents of the wrong form have one root: it is never looked at.
Requests ==
    [form : {"good"}, roots : Roots(Queries) \cup Roots(Mutations)]
        \cup [form : {"foreign", "notJson", "broken"},
              roots : {<<[field |-> "signUp", executed |-> TRUE]>>}]

NoRequest == [form |-> "good", roots |-> <<>>]

Fields == {request.roots[i].field : i \in DOMAIN request.roots}
Field(i) == request.roots[i].field

IsMutation == Fields \subseteq Mutations

Executed == {i \in DOMAIN request.roots : request.roots[i].executed}

-----------------------------------------------------------------------------
(* Errors, hop by hop. *)

AuthCodes ==
    {"INVALID_CREDENTIALS", "EMAIL_UNVERIFIED", "SESSION_INVALID",
     "CONFIRMATION_INVALID", "RATE_LIMITED", "DEPENDENCY_UNAVAILABLE"}

\* AUTH_ERROR_HTTP_STATUS.
AuthStatus(code) ==
    CASE code = "CONFIRMATION_INVALID" -> 400
      [] code \in {"INVALID_CREDENTIALS", "SESSION_INVALID"} -> 401
      [] code = "EMAIL_UNVERIFIED" -> 403
      [] code = "RATE_LIMITED" -> 429
      [] code = "DEPENDENCY_UNAVAILABLE" -> 503

\* toSafeHttpFailure: an auth envelope, a generic one, or the generic 500.
Failure(exception) ==
    CASE exception \in AuthCodes ->
            [status |-> AuthStatus(exception), body |-> exception]
      [] exception = "badRequest" -> [status |-> 400, body |-> "generic"]
      [] OTHER -> [status |-> 500, body |-> "generic"]

Success == [status |-> 200, body |-> "data"]

\* readBoundedJson: on the way a body may be cut, grow too large, or be what
\* no schema of the contracts accepts.
Received(response) ==
    {response} \cup [status : {response.status}, body : {"unreadable", "other"}]

\* BROWSER_SESSION_RESPONSE_POLICY: the code must prove its status.
SessionPolicy(r) ==
    CASE r = Success -> "data"
      [] r.body \in AuthCodes /\ r.status = AuthStatus(r.body) -> r.body
      [] OTHER -> "PlatformUnavailable"

\* DEFAULT_PLATFORM_RESPONSE_POLICY.  An auth envelope satisfies the generic
\* schema, too.
DefaultPolicy(r) ==
    CASE r = Success -> "data"
      [] r # Success /\ r.status = 200 -> "PlatformInvalidResponse"
      [] r.status \in {400, 401, 403, 404, 409}
            /\ r.body \in AuthCodes \cup {"generic"} -> "PlatformRejectedRequest"
      [] OTHER -> "PlatformRequestFailed"

\* Mutant: a sign-out is taken for done, whatever the platform answers.
SignOutIsBelieved(op, r) ==
    CASE op = "signOut" -> "data"
      [] op = "documentTypes" -> DefaultPolicy(r)
      [] OTHER -> SessionPolicy(r)

\* The response policy of PLATFORM_ENDPOINTS.
ResponsePolicy(op, r) ==
    IF op = "documentTypes" THEN DefaultPolicy(r) ELSE SessionPolicy(r)

\* mapBrowserSessionError.
MapSessionError(result) ==
    IF result = "PlatformUnavailable" THEN "DEPENDENCY_UNAVAILABLE" ELSE result

\* maskGraphqlError: the code of the GraphQL error.  The status of a rejected
\* document type is one of the mapped ones.
Masked(result) ==
    CASE result \in AuthCodes \cup {"data", "FORBIDDEN", "CONFLICT"} -> result
      [] result = "PlatformRejectedRequest" -> "EXPECTED"
      [] OTHER -> "INTERNAL_SERVER_ERROR"

\* isExpectedSignInRejection, ConfirmationAttempt.confirm and SignUpPage.
Rejected(field, code) ==
    \/ code = "RATE_LIMITED" /\ field \in {"signIn", "confirmEmail", "signUp"}
    \/ code \in {"INVALID_CREDENTIALS", "EMAIL_UNVERIFIED"} /\ field = "signIn"
    \/ code = "CONFIRMATION_INVALID" /\ field = "confirmEmail"

Verdict(field, code) ==
    CASE code = "data" -> "accepted"
      [] Rejected(field, code) -> "rejected"
      [] OTHER -> "uncertain"

-----------------------------------------------------------------------------
(* The gateway: admission. *)

\* None of its roots is executed.
Refused(code) == [i \in DOMAIN request.roots |-> code]

Send ==
    /\ stage = "idle" /\ requests < MaxRequests
    /\ request' \in Requests
    /\ requests' = requests + 1
    /\ stage' = "received"
    /\ root' = <<>> /\ validation' = "none" /\ setCookie' = "keep"
    /\ committed' = {} /\ verdict' = <<>>
    /\ UNCHANGED <<calls, live, cookie, limitVars>>

\* onRequestParse: the origin, the media type and the parser.
Parse ==
    /\ stage = "received"
    /\ stage' = IF request.form = "good" THEN "admitted" ELSE "answered"
    /\ root' = IF request.form = "good" THEN root ELSE Refused("HTTP_ERROR")
    /\ UNCHANGED <<request, validation, setCookie, platformVars, browserVars,
                   limitVars>>

\* The first n declared roots of a mutation that count for a group.
Charge(group, n) ==
    Cardinality({i \in 1..n : group \in Policy(Field(i)).rateLimit})

SoleRootViolated ==
    /\ Len(request.roots) # 1
    /\ \E f \in Fields : Policy(f).requiresSoleRoot

OverLimit(i) == \E g \in Policy(Field(i)).rateLimit : charged[g] + Charge(g, i) > Attempts

Exhausted == \E i \in DOMAIN request.roots : OverLimit(i)

\* Roots are charged in order, up to the first that is refused.
Admitted == Cardinality({i \in DOMAIN request.roots : \A j \in 1..i : ~OverLimit(j)})

\* onParams: declared mutation roots are charged before any is executed.
Protect ==
    /\ stage = "admitted"
    /\ \/ /\ ~IsMutation
          /\ stage' = "executing" /\ UNCHANGED charged
       \/ /\ IsMutation /\ SoleRootViolated
          /\ stage' = "answered" /\ UNCHANGED charged
       \/ /\ IsMutation /\ ~SoleRootViolated
          /\ charged' = [g \in Groups |-> charged[g] + Charge(g, Admitted)]
          /\ stage' = IF Exhausted THEN "answered" ELSE "executing"
    /\ root' = IF stage' = "executing"
               THEN [i \in DOMAIN request.roots |->
                       IF i \in Executed THEN "waiting" ELSE "skipped"]
               ELSE Refused(IF SoleRootViolated THEN "BAD_REQUEST" ELSE "RATE_LIMITED")
    /\ UNCHANGED <<request, validation, setCookie, sent, platformVars, browserVars>>

\* Commands count for the window they were charged in: one that expires
\* during a request makes its difference when the next one is charged.
WindowExpires ==
    /\ stage = "idle"
    /\ \E g \in Groups :
          /\ charged[g] > 0
          /\ charged' = [charged EXCEPT ![g] = 0]
          /\ sent' = [sent EXCEPT ![g] = 0]
    /\ UNCHANGED <<gatewayVars, browserVars, platformVars>>

-----------------------------------------------------------------------------
(* The gateway: execution. *)

Done(i) == root[i] \notin {"waiting", "guarded", "calling"}

\* Mutations are executed one after the other, queries together.
MayStart(i) ==
    /\ stage = "executing" /\ root[i] = "waiting"
    /\ IsMutation => \A j \in 1..(i - 1) : Done(j)

\* BrowserSessionCookieAdapter.read.
Readable == cookie \in Nat

Call(i, op, session, activity) ==
    [request |-> requests, root |-> i, op |-> op, session |-> session,
     activity |-> activity, state |-> "sent", response |-> None]

\* A public field calls at once; sign-out without a readable cookie has
\* nothing to revoke, and clears the cookie whatever happens.
StartPublic(i) ==
    /\ MayStart(i) /\ Field(i) \in Public
    /\ IF Field(i) = "signOut" /\ ~Readable
       THEN /\ root' = [root EXCEPT ![i] = "data"]
            /\ setCookie' = "clear" /\ UNCHANGED calls
       ELSE /\ root' = [root EXCEPT ![i] = "calling"]
            /\ calls' = calls \cup
                 {Call(i, Field(i), IF Field(i) = "signOut" THEN cookie ELSE None,
                       FALSE)}
            /\ UNCHANGED setCookie
    /\ sent' = [g \in Groups |-> IF g \in Policy(Field(i)).rateLimit
                                 THEN sent[g] + 1 ELSE sent[g]]
    /\ UNCHANGED <<request, stage, validation, browserVars, committed, live,
                   charged>>

\* Mutant: what is declared counts, though a directive leaves it out.
DeclaredActivity == \E i \in DOMAIN request.roots : Policy(Field(i)).recordActivity

\* recordsSessionActivity.
Activity == \E i \in Executed : Policy(Field(i)).recordActivity

\* Mutant: every field asks the platform itself.
ValidationIsOwn == validation # "pending"

MustValidate == validation = "none"

\* BrowserSessionGuard: the first protected field starts the validation, the
\* others await it.
Guard(i) ==
    /\ MayStart(i) /\ Field(i) \notin Public
    /\ root' = [root EXCEPT ![i] = "guarded"]
    /\ IF ~MustValidate
       THEN UNCHANGED <<validation, calls>>
       ELSE IF Readable
       THEN /\ validation' = "pending"
            /\ calls' = calls \cup {Call(i, "validate", cookie, Activity)}
       ELSE validation' = "SESSION_INVALID" /\ UNCHANGED calls
    /\ UNCHANGED <<request, stage, setCookie, browserVars, committed, live,
                   limitVars>>

\* Roles and scopes are checked, then the resolver runs: the validated user
\* is at hand, corrections are the gateway's own (a conflict is one of their
\* errors), and the document types are the platform's.
Resolve(i) ==
    /\ stage = "executing" /\ root[i] = "guarded"
    /\ validation \notin {"none", "pending"}
    /\ \/ /\ validation # "data"
          /\ root' = [root EXCEPT ![i] = validation] /\ UNCHANGED <<calls, committed>>
       \/ /\ validation = "data" /\ Field(i) = "me"
          /\ root' = [root EXCEPT ![i] = "data"] /\ UNCHANGED <<calls, committed>>
       \/ /\ validation = "data" /\ Field(i) = "submit"
          /\ \E result \in {"data", "FORBIDDEN", "CONFLICT"} :
                /\ root' = [root EXCEPT ![i] = result]
                /\ committed' = IF result = "data" THEN committed \cup {i} ELSE committed
          /\ UNCHANGED calls
       \/ /\ validation = "data" /\ Field(i) = "documentTypes"
          /\ \/ root' = [root EXCEPT ![i] = "FORBIDDEN"] /\ UNCHANGED calls
             \/ /\ root' = [root EXCEPT ![i] = "calling"]
                /\ calls' = calls \cup {Call(i, Field(i), None, FALSE)}
          /\ UNCHANGED committed
    /\ UNCHANGED <<request, stage, validation, setCookie, browserVars, live,
                   limitVars>>

\* What a settled call leads to: the cookie is set for a session that has
\* been issued, and cleared by sign-out even if it was not revoked.
Settle(c, result) ==
    /\ calls' = calls \ {c}
    /\ IF c.op = "validate"
       THEN validation' = MapSessionError(result) /\ UNCHANGED <<root, setCookie>>
       ELSE /\ root' = [root EXCEPT ![c.root] =
                          IF c.op = "documentTypes" THEN Masked(result)
                          ELSE Masked(MapSessionError(result))]
            /\ setCookie' = CASE c.op = "signOut" -> "clear"
                              [] c.op = "signIn" /\ result = "data" -> "set"
                              [] OTHER -> setCookie
            /\ UNCHANGED validation
    /\ UNCHANGED <<request, stage, browserVars, committed, live, limitVars>>

IsAwaited(c) == c.request = requests /\ stage = "executing"

\* PlatformHttpTransport.request.
Receive(c) ==
    /\ IsAwaited(c) /\ c.state = "answered"
    /\ \E r \in Received(c.response) : Settle(c, ResponsePolicy(c.op, r))

\* AbortSignal.timeout, or a connection error; a command that has been sent
\* may still be done.  A validation that has been sent may still extend the
\* session: not tracked here, where whether it is idle is open anyway.
TimesOut(c) ==
    /\ IsAwaited(c)
    /\ root' = IF c.op = "validate" THEN root
               ELSE [root EXCEPT ![c.root] =
                       IF c.op = "documentTypes" THEN Masked("PlatformUnavailable")
                       ELSE "DEPENDENCY_UNAVAILABLE"]
    /\ validation' = IF c.op = "validate" THEN "DEPENDENCY_UNAVAILABLE"
                     ELSE validation
    /\ setCookie' = IF c.op = "signOut" THEN "clear" ELSE setCookie
    /\ calls' = (calls \ {c}) \cup
                  (IF c.state = "sent" /\ c.op \in Commands
                   THEN {[c EXCEPT !.state = "abandoned"]} ELSE {})
    /\ UNCHANGED <<request, stage, browserVars, committed, live, limitVars>>

Respond ==
    /\ stage = "executing" /\ \A i \in DOMAIN root : Done(i)
    /\ stage' = "answered"
    /\ UNCHANGED <<request, root, validation, setCookie, platformVars, browserVars,
                   limitVars>>

-----------------------------------------------------------------------------
(* The platform. *)

\* What an operation may throw before it commits anything.
Exceptions(op) ==
    {"DEPENDENCY_UNAVAILABLE", "badRequest", "other"} \cup
    CASE op = "signIn" -> {"INVALID_CREDENTIALS", "EMAIL_UNVERIFIED", "RATE_LIMITED"}
      [] op = "confirmEmail" -> {"CONFIRMATION_INVALID"}
      [] OTHER -> {}

\* Sessions are named after the request that they are issued for.
Effect(c) ==
    CASE c.op = "signIn" -> live \cup {c.request}
      [] c.op = "signOut" -> live \ {c.session}
      [] OTHER -> live

\* The result of a commit may be lost to the platform itself.  A session that has not
\* ended for good may be refused all the same, because it is idle, and be accepted
\* later: each validation goes by the time it began at, and one that began in time
\* may still extend the session.  How long it is idle is left to AuthSessions.
Serve(c) ==
    LET answered(response) ==
            calls' = (calls \ {c}) \cup
                (IF c.state = "sent"
                 THEN {[c EXCEPT !.state = "answered", !.response = response]} ELSE {})
    IN
    /\ c.state \in {"sent", "abandoned"}
    /\ \/ /\ \E x \in Exceptions(c.op) : answered(Failure(x))
          /\ UNCHANGED <<committed, live>>
       \/ /\ c.op = "validate"
          /\ answered(Failure("SESSION_INVALID"))
          /\ UNCHANGED <<committed, live>>
       \/ /\ c.op # "validate" \/ c.session \in live
          /\ live' = Effect(c)
          /\ committed' = IF c.request = requests /\ c.op # "validate"
                          THEN committed \cup {c.root} ELSE committed
          /\ \/ answered(Success)
             \/ answered(Failure("DEPENDENCY_UNAVAILABLE"))
    /\ UNCHANGED <<gatewayVars, browserVars, limitVars>>

\* Another device's revocation, or the absolute expiry.
SessionEnds ==
    /\ \E s \in live : live' = live \ {s}
    /\ UNCHANGED <<gatewayVars, browserVars, calls, committed, limitVars>>

-----------------------------------------------------------------------------
(* The browser. *)

CookieAfter ==
    CASE setCookie = "set" -> requests
      [] setCookie = "clear" -> None
      [] OTHER -> cookie

\* The response arrives, with its cookie.
Arrive ==
    /\ stage = "answered" /\ verdict = <<>>
    /\ verdict' = [i \in DOMAIN root |-> Verdict(Field(i), root[i])]
    /\ cookie' = CookieAfter
    /\ UNCHANGED <<gatewayVars, platformVars, requests, limitVars>>

\* Its deadline has passed, or the response is lost.
GiveUp ==
    /\ stage = "answered" /\ verdict = <<>>
    /\ verdict' = [i \in DOMAIN root |-> "uncertain"]
    /\ UNCHANGED <<gatewayVars, platformVars, requests, cookie, limitVars>>

\* The last verdict is kept until the next request is sent.
Finish ==
    /\ stage = "answered" /\ verdict # <<>>
    /\ stage' = "idle"
    /\ UNCHANGED <<request, root, validation, setCookie, platformVars, browserVars,
                   limitVars>>

-----------------------------------------------------------------------------
Init ==
    /\ requests = 0 /\ request = NoRequest /\ stage = "idle"
    /\ root = <<>> /\ validation = "none" /\ setCookie = "keep"
    /\ calls = {} /\ committed = {}
    /\ cookie \in {None, 0, Malformed} /\ live \in SUBSET ({cookie} \cap {0})
    /\ charged = [g \in Groups |-> 0] /\ sent = charged
    /\ verdict = <<>>

Settles == \E c \in calls : Receive(c) \/ TimesOut(c)

Executes ==
    \/ Parse \/ Protect \/ Respond
    \/ \E i \in DOMAIN root : StartPublic(i) \/ Guard(i) \/ Resolve(i)

Next ==
    \/ Send \/ Arrive \/ GiveUp \/ Finish
    \/ Executes \/ Settles
    \/ WindowExpires \/ SessionEnds
    \/ \E c \in calls : Serve(c)

Spec == Init /\ [][Next]_vars

\* The gateway's event loop runs, and its timers fire.
FairSpec ==
    Spec /\ WF_vars(Executes) /\ WF_vars(\E c \in calls : TimesOut(c))
-----------------------------------------------------------------------------
(* Properties *)

\* What the web application calls accepted or rejected is what happened at the
\* platform, and cannot change any more, whatever was lost, cut or late on the
\* way; everything else it treats as uncertain.  Sign-up is acknowledged
\* whether it did anything or not; a sign-out without a credential had nothing
\* to do.
VerdictsAreTrue ==
    \A i \in DOMAIN verdict :
        /\ (verdict[i] = "accepted" /\ Field(i) \in {"signIn", "confirmEmail", "submit"})
              => i \in committed
        /\ verdict[i] = "rejected" => i \notin committed

\* An accepted sign-in leaves its session in the browser, an accepted sign-out
\* leaves none, and a failed sign-in leaves what was there.
CookieFollowsVerdict ==
    [][verdict = <<>> /\ verdict' # <<>> =>
         \A i \in DOMAIN verdict' :
            /\ (Field(i) = "signIn" /\ verdict'[i] = "accepted") => cookie' = requests
            /\ (Field(i) = "signOut" /\ verdict'[i] = "accepted") => cookie' = None
            /\ (Field(i) = "signIn" /\ verdict'[i] = "rejected") => cookie' = cookie
      ]_vars

\* The fields of one response agree on the session: none is refused as signed
\* out beside one that was served, though it was revoked in between.
FieldsAgreeOnSession ==
    ~ \E i, j \in DOMAIN root :
        /\ {Field(i), Field(j)} \cap Public = {}
        /\ root[i] = "SESSION_INVALID" /\ root[j] \in {"data", "FORBIDDEN", "CONFLICT"}

\* The inactivity deadline is only extended for a product operation that the
\* request executes: not by Me, nor by one that is declared and skipped.
ActivityIsEarned ==
    \A c \in calls :
        c.request = requests /\ c.activity =>
            \E i \in DOMAIN request.roots :
                request.roots[i] \in
                    [field : {"documentTypes", "submit"}, executed : {TRUE}]

\* However a document repeats its roots, and whichever of them fail, no more
\* commands of a group are sent on a window than the address is allowed.
CommandsAreCharged == \A g \in Groups : sent[g] <= Attempts

\* What the browser and the gateway conclude from the platform's answers is true, and
\* the fields of one request conclude the same.
VerdictsAreSound == VerdictsAreTrue /\ FieldsAgreeOnSession

\* The user's inactivity deadline and the limits of the public commands: nothing that
\* is not executed extends the one, and no repetition of roots escapes the other.
PolicyIsKept == ActivityIsEarned /\ CommandsAreCharged

-----------------------------------------------------------------------------
(* Why the safety properties hold: the inductive invariant. *)

Results ==
    AuthCodes \cup {"data", "FORBIDDEN", "CONFLICT", "EXPECTED", "INTERNAL_SERVER_ERROR",
                    "HTTP_ERROR", "BAD_REQUEST", "waiting", "skipped", "guarded", "calling"}

IsCall(c) ==
    c = [request |-> c.request, root |-> c.root, op |-> c.op, session |-> c.session,
         activity |-> c.activity, state |-> c.state, response |-> c.response]

TypeOK ==
    /\ requests \in Nat
    /\ stage \in {"idle", "received", "admitted", "executing", "answered"}
    /\ request.roots \in Seq([field : Queries \cup Mutations, executed : BOOLEAN])
    /\ Fields \subseteq Queries \/ Fields \subseteq Mutations
    /\ root = <<>> \/ root \in [DOMAIN request.roots -> Results]
    /\ stage = "executing" => root \in [DOMAIN request.roots -> Results]
    /\ validation \in AuthCodes \cup {"none", "pending", "data"}
    /\ \A c \in calls : IsCall(c) /\ c.request \in 0..requests
    /\ charged \in [Groups -> Nat] /\ sent \in [Groups -> Nat]

NothingIsDoneYet ==
    /\ stage \in {"received", "admitted"} =>
          /\ root = <<>> /\ setCookie = "keep" /\ validation = "none" /\ committed = {}
          /\ \A c \in calls : c.request # requests
    /\ stage \in {"received", "admitted", "executing"} => verdict = <<>>

\* A command of the request under way, and what is known of it here and there.
Pending(c) == c.request = requests /\ c.op # "validate"

CallIsTracked(c) ==
    /\ c.root \in DOMAIN root /\ c.op = Field(c.root) /\ c.op \in Public \cup {"documentTypes"}
    /\ \/ c.state = "sent" /\ root[c.root] = "calling" /\ c.root \notin committed
       \/ /\ c.state = "answered" /\ root[c.root] = "calling"
          /\ c.response = Success => c.root \in committed
          /\ c.response.body \in AuthCodes \ {"DEPENDENCY_UNAVAILABLE"} => c.root \notin committed
       \/ /\ c.state = "abandoned" /\ c.op \in Commands
          /\ root[c.root] = "DEPENDENCY_UNAVAILABLE"

CallsAreTracked ==
    /\ \A c \in calls : Pending(c) => CallIsTracked(c)
    /\ \A c, d \in calls : Pending(c) /\ Pending(d) /\ c.root = d.root => c = d

RootsAreTrue ==
    \A i \in DOMAIN root :
        /\ root[i] = "data" /\ Field(i) \in {"signIn", "confirmEmail", "submit"} => i \in committed
        /\ root[i] \in {"waiting", "guarded"} \/ Rejected(Field(i), root[i]) => i \notin committed

VerdictsFollow ==
    \A i \in DOMAIN verdict :
        i \in DOMAIN root /\ verdict[i] \in {Verdict(Field(i), root[i]), "uncertain"}

\* One validation for all protected fields.
Validates(c) == c.request = requests /\ c.op = "validate"

SessionIsShared ==
    /\ \A i \in DOMAIN root : Field(i) \notin Public =>
          /\ root[i] = "SESSION_INVALID" => validation = "SESSION_INVALID"
          /\ root[i] \in {"data", "FORBIDDEN", "CONFLICT", "calling"} => validation = "data"
    /\ \A c \in calls : Validates(c) => validation = "pending"
    /\ \A c, d \in calls : Validates(c) /\ Validates(d) => c = d

\* A command that touches the cookie is alone in its request.
CookieIsTold ==
    /\ stage = "executing" =>
          \A i, j \in DOMAIN request.roots : Field(i) \in {"signIn", "signOut"} => i = j
    /\ \A i \in DOMAIN root :
          /\ Field(i) = "signIn" => setCookie = IF root[i] = "data" THEN "set" ELSE "keep"
          /\ Field(i) = "signOut" /\ root[i] = "data" => setCookie = "clear"

\* What has not been sent has been charged.
Due(g) == {i \in DOMAIN root : root[i] = "waiting" /\ g \in Policy(Field(i)).rateLimit}

ChargesCover ==
    \A g \in Groups :
        /\ sent[g] <= charged[g] /\ charged[g] <= Attempts
        /\ stage = "executing" => sent[g] + Cardinality(Due(g)) <= charged[g]

IInv ==
    /\ TypeOK /\ NothingIsDoneYet /\ CallsAreTracked /\ RootsAreTrue /\ VerdictsFollow
    /\ SessionIsShared /\ CookieIsTold /\ ChargesCover /\ ActivityIsEarned
=============================================================================
