------------------------------ MODULE CookiePath ------------------------------
(***************************************************************************)
(* The request path as the tabs of the browser see it: of all requests,    *)
(* those that sign in or out, and of all sessions, those whose credential  *)
(* a response has carried.  What is left is CookieExchange, on which       *)
(* SessionCoordination builds the tabs.                                    *)
(***************************************************************************)
EXTENDS RequestPath

VARIABLE carried  \* sessions whose credential a response has carried (history)

pathVars == <<vars, carried>>

CarriedInit == Init /\ carried = {cookie} \cap {0}

Carry == carried' = IF setCookie' = "set" THEN carried \cup {requests'} ELSE carried

CarriedNext == Next /\ Carry

CarriedSpec == CarriedInit /\ [][CarriedNext]_pathVars

-----------------------------------------------------------------------------
(* The exchange within the path. *)

\* To the platform an unreadable cookie is none.
BrowserCookie == IF cookie = Malformed THEN None ELSE cookie

IsCookieRequest == Fields \cap {"signIn", "signOut"} # {}

\* What has become of the command, which is the request's only root, or has
\* been refused with the others.
Outcome ==
    CASE root = <<>> -> "sent"
      [] root # <<>> /\ root[1] \in {"waiting", "calling"} -> "sent"
      [] root # <<>> /\ root[1] = "data" -> "ok"
      [] root # <<>> /\ "signIn" \in Fields /\ Rejected("signIn", root[1]) -> "rejected"
      [] OTHER -> "error"

\* From Send until the browser has the answer, or has given it up.
OnTheWire == IsCookieRequest /\ stage # "idle" /\ verdict = <<>>

CookieRequest ==
    [id |-> requests, kind |-> IF "signIn" \in Fields THEN "sign-in" ELSE "sign-out",
     cookie |-> BrowserCookie, stage |-> Outcome, jar |-> setCookie]

Exchange ==
    INSTANCE CookieExchange
      WITH cookie <- BrowserCookie, live <- live \cap carried, NoSession <- None,
           requests <- IF OnTheWire THEN {CookieRequest} ELSE {}

-----------------------------------------------------------------------------
(* Properties *)

\* To the tabs, the gateway, the platform and all that can be lost, late or refused
\* between them are the exchange that SessionCoordination assumes: a sign-in sets the
\* cookie of a session of its own or none, and a sign-out ends the session of the
\* cookie it was sent with, unless it fails; and the cookie is what the verdict says.
CookieIsKept == Exchange!ExchangeSpec /\ CookieFollowsVerdict

-----------------------------------------------------------------------------
(* Why: what a step of the path has to know for the exchange's step. *)

\* The credentials about, and the sign-ins that may still issue one: a session
\* that is issued too late is carried by nothing.
CarriedIsKnown ==
    /\ carried \subseteq 0..requests
    /\ cookie \in {None, Malformed} \cup carried
    /\ setCookie \in {"keep", "set", "clear"}
    /\ setCookie = "set" => requests \in carried
    /\ stage # "idle" /\ requests \in carried => setCookie = "set"
    /\ \A c \in calls : c.op = "signIn" /\ c.state # "answered" => c.request \notin carried

\* How far the request under way is, and what that means for the cookie.
AnswerIsFormed ==
    stage # "idle" =>
        /\ 1 \in DOMAIN request.roots
        /\ stage \in {"executing", "answered"} => root \in [DOMAIN request.roots -> Results]
        /\ stage = "answered" => \A i \in DOMAIN root : Done(i)
        /\ \A i \in DOMAIN root : root[i] = "guarded" => Field(i) \notin Public
        /\ Outcome = "sent" \/ ~IsCookieRequest => setCookie = "keep"
        /\ "signIn" \notin Fields => setCookie # "set"

\* A sign-out revokes the session of the cookie it was sent with.
RevocationIsTheCookies ==
    stage = "executing" =>
        \A c \in calls : Pending(c) /\ c.op = "signOut" =>
            /\ c.session \in Nat /\ c.session = cookie
            /\ c.state = "answered" /\ c.response = Success => cookie \notin live
            /\ c.state = "abandoned" => setCookie = "clear"

CookieIInv == IInv /\ CarriedIsKnown /\ AnswerIsFormed /\ RevocationIsTheCookies
=============================================================================
