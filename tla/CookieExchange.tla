---------------------------- MODULE CookieExchange ----------------------------
(***************************************************************************)
(* What a browser can rely on when it signs in or out: the gateway, the    *)
(* platform and the network as the tabs see them.  SessionCoordination     *)
(* puts the tabs on top of it; CookiePath shows that the gateway's request *)
(* path keeps to it, whatever is lost, late or repeated on the way.        *)
(*                                                                         *)
(* A session is named by the request that created it.  One whose           *)
(* credential never left the gateway is of no use to anybody, and is left  *)
(* out.                                                                    *)
(***************************************************************************)
EXTENDS Naturals

CONSTANT NoSession  \* no credential in the cookie jar

VARIABLES
    cookie,     \* the session cookie
    live,       \* sessions the server accepts
    requests    \* cookie requests on the wire

worldVars == <<cookie, live, requests>>

Id == Nat \cup {NoSession}

Request == [id : Nat, kind : {"sign-in", "sign-out"}, cookie : Id,
            stage : {"sent", "ok", "rejected", "error"},
            jar : {"keep", "set", "clear"}]

\* A request leaves with the cookie.
Departs(id, kind) ==
    requests' = requests \cup
        {[id |-> id, kind |-> kind, cookie |-> cookie, stage |-> "sent", jar |-> "keep"]}

\* BrowserSessionService.signIn: a cookie is set on success only, for a session that
\* may have ended by then.
SignInServed(r) ==
    /\ r.kind = "sign-in" /\ r.stage = "sent"
    /\ \/ /\ live' \in {live, live \cup {r.id}}
          /\ requests' = (requests \ {r}) \cup
                            {[r EXCEPT !.stage = "ok", !.jar = "set"]}
       \/ /\ \E stage \in {"rejected", "error"} :
                requests' = (requests \ {r}) \cup {[r EXCEPT !.stage = stage]}
          /\ UNCHANGED live
    /\ UNCHANGED cookie

\* BrowserSessionService.signOut: the cookie is cleared whether or not the
\* platform revoked the session; only a request the gateway refuses before
\* leaves it alone.
SignOutServed(r) ==
    /\ r.kind = "sign-out" /\ r.stage = "sent"
    /\ \/ /\ live' = live \ {r.cookie}
          /\ requests' = (requests \ {r}) \cup
                            {[r EXCEPT !.stage = "ok", !.jar = "clear"]}
       \/ /\ r.cookie # NoSession
          /\ live' \in {live, live \ {r.cookie}}
          /\ requests' = (requests \ {r}) \cup
                            {[r EXCEPT !.stage = "error", !.jar = "clear"]}
       \/ /\ requests' = (requests \ {r}) \cup {[r EXCEPT !.stage = "error"]}
          /\ UNCHANGED live
    /\ UNCHANGED cookie

\* The answer reaches the browser, which obeys its Set-Cookie.
Arrives(r) ==
    /\ r.stage # "sent"
    /\ requests' = requests \ {r}
    /\ cookie' = CASE r.jar = "set" -> r.id
                   [] r.jar = "clear" -> NoSession
                   [] r.jar = "keep" -> cookie
    /\ UNCHANGED live

IsLost(r) ==
    /\ requests' = requests \ {r}
    /\ UNCHANGED <<cookie, live>>

\* A session expires, or is revoked by other means.
SessionExpires ==
    /\ \E s \in live : live' = live \ {s}
    /\ UNCHANGED <<cookie, requests>>

-----------------------------------------------------------------------------
ExchangeInit ==
    /\ cookie \in {NoSession, 0}
    /\ live \in SUBSET ({cookie} \ {NoSession})
    /\ requests = {}

\* A request has an id of its own, which no session has yet.
Sends ==
    /\ \E r \in requests' : /\ r.id \in Nat \ (live \cup {cookie})
                            /\ r.kind \in {"sign-in", "sign-out"}
                            /\ Departs(r.id, r.kind)
    /\ UNCHANGED <<cookie, live>>

ExchangeNext ==
    \/ Sends
    \/ \E r \in requests :
          SignInServed(r) \/ SignOutServed(r) \/ Arrives(r) \/ IsLost(r)
    \/ SessionExpires

ExchangeSpec == ExchangeInit /\ [][ExchangeNext]_worldVars
=============================================================================
