----------------------------- MODULE AuthSessions -----------------------------
(***************************************************************************)
(* AuthSessionStore and AuthService: browser sessions are created for      *)
(* verified users, validated and extended by activity, and signed out, in  *)
(* transactions that read rows without locking them and then update them   *)
(* under a condition.                                                      *)
(*                                                                         *)
(* Abstractions.  A credential is the name of its session, and passwords   *)
(* are right.  revoked_at and the reason are one flag.                     *)
(***************************************************************************)
EXTENDS AuthDatabase

CONSTANTS AbsoluteTtl, IdleTtl, WriteInterval

SessionRow == [email : Emails, absolute : Nat, inactivity : Nat, last : Nat,
               revoked : BOOLEAN]

Earlier(s, t) == IF s <= t THEN s ELSE t

-----------------------------------------------------------------------------
(* signInBrowserSession *)

\* authenticateVerifiedUser
SignIn(c, e) ==
    /\ user[e] = "verified"
    /\ Begin(c, [NoCall EXCEPT !.op = "signIn", !.step = "lock", !.email = e])
    /\ UNCHANGED <<now, userVars, registrationVars, sessionVars>>

ReadClock(c) ==
    /\ At(c, {"signIn"}, "locked")
    /\ IF user[call[c].email] = "verified"
       THEN /\ call' = [call EXCEPT ![c].step = "insert", ![c].at = now]
            /\ UNCHANGED lock
       ELSE End(c)
    /\ UNCHANGED <<now, user, registrationVars, sessionVars>>

InsertSession(c, s) ==
    LET at == call[c].at IN
    /\ At(c, {"signIn"}, "insert")
    /\ session[s] = None
    /\ session' = [session EXCEPT ![s] =
          [email |-> call[c].email, absolute |-> at + AbsoluteTtl,
           inactivity |-> at + Earlier(IdleTtl, AbsoluteTtl), last |-> at,
           revoked |-> FALSE]]
    /\ End(c)
    /\ UNCHANGED <<now, user, registrationVars, signedOut>>

-----------------------------------------------------------------------------
(* validateBrowserSession; "touch" is the one that records activity. *)

\* isAuthSessionActive
Active(s, at) ==
    /\ user[session[s].email] = "verified"
    /\ ~session[s].revoked
    /\ session[s].absolute > at /\ session[s].inactivity > at

\* The transaction starts, and reads the clock once for all.
Validate(c, s, op) ==
    /\ session[s] # None
    /\ op \in {"validate", "touch"}
    /\ Begin(c, [NoCall EXCEPT !.op = op, !.step = "load", !.id = s, !.at = now,
                               !.late = s \in signedOut])
    /\ UNCHANGED <<now, userVars, registrationVars, sessionVars>>

Accept(c) == GoTo(c, "accepted") /\ UNCHANGED lock

LoadSession(c) ==
    LET s == call[c].id IN
    /\ At(c, {"validate", "touch"}, "load")
    /\ IF ~Active(s, call[c].at) THEN End(c)
       ELSE IF call[c].op = "touch" /\ session[s].last + WriteInterval <= call[c].at
       THEN /\ call' = [call EXCEPT ![c].step = "extend", ![c].seen = session[s].last]
            /\ UNCHANGED lock
       ELSE Accept(c)
    /\ UNCHANGED <<now, user, registrationVars, sessionVars>>

\* The condition of the update.
Extendable(s, at, seen) ==
    /\ ~session[s].revoked
    /\ session[s].absolute > at /\ session[s].inactivity > at
    /\ session[s].last = seen

\* nextAuthSessionInactivityExpiry
Extended(s, at) == Earlier(at + IdleTtl, session[s].absolute)

RecordActivity(c) ==
    LET s == call[c].id
        at == call[c].at IN
    /\ At(c, {"touch"}, "extend")
    /\ IF Extendable(s, at, call[c].seen)
       THEN /\ session' = [session EXCEPT ![s].last = at,
                                          ![s].inactivity = Extended(s, at)]
            /\ Accept(c)
       ELSE GoTo(c, "reload") /\ UNCHANGED <<lock, session>>
    /\ UNCHANGED <<now, user, registrationVars, signedOut>>

ReloadSession(c) ==
    /\ At(c, {"touch"}, "reload")
    /\ IF Active(call[c].id, call[c].at) THEN Accept(c) ELSE End(c)
    /\ UNCHANGED <<now, user, registrationVars, sessionVars>>

-----------------------------------------------------------------------------
(* signOutBrowserSession *)

SignOut(c, s) ==
    /\ session[s] # None
    /\ Begin(c, [NoCall EXCEPT !.op = "signOut", !.step = "find", !.id = s])
    /\ UNCHANGED <<now, userVars, registrationVars, sessionVars>>

FindSession(c) ==
    LET s == call[c].id IN
    /\ At(c, {"signOut"}, "find")
    /\ IF session[s].revoked
       THEN End(c) /\ signedOut' = signedOut \cup {s}
       ELSE /\ call' = [call EXCEPT ![c].step = "revoke", ![c].seen = session[s].last]
            /\ UNCHANGED <<lock, signedOut>>
    /\ UNCHANGED <<now, user, registrationVars, session>>

\* Mutant: the update is conditional on the activity that was read.
RevokedIfUnchanged(s, seen) ==
    IF session[s].last = seen THEN [session[s] EXCEPT !.revoked = TRUE] ELSE session[s]

Revoked(s, seen) == [session[s] EXCEPT !.revoked = TRUE]

Revoke(c) ==
    LET s == call[c].id IN
    /\ At(c, {"signOut"}, "revoke")
    /\ session' = [session EXCEPT ![s] = Revoked(s, call[c].seen)]
    /\ signedOut' = signedOut \cup {s}
    /\ End(c)
    /\ UNCHANGED <<now, user, registrationVars>>

SessionStep(c) ==
    \/ \E e \in Emails : SignIn(c, e)
    \/ \E s \in Sessions :
          \/ InsertSession(c, s) \/ SignOut(c, s)
          \/ \E op \in {"validate", "touch"} : Validate(c, s, op)
    \/ ReadClock(c) \/ LoadSession(c) \/ RecordActivity(c) \/ ReloadSession(c)
    \/ FindSession(c) \/ Revoke(c)

-----------------------------------------------------------------------------
(* Properties *)

\* Once a sign-out has returned, no validation that starts later is accepted,
\* although sign-outs, validations and extensions of a session overlap.
SignedOutMeansOut ==
    /\ \A s \in signedOut : session[s] # None /\ session[s].revoked
    /\ \A c \in Callers : call[c].step = "accepted" => ~call[c].late

\* A session belongs to a verified user and is never extended beyond its
\* absolute end, nor idle for longer than permitted; a validation is accepted
\* only if it started in time.
SessionsAreBounded ==
    /\ \A s \in Sessions : session[s] # None =>
          /\ user[session[s].email] = "verified"
          /\ session[s].inactivity = Earlier(session[s].last + IdleTtl, session[s].absolute)
          /\ session[s].last <= session[s].inactivity
    /\ \A c \in Callers : call[c].step = "accepted" =>
          call[c].at < session[call[c].id].inactivity
=============================================================================
