------------------------------- MODULE Accounts -------------------------------
(***************************************************************************)
(* The accounts of the platform service: registration and browser sessions *)
(* on one database.  Sign-in waits for confirmation, and both lock users.  *)
(***************************************************************************)
EXTENDS Registration, AuthSessions

ASSUME AccountsAssumption ==
    /\ None \notin Callers \cup Emails \cup Tokens \cup Sessions
    /\ None \notin TokenRow \cup SessionRow
    /\ IsFiniteSet(Tokens)
    /\ {MaxTime, Cooldown} \subseteq Nat
    /\ {TokenTtl, AbsoluteTtl, IdleTtl, WriteInterval} \subseteq Nat \ {0}

vars == <<now, userVars, registrationVars, sessionVars, call>>

\* A seeded user (UsersService.createUser) has no token and is not verified.
Init ==
    /\ now = 0
    /\ user \in [Emails -> {"absent", "unverified"}]
    /\ lock = [e \in Emails |-> None]
    /\ token = [t \in Tokens |-> None]
    /\ mailed = {}
    /\ session = [s \in Sessions |-> None]
    /\ signedOut = {}
    /\ call = [c \in Callers |-> NoCall]

Next ==
    \/ \E c \in Callers :
          \/ LockUser(c) \/ UserNotFound(c) \/ Abort(c)
          \/ RegistrationStep(c) \/ SessionStep(c)
    \/ Tick

Spec == Init /\ [][Next]_vars
-----------------------------------------------------------------------------
Calls ==
    [op : {None, "signUp", "resend", "confirm", "signIn", "validate", "touch",
           "signOut"},
     step : {"idle", "lock", "locked", "issue", "committed", "consume", "insert",
             "load", "extend", "reload", "accepted", "find", "revoke"},
     email : Emails \cup {None},
     id : Tokens \cup Sessions \cup {None},
     at : 0..MaxTime, seen : 0..MaxTime, late : BOOLEAN]

\* Types; and a locked row is locked by a call that will release it.
TypeOK ==
    /\ now \in 0..MaxTime
    /\ user \in [Emails -> {"absent", "unverified", "verified"}]
    /\ lock \in [Emails -> Callers \cup {None}]
    /\ token \in [Tokens -> TokenRow \cup {None}]
    /\ mailed \subseteq Tokens
    /\ session \in [Sessions -> SessionRow \cup {None}]
    /\ signedOut \subseteq Sessions
    /\ call \in [Callers -> Calls]
    /\ \A e \in Emails : lock[e] # None =>
          LET c == lock[e] IN
          call[c].email = e /\ call[c].step \in {"locked", "issue", "consume", "insert"}

\* Registration of concurrent calls: one token decides, and its mail is not repeated
\* within the cooldown.
RegistrationsAreSerialised == OneTokenDecides /\ CooldownHolds

\* Sessions of concurrent calls: a sign-out is final, the limits are absolute, and no
\* call leaves a row locked.
SessionsAreControlled == TypeOK /\ SignedOutMeansOut /\ SessionsAreBounded

-----------------------------------------------------------------------------
(* Why they hold: the inductive invariant. *)

HoldsLock == {"locked", "issue", "consume", "insert"}

\* What a call has read and relies on is still so: under the lock of its user
\* because nobody else writes that user or its tokens; of a session because
\* rows are not deleted, and because the update's condition compares what was
\* read with what is there.
Knows(c) ==
    LET k == call[c] IN
    /\ k.step \in HoldsLock \cup {"lock"} => k.email \in Emails
    /\ k.step \in HoldsLock => lock[k.email] = c
    /\ k.step = "issue" => Eligible(k.email)
    /\ k.step = "committed" => k.id \in Tokens /\ token[k.id] # None
    /\ k.op = "confirm" /\ k.step # "idle" => k.id \in mailed /\ token[k.id].email = k.email
    /\ k.step = "consume" => k.op = "confirm" /\ user[k.email] # "verified"
    /\ k.step = "insert" => user[k.email] = "verified"
    /\ k.step \in {"load", "extend", "reload", "accepted", "find", "revoke"} =>
          k.id \in Sessions /\ session[k.id] # None
    /\ k.step = "extend" => k.seen + WriteInterval <= k.at
    /\ k.late => k.step = "load" /\ k.id \in signedOut

CallsKnow == \A c \in Callers : Knows(c)

\* Only what was issued is mailed, and a current token is the newest.
CurrentIsNewest ==
    /\ \A t \in mailed : token[t] # None
    /\ \A t \in Tokens : Current(t) =>
          \A u \in TokensOf(token[t].email) : token[u].created <= token[t].created

ActivityIsPast == \A s \in Sessions : session[s] # None => session[s].last <= MaxTime

IInv ==
    /\ RegistrationsAreSerialised /\ SessionsAreControlled
    /\ CallsKnow /\ CurrentIsNewest /\ ActivityIsPast
=============================================================================
