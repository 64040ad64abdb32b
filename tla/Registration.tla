----------------------------- MODULE Registration -----------------------------
(***************************************************************************)
(* RegistrationService and RegistrationStore: sign-up, resend and email    *)
(* confirmation, serialized by the lock on the user's row.                 *)
(*                                                                         *)
(* Abstractions.  A call is one the identity limiter has admitted (module  *)
(* IdentityLimiter).  Only the owner of a mailbox has its links, so a      *)
(* confirmation is for a token whose mail has arrived; a mail may be lost. *)
(***************************************************************************)
EXTENDS AuthDatabase

CONSTANTS Cooldown, TokenTtl \* AUTH_EMAIL_CONFIRMATION_*

TokenRow == [email : Emails, created : Nat, expires : Nat,
             status : {"current", "used", "invalidated"}]

TokensOf(e) == {t \in Tokens : token[t] # None /\ token[t].email = e}

Current(t) == token[t] # None /\ token[t].status = "current"

Usable(t) == Current(t) /\ token[t].expires > now

SignUp(c, e) ==
    /\ Begin(c, [NoCall EXCEPT !.op = "signUp", !.step = "lock", !.email = e])
    /\ UNCHANGED <<now, userVars, registrationVars, sessionVars>>

Resend(c, e) ==
    /\ Begin(c, [NoCall EXCEPT !.op = "resend", !.step = "lock", !.email = e])
    /\ UNCHANGED <<now, userVars, registrationVars, sessionVars>>

-----------------------------------------------------------------------------
(* issueIfEligible, under the lock. *)

Eligible(e) ==
    /\ user[e] # "verified"
    /\ \A t \in TokensOf(e) : token[t].created + Cooldown <= now

CheckEligibility(c) ==
    /\ At(c, {"signUp", "resend"}, "locked")
    /\ IF Eligible(call[c].email) THEN GoTo(c, "issue") /\ UNCHANGED lock
                                  ELSE End(c)
    /\ UNCHANGED <<now, user, registrationVars, sessionVars>>

\* The tokens that a new one of e puts an end to.
Terminated(t, e) == Current(t) /\ token[t].email = e

\* Replacement, insertion and commit; a new user's row is committed as well.
Issue(c, t) ==
    LET e == call[c].email IN
    /\ At(c, {"signUp", "resend"}, "issue")
    /\ token[t] = None
    /\ token' = [u \in Tokens |->
          IF u = t THEN [email |-> e, created |-> now, expires |-> now + TokenTtl,
                         status |-> "current"]
          ELSE IF Terminated(u, e) THEN [token[u] EXCEPT !.status = "invalidated"]
          ELSE token[u]]
    /\ user' = [user EXCEPT ![e] = IF @ = "absent" THEN "unverified" ELSE @]
    /\ Release(c)
    /\ call' = [call EXCEPT ![c].step = "committed", ![c].id = t]
    /\ UNCHANGED <<now, mailed, sessionVars>>

\* enqueueCommitted: the mail is delivered some time before it is used, or
\* never.
EnqueueMail(c) ==
    /\ At(c, {"signUp", "resend"}, "committed")
    /\ mailed' \in {mailed, mailed \cup {call[c].id}}
    /\ End(c)
    /\ UNCHANGED <<now, user, token, sessionVars>>

-----------------------------------------------------------------------------
(* confirm *)

\* Discovery: the token tells whose row to lock.
Confirm(c, t) ==
    /\ t \in mailed
    /\ Begin(c, [NoCall EXCEPT !.op = "confirm", !.step = "lock",
                               !.email = token[t].email, !.id = t])
    /\ UNCHANGED <<now, userVars, registrationVars, sessionVars>>

ReadToken(c) ==
    /\ At(c, {"confirm"}, "locked")
    /\ IF user[call[c].email] # "verified" /\ Usable(call[c].id)
       THEN GoTo(c, "consume") /\ UNCHANGED lock
       ELSE End(c)
    /\ UNCHANGED <<now, user, registrationVars, sessionVars>>

\* Mutant: the update relies on what the select has seen.
ConsumableAsRead(t) == Current(t)

Consumable(t) == Usable(t)

\* The conditional update, the verification, and the commit.
Consume(c) ==
    LET t == call[c].id IN
    /\ At(c, {"confirm"}, "consume")
    /\ IF Consumable(t)
       THEN /\ token' = [token EXCEPT ![t].status = "used"]
            /\ user' = [user EXCEPT ![call[c].email] = "verified"]
       ELSE UNCHANGED <<token, user>>
    /\ End(c)
    /\ UNCHANGED <<now, mailed, sessionVars>>

RegistrationStep(c) ==
    \/ \E e \in Emails : SignUp(c, e) \/ Resend(c, e)
    \/ \E t \in Tokens : Issue(c, t) \/ Confirm(c, t)
    \/ CheckEligibility(c) \/ EnqueueMail(c) \/ ReadToken(c) \/ Consume(c)

-----------------------------------------------------------------------------
(* Properties *)

\* One link at a time can confirm an account, and none once one has:
\* a resend that waited for a confirmation revives nothing, a confirmation
\* that waited for a resend does not use the replaced token.  (So no insert
\* hits the unique index on current tokens.)
OneTokenDecides ==
    \A e \in Emails :
        /\ Cardinality({t \in TokensOf(e) : Current(t)}) <= 1
        /\ \A t \in TokensOf(e) : token[t].status = "used" =>
              user[e] = "verified" /\ \A u \in TokensOf(e) : ~Current(u)
        /\ user[e] = "verified" =>
              Cardinality({t \in TokensOf(e) : token[t].status = "used"}) = 1

\* However many sign-ups and resends of an email run at once, a new token is
\* only issued when the cooldown of the last one has passed.
CooldownHolds ==
    \A t, u \in Tokens :
        /\ t # u
        /\ token[t] # None /\ token[u] # None /\ token[t].email = token[u].email
        => \/ token[t].created + Cooldown <= token[u].created
           \/ token[u].created + Cooldown <= token[t].created

\* A user becomes verified only by the newest token issued, which was mailed
\* and has not expired by the time of the commit.
NewestTokenConfirms ==
    [][\A e \in Emails :
          (user[e] # "verified" /\ user'[e] = "verified") =>
             \E t \in TokensOf(e) \cap mailed :
                /\ token'[t].status = "used" /\ token[t].expires > now
                /\ \A u \in TokensOf(e) : token[u].created <= token[t].created
      ]_userVars
=============================================================================
