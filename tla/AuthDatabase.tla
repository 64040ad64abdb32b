----------------------------- MODULE AuthDatabase -----------------------------
(***************************************************************************)
(* What registration and browser sessions of the platform service share:   *)
(* the tables, the database clock, the row locks on users, and calls, each *)
(* of which runs one transaction at a time, statement by statement.        *)
(*                                                                         *)
(* PostgreSQL runs at READ COMMITTED: a statement sees what is committed   *)
(* when it starts.  The writes of a transaction come last, so each action  *)
(* that writes also commits.  A row lock is held until then.               *)
(***************************************************************************)
EXTENDS Integers, FiniteSets

CONSTANTS
    Callers,           \* concurrent calls of the platform service
    Emails,            \* a user is named by the email
    Tokens, Sessions,  \* ids that may be issued
    None,
    MaxTime            \* bound on the clock

VARIABLES
    now,         \* clock_timestamp()
    user, lock,  \* of each email: the users row, and who has it locked
    token,       \* email_verification_token rows
    mailed,      \* tokens whose mail has arrived
    session,     \* auth_session rows
    signedOut,   \* sessions for which a signOut has returned
    call         \* where each call is, and what it remembers

userVars == <<user, lock>>
registrationVars == <<token, mailed>>
sessionVars == <<session, signedOut>>

NoCall ==
    [op |-> None, step |-> "idle", email |-> None, id |-> None,
     at |-> 0, seen |-> 0, late |-> FALSE]

Free(c) == call[c].step \in {"idle", "accepted"}

Begin(c, started) == Free(c) /\ call' = [call EXCEPT ![c] = started]

At(c, op, step) == call[c].op \in op /\ call[c].step = step

GoTo(c, step) == call' = [call EXCEPT ![c].step = step]

Release(c) == lock' = [e \in Emails |-> IF lock[e] = c THEN None ELSE lock[e]]

End(c) == Release(c) /\ call' = [call EXCEPT ![c] = NoCall]

\* Mutant: nobody waits for a lock.
LockIsIgnored(e) == TRUE

LockIsFree(e) == lock[e] = None

\* findOne with pessimistic_write.  The conflict-safe INSERT of signUp comes
\* first: it waits for whoever is inserting the same email, and its own
\* uncommitted row is locked.
LockUser(c) ==
    LET e == call[c].email IN
    /\ call[c].step = "lock"
    /\ user[e] # "absent" \/ call[c].op = "signUp"
    /\ LockIsFree(e)
    /\ lock' = [lock EXCEPT ![e] = c]
    /\ GoTo(c, "locked")
    /\ UNCHANGED <<now, user, registrationVars, sessionVars>>

UserNotFound(c) ==
    /\ call[c].step = "lock"
    /\ user[call[c].email] = "absent" /\ call[c].op # "signUp"
    /\ End(c)
    /\ UNCHANGED <<now, user, registrationVars, sessionVars>>

\* The lock times out, the database fails, the process restarts, or a commit
\* is not acknowledged: an uncommitted transaction is rolled back.
Abort(c) ==
    /\ ~Free(c)
    /\ End(c)
    /\ UNCHANGED <<now, user, registrationVars, sessionVars>>

Tick ==
    /\ now < MaxTime
    /\ now' = now + 1
    /\ UNCHANGED <<userVars, registrationVars, sessionVars, call>>
=============================================================================
