---------------------------- MODULE IdentityLimiter ----------------------------
(***************************************************************************)
(* AuthIdentityLimiter of the platform service: budgets of password checks *)
(* and of registration requests per email, in two maps of bounded size.    *)
(* Password checks run concurrently and settle at any later time, when     *)
(* their window may have expired, been reset or been succeeded.            *)
(*                                                                         *)
(* Abstractions.  A state object and a window object are named by the      *)
(* check that created them.  The clock, Date.now, does not run backwards   *)
(* and does not advance within a call.                                     *)
(***************************************************************************)
EXTENDS Integers, FiniteSets

CONSTANTS
    Emails,   \* normalized emails, the keys of both maps
    Checks,   \* password checks, each reserved at most once
    None,
    MaxKeys, SignInAttempts, SignInWindow,
    RegistrationAttempts, RegistrationWindow,  \* IDENTITY_LIMITS
    MaxTime   \* bound on the clock

ASSUME LimitsAssumption ==
    /\ IsFiniteSet(Emails) /\ IsFiniteSet(Checks)
    /\ None \notin Checks
    /\ None \notin [attempts : Nat, expiresAt : Nat]
    /\ {MaxKeys, SignInAttempts, SignInWindow, RegistrationAttempts,
        RegistrationWindow} \subseteq Nat \ {0}
    /\ MaxTime \in Nat

VARIABLES
    now,
    signIn,       \* the state object of each key
    pending,      \* of each state object
    window,       \* the current window of each state object
    failures, expiresAt,  \* of each window
    check,        \* the reservation of each check
    registration, \* the window of each key
    rejected      \* how many checks of each window were rejected, ever

signInVars == <<signIn, pending, window, failures, expiresAt, check, rejected>>
limiterVars == <<now, signIn, pending, window, failures, expiresAt, check,
          registration, rejected>>

RegistrationState == [attempts : Nat, expiresAt : Nat]
NoReservation == [stage |-> "new", email |-> None, state |-> None, window |-> None]

Keys(table) == {e \in Emails : table[e] # None}

-----------------------------------------------------------------------------
(* Sign-in. *)

Expired(w) == w = None \/ expiresAt[w] <= now

\* Mutant: entries are evicted although their window is live.
EvictableIdle(s) == pending[s] = 0

Evictable(s) == pending[s] = 0 /\ Expired(window[s])

\* The table once room has been made, if need be, for a new key.
Swept(e) ==
    IF signIn[e] = None /\ Cardinality(Keys(signIn)) >= MaxKeys
    THEN [k \in Emails |-> IF signIn[k] # None /\ Evictable(signIn[k])
                           THEN None ELSE signIn[k]]
    ELSE signIn

\* Mutant: only failures count.
AdmitsFailures(e) ==
    IF Swept(e)[e] = None THEN Cardinality(Keys(Swept(e))) < MaxKeys
    ELSE LET s == signIn[e] IN
         IF Expired(window[s]) THEN pending[s] < SignInAttempts
         ELSE failures[window[s]] < SignInAttempts

\* Is there room for the key, and capacity for one more check?
Admits(e) ==
    IF Swept(e)[e] = None THEN Cardinality(Keys(Swept(e))) < MaxKeys
    ELSE LET s == signIn[e] IN
         IF Expired(window[s]) THEN pending[s] < SignInAttempts
         ELSE failures[window[s]] + pending[s] < SignInAttempts

\* reserveSignIn for check c: in the key's state, or a new one, and in its
\* window, or a new one.
ReserveSignIn(c, e) ==
    LET s == IF signIn[e] = None THEN c ELSE signIn[e]
        w == IF Expired(window[s]) THEN c ELSE window[s] IN
    /\ check[c].stage = "new"
    /\ Admits(e)
    /\ signIn' = [Swept(e) EXCEPT ![e] = s]
    /\ pending' = [pending EXCEPT ![s] = @ + 1]
    /\ window' = [window EXCEPT ![s] = w]
    /\ expiresAt' = IF w = c THEN [expiresAt EXCEPT ![c] = now + SignInWindow]
                             ELSE expiresAt
    /\ check' = [check EXCEPT ![c] = [stage |-> "running", email |-> e,
                                      state |-> s, window |-> w]]
    /\ UNCHANGED <<now, failures, registration, rejected>>

\* A refused reservation leaves the swept table behind.
RefuseSignIn(e) ==
    /\ ~Admits(e)
    /\ signIn' = Swept(e)
    /\ UNCHANGED <<now, pending, window, failures, expiresAt, check,
                   registration, rejected>>

\* settle: capacity is released; the outcome counts only in the window the
\* check was reserved in.  The caller's second settle, in a finally block, is
\* a no-op, as are all further ones.
Settle(c, outcome) ==
    LET s == check[c].state
        w == check[c].window
        counts == window[s] = w /\ ~Expired(w) IN
    /\ check[c].stage = "running"
    /\ pending' = [pending EXCEPT ![s] = @ - 1]
    /\ window' = [window EXCEPT ![s] = IF counts /\ outcome = "accepted"
                                       THEN None ELSE @]
    /\ failures' = [failures EXCEPT ![w] = IF counts /\ outcome = "rejected"
                                           THEN @ + 1 ELSE @]
    /\ signIn' = IF /\ pending'[s] = 0
                    /\ \/ window'[s] = None
                       \/ failures'[window'[s]] = 0
                       \/ Expired(window'[s])
                 THEN [signIn EXCEPT ![check[c].email] = None]
                 ELSE signIn
    /\ check' = [check EXCEPT ![c].stage = "settled"]
    /\ rejected' = IF outcome = "rejected" THEN [rejected EXCEPT ![w] = @ + 1]
                                           ELSE rejected
    /\ UNCHANGED <<now, expiresAt, registration>>

-----------------------------------------------------------------------------
(* Sign-up and resend. *)

RegistrationLive(e) == registration[e] # None /\ registration[e].expiresAt > now

SweptRegistrations(e) ==
    IF ~RegistrationLive(e) /\ Cardinality(Keys(registration)) >= MaxKeys
    THEN [k \in Emails |-> IF RegistrationLive(k) THEN registration[k] ELSE None]
    ELSE registration

\* admitRegistration: the attempt is counted before any work, and for good.
AdmitRegistration(e) ==
    LET table == SweptRegistrations(e)
        w == IF RegistrationLive(e) THEN registration[e]
             ELSE [attempts |-> 0, expiresAt |-> now + RegistrationWindow] IN
    /\ registration' =
          IF \/ table[e] = None /\ Cardinality(Keys(table)) >= MaxKeys
             \/ w.attempts >= RegistrationAttempts
          THEN table
          ELSE [table EXCEPT ![e] = [w EXCEPT !.attempts = @ + 1]]
    /\ UNCHANGED <<now, signInVars>>

LimiterTick ==
    /\ now < MaxTime
    /\ now' = now + 1
    /\ UNCHANGED <<signInVars, registration>>

-----------------------------------------------------------------------------
LimiterInit ==
    /\ now = 0
    /\ signIn = [e \in Emails |-> None]
    /\ pending = [s \in Checks |-> 0]
    /\ window = [s \in Checks |-> None]
    /\ failures = [w \in Checks |-> 0]
    /\ expiresAt = [w \in Checks |-> 0]
    /\ check = [c \in Checks |-> NoReservation]
    /\ registration = [e \in Emails |-> None]
    /\ rejected = [w \in Checks |-> 0]

LimiterNext ==
    \/ \E c \in Checks :
          \/ \E e \in Emails : ReserveSignIn(c, e)
          \/ \E outcome \in {"accepted", "rejected", "released"} : Settle(c, outcome)
    \/ \E e \in Emails : RefuseSignIn(e) \/ AdmitRegistration(e)
    \/ LimiterTick

LimiterSpec == LimiterInit /\ [][LimiterNext]_limiterVars
-----------------------------------------------------------------------------
(* Properties *)

Running(S) == {c \in S : check[c].stage = "running"}

LimiterTypeOK ==
    /\ Cardinality(Keys(signIn)) <= MaxKeys
    /\ Cardinality(Keys(registration)) <= MaxKeys
    /\ now \in 0..MaxTime
    /\ signIn \in [Emails -> Checks \cup {None}]
    /\ pending \in [Checks -> 0..SignInAttempts]
    /\ window \in [Checks -> Checks \cup {None}]
    /\ failures \in [Checks -> 0..SignInAttempts]
    /\ expiresAt \in [Checks -> Nat]
    /\ check \in [Checks ->
          {NoReservation} \cup
          [stage : {"running", "settled"}, email : Emails,
           state : Checks, window : Checks]]
    /\ registration \in [Emails -> RegistrationState \cup {None}]
    /\ rejected \in [Checks -> Nat]

\* Of the checks admitted in one window, no more than the limit are ever
\* rejected: neither checks that settle after the window has expired or was
\* reset, nor those carried into the next window, make room for more guesses.
WindowLimitHolds ==
    \A w \in Checks :
        rejected[w] + Cardinality(Running({c \in Checks : check[c].window = w}))
            <= SignInAttempts

\* A check in flight can be found under its email, and the pending count of a
\* state is the number of its checks in flight: no eviction or settlement
\* lets an email start over with fresh capacity, or loses capacity for good.
CapacityIsOwned ==
    /\ \A c \in Running(Checks) : signIn[check[c].email] = check[c].state
    /\ \A s \in Checks :
          pending[s] = Cardinality(Running({c \in Checks : check[c].state = s}))

\* No interleaving of password checks, windows and evictions yields more guesses than
\* the limit, nor loses capacity for good.
LimitsHold == LimiterTypeOK /\ WindowLimitHolds /\ CapacityIsOwned

\* What was counted in a live window stays counted until the window expires:
\* no refunds, no eviction; only an accepted check of the same window resets
\* the failures of an email.
BudgetsAreKept ==
    [][\A e \in Emails :
          /\ RegistrationLive(e) =>
                /\ registration'[e] # None
                /\ registration'[e].expiresAt = registration[e].expiresAt
                /\ registration'[e].attempts >= registration[e].attempts
          /\ \A s \in Checks :
                (/\ signIn[e] = s /\ ~Expired(window[s])
                 /\ failures[window[s]] > 0) =>
                   \/ /\ signIn'[e] = s /\ window'[s] = window[s]
                      /\ failures'[window[s]] >= failures[window[s]]
                   \/ \E c \in Running(Checks) :
                         /\ check[c].window = window[s]
                         /\ check'[c].stage = "settled"
                         /\ rejected' = rejected
      ]_limiterVars

-----------------------------------------------------------------------------
(* Why they hold: the inductive invariant. *)

Reserved(c) == check[c].stage # "new"

\* What is named was created, by a check of the same email: a state by the
\* check that bears its name, and a window in the one state it is ever of.
NamesAreOwned ==
    /\ \A c \in Checks : Reserved(c) =>
          LET s == check[c].state
              w == check[c].window
          IN  /\ Reserved(s) /\ check[s].state = s /\ check[s].email = check[c].email
              /\ Reserved(w) /\ check[w].window = w /\ check[w].state = s
    /\ \A e \in Emails : signIn[e] # None =>
          /\ Reserved(signIn[e])
          /\ check[signIn[e]].state = signIn[e] /\ check[signIn[e]].email = e
    /\ \A s \in Checks : window[s] # None =>
          /\ Reserved(window[s])
          /\ check[window[s]].window = window[s] /\ check[window[s]].state = s

\* While a window is live its failures are all of its rejections, and leave
\* room for every check in flight in its state, whichever window that is of.
LiveWindowsCount ==
    \A s \in Checks : ~Expired(window[s]) =>
        /\ failures[window[s]] = rejected[window[s]]
        /\ failures[window[s]] + pending[s] <= SignInAttempts

UnusedIsClean == \A c \in Checks : ~Reserved(c) => failures[c] = 0 /\ rejected[c] = 0

LimiterInv == LimitsHold /\ NamesAreOwned /\ LiveWindowsCount /\ UnusedIsClean
=============================================================================
