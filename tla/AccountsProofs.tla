---------------------------- MODULE AccountsProofs ----------------------------
(***************************************************************************)
(* Registration and sessions on one database, for any number of concurrent *)
(* calls, users, tokens and sessions: one token decides, sign-out is       *)
(* final, and the lock on the user's row is what makes it so.              *)
(***************************************************************************)
EXTENDS Accounts, FiniteSetTheorems, TLAPS

-----------------------------------------------------------------------------
(* The invariant, divided into the tables, the locks and the calls.        *)

TablesTyped ==
    /\ now \in 0..MaxTime
    /\ user \in [Emails -> {"absent", "unverified", "verified"}]
    /\ token \in [Tokens -> TokenRow \cup {None}]
    /\ mailed \subseteq Tokens
    /\ session \in [Sessions -> SessionRow \cup {None}]
    /\ signedOut \subseteq Sessions

SessionRowsBounded ==
    /\ \A s \in signedOut : session[s] # None /\ session[s].revoked
    /\ \A s \in Sessions : session[s] # None =>
          /\ user[session[s].email] = "verified"
          /\ session[s].inactivity = Earlier(session[s].last + IdleTtl, session[s].absolute)
          /\ session[s].last <= session[s].inactivity

Tables ==
    /\ TablesTyped /\ RegistrationsAreSerialised /\ CurrentIsNewest
    /\ SessionRowsBounded /\ ActivityIsPast

Locks ==
    /\ lock \in [Emails -> Callers \cup {None}]
    /\ \A e \in Emails : lock[e] # None =>
          call[lock[e]].email = e /\ call[lock[e]].step \in HoldsLock

\* A validation is accepted in time, and before any sign-out has returned.
AcceptedInTime(c) ==
    call[c].step = "accepted" =>
        ~call[c].late /\ call[c].at < session[call[c].id].inactivity

Parts ==
    /\ Tables /\ Locks /\ call \in [Callers -> Calls]
    /\ \A c \in Callers : Knows(c) /\ AcceptedInTime(c)

LEMMA InvariantParts == IInv <=> Parts
  <1>1. IInv => Parts
    BY DEF IInv, Parts, Tables, TablesTyped, SessionRowsBounded, Locks, AcceptedInTime,
       SessionsAreControlled, TypeOK, SignedOutMeansOut, SessionsAreBounded, CallsKnow, HoldsLock
  <1>2. Parts => IInv
    BY DEF IInv, Parts, Tables, TablesTyped, SessionRowsBounded, Locks, AcceptedInTime,
       SessionsAreControlled, TypeOK, SignedOutMeansOut, SessionsAreBounded, CallsKnow, HoldsLock
  <1> QED  BY <1>1, <1>2

-----------------------------------------------------------------------------
(* Steps of one call, and what they leave to the others.                   *)

\* Nothing that a call may have seen is undone.
Monotone ==
    /\ now' >= now
    /\ \A t \in Tokens : token[t] # None => token'[t] # None /\ token'[t].email = token[t].email
    /\ mailed \subseteq mailed'
    /\ \A s \in Sessions : session[s] # None =>
          session'[s] # None /\ session'[s].inactivity >= session[s].inactivity
    /\ \A e \in Emails : user[e] = "verified" => user'[e] = "verified"
    /\ signedOut \subseteq signedOut'

\* A user's row and tokens are as they were.
Kept(e) ==
    /\ user'[e] = user[e]
    /\ \A t \in Tokens : token'[t] # None /\ token'[t].email = e =>
          token[t] # None /\ token[t].email = e /\ token'[t].created = token[t].created

\* Only users that nobody but c has locked are written.
Respects(c) == \A e \in Emails : lock[e] \in Callers \ {c} => Kept(e)

LEMMA OthersKnow ==
    ASSUME Parts, Tables', NEW c, Monotone, Respects(c), NEW d \in Callers \ {c},
           call'[d] = call[d],
           \A e \in Emails : lock[e] = d => lock'[e] = d
    PROVE  Knows(d)' /\ AcceptedInTime(d)'
  <1>0. PICK k \in Calls : k = call[d] /\ k = call'[d]
    BY DEF Parts
  <1>1. /\ Knows(d) /\ AcceptedInTime(d) /\ k \in Calls /\ TablesTyped /\ TablesTyped'
        /\ now \in Nat /\ now' \in Nat
    BY DEF Parts, Tables, TablesTyped
  <1>2. k.step \in HoldsLock => k.email \in Emails /\ lock[k.email] = d /\ lock'[k.email] = d
                               /\ Kept(k.email)
    BY <1>0, <1>1 DEF Knows, Respects
  <1>3. k.step = "issue" => Eligible(k.email)'
    <2>1. SUFFICES ASSUME k.step = "issue" PROVE Eligible(k.email)'
      OBVIOUS
    <2>2. k.email \in Emails /\ Eligible(k.email) /\ Kept(k.email)
      BY <1>0, <1>1, <1>2, <2>1 DEF Knows, HoldsLock
    <2>3. user'[k.email] # "verified"
      BY <2>2 DEF Kept, Eligible
    <2>4. ASSUME NEW t \in Tokens, token'[t] # None, token'[t].email = k.email
          PROVE  token'[t].created + Cooldown <= now'
      <3>1. token[t] # None /\ token[t].email = k.email /\ token'[t].created = token[t].created
        BY <2>2, <2>4 DEF Kept
      <3>2. token[t].created + Cooldown <= now
        BY <2>2, <3>1 DEF Eligible, TokensOf
      <3>3. token[t].created \in Nat /\ Cooldown \in Nat
        BY <1>0, <1>1, <3>1, AccountsAssumption DEF TablesTyped, TokenRow
      <3> QED  BY <1>0, <1>1, <3>1, <3>2, <3>3 DEF Monotone
    <2> QED  BY <2>3, <2>4 DEF Eligible, TokensOf
  <1>4. k.step = "consume" => user'[k.email] # "verified"
    BY <1>0, <1>1, <1>2 DEF Knows, HoldsLock, Kept
  <1>5. k.step = "insert" => user'[k.email] = "verified"
    BY <1>0, <1>1, <1>2 DEF Knows, HoldsLock, Kept
  <1>6. k.op = "confirm" /\ k.step # "idle" => k.id \in mailed' /\ token'[k.id].email = k.email
    BY <1>0, <1>1 DEF Knows, Monotone, Parts, Tables, CurrentIsNewest, TablesTyped
  <1>7. k.step = "committed" => k.id \in Tokens /\ token'[k.id] # None
    BY <1>0, <1>1 DEF Knows, Monotone
  <1>8. k.step \in {"load", "extend", "reload", "accepted", "find", "revoke"} =>
           /\ k.id \in Sessions /\ session[k.id] # None /\ session'[k.id] # None
           /\ session'[k.id].inactivity >= session[k.id].inactivity
    BY <1>0, <1>1 DEF Knows, Monotone
  <1>9. Knows(d)'
    <2>1. k.late => k.step = "load" /\ k.id \in signedOut'
      BY <1>0, <1>1 DEF Knows, Monotone
    <2>2. k.step \in HoldsLock \cup {"lock"} => k.email \in Emails
      BY <1>0, <1>1 DEF Knows
    <2>3. k.step = "extend" => k.seen + WriteInterval <= k.at
      BY <1>0, <1>1 DEF Knows
    <2>4. k.step = "consume" => k.op = "confirm"
      BY <1>0, <1>1 DEF Knows
    <2>5. call'[d] = k
      BY <1>0
    <2> QED  BY <1>2, <1>3, <1>4, <1>5, <1>6, <1>7, <1>8, <2>1, <2>2, <2>3, <2>4, <2>5 DEF Knows
  <1>10. AcceptedInTime(d)'
    <2>1. SUFFICES ASSUME k.step = "accepted"
                   PROVE  ~k.late /\ k.at < session'[k.id].inactivity
      BY <1>0 DEF AcceptedInTime
    <2>2. /\ ~k.late /\ k.at < session[k.id].inactivity
          /\ session'[k.id].inactivity >= session[k.id].inactivity
          /\ k.id \in Sessions /\ session[k.id] # None /\ session'[k.id] # None
      BY <1>0, <1>1, <1>8, <2>1 DEF AcceptedInTime
    <2>3. /\ session[k.id].inactivity \in Nat /\ session'[k.id].inactivity \in Nat /\ k.at \in Nat
      BY <1>0, <1>1, <2>2 DEF TablesTyped, SessionRow, Calls
    <2> QED  BY <2>2, <2>3
  <1> QED  BY <1>9, <1>10

\* Call c does one thing: it may take a free lock for itself or release its own.
LEMMA StepOfCall ==
    ASSUME Parts, Tables', NEW c \in Callers, NEW k \in Calls,
           Monotone, Respects(c), call' = [call EXCEPT ![c] = k],
           lock' \in [Emails -> Callers \cup {None}],
           \A e \in Emails : lock'[e] # lock[e] =>
               (lock[e] = None /\ lock'[e] = c) \/ (lock[e] = c /\ lock'[e] = None),
           \A e \in Emails : lock'[e] = c => k.email = e /\ k.step \in HoldsLock,
           Knows(c)', AcceptedInTime(c)'
    PROVE  Parts'
  <1>1. /\ call \in [Callers -> Calls] /\ Locks
        /\ call'[c] = k /\ \A d \in Callers \ {c} : call'[d] = call[d]
        /\ call' \in [Callers -> Calls]
    BY DEF Parts
  <1>2. c # None /\ None \notin Callers
    BY AccountsAssumption
  <1>3. Locks'
    <2>1. ASSUME NEW e \in Emails, lock'[e] # None
          PROVE  call'[lock'[e]].email = e /\ call'[lock'[e]].step \in HoldsLock
      <3>1. CASE lock'[e] = c
        BY <1>1, <3>1
      <3>2. CASE lock'[e] # c
        <4>1. lock'[e] = lock[e] /\ lock[e] \in Callers \ {c}
          BY <1>1, <1>2, <2>1, <3>2 DEF Locks
        <4> QED  BY <1>1, <2>1, <4>1 DEF Locks
      <3> QED  BY <3>1, <3>2
    <2> QED  BY <2>1 DEF Locks, HoldsLock
  <1>4. ASSUME NEW d \in Callers \ {c}
        PROVE  Knows(d)' /\ AcceptedInTime(d)'
    <2>1. call'[d] = call[d] /\ \A e \in Emails : lock[e] = d => lock'[e] = d
      BY <1>1, <1>2
    <2> QED  BY <2>1, OthersKnow
  <1>5. \A d \in Callers : Knows(d)' /\ AcceptedInTime(d)'
    BY <1>4
  <1> QED  BY <1>1, <1>3, <1>5 DEF Parts

\* A step that writes no table.
LEMMA TablesUntouched ==
    ASSUME Parts, UNCHANGED <<now, user, token, mailed, session, signedOut>>
    PROVE  Tables' /\ Monotone /\ \A c : Respects(c)
  <1>1. TablesTyped
    BY DEF Parts, Tables
  <1>2. Tables'
    <2>1. TablesTyped' /\ SessionRowsBounded' /\ ActivityIsPast'
      BY DEF Parts, Tables, TablesTyped, SessionRowsBounded, ActivityIsPast
    <2>2. RegistrationsAreSerialised'
      BY DEF Parts, Tables, RegistrationsAreSerialised, OneTokenDecides, CooldownHolds, TokensOf,
             Current
    <2>3. CurrentIsNewest'
      BY DEF Parts, Tables, CurrentIsNewest, TokensOf, Current
    <2> QED  BY <2>1, <2>2, <2>3 DEF Tables
  <1>3. Monotone
    <2>1. now \in Nat
      BY <1>1, AccountsAssumption DEF TablesTyped
    <2>2. \A s \in Sessions : session[s] # None => session[s].inactivity \in Nat
      BY <1>1 DEF TablesTyped, SessionRow
    <2> QED  BY <2>1, <2>2 DEF Monotone
  <1> QED  BY <1>2, <1>3 DEF Respects, Kept

LEMMA NoCallFields ==
    /\ NoCall \in Calls
    /\ NoCall.op = None /\ NoCall.step = "idle" /\ ~NoCall.late
  BY AccountsAssumption DEF NoCall, Calls

\* The end of a call, with its transaction: nothing is known any more, nothing held.
LEMMA EndOfCall ==
    ASSUME Parts, Tables', NEW c \in Callers, Monotone, Respects(c), End(c)
    PROVE  Parts'
  <1>1. lock \in [Emails -> Callers \cup {None}] /\ c # None
    BY AccountsAssumption DEF Parts, Locks
  <1>2. call' = [call EXCEPT ![c] = NoCall] /\ call'[c] = NoCall
    BY DEF End, Parts
  <1>3. /\ lock' \in [Emails -> Callers \cup {None}]
        /\ \A e \in Emails : lock'[e] # lock[e] => lock[e] = c /\ lock'[e] = None
        /\ \A e \in Emails : lock'[e] # c
    BY <1>1 DEF End, Release
  <1>4. Knows(c)' /\ AcceptedInTime(c)'
    BY <1>2, NoCallFields DEF Knows, AcceptedInTime, HoldsLock, NoCall
  <1> QED  BY <1>2, <1>3, <1>4, NoCallFields, StepOfCall

LEMMA ReadOnlyEnd ==
    ASSUME Parts, NEW c \in Callers, End(c),
           UNCHANGED <<now, user, token, mailed, session, signedOut>>
    PROVE  Parts'
  BY TablesUntouched, EndOfCall

\* A call goes to its next step, keeping what it has and its lock, if any.
LEMMA GoesTo ==
    ASSUME Parts, NEW c \in Callers, NEW k \in Calls, call' = [call EXCEPT ![c] = k],
           UNCHANGED <<now, user, token, mailed, session, signedOut, lock>>,
           \A e \in Emails : lock[e] = c => k.email = e /\ k.step \in HoldsLock,
           Knows(c)', AcceptedInTime(c)'
    PROVE  Parts'
  <1>1. lock' \in [Emails -> Callers \cup {None}]
    BY DEF Parts, Locks
  <1> QED  BY <1>1, TablesUntouched, StepOfCall

\* A new call holds no lock.
LEMMA Begins ==
    ASSUME Parts, NEW c \in Callers, NEW k \in Calls, Begin(c, k),
           UNCHANGED <<now, user, token, mailed, session, signedOut, lock>>,
           Knows(c)', k.step # "accepted"
    PROVE  Parts'
  <1>1. \A e \in Emails : lock[e] # c
    BY AccountsAssumption DEF Parts, Locks, Begin, Free, HoldsLock
  <1>2. call' = [call EXCEPT ![c] = k] /\ call'[c] = k
    BY DEF Begin, Parts
  <1>3. AcceptedInTime(c)'
    BY <1>2 DEF AcceptedInTime
  <1> QED  BY <1>1, <1>2, <1>3, GoesTo

\* What a record of a call looks like after a change of its step.
LEMMA StepChanged ==
    ASSUME Parts, NEW c \in Callers, NEW step, GoTo(c, step)
    PROVE  \E k : /\ call' = [call EXCEPT ![c] = k] /\ call'[c] = k
                  /\ k.step = step /\ k.op = call[c].op /\ k.email = call[c].email
                  /\ k.id = call[c].id /\ k.at = call[c].at /\ k.seen = call[c].seen
                  /\ k.late = call[c].late
                  /\ step \in {"lock", "locked", "issue", "committed", "consume", "insert",
                               "load", "extend", "reload", "accepted", "find", "revoke"}
                         => k \in Calls
  <1>1. call \in [Callers -> Calls] /\ call[c] \in Calls
    BY DEF Parts
  <1>2. call' = [call EXCEPT ![c] = [call[c] EXCEPT !.step = step]]
    BY DEF GoTo
  <1> DEFINE k == [call[c] EXCEPT !.step = step]
  <1>3. /\ k.step = step /\ k.op = call[c].op /\ k.email = call[c].email
        /\ k.id = call[c].id /\ k.at = call[c].at /\ k.seen = call[c].seen
        /\ k.late = call[c].late
        /\ step \in {"lock", "locked", "issue", "committed", "consume", "insert",
                     "load", "extend", "reload", "accepted", "find", "revoke"}
                         => k \in Calls
    BY <1>1 DEF Calls
  <1>4. call'[c] = k
    BY <1>1, <1>2
  <1> HIDE DEF k
  <1> QED  BY <1>2, <1>3, <1>4 DEF k

-----------------------------------------------------------------------------
(* Steps that write no table.                                              *)

LEMMA BeginningsKeep ==
    ASSUME Parts, NEW c \in Callers,
           \/ \E e \in Emails : SignUp(c, e) \/ Resend(c, e) \/ SignIn(c, e)
           \/ \E t \in Tokens : Confirm(c, t)
           \/ \E s \in Sessions : SignOut(c, s) \/ \E op \in {"validate", "touch"} : Validate(c, s, op)
    PROVE  Parts'
  <1>1. TablesTyped /\ CurrentIsNewest /\ call \in [Callers -> Calls]
    BY DEF Parts, Tables
  <1>2. CASE \E e \in Emails : SignUp(c, e) \/ Resend(c, e) \/ SignIn(c, e)
    <2>1. PICK e \in Emails, op \in {"signUp", "resend", "signIn"} :
             Begin(c, [NoCall EXCEPT !.op = op, !.step = "lock", !.email = e])
      BY <1>2 DEF SignUp, Resend, SignIn
    <2>2. UNCHANGED <<now, user, token, mailed, session, signedOut, lock>>
      BY <1>2 DEF SignUp, Resend, SignIn, userVars, registrationVars, sessionVars
    <2>3. PICK k \in Calls :
             /\ Begin(c, k) /\ k.op = op /\ k.step = "lock" /\ k.email = e /\ ~k.late
      <3> DEFINE k == [NoCall EXCEPT !.op = op, !.step = "lock", !.email = e]
      <3>1. k \in Calls /\ k.op = op /\ k.step = "lock" /\ k.email = e /\ ~k.late
        BY NoCallFields DEF Calls
      <3> HIDE DEF k
      <3> QED  BY <2>1, <3>1 DEF k
    <2>4. call'[c] = k
      BY <1>1, <2>3 DEF Begin
    <2>5. Knows(c)'
      BY <2>3, <2>4 DEF Knows, HoldsLock
    <2> QED  BY <2>2, <2>3, <2>5, Begins
  <1>3. CASE \E t \in Tokens : Confirm(c, t)
    <2>1. PICK t \in Tokens : t \in mailed /\
             Begin(c, [NoCall EXCEPT !.op = "confirm", !.step = "lock",
                                     !.email = token[t].email, !.id = t])
      BY <1>3 DEF Confirm
    <2>2. UNCHANGED <<now, user, token, mailed, session, signedOut, lock>>
      BY <1>3 DEF Confirm, userVars, registrationVars, sessionVars
    <2>3. token[t].email \in Emails
      BY <1>1, <2>1 DEF TablesTyped, TokenRow, CurrentIsNewest
    <2>4. PICK k \in Calls :
             /\ Begin(c, k) /\ k.step = "lock" /\ k.email = token[t].email /\ k.id = t /\ ~k.late
      <3> DEFINE k == [NoCall EXCEPT !.op = "confirm", !.step = "lock",
                                     !.email = token[t].email, !.id = t]
      <3>1. /\ k \in Calls /\ k.step = "lock" /\ k.email = token[t].email /\ k.id = t
            /\ ~k.late
        BY <2>3, NoCallFields DEF Calls
      <3> HIDE DEF k
      <3> QED  BY <2>1, <3>1 DEF k
    <2>5. call'[c] = k
      BY <1>1, <2>4 DEF Begin
    <2>6. Knows(c)'
      BY <2>1, <2>2, <2>3, <2>4, <2>5 DEF Knows, HoldsLock
    <2> QED  BY <2>2, <2>4, <2>6, Begins
  <1>4. CASE \E s \in Sessions : SignOut(c, s)
    <2>1. PICK s \in Sessions : session[s] # None /\
             Begin(c, [NoCall EXCEPT !.op = "signOut", !.step = "find", !.id = s])
      BY <1>4 DEF SignOut
    <2>2. UNCHANGED <<now, user, token, mailed, session, signedOut, lock>>
      BY <1>4 DEF SignOut, userVars, registrationVars, sessionVars
    <2>3. PICK k \in Calls :
             Begin(c, k) /\ k.op = "signOut" /\ k.step = "find" /\ k.id = s /\ ~k.late
      <3> DEFINE k == [NoCall EXCEPT !.op = "signOut", !.step = "find", !.id = s]
      <3>1. k \in Calls /\ k.op = "signOut" /\ k.step = "find" /\ k.id = s /\ ~k.late
        BY NoCallFields DEF Calls
      <3> HIDE DEF k
      <3> QED  BY <2>1, <3>1 DEF k
    <2>4. call'[c] = k
      BY <1>1, <2>3 DEF Begin
    <2>5. Knows(c)'
      BY <2>1, <2>2, <2>3, <2>4 DEF Knows, HoldsLock
    <2> QED  BY <2>2, <2>3, <2>5, Begins
  <1>5. CASE \E s \in Sessions, op \in {"validate", "touch"} : Validate(c, s, op)
    <2>1. PICK s \in Sessions, op \in {"validate", "touch"} : session[s] # None /\
             Begin(c, [NoCall EXCEPT !.op = op, !.step = "load", !.id = s, !.at = now,
                                     !.late = s \in signedOut])
      BY <1>5 DEF Validate
    <2>2. UNCHANGED <<now, user, token, mailed, session, signedOut, lock>>
      BY <1>5 DEF Validate, userVars, registrationVars, sessionVars
    <2>3. PICK k \in Calls :
             /\ Begin(c, k) /\ k.op = op /\ k.step = "load" /\ k.id = s
             /\ k.late => s \in signedOut
      <3> DEFINE k == [NoCall EXCEPT !.op = op, !.step = "load", !.id = s, !.at = now,
                                     !.late = s \in signedOut]
      <3>1. now \in 0..MaxTime /\ (s \in signedOut) \in BOOLEAN
        BY <1>1 DEF TablesTyped
      <3>2. /\ k \in Calls /\ k.op = op /\ k.step = "load" /\ k.id = s
            /\ k.late = (s \in signedOut)
        BY <3>1, NoCallFields, ZenonT(20) DEF Calls
      <3> HIDE DEF k
      <3> QED  BY <2>1, <3>2 DEF k
    <2>4. call'[c] = k
      BY <1>1, <2>3 DEF Begin
    <2>5. Knows(c)'
      BY <2>1, <2>2, <2>3, <2>4 DEF Knows, HoldsLock
    <2> QED  BY <2>2, <2>3, <2>5, Begins
  <1> QED  BY <1>2, <1>3, <1>4, <1>5

LEMMA LockUserKeeps ==
    ASSUME Parts, NEW c \in Callers, LockUser(c)
    PROVE  Parts'
  <1>1. PICK k : /\ call' = [call EXCEPT ![c] = k] /\ call'[c] = k
                 /\ k.step = "locked" /\ k.op = call[c].op /\ k.email = call[c].email
                 /\ k.id = call[c].id /\ k.late = call[c].late /\ k \in Calls
    BY StepChanged DEF LockUser
  <1>2. /\ Knows(c) /\ call[c].step = "lock" /\ k.email \in Emails
        /\ lock \in [Emails -> Callers \cup {None}]
    BY <1>1 DEF Parts, Locks, LockUser, Knows
  <1>3. UNCHANGED <<now, user, token, mailed, session, signedOut>>
    BY DEF LockUser, registrationVars, sessionVars
  <1>4. /\ lock[k.email] = None /\ lock' = [lock EXCEPT ![k.email] = c]
    BY <1>1 DEF LockUser, LockIsFree
  <1>5. /\ lock' \in [Emails -> Callers \cup {None}]
        /\ \A e \in Emails : lock'[e] # lock[e] => lock[e] = None /\ lock'[e] = c
        /\ lock'[k.email] = c
    BY <1>2, <1>4
  <1>6. \A e \in Emails : lock'[e] = c => k.email = e /\ k.step \in HoldsLock
    <2>1. \A e \in Emails : lock[e] # c
      BY <1>2, AccountsAssumption DEF Parts, Locks, HoldsLock
    <2> QED  BY <1>1, <1>2, <1>4, <2>1 DEF HoldsLock
  <1>7. Knows(c)'
    BY <1>1, <1>2, <1>3, <1>5 DEF Knows, HoldsLock
  <1>8. AcceptedInTime(c)'
    BY <1>1 DEF AcceptedInTime
  <1> QED  BY <1>1, <1>3, <1>5, <1>6, <1>7, <1>8, TablesUntouched, StepOfCall

LEMMA CheckEligibilityKeeps ==
    ASSUME Parts, NEW c \in Callers, CheckEligibility(c)
    PROVE  Parts'
  <1>1. UNCHANGED <<now, user, token, mailed, session, signedOut>>
    BY DEF CheckEligibility, registrationVars, sessionVars
  <1>2. CASE End(c)
    BY <1>1, <1>2, ReadOnlyEnd
  <1>3. CASE Eligible(call[c].email) /\ GoTo(c, "issue") /\ lock' = lock
    <2>1. PICK k : /\ call' = [call EXCEPT ![c] = k] /\ call'[c] = k
                   /\ k.step = "issue" /\ k.op = call[c].op /\ k.email = call[c].email
                   /\ k.id = call[c].id /\ k.late = call[c].late /\ k \in Calls
      BY <1>3, StepChanged
    <2>2. Knows(c) /\ call[c].step = "locked" /\ call[c].op \in {"signUp", "resend"}
      BY DEF Parts, CheckEligibility, At
    <2>3. \A e \in Emails : lock[e] = c => k.email = e /\ k.step \in HoldsLock
      BY <2>1, AccountsAssumption DEF Parts, Locks, HoldsLock
    <2>4. Eligible(k.email)'
      BY <1>1, <1>3, <2>1 DEF Eligible, TokensOf
    <2>5. Knows(c)'
      BY <1>1, <1>3, <2>1, <2>2, <2>4 DEF Knows, HoldsLock
    <2>6. AcceptedInTime(c)'
      BY <2>1 DEF AcceptedInTime
    <2> QED  BY <1>1, <1>3, <2>1, <2>3, <2>5, <2>6, GoesTo
  <1> QED  BY <1>2, <1>3 DEF CheckEligibility

LEMMA ReadTokenKeeps ==
    ASSUME Parts, NEW c \in Callers, ReadToken(c)
    PROVE  Parts'
  <1>1. UNCHANGED <<now, user, token, mailed, session, signedOut>>
    BY DEF ReadToken, registrationVars, sessionVars
  <1>2. CASE End(c)
    BY <1>1, <1>2, ReadOnlyEnd
  <1>3. CASE user[call[c].email] # "verified" /\ GoTo(c, "consume") /\ lock' = lock
    <2>1. PICK k : /\ call' = [call EXCEPT ![c] = k] /\ call'[c] = k
                   /\ k.step = "consume" /\ k.op = call[c].op /\ k.email = call[c].email
                   /\ k.id = call[c].id /\ k.late = call[c].late /\ k \in Calls
      BY <1>3, StepChanged
    <2>2. Knows(c) /\ call[c].step = "locked" /\ call[c].op = "confirm"
      BY DEF Parts, ReadToken, At
    <2>3. \A e \in Emails : lock[e] = c => k.email = e /\ k.step \in HoldsLock
      BY <2>1, AccountsAssumption DEF Parts, Locks, HoldsLock
    <2>4. Knows(c)'
      BY <1>1, <1>3, <2>1, <2>2 DEF Knows, HoldsLock
    <2>5. AcceptedInTime(c)'
      BY <2>1 DEF AcceptedInTime
    <2> QED  BY <1>1, <1>3, <2>1, <2>3, <2>4, <2>5, GoesTo
  <1> QED  BY <1>2, <1>3 DEF ReadToken

LEMMA ReadClockKeeps ==
    ASSUME Parts, NEW c \in Callers, ReadClock(c)
    PROVE  Parts'
  <1>1. UNCHANGED <<now, user, token, mailed, session, signedOut>>
    BY DEF ReadClock, registrationVars, sessionVars
  <1>2. CASE End(c)
    BY <1>1, <1>2, ReadOnlyEnd
  <1>3. CASE /\ user[call[c].email] = "verified" /\ lock' = lock
             /\ call' = [call EXCEPT ![c].step = "insert", ![c].at = now]
    <2>1. call \in [Callers -> Calls] /\ call[c] \in Calls /\ now \in 0..MaxTime
      BY DEF Parts, Tables, TablesTyped
    <2> DEFINE k == [call[c] EXCEPT !.step = "insert", !.at = now]
    <2>2. /\ k \in Calls /\ k.step = "insert" /\ k.op = call[c].op /\ k.email = call[c].email
          /\ k.id = call[c].id /\ k.late = call[c].late
      BY <2>1 DEF Calls
    <2>3. call' = [call EXCEPT ![c] = k] /\ call'[c] = k
      BY <1>3, <2>1
    <2> HIDE DEF k
    <2>4. Knows(c) /\ call[c].step = "locked" /\ call[c].op = "signIn"
      BY DEF Parts, ReadClock, At
    <2>5. \A e \in Emails : lock[e] = c => k.email = e /\ k.step \in HoldsLock
      BY <2>2, AccountsAssumption DEF Parts, Locks, HoldsLock
    <2>6. Knows(c)'
      BY <1>1, <1>3, <2>2, <2>3, <2>4 DEF Knows, HoldsLock
    <2>7. AcceptedInTime(c)'
      BY <2>2, <2>3 DEF AcceptedInTime
    <2> QED  BY <1>1, <1>3, <2>2, <2>3, <2>5, <2>6, <2>7, GoesTo
  <1> QED  BY <1>2, <1>3 DEF ReadClock

-----------------------------------------------------------------------------
(* Sessions.                                                               *)

\* A session's row is written: it stays revoked if it was, and is not shortened.
LEMMA SessionWritten ==
    ASSUME Parts, NEW s \in Sessions, NEW r \in SessionRow,
           session' = [session EXCEPT ![s] = r], UNCHANGED <<now, user, token, mailed>>,
           user[r.email] = "verified",
           r.inactivity = Earlier(r.last + IdleTtl, r.absolute),
           r.last <= r.inactivity, r.last <= MaxTime,
           session[s] # None => r.inactivity >= session[s].inactivity,
           signedOut \subseteq signedOut', signedOut' \subseteq signedOut \cup {s},
           s \in signedOut' => r.revoked
    PROVE  Tables' /\ Monotone /\ \A c : Respects(c)
  <1>1. Tables /\ TablesTyped /\ r # None /\ now \in Nat
    BY AccountsAssumption DEF Parts, Tables, TablesTyped
  <1>2. /\ session'[s] = r /\ \A x \in Sessions : x # s => session'[x] = session[x]
        /\ session' \in [Sessions -> SessionRow \cup {None}]
    BY <1>1 DEF TablesTyped
  <1>3. TablesTyped'
    BY <1>1, <1>2 DEF TablesTyped
  <1>4. RegistrationsAreSerialised' /\ CurrentIsNewest'
    BY <1>1 DEF Tables, RegistrationsAreSerialised, OneTokenDecides, CooldownHolds,
       TokensOf, Current, CurrentIsNewest
  <1>5. SessionRowsBounded'
    <2>1. \A x \in signedOut' : session'[x] # None /\ session'[x].revoked
      BY <1>1, <1>2 DEF Tables, TablesTyped, SessionRowsBounded
    <2>2. \A x \in Sessions : session'[x] # None =>
             /\ user[session'[x].email] = "verified"
             /\ session'[x].inactivity = Earlier(session'[x].last + IdleTtl, session'[x].absolute)
             /\ session'[x].last <= session'[x].inactivity
      BY <1>1, <1>2 DEF Tables, SessionRowsBounded
    <2> QED  BY <2>1, <2>2 DEF SessionRowsBounded, Earlier
  <1>6. ActivityIsPast'
    BY <1>1, <1>2 DEF Tables, ActivityIsPast
  <1>7. Monotone
    <2>1. \A x \in Sessions : session[x] # None =>
             session'[x] # None /\ session'[x].inactivity >= session[x].inactivity
      <3>1. \A x \in Sessions : session[x] # None => session[x].inactivity \in Nat
        BY <1>1 DEF TablesTyped, SessionRow
      <3> QED  BY <1>1, <1>2, <3>1
    <2> QED  BY <1>1, <2>1 DEF Monotone
  <1> QED  BY <1>3, <1>4, <1>5, <1>6, <1>7 DEF Tables, Respects, Kept

\* What a call that has found its session knows of the row.
LEMMA FoundSession ==
    ASSUME Parts, NEW c \in Callers, NEW s, s = call[c].id,
           call[c].step \in {"load", "extend", "reload", "accepted", "find", "revoke"}
    PROVE  /\ s \in Sessions /\ session[s] # None /\ session[s] \in SessionRow
           /\ session[s].last \in 0..MaxTime /\ session[s].inactivity \in Nat
           /\ session[s].absolute \in Nat /\ session[s].revoked \in BOOLEAN
           /\ session[s].email \in Emails
           /\ user[session[s].email] = "verified"
           /\ session[s].inactivity = Earlier(session[s].last + IdleTtl, session[s].absolute)
           /\ session[s].last <= session[s].inactivity
           /\ (call[c].late => call[c].step = "load" /\ session[s].revoked)
           /\ \A e \in Emails : lock[e] # c
           /\ Knows(c) /\ call[c] \in Calls /\ call[c].at \in 0..MaxTime
  <1>1. Knows(c) /\ call[c] \in Calls
    BY DEF Parts
  <1>2. s \in Sessions /\ session[s] # None
    BY <1>1 DEF Knows
  <1>3. session[s] \in SessionRow
    BY <1>2 DEF Parts, Tables, TablesTyped
  <1>4. session[s].last \in 0..MaxTime
    BY <1>2, <1>3, AccountsAssumption DEF Parts, Tables, ActivityIsPast, SessionRow
  <1>5. call[c].late => call[c].step = "load" /\ session[s].revoked
    BY <1>1 DEF Knows, Parts, Tables, SessionRowsBounded
  <1>6. \A e \in Emails : lock[e] # c
    BY AccountsAssumption DEF Parts, Locks, HoldsLock
  <1>7. /\ user[session[s].email] = "verified"
        /\ session[s].inactivity = Earlier(session[s].last + IdleTtl, session[s].absolute)
        /\ session[s].last <= session[s].inactivity
    BY <1>2 DEF Parts, Tables, SessionRowsBounded
  <1>8. call[c].at \in 0..MaxTime
    BY <1>1 DEF Calls
  <1> QED  BY <1>1, <1>2, <1>3, <1>4, <1>5, <1>6, <1>7, <1>8 DEF SessionRow

\* The validation of a session that is active is accepted.
LEMMA Accepted ==
    ASSUME Parts, NEW c \in Callers, At(c, {"validate", "touch"}, call[c].step),
           call[c].step \in {"load", "reload"}, Accept(c),
           Active(call[c].id, call[c].at),
           UNCHANGED <<now, user, token, mailed, session, signedOut>>
    PROVE  Parts'
  <1>1. PICK k : /\ call' = [call EXCEPT ![c] = k] /\ call'[c] = k
                 /\ k.step = "accepted" /\ k.op = call[c].op
                 /\ k.id = call[c].id /\ k.at = call[c].at /\ k.late = call[c].late /\ k \in Calls
    BY StepChanged DEF Accept
  <1>2. PICK s : s = call[c].id
    OBVIOUS
  <1>3. /\ s \in Sessions /\ session[s] # None /\ (call[c].late => session[s].revoked)
        /\ session[s].inactivity \in Nat /\ call[c].at \in 0..MaxTime
        /\ \A e \in Emails : lock[e] # c
        /\ Knows(c)
    BY <1>2, FoundSession
  <1>4. ~session[s].revoked /\ session[s].inactivity > call[c].at
    BY <1>2 DEF Active
  <1>5. call[c].at < session[s].inactivity
    BY <1>3, <1>4
  <1>6. Knows(c)'
    BY <1>1, <1>2, <1>3, <1>4 DEF Knows, HoldsLock, At
  <1>7. AcceptedInTime(c)'
    BY <1>1, <1>2, <1>3, <1>4, <1>5 DEF AcceptedInTime
  <1> QED  BY <1>1, <1>3, <1>6, <1>7, GoesTo DEF Accept

LEMMA LoadSessionKeeps ==
    ASSUME Parts, NEW c \in Callers, LoadSession(c)
    PROVE  Parts'
  <1>1. /\ UNCHANGED <<now, user, token, mailed, session, signedOut>>
        /\ call[c].step = "load" /\ call[c].op \in {"validate", "touch"}
    BY DEF LoadSession, registrationVars, sessionVars, At
  <1>2. PICK s : s = call[c].id
    OBVIOUS
  <1>3. CASE End(c)
    BY <1>1, <1>3, ReadOnlyEnd
  <1>4. CASE Active(s, call[c].at) /\ Accept(c)
    BY <1>1, <1>2, <1>4, Accepted DEF At
  <1>5. CASE /\ Active(s, call[c].at) /\ session[s].last + WriteInterval <= call[c].at
             /\ call' = [call EXCEPT ![c].step = "extend", ![c].seen = session[s].last]
             /\ lock' = lock
    <2>1. /\ s \in Sessions /\ session[s] # None /\ (call[c].late => session[s].revoked)
          /\ session[s].last \in 0..MaxTime /\ call[c] \in Calls
          /\ \A e \in Emails : lock[e] # c
          /\ Knows(c)
      BY <1>1, <1>2, FoundSession
    <2> DEFINE k == [call[c] EXCEPT !.step = "extend", !.seen = session[s].last]
    <2>2. /\ k \in Calls /\ k.step = "extend" /\ k.op = call[c].op /\ k.id = call[c].id
          /\ k.at = call[c].at /\ k.seen = session[s].last /\ k.late = call[c].late
      BY <2>1 DEF Calls
    <2>3. call' = [call EXCEPT ![c] = k] /\ call'[c] = k
      BY <1>5 DEF Parts
    <2> HIDE DEF k
    <2>4. PICK r : r = k
      OBVIOUS
    <2>5. ~session[s].revoked
      BY <1>5 DEF Active
    <2>6. Knows(c)'
      BY <1>1, <1>2, <1>5, <2>1, <2>2, <2>3, <2>4, <2>5 DEF Knows, HoldsLock
    <2>7. AcceptedInTime(c)'
      BY <2>2, <2>3, <2>4 DEF AcceptedInTime
    <2> QED  BY <1>1, <1>5, <2>1, <2>2, <2>3, <2>6, <2>7, GoesTo
  <1> QED  BY <1>2, <1>3, <1>4, <1>5 DEF LoadSession

LEMMA ReloadSessionKeeps ==
    ASSUME Parts, NEW c \in Callers, ReloadSession(c)
    PROVE  Parts'
  BY ReadOnlyEnd, Accepted DEF ReloadSession, registrationVars, sessionVars, At

LEMMA RecordActivityKeeps ==
    ASSUME Parts, NEW c \in Callers, RecordActivity(c)
    PROVE  Parts'
  <1>1. /\ UNCHANGED <<now, user, token, mailed, signedOut>>
        /\ call[c].step = "extend" /\ call[c].op = "touch"
    BY DEF RecordActivity, registrationVars, At
  <1>2. PICK s, at : s = call[c].id /\ at = call[c].at
    OBVIOUS
  <1>3. /\ s \in Sessions /\ session[s] # None /\ session[s] \in SessionRow
        /\ session[s].last \in 0..MaxTime /\ session[s].inactivity \in Nat
        /\ session[s].absolute \in Nat /\ session[s].email \in Emails
        /\ session[s].revoked \in BOOLEAN
        /\ user[session[s].email] = "verified"
        /\ session[s].inactivity = Earlier(session[s].last + IdleTtl, session[s].absolute)
        /\ ~call[c].late
        /\ \A e \in Emails : lock[e] # c
        /\ Knows(c) /\ at \in 0..MaxTime
    BY <1>1, <1>2, FoundSession
  <1>4. CASE ~Extendable(s, at, call[c].seen)
    <2>1. GoTo(c, "reload") /\ UNCHANGED <<lock, session>>
      BY <1>2, <1>4 DEF RecordActivity
    <2>2. PICK k : /\ call' = [call EXCEPT ![c] = k] /\ call'[c] = k
                   /\ k.step = "reload" /\ k.op = call[c].op
                   /\ k.id = call[c].id /\ k.late = call[c].late /\ k \in Calls
      BY <2>1, StepChanged
    <2>3. Knows(c)'
      BY <1>1, <1>2, <1>3, <2>1, <2>2 DEF Knows, HoldsLock
    <2>4. AcceptedInTime(c)'
      BY <2>2 DEF AcceptedInTime
    <2> QED  BY <1>1, <1>3, <2>1, <2>2, <2>3, <2>4, GoesTo
  <1>5. CASE Extendable(s, at, call[c].seen)
    <2>1. /\ session' = [session EXCEPT ![s].last = at, ![s].inactivity = Extended(s, at)]
          /\ GoTo(c, "accepted") /\ lock' = lock
      BY <1>2, <1>5 DEF RecordActivity, Accept
    <2>2. PICK k : /\ call' = [call EXCEPT ![c] = k] /\ call'[c] = k
                   /\ k.step = "accepted" /\ k.op = call[c].op
                   /\ k.id = s /\ k.at = at /\ k.late = call[c].late /\ k \in Calls
      BY <1>2, <2>1, StepChanged
    <2>3. /\ IdleTtl \in Nat \ {0} /\ WriteInterval \in Nat \ {0} /\ MaxTime \in Nat
      BY AccountsAssumption
    <2>4. session[s].last + WriteInterval <= at /\ session[s].absolute > at
      BY <1>1, <1>2, <1>3, <1>5 DEF Knows, Extendable
    <2>5. /\ Extended(s, at) \in Nat /\ at < Extended(s, at)
          /\ Extended(s, at) >= session[s].inactivity
      BY <1>3, <2>3, <2>4 DEF Extended, Earlier
    <2> DEFINE r == [session[s] EXCEPT !.last = at, !.inactivity = Extended(s, at)]
    <2>6. /\ r \in SessionRow /\ r.email = session[s].email /\ r.last = at
          /\ r.inactivity = Extended(s, at) /\ r.absolute = session[s].absolute
          /\ r.revoked = session[s].revoked
      <3>1. PICK i \in Nat : i = Extended(s, at)
        BY <2>5
      <3>2. at \in Nat
        BY <1>3, <2>3
      <3>3. PICK old \in SessionRow : old = session[s]
        BY <1>3
      <3>4. r = [old EXCEPT !.last = at, !.inactivity = i]
        BY <3>1, <3>3
      <3>5. r \in SessionRow
        BY <3>2, <3>4 DEF SessionRow
      <3>6. /\ r.email = old.email /\ r.last = at /\ r.inactivity = i
            /\ r.absolute = old.absolute /\ r.revoked = old.revoked
        BY <3>4 DEF SessionRow
      <3> QED  BY <3>1, <3>3, <3>5, <3>6
    <2>7. session' = [session EXCEPT ![s] = r] /\ session'[s] = r
      BY <1>3, <2>1 DEF Parts, Tables, TablesTyped
    <2>8. r.inactivity = Earlier(r.last + IdleTtl, r.absolute)
      BY <2>6 DEF Extended
    <2>9. r.last <= r.inactivity /\ r.last <= MaxTime
      BY <1>3, <2>3, <2>5, <2>6
    <2>10. s \in signedOut' => r.revoked
      BY <1>1, <2>6 DEF Parts, Tables, SessionRowsBounded
    <2> HIDE DEF r
    <2>11. Tables' /\ Monotone /\ Respects(c)
      BY <1>1, <1>3, <2>5, <2>6, <2>7, <2>8, <2>9, <2>10, SessionWritten
    <2>12. r # None /\ session'[s] # None
      BY <2>6, <2>7, AccountsAssumption
    <2>13. Knows(c)'
      BY <1>1, <1>3, <2>2, <2>12 DEF Knows, HoldsLock
    <2>14. session'[s].inactivity = Extended(s, at)
      BY <2>6, <2>7
    <2>15. AcceptedInTime(c)'
      BY <1>3, <2>2, <2>5, <2>14 DEF AcceptedInTime
    <2>16. lock' \in [Emails -> Callers \cup {None}]
      BY <2>1 DEF Parts, Locks
    <2> QED  BY <1>3, <2>1, <2>2, <2>11, <2>13, <2>15, <2>16, StepOfCall
  <1> QED  BY <1>4, <1>5

LEMMA InsertSessionKeeps ==
    ASSUME Parts, NEW c \in Callers, NEW s \in Sessions, InsertSession(c, s)
    PROVE  Parts'
  <1>1. /\ UNCHANGED <<now, user, token, mailed, signedOut>>
        /\ call[c].step = "insert" /\ session[s] = None /\ End(c)
    BY DEF InsertSession, registrationVars, At
  <1>2. PICK e, at : e = call[c].email /\ at = call[c].at
    OBVIOUS
  <1>3. e \in Emails /\ user[e] = "verified" /\ at \in 0..MaxTime
    BY <1>1, <1>2 DEF Parts, Knows, HoldsLock, Calls
  <1>4. IdleTtl \in Nat \ {0} /\ AbsoluteTtl \in Nat \ {0} /\ MaxTime \in Nat
    BY AccountsAssumption
  <1> DEFINE r == [email |-> e, absolute |-> at + AbsoluteTtl,
                   inactivity |-> at + Earlier(IdleTtl, AbsoluteTtl), last |-> at,
                   revoked |-> FALSE]
  <1>5. session' = [session EXCEPT ![s] = r]
    BY <1>2 DEF InsertSession
  <1>6. at + Earlier(IdleTtl, AbsoluteTtl) = Earlier(at + IdleTtl, at + AbsoluteTtl)
    BY <1>3, <1>4 DEF Earlier
  <1>7. at + Earlier(IdleTtl, AbsoluteTtl) \in Nat /\ at <= at + Earlier(IdleTtl, AbsoluteTtl)
    BY <1>3, <1>4 DEF Earlier
  <1>8. r \in SessionRow
    BY <1>3, <1>4, <1>7 DEF SessionRow
  <1>9. /\ user[r.email] = "verified" /\ r.inactivity = Earlier(r.last + IdleTtl, r.absolute)
        /\ r.last <= r.inactivity /\ r.last <= MaxTime
    BY <1>3, <1>6, <1>7
  <1> HIDE DEF r
  <1>10. s \notin signedOut /\ signedOut' = signedOut
    BY <1>1 DEF Parts, Tables, SessionRowsBounded
  <1>11. Tables' /\ Monotone /\ Respects(c)
    BY <1>1, <1>5, <1>8, <1>9, <1>10, SessionWritten
  <1> QED  BY <1>1, <1>11, EndOfCall

LEMMA FindSessionKeeps ==
    ASSUME Parts, NEW c \in Callers, FindSession(c)
    PROVE  Parts'
  <1>1. /\ UNCHANGED <<now, user, token, mailed, session>>
        /\ call[c].step = "find" /\ call[c].op = "signOut"
    BY DEF FindSession, registrationVars, At
  <1>2. PICK s : s = call[c].id
    OBVIOUS
  <1>3. /\ s \in Sessions /\ session[s] # None /\ session[s] \in SessionRow
        /\ session[s].last \in 0..MaxTime /\ ~call[c].late /\ call[c] \in Calls
        /\ session[s].inactivity \in Nat
        /\ user[session[s].email] = "verified"
        /\ session[s].inactivity = Earlier(session[s].last + IdleTtl, session[s].absolute)
        /\ session[s].last <= session[s].inactivity
        /\ \A e \in Emails : lock[e] # c
    BY <1>1, <1>2, FoundSession
  <1>4. CASE session[s].revoked /\ End(c) /\ signedOut' = signedOut \cup {s}
    <2>1. session' = [session EXCEPT ![s] = session[s]]
      BY <1>1, <1>3 DEF Parts, Tables, TablesTyped
    <2>2. session[s].last <= MaxTime
      BY <1>3, AccountsAssumption
    <2>3. Tables' /\ Monotone /\ Respects(c)
      <3>1. session[s].inactivity >= session[s].inactivity
        BY <1>3
      <3> QED  BY <1>1, <1>3, <1>4, <2>1, <2>2, <3>1, SessionWritten
    <2> QED  BY <1>4, <2>3, EndOfCall
  <1>5. CASE /\ call' = [call EXCEPT ![c].step = "revoke", ![c].seen = session[s].last]
             /\ UNCHANGED <<lock, signedOut>>
    <2> DEFINE k == [call[c] EXCEPT !.step = "revoke", !.seen = session[s].last]
    <2>1. /\ k \in Calls /\ k.step = "revoke" /\ k.op = call[c].op /\ k.id = call[c].id
          /\ k.late = call[c].late
      BY <1>3 DEF Calls
    <2>2. call' = [call EXCEPT ![c] = k] /\ call'[c] = k
      BY <1>5 DEF Parts
    <2> HIDE DEF k
    <2>3. Knows(c)'
      BY <1>1, <1>2, <1>3, <1>5, <2>1, <2>2 DEF Knows, HoldsLock
    <2>4. AcceptedInTime(c)'
      BY <2>1, <2>2 DEF AcceptedInTime
    <2> QED  BY <1>1, <1>3, <1>5, <2>1, <2>2, <2>3, <2>4, GoesTo
  <1> QED  BY <1>2, <1>4, <1>5 DEF FindSession

LEMMA RevokeKeeps ==
    ASSUME Parts, NEW c \in Callers, Revoke(c)
    PROVE  Parts'
  <1>1. /\ UNCHANGED <<now, user, token, mailed>>
        /\ call[c].step = "revoke" /\ End(c)
    BY DEF Revoke, registrationVars, At
  <1>2. PICK s : s = call[c].id
    OBVIOUS
  <1>3. /\ s \in Sessions /\ session[s] # None /\ session[s] \in SessionRow
        /\ session[s].last \in 0..MaxTime /\ session[s].inactivity \in Nat
        /\ user[session[s].email] = "verified"
        /\ session[s].inactivity = Earlier(session[s].last + IdleTtl, session[s].absolute)
        /\ session[s].last <= session[s].inactivity
    BY <1>1, <1>2, FoundSession
  <1> DEFINE r == [session[s] EXCEPT !.revoked = TRUE]
  <1>4. session' = [session EXCEPT ![s] = r] /\ signedOut' = signedOut \cup {s}
    BY <1>2 DEF Revoke, Revoked
  <1>5. /\ r \in SessionRow /\ r.email = session[s].email /\ r.last = session[s].last
        /\ r.inactivity = session[s].inactivity /\ r.absolute = session[s].absolute
        /\ r.revoked
    BY <1>3 DEF SessionRow
  <1> HIDE DEF r
  <1>6. r.last <= MaxTime /\ r.inactivity >= session[s].inactivity
    BY <1>3, <1>5, AccountsAssumption
  <1>7. /\ user[r.email] = "verified" /\ r.inactivity = Earlier(r.last + IdleTtl, r.absolute)
        /\ r.last <= r.inactivity
    BY <1>3, <1>5
  <1>8. Tables' /\ Monotone /\ Respects(c)
    BY <1>1, <1>3, <1>4, <1>5, <1>6, <1>7, SessionWritten
  <1> QED  BY <1>1, <1>8, EndOfCall

-----------------------------------------------------------------------------
(* Tokens.                                                                 *)

\* One token decides, without counting: of a user's tokens one at most is
\* current, none is when one is used, and a verified user has used exactly one.
Decided ==
    \A e \in Emails :
        /\ \A t, u \in TokensOf(e) : Current(t) /\ Current(u) => t = u
        /\ \A t \in TokensOf(e) : token[t].status = "used" =>
              user[e] = "verified" /\ \A u \in TokensOf(e) : ~Current(u)
        /\ user[e] = "verified" =>
              \E t \in TokensOf(e) :
                 /\ token[t].status = "used"
                 /\ \A u \in TokensOf(e) : token[u].status = "used" => u = t

LEMMA AtMostOne ==
    ASSUME NEW S, IsFiniteSet(S)
    PROVE  Cardinality(S) <= 1 <=> \A x, y \in S : x = y
  <1>1. Cardinality(S) \in Nat
    BY FS_CardinalityType
  <1>2. ASSUME Cardinality(S) <= 1 PROVE \A x, y \in S : x = y
    <2>1. Cardinality(S) = 0 \/ Cardinality(S) = 1
      BY <1>1, <1>2
    <2> QED  BY <2>1, FS_EmptySet, FS_Singleton
  <1>3. ASSUME \A x, y \in S : x = y PROVE Cardinality(S) <= 1
    <2>1. CASE S = {}
      BY <2>1, FS_EmptySet
    <2>2. CASE S # {}
      <3>1. PICK x \in S : TRUE
        BY <2>2
      <3>2. S = {x}
        BY <1>3, <3>1
      <3> QED  BY <3>2, FS_Singleton
    <2> QED  BY <2>1, <2>2
  <1> QED  BY <1>2, <1>3

LEMMA DecidedMeans == OneTokenDecides <=> Decided
  <1>1. ASSUME NEW e \in Emails
        PROVE  /\ Cardinality({t \in TokensOf(e) : Current(t)}) <= 1
                  <=> \A t, u \in TokensOf(e) : Current(t) /\ Current(u) => t = u
               /\ Cardinality({t \in TokensOf(e) : token[t].status = "used"}) = 1
                  <=> \E t \in TokensOf(e) :
                         /\ token[t].status = "used"
                         /\ \A u \in TokensOf(e) : token[u].status = "used" => u = t
    <2> DEFINE C == {t \in TokensOf(e) : Current(t)}
               U == {t \in TokensOf(e) : token[t].status = "used"}
    <2>1. IsFiniteSet(C) /\ IsFiniteSet(U)
      BY AccountsAssumption, FS_Subset DEF TokensOf
    <2>2. \A t : t \in C <=> t \in TokensOf(e) /\ Current(t)
      OBVIOUS
    <2>3. \A t : t \in U <=> t \in TokensOf(e) /\ token[t].status = "used"
      OBVIOUS
    <2> HIDE DEF C, U
    <2>4. Cardinality(C) <= 1 <=> \A x, y \in C : x = y
      BY <2>1, AtMostOne
    <2>5. Cardinality(U) = 1 <=> \E x : U = {x}
      BY <2>1, FS_Singleton
    <2>6. (\E x : U = {x}) <=> \E t \in U : \A u \in U : u = t
      <3>1. ASSUME NEW t \in U, \A u \in U : u = t PROVE U = {t}
        BY <3>1
      <3> QED  BY <3>1
    <2>7. Cardinality(C) <= 1 <=> \A t, u \in TokensOf(e) : Current(t) /\ Current(u) => t = u
      BY <2>2, <2>4
    <2> DEFINE Only(t) == /\ token[t].status = "used"
                          /\ \A u \in TokensOf(e) : token[u].status = "used" => u = t
    <2>8. ASSUME NEW t PROVE (t \in TokensOf(e) /\ Only(t)) <=> (t \in U /\ \A u \in U : u = t)
      BY <2>3
    <2> HIDE DEF Only
    <2>9. (\E t \in U : \A u \in U : u = t) <=> \E t \in TokensOf(e) : Only(t)
      BY <2>8
    <2>10. Cardinality(U) = 1 <=> \E t \in TokensOf(e) : Only(t)
      BY <2>5, <2>6, <2>9
    <2> QED  BY <2>7, <2>10 DEF C, U, Only
  <1> QED  BY <1>1 DEF OneTokenDecides, Decided

LEMMA DecidedMeansNext == OneTokenDecides' <=> Decided'
  BY DecidedMeans, PTL

\* A token and users are written: what the tables need of that.
LEMMA TokensWritten ==
    ASSUME Parts, UNCHANGED <<now, mailed, session, signedOut>>,
           user' \in [Emails -> {"absent", "unverified", "verified"}],
           token' \in [Tokens -> TokenRow \cup {None}],
           \A e \in Emails : user[e] = "verified" => user'[e] = "verified",
           \A t \in Tokens : token[t] # None => token'[t] # None /\ token'[t].email = token[t].email,
           Decided', CooldownHolds', CurrentIsNewest'
    PROVE  Tables' /\ Monotone
  <1>1. Tables /\ TablesTyped /\ now \in Nat
    BY AccountsAssumption DEF Parts, Tables, TablesTyped
  <1>2. \A s \in Sessions : session[s] # None =>
            session[s].email \in Emails /\ session[s].inactivity \in Nat
    BY <1>1 DEF TablesTyped, SessionRow
  <1>3. SessionRowsBounded'
    BY <1>1, <1>2 DEF Tables, SessionRowsBounded
  <1>4. TablesTyped' /\ ActivityIsPast' /\ RegistrationsAreSerialised'
    BY <1>1, DecidedMeansNext DEF TablesTyped, Tables, ActivityIsPast, RegistrationsAreSerialised
  <1>5. Monotone
    BY <1>1, <1>2 DEF Monotone
  <1> QED  BY <1>3, <1>4, <1>5 DEF Tables

LEMMA EnqueueMailKeeps ==
    ASSUME Parts, NEW c \in Callers, EnqueueMail(c)
    PROVE  Parts'
  <1>1. /\ UNCHANGED <<now, user, token, session, signedOut>> /\ End(c)
        /\ call[c].step = "committed" /\ mailed' \in {mailed, mailed \cup {call[c].id}}
    BY DEF EnqueueMail, At, sessionVars
  <1>2. call[c].id \in Tokens /\ token[call[c].id] # None
    BY <1>1 DEF Parts, Knows
  <1>3. TablesTyped /\ TablesTyped'
    BY <1>1, <1>2 DEF Parts, Tables, TablesTyped
  <1>4. Tables'
    <2>1. Tables
      BY DEF Parts
    <2>2. RegistrationsAreSerialised'
      BY <1>1, <2>1 DEF Tables, RegistrationsAreSerialised, OneTokenDecides,
         CooldownHolds, TokensOf, Current
    <2>3. CurrentIsNewest'
      BY <1>1, <1>2, <2>1 DEF Tables, TokensOf, Current, CurrentIsNewest
    <2>4. SessionRowsBounded' /\ ActivityIsPast'
      BY <1>1, <2>1 DEF Tables, SessionRowsBounded, ActivityIsPast
    <2> QED  BY <1>3, <2>2, <2>3, <2>4 DEF Tables
  <1>5. Monotone
    <2>1. now \in Nat /\ \A s \in Sessions : session[s] # None => session[s].inactivity \in Nat
      BY <1>3, AccountsAssumption DEF TablesTyped, SessionRow
    <2> QED  BY <1>1, <2>1 DEF Monotone
  <1>6. Respects(c)
    BY <1>1 DEF Respects, Kept
  <1> QED  BY <1>1, <1>4, <1>5, <1>6, EndOfCall

\* A new token, for a user whose others are past their cooldown.
LEMMA IssueWrites ==
    ASSUME Parts, NEW c \in Callers, NEW t \in Tokens, Issue(c, t)
    PROVE  /\ Tables' /\ Monotone /\ Respects(c)
           /\ \A e \in Emails : user'[e] = "verified" => user[e] = "verified"
  <1>1. /\ UNCHANGED <<now, mailed, session, signedOut>>
        /\ call[c].step = "issue" /\ token[t] = None
    BY DEF Issue, At, sessionVars
  <1>2. PICK e : e = call[c].email
    OBVIOUS
  <1>3. e \in Emails /\ Eligible(e) /\ lock[e] = c
    BY <1>1, <1>2 DEF Parts, Knows, HoldsLock
  <1>4. /\ TablesTyped /\ Decided /\ CooldownHolds /\ CurrentIsNewest
        /\ now \in Nat /\ TokenTtl \in Nat /\ Cooldown \in Nat
    BY AccountsAssumption, DecidedMeans DEF Parts, Tables, TablesTyped, RegistrationsAreSerialised
  <1> DEFINE row == [email |-> e, created |-> now, expires |-> now + TokenTtl,
                     status |-> "current"]
  <1>5. /\ row \in TokenRow /\ row.email = e /\ row.created = now /\ row.status = "current"
        /\ row # None
    BY <1>3, <1>4, AccountsAssumption DEF TokenRow
  <1>6. token' = [u \in Tokens |-> IF u = t THEN row
                                   ELSE IF Terminated(u, e)
                                        THEN [token[u] EXCEPT !.status = "invalidated"]
                                   ELSE token[u]]
    BY <1>2 DEF Issue
  <1> HIDE DEF row
  <1>7. token'[t] = row
    BY <1>6
  <1>8. ASSUME NEW u \in Tokens, u # t, token[u] # None
        PROVE  /\ token'[u] \in TokenRow /\ token'[u] # None
               /\ token'[u].email = token[u].email /\ token'[u].created = token[u].created
               /\ (Current(u) /\ token[u].email = e) => token'[u].status = "invalidated"
               /\ ~(Current(u) /\ token[u].email = e) => token'[u].status = token[u].status
    <2>1. token[u] \in TokenRow
      BY <1>4, <1>8 DEF TablesTyped
    <2>2. CASE Terminated(u, e)
      <3>1. PICK r \in TokenRow : r = token[u]
        BY <2>1
      <3>2. token'[u] = [r EXCEPT !.status = "invalidated"]
        BY <1>6, <1>8, <2>2, <3>1
      <3>3. /\ token'[u] \in TokenRow /\ token'[u].email = r.email
            /\ token'[u].created = r.created /\ token'[u].status = "invalidated"
        BY <3>2 DEF TokenRow
      <3> QED  BY <2>2, <3>1, <3>3, AccountsAssumption DEF Terminated
    <2>3. CASE ~Terminated(u, e)
      BY <1>6, <1>8, <2>1, <2>3 DEF Terminated
    <2> QED  BY <2>2, <2>3
  <1>9. ASSUME NEW u \in Tokens, u # t, token[u] = None
        PROVE  token'[u] = None
    BY <1>6, <1>9 DEF Terminated, Current
  <1>10. /\ user' \in [Emails -> {"absent", "unverified", "verified"}]
         /\ \A f \in Emails : (user'[f] = "verified" <=> user[f] = "verified")
         /\ \A f \in Emails \ {e} : user'[f] = user[f]
    BY <1>2, <1>3, <1>4 DEF Issue, TablesTyped
  <1>11. token' \in [Tokens -> TokenRow \cup {None}]
    BY <1>5, <1>6, <1>7, <1>8, <1>9
  <1>12. \A u \in Tokens : token[u] # None => token'[u] # None /\ token'[u].email = token[u].email
    BY <1>1, <1>8
  <1>13. \A f \in Emails \ {e} : Kept(f)
    BY <1>5, <1>7, <1>8, <1>9, <1>10 DEF Kept
  <1>14. Respects(c)
    BY <1>3, <1>13 DEF Respects
  \* The user is not verified, so that none of its tokens has been used.
  <1>15. /\ user[e] # "verified"
         /\ \A u \in Tokens : token[u] # None /\ token[u].email = e =>
               /\ token[u].created + Cooldown <= now /\ token[u].created \in Nat
               /\ token[u].status # "used"
    BY <1>3, <1>4 DEF Eligible, TokensOf, Decided, TablesTyped, TokenRow
  <1>16. Decided'
    <2> SUFFICES ASSUME NEW f \in Emails
                 PROVE  /\ \A x, y \in TokensOf(f)' : Current(x)' /\ Current(y)' => x = y
                        /\ \A x \in TokensOf(f)' : token'[x].status = "used" =>
                              user'[f] = "verified" /\ \A u \in TokensOf(f)' : ~Current(u)'
                        /\ user'[f] = "verified" =>
                              \E x \in TokensOf(f)' :
                                 /\ token'[x].status = "used"
                                 /\ \A u \in TokensOf(f)' : token'[u].status = "used" => u = x
      BY DEF Decided
    <2>1. CASE f = e
      <3>1. ASSUME NEW x \in TokensOf(f)', x # t
            PROVE  ~Current(x)' /\ token'[x].status # "used"
        <4>1. x \in Tokens /\ token'[x] # None /\ token'[x].email = e
          BY <2>1, <3>1 DEF TokensOf
        <4>2. token[x] # None /\ token[x].email = e
          BY <1>8, <1>9, <3>1, <4>1
        <4>3. token'[x].status \notin {"current", "used"}
          BY <1>8, <1>15, <3>1, <4>1, <4>2 DEF Current
        <4> QED  BY <4>3 DEF Current
      <3>2. token'[t].status # "used"
        BY <1>5, <1>7
      <3> QED  BY <1>10, <1>15, <2>1, <3>1, <3>2
    <2>2. CASE f # e
      <3>1. \A x \in Tokens : x \in TokensOf(f)' <=> x \in TokensOf(f)
        BY <1>1, <1>5, <1>7, <1>8, <1>9, <2>2 DEF TokensOf
      <3>2. TokensOf(f)' = TokensOf(f)
        BY <3>1 DEF TokensOf
      <3>3. \A x \in TokensOf(f) : token'[x].status = token[x].status /\ (Current(x)' <=> Current(x))
        BY <1>1, <1>8, <2>2 DEF TokensOf, Current
      <3> QED  BY <1>4, <1>10, <2>2, <3>2, <3>3 DEF Decided
    <2> QED  BY <2>1, <2>2
  <1>17. CooldownHolds'
    <2> SUFFICES ASSUME NEW x \in Tokens, NEW y \in Tokens, x # y,
                        token'[x] # None, token'[y] # None, token'[x].email = token'[y].email
                 PROVE  \/ token'[x].created + Cooldown <= token'[y].created
                        \/ token'[y].created + Cooldown <= token'[x].created
      BY DEF CooldownHolds
    <2>1. CASE x = t
      BY <1>5, <1>7, <1>8, <1>9, <1>15, <2>1
    <2>2. CASE y = t
      BY <1>5, <1>7, <1>8, <1>9, <1>15, <2>2
    <2>3. CASE x # t /\ y # t
      BY <1>4, <1>8, <1>9, <2>3 DEF CooldownHolds
    <2> QED  BY <2>1, <2>2, <2>3
  <1>18. CurrentIsNewest'
    <2>1. \A x \in mailed' : token'[x] # None
      BY <1>1, <1>4, <1>12 DEF CurrentIsNewest, TablesTyped
    <2>2. ASSUME NEW x \in Tokens, Current(x)', NEW y \in TokensOf(token[x].email)'
          PROVE  token'[y].created <= token'[x].created
      <3>1. y \in Tokens /\ token'[y] # None /\ token'[y].email = token'[x].email
        BY <2>2 DEF TokensOf
      <3>2. token'[x] # None
        BY <2>2 DEF Current
      <3>3. CASE x = t
        <4>1. token'[y].created \in Nat /\ (y = t \/ token'[y].created + Cooldown <= now)
          BY <1>4, <1>5, <1>7, <1>8, <1>9, <1>15, <3>1, <3>3
        <4> QED  BY <1>4, <1>5, <1>7, <3>3, <4>1
      <3>4. CASE x # t
        <4>1. /\ token[x] # None /\ token[x].email = token'[x].email
              /\ Current(x) /\ token[x].email # e /\ token'[x].created = token[x].created
          BY <1>8, <1>9, <2>2, <3>2, <3>4 DEF Current
        <4>2. y # t
          BY <1>5, <1>7, <3>1, <4>1
        <4>3. y \in TokensOf(token[x].email) /\ token'[y].created = token[y].created
          BY <1>8, <1>9, <3>1, <4>1, <4>2 DEF TokensOf
        <4> QED  BY <1>4, <4>1, <4>3 DEF CurrentIsNewest
      <3> QED  BY <3>3, <3>4
    <2> QED  BY <2>1, <2>2 DEF CurrentIsNewest
  <1>19. Tables' /\ Monotone
    BY <1>1, <1>10, <1>11, <1>12, <1>16, <1>17, <1>18, TokensWritten
  <1> QED  BY <1>10, <1>14, <1>19

LEMMA IssueKeeps ==
    ASSUME Parts, NEW c \in Callers, NEW t \in Tokens, Issue(c, t)
    PROVE  Parts'
  <1>1. Tables' /\ Monotone /\ Respects(c)
    BY IssueWrites
  <1>2. /\ Release(c) /\ At(c, {"signUp", "resend"}, "issue")
        /\ call' = [call EXCEPT ![c].step = "committed", ![c].id = t]
        /\ token'[t] # None
    <2>1. token'[t] = [email |-> call[c].email, created |-> now, expires |-> now + TokenTtl,
                       status |-> "current"]
      BY DEF Issue
    <2>2. call[c].email \in Emails /\ now \in Nat /\ TokenTtl \in Nat
      BY AccountsAssumption DEF Parts, Tables, TablesTyped, Knows, HoldsLock, Issue, At
    <2>3. token'[t] \in TokenRow
      BY <2>1, <2>2 DEF TokenRow
    <2> QED  BY <2>3, AccountsAssumption DEF Issue
  <1>3. /\ call \in [Callers -> Calls] /\ call[c] \in Calls /\ Knows(c)
        /\ lock \in [Emails -> Callers \cup {None}] /\ c # None
    BY AccountsAssumption DEF Parts, Locks
  <1> DEFINE k == [call[c] EXCEPT !.step = "committed", !.id = t]
  <1>4. /\ k \in Calls /\ k.step = "committed" /\ k.op = call[c].op /\ k.id = t
        /\ k.late = call[c].late
    BY <1>3 DEF Calls
  <1>5. call' = [call EXCEPT ![c] = k] /\ call'[c] = k
    BY <1>2, <1>3
  <1> HIDE DEF k
  <1>6. /\ lock' \in [Emails -> Callers \cup {None}]
        /\ \A e \in Emails : lock'[e] # lock[e] => lock[e] = c /\ lock'[e] = None
        /\ \A e \in Emails : lock'[e] # c
    BY <1>2, <1>3 DEF Release
  <1>7. Knows(c)'
    BY <1>2, <1>3, <1>4, <1>5 DEF Knows, HoldsLock, At
  <1>8. AcceptedInTime(c)'
    BY <1>4, <1>5 DEF AcceptedInTime
  <1> QED  BY <1>1, <1>4, <1>5, <1>6, <1>7, <1>8, StepOfCall

\* What a confirmation has when it commits: its user's row, which is not yet
\* verified, and the token that it names.
LEMMA Confirming ==
    ASSUME Parts, NEW c \in Callers, Consume(c), Usable(call[c].id)
    PROVE  \E e \in Emails, t \in Tokens :
              /\ e = call[c].email /\ t = call[c].id /\ lock[e] = c
              /\ user[e] # "verified"
              /\ t \in mailed /\ token[t] # None /\ token[t].email = e
              /\ token[t].status = "current" /\ token[t].expires > now
              /\ token' = [token EXCEPT ![t].status = "used"]
              /\ user' = [user EXCEPT ![e] = "verified"]
              /\ UNCHANGED <<now, mailed, session, signedOut>>
  <1>1. call[c].step = "consume" /\ call[c].op = "confirm" /\ Knows(c)
    BY DEF Parts, Consume, At
  <1>2. /\ call[c].email \in Emails /\ lock[call[c].email] = c
        /\ user[call[c].email] # "verified"
        /\ call[c].id \in mailed /\ token[call[c].id].email = call[c].email
    BY <1>1 DEF Knows, HoldsLock
  <1>3. call[c].id \in Tokens
    BY <1>2 DEF Parts, Tables, TablesTyped
  <1> QED  BY <1>2, <1>3 DEF Consume, Consumable, Usable, Current, sessionVars

LEMMA ConfirmationWrites ==
    ASSUME Parts, NEW c \in Callers, Consume(c), Usable(call[c].id)
    PROVE  Tables' /\ Monotone /\ Respects(c)
  <1>1. PICK e \in Emails, t \in Tokens :
              /\ e = call[c].email /\ t = call[c].id /\ lock[e] = c
              /\ user[e] # "verified"
              /\ t \in mailed /\ token[t] # None /\ token[t].email = e
              /\ token[t].status = "current" /\ token[t].expires > now
              /\ token' = [token EXCEPT ![t].status = "used"]
              /\ user' = [user EXCEPT ![e] = "verified"]
              /\ UNCHANGED <<now, mailed, session, signedOut>>
    BY Confirming
  <1>2. TablesTyped /\ Decided /\ CooldownHolds /\ CurrentIsNewest
    BY DecidedMeans DEF Parts, Tables, RegistrationsAreSerialised
  <1>3. PICK old \in TokenRow : old = token[t]
    BY <1>1, <1>2 DEF TablesTyped
  <1> DEFINE row == [old EXCEPT !.status = "used"]
  <1>4. /\ row \in TokenRow /\ row.email = e /\ row.created = token[t].created
        /\ row.status = "used" /\ row # None
    BY <1>1, <1>3, AccountsAssumption DEF TokenRow
  <1>5. token' = [token EXCEPT ![t] = row]
    BY <1>1, <1>3
  <1> HIDE DEF row
  <1>6. /\ token'[t] = row /\ \A u \in Tokens : u # t => token'[u] = token[u]
        /\ token' \in [Tokens -> TokenRow \cup {None}]
    BY <1>2, <1>4, <1>5 DEF TablesTyped
  <1>7. \A u \in Tokens :
           /\ token'[u] # None <=> token[u] # None
           /\ token[u] # None => token'[u].email = token[u].email
                                 /\ token'[u].created = token[u].created
    BY <1>1, <1>4, <1>6
  <1>8. \A f : TokensOf(f)' = TokensOf(f)
    BY <1>7 DEF TokensOf
  <1>9. t \in TokensOf(e) /\ Current(t)
    BY <1>1 DEF TokensOf, Current
  <1>10. \A u \in Tokens : Current(u)' => Current(u) /\ u # t
    BY <1>4, <1>6 DEF Current
  <1>11. /\ user' \in [Emails -> {"absent", "unverified", "verified"}] /\ user'[e] = "verified"
         /\ \A f \in Emails \ {e} : user'[f] = user[f]
    BY <1>1, <1>2 DEF TablesTyped
  <1>12. \A f \in Emails \ {e} : \A u \in TokensOf(f) : u # t
    BY <1>1 DEF TokensOf
  <1>13. Decided'
    <2> SUFFICES ASSUME NEW f \in Emails
                 PROVE  /\ \A x, y \in TokensOf(f) : Current(x)' /\ Current(y)' => x = y
                        /\ \A x \in TokensOf(f) : token'[x].status = "used" =>
                              user'[f] = "verified" /\ \A u \in TokensOf(f) : ~Current(u)'
                        /\ user'[f] = "verified" =>
                              \E x \in TokensOf(f) :
                                 /\ token'[x].status = "used"
                                 /\ \A u \in TokensOf(f) : token'[u].status = "used" => u = x
      BY <1>8 DEF Decided
    <2>1. \A u \in TokensOf(f) : u \in Tokens
      BY DEF TokensOf
    <2>2. CASE f = e
      <3>1. \A u \in TokensOf(e) : ~Current(u)'
        BY <1>2, <1>9, <1>10, <2>1, <2>2 DEF Decided
      <3>2. \A u \in TokensOf(e) : token[u].status # "used"
        BY <1>2, <1>9, <2>1, <2>2 DEF Decided
      <3> QED  BY <1>4, <1>6, <1>9, <1>11, <2>1, <2>2, <3>1, <3>2
    <2>3. CASE f # e
      <3>1. \A u \in TokensOf(f) : token'[u] = token[u]
        BY <1>6, <1>12, <2>1, <2>3
      <3> QED  BY <1>2, <1>10, <1>11, <2>1, <2>3, <3>1 DEF Decided
    <2> QED  BY <2>2, <2>3
  <1>14. CooldownHolds'
    BY <1>2, <1>7 DEF CooldownHolds
  <1>15. CurrentIsNewest'
    <2>1. \A x \in mailed' : token'[x] # None
      BY <1>1, <1>2, <1>7 DEF CurrentIsNewest, TablesTyped
    <2>2. ASSUME NEW x \in Tokens, Current(x)', NEW y \in TokensOf(token[x].email)
          PROVE  token'[y].created <= token'[x].created
      BY <1>2, <1>7, <1>10, <2>2 DEF CurrentIsNewest, TokensOf, Current
    <2>3. \A x \in Tokens : Current(x)' => token'[x].email = token[x].email
      BY <1>7, <1>10 DEF Current
    <2>4. \A x \in Tokens : Current(x)' =>
             \A y \in TokensOf(token[x].email)' : token'[y].created <= token'[x].created
      <3>1. ASSUME NEW x \in Tokens, Current(x)', NEW y \in TokensOf(token[x].email)'
            PROVE  token'[y].created <= token'[x].created
        <4>1. y \in Tokens /\ token'[y] # None /\ token'[y].email = token'[x].email
          BY <3>1 DEF TokensOf
        <4>2. y \in TokensOf(token[x].email)
          BY <1>7, <2>3, <3>1, <4>1 DEF TokensOf
        <4> QED  BY <2>2, <3>1, <4>2
      <3> QED  BY <3>1
    <2> QED  BY <2>1, <2>4 DEF CurrentIsNewest
  <1>16. Tables' /\ Monotone
    BY <1>1, <1>6, <1>7, <1>11, <1>13, <1>14, <1>15, TokensWritten
  <1>17. \A f \in Emails \ {e} : Kept(f)
    BY <1>4, <1>6, <1>7, <1>11 DEF Kept
  <1>18. Respects(c)
    BY <1>1, <1>17 DEF Respects
  <1> QED  BY <1>16, <1>18

LEMMA ConsumeKeeps ==
    ASSUME Parts, NEW c \in Callers, Consume(c)
    PROVE  Parts'
  <1>1. End(c) /\ UNCHANGED <<now, mailed, session, signedOut>>
    BY DEF Consume, sessionVars
  <1>2. CASE Usable(call[c].id)
    BY <1>1, <1>2, ConfirmationWrites, EndOfCall
  <1>3. CASE ~Usable(call[c].id)
    <2>1. UNCHANGED <<token, user>>
      BY <1>3 DEF Consume, Consumable
    <2> QED  BY <1>1, <2>1, ReadOnlyEnd
  <1> QED  BY <1>2, <1>3

-----------------------------------------------------------------------------
(* The clock, and every step.                                              *)

LEMMA TickKeeps ==
    ASSUME Parts, Tick
    PROVE  Parts'
  <1>1. /\ now' = now + 1 /\ now < MaxTime
        /\ UNCHANGED <<user, lock, token, mailed, session, signedOut, call>>
    BY DEF Tick, userVars, registrationVars, sessionVars
  <1>2. now \in Nat /\ MaxTime \in Nat /\ TablesTyped /\ None \notin Callers
    BY AccountsAssumption DEF Parts, Tables, TablesTyped
  <1>3. TablesTyped'
    BY <1>1, <1>2 DEF TablesTyped
  <1>4. Tables'
    BY <1>1, <1>3 DEF Parts, Tables, RegistrationsAreSerialised, OneTokenDecides, CooldownHolds,
       TokensOf, Current, CurrentIsNewest, SessionRowsBounded, ActivityIsPast
  <1>5. Monotone
    <2>1. \A s \in Sessions : session[s] # None => session[s].inactivity \in Nat
      BY <1>2 DEF TablesTyped, SessionRow
    <2> QED  BY <1>1, <1>2, <2>1 DEF Monotone
  <1>6. \A c : Respects(c)
    BY <1>1 DEF Respects, Kept
  <1>7. ASSUME NEW d \in Callers PROVE Knows(d)' /\ AcceptedInTime(d)'
    <2>1. d \in Callers \ {None}
      BY <1>2
    <2> QED  BY <1>1, <1>4, <1>5, <1>6, <2>1, OthersKnow
  <1>8. Locks' /\ call' \in [Callers -> Calls]
    BY <1>1 DEF Parts, Locks
  <1> QED  BY <1>4, <1>7, <1>8 DEF Parts

LEMMA InitHolds == Init => IInv
  <1> SUFFICES ASSUME Init PROVE Parts
    BY InvariantParts
  <1>1. /\ \A t \in Tokens : token[t] = None
        /\ \A s \in Sessions : session[s] = None
        /\ \A e \in Emails : lock[e] = None /\ user[e] # "verified"
        /\ \A c \in Callers : call[c] = NoCall
        /\ mailed = {} /\ signedOut = {}
    BY DEF Init
  <1>2. TablesTyped
    BY AccountsAssumption DEF Init, TablesTyped
  <1>3. Decided
    BY <1>1 DEF Decided, TokensOf
  <1>4. RegistrationsAreSerialised
    BY <1>1, <1>3, DecidedMeans DEF RegistrationsAreSerialised, CooldownHolds
  <1>5. CurrentIsNewest /\ SessionRowsBounded /\ ActivityIsPast
    BY <1>1 DEF CurrentIsNewest, Current, SessionRowsBounded, ActivityIsPast
  <1>6. Locks /\ call \in [Callers -> Calls]
    BY <1>1, NoCallFields DEF Init, Locks
  <1>7. \A c \in Callers : Knows(c) /\ AcceptedInTime(c)
    BY <1>1, NoCallFields, AccountsAssumption DEF Knows, AcceptedInTime, HoldsLock
  <1> QED  BY <1>2, <1>4, <1>5, <1>6, <1>7 DEF Parts, Tables

LEMMA NextKeeps == IInv /\ [Next]_vars => IInv'
  <1> SUFFICES ASSUME Parts, [Next]_vars PROVE Parts'
    <2>1. IInv' <=> Parts'
      BY InvariantParts, PTL
    <2> QED  BY <2>1, InvariantParts
  <1>1. CASE UNCHANGED vars
    <2>1. UNCHANGED <<now, user, lock, token, mailed, session, signedOut, call>>
      BY <1>1 DEF vars, userVars, registrationVars, sessionVars
    <2>2. Tables'
      BY <2>1, TablesUntouched
    <2>3. ASSUME NEW d \in Callers PROVE Knows(d)' /\ AcceptedInTime(d)'
      BY <2>1 DEF Parts, Knows, Eligible, TokensOf, AcceptedInTime
    <2> QED  BY <2>1, <2>2, <2>3 DEF Parts, Locks
  <1>2. ASSUME NEW c \in Callers, UserNotFound(c) PROVE Parts'
    BY <1>2, ReadOnlyEnd DEF UserNotFound, registrationVars, sessionVars
  <1>3. ASSUME NEW c \in Callers, Abort(c) PROVE Parts'
    BY <1>3, ReadOnlyEnd DEF Abort, registrationVars, sessionVars
  <1>4. ASSUME NEW c \in Callers, RegistrationStep(c) PROVE Parts'
    BY <1>4, BeginningsKeep, IssueKeeps, CheckEligibilityKeeps, EnqueueMailKeeps, ReadTokenKeeps,
       ConsumeKeeps DEF RegistrationStep
  <1>5. ASSUME NEW c \in Callers, SessionStep(c) PROVE Parts'
    BY <1>5, BeginningsKeep, InsertSessionKeeps, ReadClockKeeps, LoadSessionKeeps,
       RecordActivityKeeps, ReloadSessionKeeps, FindSessionKeeps, RevokeKeeps DEF SessionStep
  <1> QED  BY <1>1, <1>2, <1>3, <1>4, <1>5, LockUserKeeps, TickKeeps DEF Next

\* However many sign-ups, resends and confirmations run at once: of a user's tokens
\* at most one is current and exactly one has verified a verified user, and tokens
\* of a user are a cooldown apart (RegistrationStore).
THEOREM RegistrationsSerialise == Spec => []RegistrationsAreSerialised
  <1>1. IInv => RegistrationsAreSerialised
    BY DEF IInv
  <1> QED  BY <1>1, InitHolds, NextKeeps, PTL DEF Spec

\* However many validations, extensions and sign-outs run at once: after a sign-out
\* has returned no later validation is accepted, no session outlives its limits, and
\* a locked user's row is locked by a call that will release it (AuthSessionStore).
THEOREM SessionsStayControlled == Spec => []SessionsAreControlled
  <1>1. IInv => SessionsAreControlled
    BY DEF IInv
  <1> QED  BY <1>1, InitHolds, NextKeeps, PTL DEF Spec

\* What only a confirmation does.
LEMMA OnlyConsumeVerifies ==
    ASSUME Parts, Next, NEW e \in Emails, user[e] # "verified", user'[e] = "verified"
    PROVE  \E c \in Callers : Consume(c) /\ Usable(call[c].id)
  <1>1. user' # user
    OBVIOUS
  <1>2. ~Tick /\ \A c \in Callers : ~LockUser(c) /\ ~UserNotFound(c) /\ ~Abort(c)
    BY <1>1 DEF Tick, userVars, LockUser, UserNotFound, Abort
  <1>3. \A c \in Callers : ~SessionStep(c)
    BY <1>1 DEF SessionStep, SignIn, InsertSession, SignOut, Validate, ReadClock, LoadSession,
       RecordActivity, ReloadSession, FindSession, Revoke, userVars
  <1>4. PICK c \in Callers : RegistrationStep(c)
    BY <1>2, <1>3 DEF Next
  <1>5. \A t \in Tokens : ~Issue(c, t)
    BY IssueWrites
  <1>6. Consume(c)
    BY <1>1, <1>4, <1>5 DEF RegistrationStep, SignUp, Resend, Confirm, CheckEligibility,
       EnqueueMail, ReadToken, userVars
  <1> QED  BY <1>1, <1>6 DEF Consume, Consumable

\* A user becomes verified only by the newest token issued to it, which was mailed and
\* has not expired by the time of the commit, whatever else runs meanwhile
\* (RegistrationStore.consumeConfirmationToken).
THEOREM VerifiedByNewestToken == Spec => NewestTokenConfirms
  <1>1. ASSUME IInv, [Next]_vars, NEW e \in Emails, user[e] # "verified", user'[e] = "verified"
        PROVE  \E t \in TokensOf(e) \cap mailed :
                  /\ token'[t].status = "used" /\ token[t].expires > now
                  /\ \A u \in TokensOf(e) : token[u].created <= token[t].created
    <2>1. Parts /\ Next
      BY <1>1, InvariantParts DEF vars, userVars
    <2>2. PICK c \in Callers : Consume(c) /\ Usable(call[c].id)
      BY <1>1, <2>1, OnlyConsumeVerifies
    <2>3. PICK f \in Emails, t \in Tokens :
              /\ t \in mailed /\ token[t] # None /\ token[t].email = f
              /\ token[t].status = "current" /\ token[t].expires > now
              /\ token' = [token EXCEPT ![t].status = "used"]
              /\ user' = [user EXCEPT ![f] = "verified"]
      BY <2>1, <2>2, Confirming
    <2>4. TablesTyped /\ CurrentIsNewest
      BY <2>1 DEF Parts, Tables
    <2>5. f = e
      BY <1>1, <2>3, <2>4 DEF TablesTyped
    <2>6. Current(t) /\ t \in TokensOf(e)
      BY <2>3, <2>5 DEF Current, TokensOf
    <2>7. \A u \in TokensOf(e) : token[u].created <= token[t].created
      BY <2>3, <2>4, <2>5, <2>6 DEF CurrentIsNewest
    <2>8. token'[t].status = "used"
      BY <2>3, <2>4 DEF TablesTyped, TokenRow
    <2> QED  BY <2>3, <2>6, <2>7, <2>8
  <1>2. IInv /\ [Next]_vars =>
          [\A e \in Emails :
             (user[e] # "verified" /\ user'[e] = "verified") =>
                \E t \in TokensOf(e) \cap mailed :
                   /\ token'[t].status = "used" /\ token[t].expires > now
                   /\ \A u \in TokensOf(e) : token[u].created <= token[t].created
          ]_userVars
    BY <1>1
  <1> QED  BY <1>2, InitHolds, NextKeeps, PTL DEF Spec, NewestTokenConfirms
=============================================================================
