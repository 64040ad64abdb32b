----------------------------- MODULE PlatformProofs -----------------------------
(***************************************************************************)
(* Three parts, for any callers or changes of each: the limits of password *)
(* checks and registrations (IdentityLimiter), what the S3 adapter answers *)
(* (ArtifactStorage), and what the dependency gate lets through            *)
(* (DependencyPolicy).  They have no variable in common; each of the first *)
(* two has its own inductive invariant.                                    *)
(***************************************************************************)
EXTENDS IdentityLimiter, ArtifactStorage, DependencyPolicy, FiniteSetTheorems, TLAPS

-----------------------------------------------------------------------------
(* Counting. *)

LEMMA PartsAreFinite ==
    ASSUME NEW U, IsFiniteSet(U), NEW S \in SUBSET U, NEW T \in SUBSET S
    PROVE  /\ IsFiniteSet(S) /\ Cardinality(S) \in Nat
           /\ Cardinality(T) \in Nat /\ Cardinality(T) <= Cardinality(S)
  <1>1. IsFiniteSet(S)
    BY FS_Subset
  <1> QED  BY <1>1, FS_Subset, FS_CardinalityType

\* A table loses keys, or is given a value for one it had or has room for.
LEMMA FewerKeys ==
    ASSUME NEW t, NEW u, \A k \in Emails : u[k] # None => t[k] # None
    PROVE  Cardinality(Keys(t)) <= MaxKeys => Cardinality(Keys(u)) <= MaxKeys
  <1>1. Keys(t) \in SUBSET Emails /\ Keys(u) \in SUBSET Keys(t)
    BY DEF Keys
  <1> HIDE DEF Keys
  <1>2. Cardinality(Keys(u)) \in Nat /\ Cardinality(Keys(t)) \in Nat
    BY <1>1, PartsAreFinite, LimitsAssumption
  <1>3. Cardinality(Keys(u)) <= Cardinality(Keys(t))
    BY <1>1, PartsAreFinite, LimitsAssumption
  <1>4. MaxKeys \in Nat
    BY LimitsAssumption
  <1> QED  BY <1>2, <1>3, <1>4

LEMMA OneMoreKey ==
    ASSUME NEW t, NEW u, NEW e \in Emails,
           \A k \in Emails : k # e => u[k] = t[k], u[e] # None, t[e] = None
    PROVE  Cardinality(Keys(t)) < MaxKeys => Cardinality(Keys(u)) <= MaxKeys
  <1>1. Keys(u) = Keys(t) \cup {e} /\ e \notin Keys(t) /\ Keys(t) \in SUBSET Emails
    BY DEF Keys
  <1> HIDE DEF Keys
  <1>2. IsFiniteSet(Keys(t)) /\ Cardinality(Keys(t)) \in Nat /\ MaxKeys \in Nat
    BY <1>1, PartsAreFinite, LimitsAssumption
  <1>3. Cardinality(Keys(u)) = Cardinality(Keys(t)) + 1
    BY <1>1, <1>2, FS_AddElement
  <1> QED  BY <1>2, <1>3

\* The checks in flight of a state, and of a window.
OfState(s) == Running({c \in Checks : check[c].state = s})
OfWindow(w) == Running({c \in Checks : check[c].window = w})

LEMMA CountsAreNat ==
    /\ \A s : IsFiniteSet(OfState(s)) /\ Cardinality(OfState(s)) \in Nat
    /\ \A w : IsFiniteSet(OfWindow(w)) /\ Cardinality(OfWindow(w)) \in Nat
  <1>1. /\ \A s : OfState(s) \in SUBSET Checks
        /\ \A w : OfWindow(w) \in SUBSET Checks
    BY DEF OfState, OfWindow, Running
  <1> QED  BY <1>1, PartsAreFinite, LimitsAssumption

\* What a check's reservation and its settlement do to the counts.
LEMMA ReserveCounts ==
    ASSUME NEW c \in Checks, NEW r, r.stage = "running", check[c].stage = "new",
           check'[c] = r, \A x \in Checks \ {c} : check'[x] = check[x]
    PROVE  /\ \A s : Cardinality(OfState(s)') =
                        IF s = r.state THEN Cardinality(OfState(s)) + 1
                                       ELSE Cardinality(OfState(s))
           /\ \A w : Cardinality(OfWindow(w)') =
                        IF w = r.window THEN Cardinality(OfWindow(w)) + 1
                                        ELSE Cardinality(OfWindow(w))
  <1>1. /\ \A s : OfState(s)' = IF s = r.state THEN OfState(s) \cup {c} ELSE OfState(s)
        /\ \A w : OfWindow(w)' = IF w = r.window THEN OfWindow(w) \cup {c} ELSE OfWindow(w)
        /\ \A s : c \notin OfState(s) /\ \A w : c \notin OfWindow(w)
    BY DEF OfState, OfWindow, Running
  <1> QED  BY <1>1, CountsAreNat, FS_AddElement

LEMMA SettleCounts ==
    ASSUME NEW c \in Checks, check[c].stage = "running", check'[c].stage = "settled",
           \A x \in Checks \ {c} : check'[x] = check[x]
    PROVE  /\ \A s : Cardinality(OfState(s)') =
                        IF s = check[c].state THEN Cardinality(OfState(s)) - 1
                                              ELSE Cardinality(OfState(s))
           /\ \A w : Cardinality(OfWindow(w)') =
                        IF w = check[c].window THEN Cardinality(OfWindow(w)) - 1
                                               ELSE Cardinality(OfWindow(w))
  <1>1. /\ \A s : OfState(s)' = IF s = check[c].state THEN OfState(s) \ {c} ELSE OfState(s)
        /\ \A w : OfWindow(w)' = IF w = check[c].window THEN OfWindow(w) \ {c}
                                                        ELSE OfWindow(w)
        /\ c \in OfState(check[c].state) /\ c \in OfWindow(check[c].window)
    BY DEF OfState, OfWindow, Running
  <1> QED  BY <1>1, CountsAreNat, FS_RemoveElement

-----------------------------------------------------------------------------
(* Tables: what a sweep leaves. *)

LEMMA SweptTable ==
    ASSUME LimiterTypeOK, NEW e \in Emails
    PROVE  /\ Swept(e) \in [Emails -> Checks \cup {None}]
           /\ \A k \in Emails : \/ Swept(e)[k] = signIn[k]
                                \/ Swept(e)[k] = None /\ Evictable(signIn[k])
           /\ signIn[e] # None => Swept(e) = signIn
           /\ signIn[e] = None => Swept(e)[e] = None
           /\ Cardinality(Keys(Swept(e))) <= MaxKeys
  <1>1. signIn \in [Emails -> Checks \cup {None}] /\ Cardinality(Keys(signIn)) <= MaxKeys
    BY DEF LimiterTypeOK
  <1>2. /\ Swept(e) \in [Emails -> Checks \cup {None}]
        /\ \A k \in Emails : \/ Swept(e)[k] = signIn[k]
                             \/ Swept(e)[k] = None /\ Evictable(signIn[k])
        /\ signIn[e] # None => Swept(e) = signIn
    BY <1>1 DEF Swept
  <1>3. \A k \in Emails : Swept(e)[k] # None => signIn[k] # None
    BY <1>2
  <1> QED  BY <1>1, <1>2, <1>3, FewerKeys

LEMMA SweptRegistrationsTable ==
    ASSUME LimiterTypeOK, NEW e \in Emails
    PROVE  /\ SweptRegistrations(e) \in [Emails -> RegistrationState \cup {None}]
           /\ \A k \in Emails : \/ SweptRegistrations(e)[k] = registration[k]
                                \/ SweptRegistrations(e)[k] = None /\ ~RegistrationLive(k)
           /\ Cardinality(Keys(SweptRegistrations(e))) <= MaxKeys
  <1>1. /\ registration \in [Emails -> RegistrationState \cup {None}]
        /\ Cardinality(Keys(registration)) <= MaxKeys
    BY DEF LimiterTypeOK
  <1>2. /\ SweptRegistrations(e) \in [Emails -> RegistrationState \cup {None}]
        /\ \A k \in Emails : \/ SweptRegistrations(e)[k] = registration[k]
                             \/ SweptRegistrations(e)[k] = None /\ ~RegistrationLive(k)
    BY <1>1 DEF SweptRegistrations
  <1>3. \A k \in Emails : SweptRegistrations(e)[k] # None => registration[k] # None
    BY <1>2
  <1> QED  BY <1>1, <1>2, <1>3, FewerKeys

\* A sweep keeps the state of every check in flight, and of every live window.
LEMMA SweptKeeps ==
    ASSUME LimiterInv, NEW e \in Emails
    PROVE  /\ \A x \in Running(Checks) : Swept(e)[check[x].email] = check[x].state
           /\ \A k \in Emails : signIn[k] # None /\ ~Expired(window[signIn[k]])
                                   => Swept(e)[k] = signIn[k]
  <1>1. LimiterTypeOK /\ CapacityIsOwned /\ NamesAreOwned
    BY DEF LimiterInv, LimitsHold
  <1>2. ASSUME NEW x \in Running(Checks)
        PROVE  /\ check[x].email \in Emails /\ check[x].state \in Checks
               /\ signIn[check[x].email] = check[x].state /\ pending[check[x].state] # 0
    <2>1. x \in Checks /\ check[x].stage = "running"
      BY DEF Running
    <2>2. check[x].email \in Emails /\ check[x].state \in Checks
      BY <1>1, <2>1 DEF LimiterTypeOK, NoReservation
    <2>3. x \in OfState(check[x].state)
      BY <2>1 DEF OfState, Running
    <2>4. Cardinality(OfState(check[x].state)) # 0
      BY <2>3, CountsAreNat, FS_EmptySet
    <2> QED  BY <1>1, <2>2, <2>4 DEF CapacityIsOwned, OfState
  <1>3. \A k \in Emails : \/ Swept(e)[k] = signIn[k]
                          \/ Swept(e)[k] = None /\ Evictable(signIn[k])
    BY <1>1, SweptTable
  <1> QED  BY <1>2, <1>3 DEF Evictable

\* What has not been reserved has neither a state nor a window.
LEMMA NewHasNothing ==
    ASSUME LimiterInv, NEW c \in Checks, ~Reserved(c)
    PROVE  /\ pending[c] = 0 /\ window[c] = None /\ failures[c] = 0 /\ rejected[c] = 0
           /\ OfState(c) = {} /\ OfWindow(c) = {}
           /\ \A x \in Checks : Reserved(x) => check[x].state # c /\ check[x].window # c
           /\ \A e \in Emails : signIn[e] # c
           /\ \A s \in Checks : window[s] # c
  <1>1. /\ LimiterTypeOK /\ CapacityIsOwned /\ NamesAreOwned /\ UnusedIsClean
    BY DEF LimiterInv, LimitsHold
  <1>2. c # None
    BY LimitsAssumption
  <1>3. \A x \in Checks : Reserved(x) => check[x].state # c /\ check[x].window # c
    BY <1>1 DEF NamesAreOwned
  <1>4. OfState(c) = {} /\ OfWindow(c) = {}
    BY <1>3 DEF OfState, OfWindow, Running, Reserved
  <1>5. pending[c] = 0
    BY <1>1, <1>4, FS_EmptySet DEF CapacityIsOwned, OfState
  <1>6. window[c] = None
    <2>1. window[c] \in Checks \cup {None}
      BY <1>1 DEF LimiterTypeOK
    <2> QED  BY <1>1, <1>3, <2>1 DEF NamesAreOwned
  <1>7. (\A e \in Emails : signIn[e] # c) /\ \A s \in Checks : window[s] # c
    BY <1>1, <1>2 DEF NamesAreOwned
  <1> QED  BY <1>1, <1>3, <1>4, <1>5, <1>6, <1>7 DEF UnusedIsClean

\* The parts of NamesAreOwned, of the checks f.
OwnsNames(c, f) ==
    LET s == f[c].state
        w == f[c].window
    IN  /\ f[s].stage # "new" /\ f[s].state = s /\ f[s].email = f[c].email
        /\ f[w].stage # "new" /\ f[w].window = w /\ f[w].state = s
IsStateOf(s, e, f) == f[s].stage # "new" /\ f[s].state = s /\ f[s].email = e
IsWindowOf(w, s, f) == f[w].stage # "new" /\ f[w].window = w /\ f[w].state = s

-----------------------------------------------------------------------------
(* A reservation. *)

\* What ReserveSignIn does, with the state and the window it has chosen.
ReservedIn(c, e, s, w) ==
    /\ ~Reserved(c) /\ Admits(e)
    /\ s = IF signIn[e] = None THEN c ELSE signIn[e]
    /\ w = IF Expired(window[s]) THEN c ELSE window[s]
    /\ signIn' = [Swept(e) EXCEPT ![e] = s]
    /\ pending' = [pending EXCEPT ![s] = @ + 1]
    /\ window' = [window EXCEPT ![s] = w]
    /\ expiresAt' = IF w = c THEN [expiresAt EXCEPT ![c] = now + SignInWindow]
                             ELSE expiresAt
    /\ check' = [check EXCEPT ![c] = [stage |-> "running", email |-> e,
                                      state |-> s, window |-> w]]
    /\ UNCHANGED <<now, failures, registration, rejected>>

LEMMA ReserveChooses ==
    ASSUME LimiterInv, NEW c \in Checks, NEW e \in Emails, ReserveSignIn(c, e)
    PROVE  \E s, w \in Checks : ReservedIn(c, e, s, w)
  <1> DEFINE s == IF signIn[e] = None THEN c ELSE signIn[e]
             w == IF Expired(window[s]) THEN c ELSE window[s]
  <1>1. s \in Checks
    BY DEF LimiterInv, LimitsHold, LimiterTypeOK
  <1>2. w \in Checks
    <2>1. window[s] \in Checks \cup {None}
      BY <1>1 DEF LimiterInv, LimitsHold, LimiterTypeOK
    <2>2. Expired(None)
      BY DEF Expired
    <2> QED  BY <2>1, <2>2
  <1>3. ReservedIn(c, e, s, w)
    BY DEF ReserveSignIn, ReservedIn, Reserved
  <1> QED  BY <1>1, <1>2, <1>3

\* The chosen state is the email's and has room; the chosen window is its.
LEMMA ChosenHasRoom ==
    ASSUME LimiterInv, NEW c \in Checks, NEW e \in Emails, NEW s \in Checks, NEW w \in Checks,
           ReservedIn(c, e, s, w)
    PROVE  /\ \/ s = c /\ signIn[e] = None /\ pending[s] = 0
              \/ s = signIn[e] /\ s # c /\ Reserved(s) /\ check[s].state = s /\ check[s].email = e
           /\ \/ w = c /\ Expired(window[s])
              \/ /\ w = window[s] /\ w # c /\ ~Expired(w) /\ s # c
                 /\ Reserved(w) /\ check[w].window = w /\ check[w].state = s
           /\ pending[s] < SignInAttempts
           /\ w # c => failures[w] + pending[s] < SignInAttempts
  <1>1. LimiterTypeOK /\ NamesAreOwned
    BY DEF LimiterInv, LimitsHold
  <1>2. /\ ~Reserved(c)
        /\ s = IF signIn[e] = None THEN c ELSE signIn[e]
        /\ w = IF Expired(window[s]) THEN c ELSE window[s]
    BY DEF ReservedIn
  <1>3. /\ window[c] = None /\ pending[c] = 0 /\ signIn[e] # c /\ window[s] # c
    BY <1>2, NewHasNothing
  <1>4. /\ pending[s] \in Nat /\ \A x \in Checks : failures[x] \in Nat
        /\ SignInAttempts \in Nat \ {0}
    BY <1>1, LimitsAssumption DEF LimiterTypeOK
  <1>5. \/ s = c /\ signIn[e] = None /\ pending[s] = 0
        \/ s = signIn[e] /\ s # c /\ Reserved(s) /\ check[s].state = s /\ check[s].email = e
    BY <1>1, <1>2, <1>3 DEF NamesAreOwned
  <1>6. \/ w = c /\ Expired(window[s])
        \/ /\ w = window[s] /\ w # c /\ ~Expired(w) /\ s # c
           /\ Reserved(w) /\ check[w].window = w /\ check[w].state = s
    <2>1. Expired(None)
      BY DEF Expired
    <2> QED  BY <1>1, <1>2, <1>3, <2>1, LimitsAssumption DEF NamesAreOwned, Expired
  <1>7. s # c =>
           IF Expired(window[s]) THEN pending[s] < SignInAttempts
           ELSE failures[window[s]] + pending[s] < SignInAttempts
    <2>1. s # c => signIn[e] = s /\ s # None /\ Swept(e) = signIn
      BY <1>1, <1>2, SweptTable, LimitsAssumption
    <2>2. Admits(e)
      BY DEF ReservedIn
    <2> QED  BY <2>1, <2>2 DEF Admits
  <1>8. pending[s] < SignInAttempts
    BY <1>3, <1>4, <1>5, <1>6, <1>7
  <1>9. w # c => failures[w] + pending[s] < SignInAttempts
    BY <1>5, <1>6, <1>7
  <1> QED  BY <1>5, <1>6, <1>8, <1>9

\* No rejected check of the chosen window is missing in its failures, and its
\* checks in flight are among those of the state.
LEMMA ChosenWindowHasRoom ==
    ASSUME LimiterInv, NEW c \in Checks, NEW e \in Emails, NEW s \in Checks, NEW w \in Checks,
           ReservedIn(c, e, s, w)
    PROVE  rejected[w] + Cardinality(OfWindow(w)) < SignInAttempts
  <1>1. /\ LimiterTypeOK /\ NamesAreOwned /\ CapacityIsOwned /\ LiveWindowsCount
    BY DEF LimiterInv, LimitsHold
  <1>2. SignInAttempts \in Nat \ {0}
    BY LimitsAssumption
  <1>3. CASE w = c
    <2>1. rejected[c] = 0 /\ OfWindow(c) = {}
      BY NewHasNothing DEF ReservedIn
    <2> QED  BY <1>2, <1>3, <2>1, FS_EmptySet
  <1>4. CASE w # c
    <2>1. /\ w = window[s] /\ ~Expired(w) /\ Reserved(w)
          /\ check[w].window = w /\ check[w].state = s
          /\ failures[w] + pending[s] < SignInAttempts
      BY <1>4, ChosenHasRoom
    <2>2. failures[w] = rejected[w]
      BY <1>1, <2>1 DEF LiveWindowsCount
    <2>3. OfWindow(w) \in SUBSET OfState(s)
      BY <1>1, <2>1 DEF OfWindow, OfState, Running, NamesAreOwned, Reserved
    <2>4. OfState(s) \in SUBSET Checks
      BY DEF OfState, Running
    <2>5. Cardinality(OfWindow(w)) <= Cardinality(OfState(s))
      BY <2>3, <2>4, PartsAreFinite, LimitsAssumption
    <2>6. pending[s] = Cardinality(OfState(s))
      BY <1>1 DEF CapacityIsOwned, OfState
    <2>7. /\ Cardinality(OfWindow(w)) \in Nat /\ Cardinality(OfState(s)) \in Nat
          /\ rejected[w] \in Nat
      BY <1>1, CountsAreNat DEF LimiterTypeOK
    <2> QED  BY <1>2, <2>1, <2>2, <2>5, <2>6, <2>7
  <1> QED  BY <1>3, <1>4

LEMMA ReserveTyped ==
    ASSUME LimiterInv, NEW c \in Checks, NEW e \in Emails, NEW s \in Checks, NEW w \in Checks,
           ReservedIn(c, e, s, w)
    PROVE  LimiterTypeOK'
  <1>1. LimiterTypeOK
    BY DEF LimiterInv, LimitsHold
  <1>2. Cardinality(Keys(signIn')) <= MaxKeys
    <2>1. /\ Swept(e) \in [Emails -> Checks \cup {None}] /\ signIn' = [Swept(e) EXCEPT ![e] = s]
          /\ Cardinality(Keys(Swept(e))) <= MaxKeys
      BY <1>1, SweptTable DEF ReservedIn
    <2>2. s # None
      BY LimitsAssumption
    <2>3. /\ \A k \in Emails : k # e => signIn'[k] = Swept(e)[k]
          /\ signIn'[e] = s
      BY <2>1
    <2>4. CASE Swept(e)[e] = None
      <3>1. Cardinality(Keys(Swept(e))) < MaxKeys
        BY <2>4 DEF ReservedIn, Admits
      <3> QED  BY <2>2, <2>3, <2>4, <3>1, OneMoreKey
    <2>5. CASE Swept(e)[e] # None
      <3>1. \A k \in Emails : signIn'[k] # None => Swept(e)[k] # None
        BY <2>3, <2>5
      <3> QED  BY <2>1, <3>1, FewerKeys
    <2> QED  BY <2>4, <2>5
  <1>3. signIn' \in [Emails -> Checks \cup {None}]
    BY <1>1, SweptTable DEF ReservedIn
  <1>4. pending' \in [Checks -> 0..SignInAttempts]
    <2>1. pending[s] < SignInAttempts
      BY ChosenHasRoom
    <2> QED  BY <1>1, <2>1, LimitsAssumption DEF LimiterTypeOK, ReservedIn
  <1>5. window' \in [Checks -> Checks \cup {None}]
    BY <1>1 DEF LimiterTypeOK, ReservedIn
  <1>6. expiresAt' \in [Checks -> Nat]
    <2>1. now + SignInWindow \in Nat
      BY <1>1, LimitsAssumption DEF LimiterTypeOK
    <2> QED  BY <1>1, <2>1 DEF LimiterTypeOK, ReservedIn
  <1>7. check' \in [Checks -> {NoReservation} \cup
                      [stage : {"running", "settled"}, email : Emails,
                       state : Checks, window : Checks]]
    BY <1>1 DEF LimiterTypeOK, ReservedIn
  <1>8. Keys(signIn)' = Keys(signIn') /\ Keys(registration)' = Keys(registration)
    BY DEF Keys, ReservedIn
  <1> QED
    BY <1>1, <1>2, <1>3, <1>4, <1>5, <1>6, <1>7, <1>8 DEF LimiterTypeOK, ReservedIn

LEMMA ReserveKeeps ==
    ASSUME LimiterInv, NEW c \in Checks, NEW e \in Emails, ReserveSignIn(c, e)
    PROVE  LimiterInv'
  <1>1. PICK s \in Checks, w \in Checks : ReservedIn(c, e, s, w)
    BY ReserveChooses
  <1>2. LimiterTypeOK /\ WindowLimitHolds /\ CapacityIsOwned /\ NamesAreOwned /\ LiveWindowsCount
        /\ UnusedIsClean
    BY DEF LimiterInv, LimitsHold
  <1>3. ~Reserved(c)
    BY <1>1 DEF ReservedIn
  <1>4. /\ check[c].stage = "new"
        /\ check'[c] = [stage |-> "running", email |-> e, state |-> s, window |-> w]
        /\ \A x \in Checks \ {c} : check'[x] = check[x]
    BY <1>1, <1>2, <1>3 DEF ReservedIn, LimiterTypeOK, Reserved
  <1>5. /\ \A x \in Checks : x # c => (Reserved(x)' <=> Reserved(x))
        /\ Reserved(c)'
    BY <1>4 DEF Reserved
  <1>6. /\ pending'[s] = pending[s] + 1 /\ \A x \in Checks : x # s => pending'[x] = pending[x]
        /\ window'[s] = w /\ \A x \in Checks : x # s => window'[x] = window[x]
        /\ failures' = failures /\ rejected' = rejected /\ now' = now
        /\ \A x \in Checks : x # c => expiresAt'[x] = expiresAt[x]
        /\ w = c => expiresAt'[c] = now + SignInWindow
    BY <1>1, <1>2 DEF ReservedIn, LimiterTypeOK
  <1>7. /\ \A k \in Emails : k # e => signIn'[k] = Swept(e)[k]
        /\ signIn'[e] = s
    BY <1>1, <1>2, SweptTable DEF ReservedIn
  <1>8. /\ \A x \in Checks : Cardinality(OfState(x)') =
              IF x = s THEN Cardinality(OfState(x)) + 1 ELSE Cardinality(OfState(x))
        /\ \A x \in Checks : Cardinality(OfWindow(x)') =
              IF x = w THEN Cardinality(OfWindow(x)) + 1 ELSE Cardinality(OfWindow(x))
    BY <1>4, ReserveCounts
  <1>9. /\ \/ s = c /\ signIn[e] = None /\ pending[s] = 0
           \/ s = signIn[e] /\ s # c /\ Reserved(s) /\ check[s].state = s /\ check[s].email = e
        /\ \/ w = c /\ Expired(window[s])
           \/ /\ w = window[s] /\ w # c /\ ~Expired(w) /\ s # c
              /\ Reserved(w) /\ check[w].window = w /\ check[w].state = s
        /\ pending[s] < SignInAttempts
        /\ w # c => failures[w] + pending[s] < SignInAttempts
    BY <1>1, ChosenHasRoom
  <1>10. WindowLimitHolds'
    <2>1. \A x \in Checks : rejected'[x] + Cardinality(OfWindow(x)') <= SignInAttempts
      <3> TAKE x \in Checks
      <3>1. rejected[x] \in Nat /\ Cardinality(OfWindow(x)) \in Nat /\ SignInAttempts \in Nat
        BY <1>2, CountsAreNat, LimitsAssumption DEF LimiterTypeOK
      <3>2. CASE x = w
        BY <1>1, <1>6, <1>8, <3>1, <3>2, ChosenWindowHasRoom
      <3>3. CASE x # w
        <4>1. rejected[x] + Cardinality(OfWindow(x)) <= SignInAttempts
          BY <1>2 DEF WindowLimitHolds, OfWindow
        <4> QED  BY <1>6, <1>8, <3>3, <4>1
      <3> QED  BY <3>2, <3>3
    <2> QED  BY <2>1 DEF WindowLimitHolds, OfWindow
  <1>11. CapacityIsOwned'
    <2>1. \A x \in Running(Checks)' : signIn'[check'[x].email] = check'[x].state
      <3> TAKE x \in Running(Checks)'
      <3>1. CASE x = c
        BY <1>4, <1>7, <3>1
      <3>2. CASE x # c
        <4>1. x \in Running(Checks) /\ check'[x] = check[x] /\ x \in Checks
          BY <1>4, <3>2 DEF Running
        <4>2. check[x].email \in Emails
          BY <1>2, <4>1 DEF LimiterTypeOK, NoReservation, Running
        <4>3. /\ Swept(e)[check[x].email] = check[x].state
              /\ signIn[check[x].email] = check[x].state
          BY <1>2, <4>1, SweptKeeps DEF CapacityIsOwned
        <4>4. check[x].email = e => check[x].state = s
          <5>1. check[x].state \in Checks
            BY <1>2, <4>1 DEF LimiterTypeOK, NoReservation, Running
          <5> QED  BY <1>9, <4>3, <5>1, LimitsAssumption
        <4> QED  BY <1>7, <4>1, <4>2, <4>3, <4>4
      <3> QED  BY <3>1, <3>2
    <2>2. \A x \in Checks : pending'[x] = Cardinality(OfState(x)')
      <3>1. \A x \in Checks : pending[x] = Cardinality(OfState(x))
        BY <1>2 DEF CapacityIsOwned, OfState
      <3> QED  BY <1>6, <1>8, <3>1
    <2> QED  BY <2>1, <2>2 DEF CapacityIsOwned, OfState
  <1>12. NamesAreOwned'
    <2>1. \A y \in Checks : (Reserved(y) => y # c) /\ (y # c => check'[y] = check[y])
      BY <1>3, <1>4
    <2>2. ASSUME NEW x \in Checks, check'[x].stage # "new"
          PROVE  OwnsNames(x, check')
      <3>1. CASE x = c
        BY <1>4, <1>9, <2>1, <3>1 DEF OwnsNames, Reserved
      <3>2. CASE x # c
        <4>1. Reserved(x) /\ check'[x] = check[x]
          BY <2>1, <2>2, <3>2 DEF Reserved
        <4>2. check[x].state \in Checks /\ check[x].window \in Checks
          BY <1>2, <4>1 DEF LimiterTypeOK, NoReservation, Reserved
        <4>3. OwnsNames(x, check)
          BY <1>2, <4>1 DEF NamesAreOwned, OwnsNames, Reserved
        <4>4. Reserved(check[x].state) /\ Reserved(check[x].window)
          BY <4>3 DEF OwnsNames, Reserved
        <4> QED  BY <2>1, <4>1, <4>2, <4>3, <4>4 DEF OwnsNames
      <3> QED  BY <3>1, <3>2
    <2>3. ASSUME NEW k \in Emails, signIn'[k] # None
          PROVE  IsStateOf(signIn'[k], k, check')
      <3>1. CASE k = e
        BY <1>4, <1>7, <1>9, <2>1, <3>1 DEF IsStateOf, Reserved
      <3>2. CASE k # e
        <4>1. signIn'[k] = signIn[k]
          BY <1>2, <1>7, <2>3, <3>2, SweptTable
        <4>2. signIn[k] \in Checks
          BY <1>2, <2>3, <4>1 DEF LimiterTypeOK
        <4>3. IsStateOf(signIn[k], k, check) /\ Reserved(signIn[k])
          BY <1>2, <2>3, <4>1 DEF NamesAreOwned, IsStateOf, Reserved
        <4> QED  BY <2>1, <4>1, <4>2, <4>3 DEF IsStateOf
      <3> QED  BY <3>1, <3>2
    <2>4. ASSUME NEW x \in Checks, window'[x] # None
          PROVE  IsWindowOf(window'[x], x, check')
      <3>1. CASE x = s
        BY <1>4, <1>6, <1>9, <2>1, <3>1 DEF IsWindowOf, Reserved
      <3>2. CASE x # s
        <4>1. window[x] \in Checks /\ window'[x] = window[x]
          BY <1>2, <1>6, <2>4, <3>2 DEF LimiterTypeOK
        <4>2. IsWindowOf(window[x], x, check) /\ Reserved(window[x])
          BY <1>2, <2>4, <4>1 DEF NamesAreOwned, IsWindowOf, Reserved
        <4> QED  BY <2>1, <4>1, <4>2 DEF IsWindowOf
      <3> QED  BY <3>1, <3>2
    <2> QED  BY <2>2, <2>3, <2>4
             DEF NamesAreOwned, OwnsNames, IsStateOf, IsWindowOf, Reserved
  <1>13. LiveWindowsCount'
    <2> SUFFICES ASSUME NEW x \in Checks, ~Expired(window[x])'
                 PROVE  /\ failures'[window'[x]] = rejected'[window'[x]]
                        /\ failures'[window'[x]] + pending'[x] <= SignInAttempts
      BY DEF LiveWindowsCount
    <2>1. /\ SignInAttempts \in Nat /\ \A y \in Checks : pending[y] \in Nat /\ failures[y] \in Nat
      BY <1>2, LimitsAssumption DEF LimiterTypeOK
    <2>2. CASE x = s /\ w = c
      BY <1>3, <1>6, <1>9, <2>1, <2>2, NewHasNothing
    <2>3. CASE x = s /\ w # c
      <3>1. failures[w] = rejected[w]
        BY <1>2, <1>9, <2>3 DEF LiveWindowsCount
      <3> QED  BY <1>6, <1>9, <2>1, <2>3, <3>1
    <2>4. CASE x # s
      <3>1. window'[x] = window[x] /\ window[x] # c
        BY <1>3, <1>6, <2>4, NewHasNothing
      <3>2. window[x] # None /\ window[x] \in Checks
        BY <1>2, <3>1 DEF Expired, LimiterTypeOK
      <3>3. ~Expired(window[x])
        BY <1>6, <3>1, <3>2 DEF Expired
      <3> QED  BY <1>2, <1>6, <2>4, <3>1, <3>3 DEF LiveWindowsCount
    <2> QED  BY <2>2, <2>3, <2>4
  <1>14. UnusedIsClean'
    BY <1>2, <1>5, <1>6 DEF UnusedIsClean
  <1>15. LimiterTypeOK'
    BY <1>1, ReserveTyped
  <1> QED  BY <1>10, <1>11, <1>12, <1>13, <1>14, <1>15 DEF LimiterInv, LimitsHold

-----------------------------------------------------------------------------
(* A settlement. *)

\* What Settle changes, of the check, its state and its window.
LEMMA SettleFacts ==
    ASSUME LimiterInv, NEW c \in Checks, NEW outcome, Settle(c, outcome)
    PROVE  /\ check[c].stage = "running" /\ Reserved(c)
           /\ check[c].state \in Checks /\ check[c].window \in Checks /\ check[c].email \in Emails
           /\ signIn[check[c].email] = check[c].state
           /\ pending[check[c].state] > 0
           /\ check'[c].stage = "settled"
           /\ check'[c].state = check[c].state /\ check'[c].window = check[c].window
           /\ check'[c].email = check[c].email
           /\ \A x \in Checks \ {c} : check'[x] = check[x]
           /\ now' = now /\ expiresAt' = expiresAt /\ registration' = registration
           /\ check' \in [Checks -> {NoReservation} \cup
                             [stage : {"running", "settled"}, email : Emails,
                              state : Checks, window : Checks]]
  <1>1. LimiterTypeOK /\ CapacityIsOwned
    BY DEF LimiterInv, LimitsHold
  <1>2. check[c].stage = "running" /\ check' = [check EXCEPT ![c].stage = "settled"]
    BY DEF Settle
  <1>3. check[c] \in [stage : {"running", "settled"}, email : Emails,
                      state : Checks, window : Checks]
    BY <1>1, <1>2 DEF LimiterTypeOK, NoReservation
  <1>4. PICK m \in Emails, s \in Checks, w \in Checks :
           check[c] = [stage |-> "running", email |-> m, state |-> s, window |-> w]
    BY <1>2, <1>3
  <1>5. [check[c] EXCEPT !.stage = "settled"] =
           [stage |-> "settled", email |-> m, state |-> s, window |-> w]
    BY <1>4
  <1>6. check' = [check EXCEPT ![c] = [stage |-> "settled", email |-> m, state |-> s, window |-> w]]
    BY <1>2, <1>5
  <1>7. /\ check'[c] = [stage |-> "settled", email |-> m, state |-> s, window |-> w]
        /\ \A x \in Checks \ {c} : check'[x] = check[x]
        /\ check' \in [Checks -> {NoReservation} \cup
                          [stage : {"running", "settled"}, email : Emails,
                           state : Checks, window : Checks]]
    BY <1>1, <1>6 DEF LimiterTypeOK
  <1>8. c \in Running(Checks) /\ c \in OfState(s)
    BY <1>4 DEF Running, OfState
  <1>9. pending[s] = Cardinality(OfState(s)) /\ signIn[m] = s
    <2>1. pending[s] = Cardinality(OfState(s))
      BY <1>1 DEF CapacityIsOwned, OfState
    <2>2. signIn[m] = s
      BY <1>1, <1>4, <1>8 DEF CapacityIsOwned
    <2> QED  BY <2>1, <2>2
  <1>10. Cardinality(OfState(s)) \in Nat /\ Cardinality(OfState(s)) # 0
    BY <1>8, CountsAreNat, FS_EmptySet
  <1>11. now' = now /\ expiresAt' = expiresAt /\ registration' = registration
    BY DEF Settle
  <1> QED  BY <1>4, <1>7, <1>9, <1>10, <1>11 DEF Reserved

\* Its effect on the maps, with the state and the window named.
LEMMA SettleMaps ==
    ASSUME LimiterInv, NEW c \in Checks, NEW outcome, Settle(c, outcome),
           NEW s, s = check[c].state, NEW w, w = check[c].window
    PROVE  /\ pending'[s] = pending[s] - 1
           /\ \A x \in Checks : x # s => pending'[x] = pending[x] /\ window'[x] = window[x]
           /\ window'[s] = IF window[s] = w /\ ~Expired(w) /\ outcome = "accepted"
                           THEN None ELSE window[s]
           /\ failures'[w] = IF window[s] = w /\ ~Expired(w) /\ outcome = "rejected"
                             THEN failures[w] + 1 ELSE failures[w]
           /\ rejected'[w] = IF outcome = "rejected" THEN rejected[w] + 1 ELSE rejected[w]
           /\ \A x \in Checks : x # w => failures'[x] = failures[x] /\ rejected'[x] = rejected[x]
           /\ \A k \in Emails : k # check[c].email => signIn'[k] = signIn[k]
           /\ \/ signIn'[check[c].email] = s
              \/ /\ signIn'[check[c].email] = None /\ pending'[s] = 0
                 /\ window'[s] = None \/ failures'[window'[s]] = 0 \/ Expired(window[s])'
  <1>1. /\ s \in Checks /\ w \in Checks /\ check[c].email \in Emails /\ signIn[check[c].email] = s
        /\ now' = now /\ expiresAt' = expiresAt
    BY SettleFacts
  <1>2. LimiterTypeOK
    BY DEF LimiterInv, LimitsHold
  <1>3. /\ pending'[s] = pending[s] - 1
        /\ \A x \in Checks : x # s => pending'[x] = pending[x]
    BY <1>1, <1>2 DEF LimiterTypeOK, Settle
  <1>4. /\ \A x \in Checks : x # s => window'[x] = window[x]
        /\ window'[s] = IF window[s] = w /\ ~Expired(w) /\ outcome = "accepted"
                        THEN None ELSE window[s]
    BY <1>1, <1>2 DEF LimiterTypeOK, Settle
  <1>5. /\ failures'[w] = IF window[s] = w /\ ~Expired(w) /\ outcome = "rejected"
                          THEN failures[w] + 1 ELSE failures[w]
        /\ \A x \in Checks : x # w => failures'[x] = failures[x]
    BY <1>1, <1>2 DEF LimiterTypeOK, Settle
  <1>6. /\ rejected'[w] = IF outcome = "rejected" THEN rejected[w] + 1 ELSE rejected[w]
        /\ \A x \in Checks : x # w => rejected'[x] = rejected[x]
    BY <1>1, <1>2 DEF LimiterTypeOK, Settle
  <1>7. signIn' = IF /\ pending'[s] = 0
                     /\ \/ window'[s] = None
                        \/ failures'[window'[s]] = 0
                        \/ Expired(window'[s])
                  THEN [signIn EXCEPT ![check[c].email] = None]
                  ELSE signIn
    BY DEF Settle
  <1>8. Expired(window'[s]) <=> Expired(window[s])'
    BY <1>1 DEF Expired
  <1>9. /\ \A k \in Emails : k # check[c].email => signIn'[k] = signIn[k]
        /\ \/ signIn'[check[c].email] = s
           \/ /\ signIn'[check[c].email] = None /\ pending'[s] = 0
              /\ window'[s] = None \/ failures'[window'[s]] = 0 \/ Expired(window[s])'
    BY <1>1, <1>2, <1>7, <1>8 DEF LimiterTypeOK
  <1> QED  BY <1>3, <1>4, <1>5, <1>6, <1>9

LEMMA SettleKeeps ==
    ASSUME LimiterInv, NEW c \in Checks, NEW outcome, Settle(c, outcome)
    PROVE  LimiterInv'
  <1> DEFINE s == check[c].state
             w == check[c].window
             m == check[c].email
  <1>1. /\ LimiterTypeOK /\ WindowLimitHolds /\ CapacityIsOwned /\ NamesAreOwned /\ LiveWindowsCount
        /\ UnusedIsClean
    BY DEF LimiterInv, LimitsHold
  <1>2. /\ check[c].stage = "running" /\ Reserved(c)
        /\ s \in Checks /\ w \in Checks /\ m \in Emails
        /\ signIn[m] = s /\ pending[s] > 0
        /\ check'[c].stage = "settled"
        /\ check'[c].state = s /\ check'[c].window = w /\ check'[c].email = m
        /\ \A x \in Checks \ {c} : check'[x] = check[x]
        /\ now' = now /\ expiresAt' = expiresAt /\ registration' = registration
    BY SettleFacts
  <1>3. /\ pending'[s] = pending[s] - 1
        /\ \A x \in Checks : x # s => pending'[x] = pending[x] /\ window'[x] = window[x]
        /\ window'[s] = IF window[s] = w /\ ~Expired(w) /\ outcome = "accepted"
                        THEN None ELSE window[s]
        /\ failures'[w] = IF window[s] = w /\ ~Expired(w) /\ outcome = "rejected"
                          THEN failures[w] + 1 ELSE failures[w]
        /\ rejected'[w] = IF outcome = "rejected" THEN rejected[w] + 1 ELSE rejected[w]
        /\ \A x \in Checks : x # w => failures'[x] = failures[x] /\ rejected'[x] = rejected[x]
        /\ \A k \in Emails : k # m => signIn'[k] = signIn[k]
        /\ \/ signIn'[m] = s
           \/ signIn'[m] = None /\ pending'[s] = 0
    BY SettleMaps
  <1>4. /\ \A x \in Checks : Cardinality(OfState(x)') =
              IF x = s THEN Cardinality(OfState(x)) - 1 ELSE Cardinality(OfState(x))
        /\ \A x \in Checks : Cardinality(OfWindow(x)') =
              IF x = w THEN Cardinality(OfWindow(x)) - 1 ELSE Cardinality(OfWindow(x))
    BY <1>2, SettleCounts
  <1>5. /\ \A x \in Checks : pending[x] \in Nat /\ failures[x] \in Nat /\ rejected[x] \in Nat
        /\ \A x \in Checks : pending[x] <= SignInAttempts /\ failures[x] <= SignInAttempts
        /\ SignInAttempts \in Nat
        /\ \A x \in Checks : Cardinality(OfState(x)) \in Nat /\ Cardinality(OfWindow(x)) \in Nat
    BY <1>1, CountsAreNat, LimitsAssumption DEF LimiterTypeOK
  <1>6. Reserved(w) /\ check[w].state = s /\ check[s].state = s /\ Reserved(s)
    BY <1>1, <1>2 DEF NamesAreOwned
  <1>7. \A x \in Checks : (Reserved(x)' <=> Reserved(x))
    BY <1>2 DEF Reserved
  <1>8. \A x \in Checks : /\ check'[x].state = check[x].state
                          /\ check'[x].window = check[x].window
                          /\ check'[x].email = check[x].email
    BY <1>2
  <1>9. ASSUME NEW x \in Checks, ~Expired(window'[x])
        PROVE  window'[x] = window[x] /\ ~Expired(window[x])
    <2>1. window'[x] # None
      BY <1>9 DEF Expired
    <2> QED  BY <1>3, <1>9, <2>1
  <1>10. \A x : Expired(x)' <=> Expired(x)
    BY <1>2 DEF Expired
  <1> HIDE DEF s, w, m
  <1>11. WindowLimitHolds'
    <2>1. \A x \in Checks : rejected'[x] + Cardinality(OfWindow(x)') <= SignInAttempts
      <3> TAKE x \in Checks
      <3>1. rejected[x] + Cardinality(OfWindow(x)) <= SignInAttempts
        BY <1>1 DEF WindowLimitHolds, OfWindow
      <3>2. CASE x = w
        BY <1>3, <1>4, <1>5, <3>1, <3>2
      <3>3. CASE x # w
        BY <1>3, <1>4, <1>5, <3>1, <3>3
      <3> QED  BY <3>2, <3>3
    <2> QED  BY <2>1 DEF WindowLimitHolds, OfWindow
  <1>12. CapacityIsOwned'
    <2>1. \A x \in Checks : pending'[x] = Cardinality(OfState(x)')
      <3>1. \A x \in Checks : pending[x] = Cardinality(OfState(x))
        BY <1>1 DEF CapacityIsOwned, OfState
      <3> QED  BY <1>3, <1>4, <3>1
    <2>2. \A x \in Running(Checks)' : signIn'[check'[x].email] = check'[x].state
      <3> TAKE x \in Running(Checks)'
      <3>1. x \in Checks /\ x # c /\ check'[x] = check[x] /\ x \in Running(Checks)
        BY <1>2 DEF Running
      <3>2. /\ signIn[check[x].email] = check[x].state
            /\ check[x].email \in Emails /\ check[x].state \in Checks
        BY <1>1, <3>1 DEF CapacityIsOwned, LimiterTypeOK, NoReservation, Running
      <3>3. CASE check[x].email # m
        BY <1>3, <3>1, <3>2, <3>3
      <3>4. CASE check[x].email = m
        <4>1. check[x].state = s
          BY <1>2, <3>2, <3>4
        <4>2. PICK y \in Checks : y = s
          BY <1>2
        <4>3. x \in OfState(y)'
          BY <3>1, <4>1, <4>2 DEF OfState, Running
        <4>4. Cardinality(OfState(y)') # 0
          <5>1. OfState(y)' \in SUBSET Checks
            BY DEF OfState, Running
          <5>2. IsFiniteSet(OfState(y)')
            BY <5>1, PartsAreFinite, LimitsAssumption
          <5> QED  BY <4>3, <5>2, FS_EmptySet
        <4>5. pending'[s] # 0
          BY <2>1, <4>2, <4>4
        <4> QED  BY <1>3, <3>1, <3>4, <4>1, <4>5
      <3> QED  BY <3>3, <3>4
    <2> QED  BY <2>1, <2>2 DEF CapacityIsOwned, OfState
  <1>13. NamesAreOwned'
    <2>1. \A k \in Emails : signIn'[k] # None => signIn'[k] = signIn[k]
      BY <1>2, <1>3
    <2>2. \A x \in Checks : window'[x] # None => window'[x] = window[x]
      BY <1>3
    <2>3. ASSUME NEW x \in Checks, Reserved(x)
          PROVE  OwnsNames(x, check')
      <3>1. OwnsNames(x, check)
        BY <1>1, <2>3 DEF NamesAreOwned, OwnsNames, Reserved
      <3>2. check[x].state \in Checks /\ check[x].window \in Checks
        BY <1>1, <2>3 DEF LimiterTypeOK, NoReservation, Reserved
      <3> QED  BY <1>7, <1>8, <3>1, <3>2 DEF OwnsNames, Reserved
    <2>4. ASSUME NEW k \in Emails, signIn'[k] # None
          PROVE  IsStateOf(signIn'[k], k, check')
      <3>1. IsStateOf(signIn[k], k, check) /\ signIn[k] \in Checks
        BY <1>1, <2>1, <2>4 DEF NamesAreOwned, IsStateOf, Reserved, LimiterTypeOK
      <3> QED  BY <1>7, <1>8, <2>1, <2>4, <3>1 DEF IsStateOf, Reserved
    <2>5. ASSUME NEW x \in Checks, window'[x] # None
          PROVE  IsWindowOf(window'[x], x, check')
      <3>1. IsWindowOf(window[x], x, check) /\ window[x] \in Checks
        BY <1>1, <2>2, <2>5 DEF NamesAreOwned, IsWindowOf, Reserved, LimiterTypeOK
      <3> QED  BY <1>7, <1>8, <2>2, <2>5, <3>1 DEF IsWindowOf, Reserved
    <2> QED  BY <1>7, <2>3, <2>4, <2>5
             DEF NamesAreOwned, OwnsNames, IsStateOf, IsWindowOf, Reserved
  <1>14. LiveWindowsCount'
    <2> SUFFICES ASSUME NEW x \in Checks, ~Expired(window[x])'
                 PROVE  /\ failures'[window'[x]] = rejected'[window'[x]]
                        /\ failures'[window'[x]] + pending'[x] <= SignInAttempts
      BY DEF LiveWindowsCount
    <2>1. window'[x] = window[x] /\ ~Expired(window[x]) /\ window[x] \in Checks
      <3>1. ~Expired(window'[x])
        BY <1>2 DEF Expired
      <3>2. window'[x] = window[x] /\ ~Expired(window[x])
        BY <1>9, <3>1
      <3> QED  BY <1>1, <3>2 DEF LimiterTypeOK, Expired
    <2>2. /\ failures[window[x]] = rejected[window[x]]
          /\ failures[window[x]] + pending[x] <= SignInAttempts
      BY <1>1, <2>1 DEF LiveWindowsCount
    <2>3. window[x] = w => x = s
      <3>1. check[window[x]].state = x
        BY <1>1, <2>1 DEF NamesAreOwned, Expired
      <3> QED  BY <1>6, <3>1
    <2>4. CASE window[x] = w
      <3>1. x = s /\ window'[s] = w /\ ~Expired(w)
        BY <2>1, <2>3, <2>4
      <3>2. failures'[w] = rejected'[w]
        BY <1>3, <2>2, <2>4, <3>1
      <3>3. failures'[w] + pending'[s] <= SignInAttempts
        BY <1>2, <1>3, <1>5, <2>2, <2>4, <3>1
      <3> QED  BY <3>1, <3>2, <3>3
    <2>5. CASE window[x] # w
      <3>1. failures'[window[x]] = failures[window[x]] /\ rejected'[window[x]] = rejected[window[x]]
        BY <1>3, <2>1, <2>5
      <3>2. pending'[x] <= pending[x] /\ pending'[x] \in Int
        BY <1>2, <1>3, <1>5
      <3>3. failures[window[x]] \in Nat
        BY <1>5, <2>1
      <3> QED  BY <1>5, <2>1, <2>2, <3>1, <3>2, <3>3
    <2> QED  BY <2>4, <2>5
  <1>15. UnusedIsClean'
    BY <1>1, <1>3, <1>6, <1>7 DEF UnusedIsClean
  <1>16. LimiterTypeOK'
    <2>1. rejected[w] < SignInAttempts
      <3>1. rejected[w] + Cardinality(OfWindow(w)) <= SignInAttempts
        BY <1>1, <1>2 DEF WindowLimitHolds, OfWindow
      <3>2. Cardinality(OfWindow(w)) # 0
        <4>1. c \in OfWindow(w)
          BY <1>2 DEF OfWindow, Running, w
        <4> QED  BY <4>1, CountsAreNat, FS_EmptySet
      <3> QED  BY <1>2, <1>5, <3>1, <3>2
    <2>2. failures'[w] \in 0..SignInAttempts
      <3>1. CASE window[s] = w /\ ~Expired(w)
        <4>1. failures[w] = rejected[w]
          BY <1>1, <1>2, <3>1 DEF LiveWindowsCount
        <4> QED  BY <1>2, <1>3, <1>5, <2>1, <4>1
      <3>2. CASE ~(window[s] = w /\ ~Expired(w))
        BY <1>2, <1>3, <1>5, <3>2
      <3> QED  BY <3>1, <3>2
    <2>3. failures' \in [Checks -> 0..SignInAttempts]
      <3>1. failures' = [failures EXCEPT ![w] = failures'[w]]
        BY <1>1, <1>2 DEF Settle, LimiterTypeOK, w
      <3> QED  BY <1>1, <2>2, <3>1 DEF LimiterTypeOK
    <2>4. pending' \in [Checks -> 0..SignInAttempts]
      <3>1. pending' = [pending EXCEPT ![s] = pending[s] - 1]
        BY DEF Settle, s
      <3>2. pending[s] - 1 \in 0..SignInAttempts
        BY <1>2, <1>5
      <3> QED  BY <1>1, <3>1, <3>2 DEF LimiterTypeOK
    <2>5. window' \in [Checks -> Checks \cup {None}]
      <3>1. window' = [window EXCEPT ![s] = window'[s]]
        BY <1>1, <1>2 DEF Settle, LimiterTypeOK, s
      <3>2. window'[s] \in Checks \cup {None}
        BY <1>1, <1>2, <1>3 DEF LimiterTypeOK
      <3> QED  BY <1>1, <3>1, <3>2 DEF LimiterTypeOK
    <2>6. rejected' \in [Checks -> Nat]
      BY <1>1, <1>2 DEF Settle, LimiterTypeOK
    <2>7. signIn' \in [Emails -> Checks \cup {None}]
      BY <1>1 DEF Settle, LimiterTypeOK
    <2>8. Cardinality(Keys(signIn')) <= MaxKeys
      <3>1. \A k \in Emails : signIn'[k] # None => signIn[k] # None
        BY <1>2, <1>3, LimitsAssumption
      <3> QED  BY <1>1, <3>1, FewerKeys DEF LimiterTypeOK
    <2>9. Keys(signIn)' = Keys(signIn') /\ Keys(registration)' = Keys(registration)
      BY <1>2 DEF Keys
    <2> QED  BY <1>1, <1>2, <2>3, <2>4, <2>5, <2>6, <2>7, <2>8, <2>9, SettleFacts DEF LimiterTypeOK
  <1> QED  BY <1>11, <1>12, <1>13, <1>14, <1>15, <1>16 DEF LimiterInv, LimitsHold

-----------------------------------------------------------------------------
(* Registration. *)

\* The window a registration is counted in.
RegistrationWindowOf(e) ==
    IF RegistrationLive(e) THEN registration[e]
    ELSE [attempts |-> 0, expiresAt |-> now + RegistrationWindow]

LEMMA AdmitCounts ==
    ASSUME LimiterTypeOK, NEW e \in Emails, AdmitRegistration(e)
    PROVE  /\ RegistrationWindowOf(e) \in RegistrationState
           /\ \/ registration' = SweptRegistrations(e)
              \/ /\ \/ SweptRegistrations(e)[e] # None
                    \/ Cardinality(Keys(SweptRegistrations(e))) < MaxKeys
                 /\ registration' = [SweptRegistrations(e) EXCEPT ![e] =
                        [attempts |-> RegistrationWindowOf(e).attempts + 1,
                         expiresAt |-> RegistrationWindowOf(e).expiresAt]]
  <1>1. RegistrationWindowOf(e) \in RegistrationState
    <2>1. now + RegistrationWindow \in Nat
      BY LimitsAssumption DEF LimiterTypeOK
    <2>2. registration[e] \in RegistrationState \cup {None}
      BY DEF LimiterTypeOK
    <2> QED  BY <2>1, <2>2 DEF RegistrationWindowOf, RegistrationLive, RegistrationState
  <1>2. [RegistrationWindowOf(e) EXCEPT !.attempts = @ + 1] =
            [attempts |-> RegistrationWindowOf(e).attempts + 1,
             expiresAt |-> RegistrationWindowOf(e).expiresAt]
    BY <1>1 DEF RegistrationState
  <1>3. Cardinality(Keys(SweptRegistrations(e))) \in Nat /\ MaxKeys \in Nat
    <2>1. Keys(SweptRegistrations(e)) \in SUBSET Emails
      BY DEF Keys
    <2> QED  BY <2>1, PartsAreFinite, LimitsAssumption
  <1>4. registration' =
          IF \/ /\ SweptRegistrations(e)[e] = None
                /\ Cardinality(Keys(SweptRegistrations(e))) >= MaxKeys
             \/ RegistrationWindowOf(e).attempts >= RegistrationAttempts
          THEN SweptRegistrations(e)
          ELSE [SweptRegistrations(e) EXCEPT ![e] =
                   [RegistrationWindowOf(e) EXCEPT !.attempts = @ + 1]]
    BY DEF AdmitRegistration, RegistrationWindowOf
  <1> DEFINE n == Cardinality(Keys(SweptRegistrations(e)))
  <1>5. ~(n >= MaxKeys) => n < MaxKeys
    BY <1>3
  <1> HIDE DEF n
  <1>6. CASE /\ ~(/\ SweptRegistrations(e)[e] = None
                  /\ Cardinality(Keys(SweptRegistrations(e))) >= MaxKeys)
             /\ ~(RegistrationWindowOf(e).attempts >= RegistrationAttempts)
    <2>1. registration' = [SweptRegistrations(e) EXCEPT ![e] =
             [attempts |-> RegistrationWindowOf(e).attempts + 1,
              expiresAt |-> RegistrationWindowOf(e).expiresAt]]
      BY <1>2, <1>4, <1>6
    <2> QED  BY <1>1, <1>5, <1>6, <2>1 DEF n
  <1> QED  BY <1>1, <1>4, <1>6

LEMMA AdmitTyped ==
    ASSUME LimiterTypeOK, NEW e \in Emails, AdmitRegistration(e)
    PROVE  LimiterTypeOK'
  <1> DEFINE r == [attempts |-> RegistrationWindowOf(e).attempts + 1,
                   expiresAt |-> RegistrationWindowOf(e).expiresAt]
  <1>1. r \in RegistrationState /\ r # None
    <2>1. r \in [attempts : Nat, expiresAt : Nat]
      BY AdmitCounts DEF RegistrationState
    <2> HIDE DEF r
    <2> QED  BY <2>1, LimitsAssumption DEF RegistrationState
  <1> HIDE DEF r
  <1>2. /\ SweptRegistrations(e) \in [Emails -> RegistrationState \cup {None}]
        /\ Cardinality(Keys(SweptRegistrations(e))) <= MaxKeys
    BY SweptRegistrationsTable
  <1>3. \/ registration' = SweptRegistrations(e)
        \/ /\ \/ SweptRegistrations(e)[e] # None
              \/ Cardinality(Keys(SweptRegistrations(e))) < MaxKeys
           /\ registration' = [SweptRegistrations(e) EXCEPT ![e] = r]
    BY AdmitCounts DEF r
  <1>4. registration' \in [Emails -> RegistrationState \cup {None}]
    BY <1>1, <1>2, <1>3
  <1>5. Cardinality(Keys(registration')) <= MaxKeys
    <2>1. CASE registration' = SweptRegistrations(e)
      BY <1>2, <2>1
    <2>2. CASE /\ registration' = [SweptRegistrations(e) EXCEPT ![e] = r]
               /\ SweptRegistrations(e)[e] # None
      <3>1. \A k \in Emails : registration'[k] # None => SweptRegistrations(e)[k] # None
        BY <1>2, <2>2
      <3> QED  BY <1>2, <3>1, FewerKeys
    <2>3. CASE /\ registration' = [SweptRegistrations(e) EXCEPT ![e] = r]
               /\ SweptRegistrations(e)[e] = None
               /\ Cardinality(Keys(SweptRegistrations(e))) < MaxKeys
      <3>1. /\ \A k \in Emails : k # e => registration'[k] = SweptRegistrations(e)[k]
            /\ registration'[e] = r
        BY <1>2, <2>3
      <3> QED  BY <1>1, <2>3, <3>1, OneMoreKey
    <2> QED  BY <1>3, <2>1, <2>2, <2>3
  <1>6. Keys(signIn)' = Keys(signIn) /\ Keys(registration)' = Keys(registration')
    BY DEF Keys, AdmitRegistration, signInVars
  <1> QED  BY <1>4, <1>5, <1>6 DEF LimiterTypeOK, AdmitRegistration, signInVars

-----------------------------------------------------------------------------
(* The invariant. *)

LEMMA InitHolds == LimiterInit => LimiterInv
  <1> SUFFICES ASSUME LimiterInit PROVE LimiterInv
    OBVIOUS
  <1>1. Keys(signIn) = {} /\ Keys(registration) = {}
    BY DEF LimiterInit, Keys
  <1>2. MaxKeys \in Nat /\ SignInAttempts \in Nat /\ MaxTime \in Nat
    BY LimitsAssumption
  <1>3. LimiterTypeOK
    BY <1>1, <1>2, FS_EmptySet DEF LimiterInit, LimiterTypeOK
  <1>4. \A x \in Checks : OfState(x) = {} /\ OfWindow(x) = {}
    BY DEF LimiterInit, OfState, OfWindow, Running, NoReservation
  <1>5. WindowLimitHolds
    BY <1>2, <1>4, FS_EmptySet DEF LimiterInit, WindowLimitHolds, OfWindow
  <1>6. CapacityIsOwned
    BY <1>4, FS_EmptySet DEF LimiterInit, CapacityIsOwned, OfState, Running, NoReservation
  <1>7. NamesAreOwned /\ LiveWindowsCount /\ UnusedIsClean
    BY DEF LimiterInit, NamesAreOwned, LiveWindowsCount, UnusedIsClean, Reserved, Expired, NoReservation
  <1> QED  BY <1>3, <1>5, <1>6, <1>7 DEF LimiterInv, LimitsHold

\* A step of the other table, of the clock, or of no check.
LEMMA SweepOrWait ==
    ASSUME LimiterInv, LimiterTypeOK', UNCHANGED <<pending, window, failures, expiresAt, check, rejected>>,
           now' >= now,
           \A x \in Running(Checks) : signIn'[check[x].email] = check[x].state,
           \A k \in Emails : signIn'[k] \in {signIn[k], None}
    PROVE  LimiterInv'
  <1>1. /\ LimiterTypeOK /\ WindowLimitHolds /\ CapacityIsOwned /\ NamesAreOwned /\ LiveWindowsCount
        /\ UnusedIsClean
    BY DEF LimiterInv, LimitsHold
  <1>2. WindowLimitHolds' /\ CapacityIsOwned' /\ UnusedIsClean'
    BY <1>1 DEF WindowLimitHolds, CapacityIsOwned, Running, UnusedIsClean, Reserved
  <1>3. NamesAreOwned'
    BY <1>1 DEF NamesAreOwned, Reserved
  <1>4. LiveWindowsCount'
    <2>1. \A s \in Checks : ~Expired(window[s])' => ~Expired(window[s])
      <3>1. \A s \in Checks : window[s] \in Checks \cup {None}
        BY <1>1 DEF LimiterTypeOK
      <3>2. now \in Nat /\ now' \in Nat /\ \A w \in Checks : expiresAt[w] \in Nat
        BY <1>1 DEF LimiterTypeOK
      <3> QED  BY <3>1, <3>2 DEF Expired
    <2> QED  BY <1>1, <2>1 DEF LiveWindowsCount
  <1> QED  BY <1>2, <1>3, <1>4 DEF LimiterInv, LimitsHold

LEMMA NextKeeps == LimiterInv /\ [LimiterNext]_limiterVars => LimiterInv'
  <1> SUFFICES ASSUME LimiterInv, [LimiterNext]_limiterVars PROVE LimiterInv'
    OBVIOUS
  <1>1. LimiterTypeOK /\ CapacityIsOwned
    BY DEF LimiterInv, LimitsHold
  <1>2. /\ \A x \in Running(Checks) : signIn[check[x].email] = check[x].state
        /\ now \in Nat
    BY <1>1 DEF CapacityIsOwned, LimiterTypeOK
  <1>3. ASSUME NEW c \in Checks, NEW e \in Emails, ReserveSignIn(c, e) PROVE LimiterInv'
    BY <1>3, ReserveKeeps
  <1>4. ASSUME NEW c \in Checks, NEW outcome, Settle(c, outcome) PROVE LimiterInv'
    BY <1>4, SettleKeeps
  <1>5. ASSUME NEW e \in Emails, RefuseSignIn(e) PROVE LimiterInv'
    <2>1. LimiterTypeOK'
      <3>1. Keys(signIn)' = Keys(Swept(e)) /\ Keys(registration)' = Keys(registration)
        BY <1>5 DEF Keys, RefuseSignIn
      <3> QED  BY <1>1, <1>5, <3>1, SweptTable DEF LimiterTypeOK, RefuseSignIn
    <2>2. \A k \in Emails : signIn'[k] \in {signIn[k], None}
      BY <1>1, <1>5, SweptTable DEF RefuseSignIn
    <2>3. \A x \in Running(Checks) : signIn'[check[x].email] = check[x].state
      BY <1>5, SweptKeeps DEF RefuseSignIn
    <2> QED  BY <1>2, <1>5, <2>1, <2>2, <2>3, SweepOrWait DEF RefuseSignIn
  <1>6. ASSUME NEW e \in Emails, AdmitRegistration(e) PROVE LimiterInv'
    <2>1. LimiterTypeOK'
      BY <1>1, <1>6, AdmitTyped
    <2> QED  BY <1>2, <1>6, <2>1, SweepOrWait DEF AdmitRegistration, signInVars
  <1>7. CASE LimiterTick
    <2>1. LimiterTypeOK'
      <3>1. Keys(signIn)' = Keys(signIn) /\ Keys(registration)' = Keys(registration)
        BY <1>7 DEF Keys, LimiterTick, signInVars
      <3>2. now' \in 0..MaxTime
        BY <1>1, <1>7, LimitsAssumption DEF LimiterTypeOK, LimiterTick
      <3> QED  BY <1>1, <1>7, <3>1, <3>2 DEF LimiterTypeOK, LimiterTick, signInVars
    <2> QED  BY <1>2, <1>7, <2>1, SweepOrWait DEF LimiterTick, signInVars
  <1>8. CASE UNCHANGED limiterVars
    <2>1. LimiterTypeOK'
      <3>1. Keys(signIn)' = Keys(signIn) /\ Keys(registration)' = Keys(registration)
        BY <1>8 DEF Keys, limiterVars
      <3> QED  BY <1>1, <1>8, <3>1 DEF LimiterTypeOK, limiterVars
    <2> QED  BY <1>2, <1>8, <2>1, SweepOrWait DEF limiterVars
  <1> QED  BY <1>3, <1>4, <1>5, <1>6, <1>7, <1>8 DEF LimiterNext

\* Whatever checks run at once and whenever they settle, no window has more
\* rejections than the limit, no table is larger than its bound, and the
\* capacity in use is that of the checks in flight.
THEOREM LimitsAreKept == LimiterSpec => []LimitsHold
  <1>1. LimiterInv => LimitsHold
    BY DEF LimiterInv
  <1> QED  BY <1>1, InitHolds, NextKeeps, PTL DEF LimiterSpec

-----------------------------------------------------------------------------
(* Budgets. *)

\* BudgetsAreKept, of one email and of one state.
RegistrationKept(e) ==
    RegistrationLive(e) =>
        /\ registration'[e] # None
        /\ registration'[e].expiresAt = registration[e].expiresAt
        /\ registration'[e].attempts >= registration[e].attempts

FailuresKept(e, s) ==
    (/\ signIn[e] = s /\ ~Expired(window[s])
     /\ failures[window[s]] > 0) =>
        \/ /\ signIn'[e] = s /\ window'[s] = window[s]
           /\ failures'[window[s]] >= failures[window[s]]
        \/ \E c \in Running(Checks) :
              /\ check[c].window = window[s]
              /\ check'[c].stage = "settled"
              /\ rejected' = rejected

LEMMA RegistrationsAreKept ==
    ASSUME LimiterTypeOK, NEW e \in Emails, NEW k \in Emails, AdmitRegistration(k)
    PROVE  RegistrationKept(e)
  <1> SUFFICES ASSUME RegistrationLive(e)
               PROVE  /\ registration'[e] # None
                      /\ registration'[e].expiresAt = registration[e].expiresAt
                      /\ registration'[e].attempts >= registration[e].attempts
    BY DEF RegistrationKept
  <1>1. registration[e] \in RegistrationState /\ registration[e] # None
    BY DEF LimiterTypeOK, RegistrationLive
  <1>2. registration[e].attempts \in Nat
    BY <1>1 DEF RegistrationState
  <1>3. /\ SweptRegistrations(k) \in [Emails -> RegistrationState \cup {None}]
        /\ SweptRegistrations(k)[e] = registration[e]
    BY SweptRegistrationsTable
  <1>4. CASE registration' = SweptRegistrations(k) \/ e # k
    <2>1. registration'[e] = registration[e]
      BY <1>3, <1>4, AdmitCounts
    <2> QED  BY <1>1, <1>2, <2>1
  <1>5. CASE registration' # SweptRegistrations(k) /\ e = k
    <2>1. /\ RegistrationWindowOf(k) = registration[e]
          /\ registration' = [SweptRegistrations(k) EXCEPT ![k] =
                 [attempts |-> RegistrationWindowOf(k).attempts + 1,
                  expiresAt |-> RegistrationWindowOf(k).expiresAt]]
      BY <1>5, AdmitCounts DEF RegistrationWindowOf
    <2>2. registration'[e] = [attempts |-> registration[e].attempts + 1,
                              expiresAt |-> registration[e].expiresAt]
      BY <1>3, <1>5, <2>1
    <2>3. registration'[e] # None
      <3>1. [attempts |-> registration[e].attempts + 1,
             expiresAt |-> registration[e].expiresAt] \in [attempts : Nat, expiresAt : Nat]
        BY <1>1 DEF RegistrationState
      <3> QED  BY <2>2, <3>1, LimitsAssumption
    <2> QED  BY <1>2, <2>2, <2>3
  <1> QED  BY <1>4, <1>5

LEMMA ReserveKeepsFailures ==
    ASSUME LimiterInv, NEW e \in Emails, NEW s \in Checks,
           NEW c \in Checks, NEW k \in Emails, ReserveSignIn(c, k)
    PROVE  FailuresKept(e, s)
  <1> SUFFICES ASSUME signIn[e] = s, ~Expired(window[s])
               PROVE  /\ signIn'[e] = s /\ window'[s] = window[s]
                      /\ failures'[window[s]] >= failures[window[s]]
    BY DEF FailuresKept
  <1>1. PICK t \in Checks, w \in Checks : ReservedIn(c, k, t, w)
    BY ReserveChooses
  <1>2. LimiterTypeOK /\ NamesAreOwned
    BY DEF LimiterInv, LimitsHold
  <1>3. s # None /\ window[s] \in Checks /\ failures[window[s]] \in Nat
    BY <1>2, LimitsAssumption DEF LimiterTypeOK, Expired
  <1>4. Swept(k)[e] = s
    BY <1>3, SweptKeeps
  <1>5. e = k => t = s
    BY <1>1, <1>3 DEF ReservedIn
  <1>6. signIn' = [Swept(k) EXCEPT ![k] = t] /\ Swept(k) \in [Emails -> Checks \cup {None}]
    BY <1>1, <1>2, SweptTable DEF ReservedIn
  <1>7. signIn'[e] = s
    BY <1>4, <1>5, <1>6
  <1>8. window'[s] = window[s]
    <2>1. window' = [window EXCEPT ![t] = w] /\ (w = IF Expired(window[t]) THEN c ELSE window[t])
      BY <1>1 DEF ReservedIn
    <2> QED  BY <1>2, <2>1 DEF LimiterTypeOK
  <1>9. failures' = failures
    BY <1>1 DEF ReservedIn
  <1> QED  BY <1>3, <1>7, <1>8, <1>9

LEMMA SettleKeepsFailures ==
    ASSUME LimiterInv, NEW e \in Emails, NEW s \in Checks,
           NEW c \in Checks, NEW outcome, Settle(c, outcome)
    PROVE  FailuresKept(e, s)
  <1> SUFFICES ASSUME signIn[e] = s, ~Expired(window[s]), failures[window[s]] > 0,
                      ~ \E d \in Running(Checks) :
                            /\ check[d].window = window[s]
                            /\ check'[d].stage = "settled"
                            /\ rejected' = rejected
               PROVE  /\ signIn'[e] = s /\ window'[s] = window[s]
                      /\ failures'[window[s]] >= failures[window[s]]
    BY DEF FailuresKept
  <1>1. LimiterTypeOK
    BY DEF LimiterInv, LimitsHold
  <1>2. PICK t \in Checks, w \in Checks, m \in Emails :
           t = check[c].state /\ w = check[c].window /\ m = check[c].email
    BY SettleFacts
  <1>3. /\ check[c].stage = "running" /\ signIn[m] = t /\ check'[c].stage = "settled"
        /\ now' = now /\ expiresAt' = expiresAt
    BY <1>2, SettleFacts
  <1>4. /\ \A x \in Checks : x # t => window'[x] = window[x]
        /\ window'[t] = IF window[t] = w /\ ~Expired(w) /\ outcome = "accepted"
                        THEN None ELSE window[t]
        /\ failures'[w] = IF window[t] = w /\ ~Expired(w) /\ outcome = "rejected"
                          THEN failures[w] + 1 ELSE failures[w]
        /\ \A x \in Checks : x # w => failures'[x] = failures[x]
        /\ \A k \in Emails : k # m => signIn'[k] = signIn[k]
        /\ \/ signIn'[m] = t
           \/ /\ signIn'[m] = None
              /\ window'[t] = None \/ failures'[window'[t]] = 0 \/ Expired(window[t])'
    BY <1>2, SettleMaps
  <1>5. outcome = "accepted" => rejected' = rejected
    BY DEF Settle
  <1>6. s = t /\ window[t] = w => outcome # "accepted"
    <2>1. c \in Running(Checks)
      BY <1>3 DEF Running
    <2> QED  BY <1>2, <1>3, <1>5, <2>1
  <1>7. window'[s] = window[s]
    BY <1>4, <1>6
  <1>8. window[s] \in Checks /\ window[s] # None /\ failures[window[s]] \in Nat
    BY <1>1, LimitsAssumption DEF LimiterTypeOK, Expired
  <1>9. failures'[window[s]] >= failures[window[s]]
    BY <1>4, <1>8
  <1>10. signIn'[e] = s
    <2>1. CASE e # m
      BY <1>4, <2>1
    <2>2. CASE e = m
      <3>1. s = t
        BY <1>3, <2>2
      <3>2. ~Expired(window[t])'
        BY <1>3, <1>7, <3>1 DEF Expired
      <3>3. failures'[window'[t]] # 0
        BY <1>7, <1>8, <1>9, <3>1
      <3> QED  BY <1>4, <1>7, <1>8, <2>2, <3>1, <3>2, <3>3
    <2> QED  BY <2>1, <2>2
  <1> QED  BY <1>7, <1>9, <1>10

\* A live budget is neither refunded nor evicted, and the failures of an email
\* are forgotten before their window ends only by an accepted check of it.
THEOREM NoRefunds == LimiterSpec => BudgetsAreKept
  <1>1. ASSUME LimiterInv, LimiterNext, NEW e \in Emails
        PROVE  RegistrationKept(e) /\ \A s \in Checks : FailuresKept(e, s)
    <2>1. LimiterTypeOK
      BY <1>1 DEF LimiterInv, LimitsHold
    <2>2. ASSUME registration' = registration
          PROVE  RegistrationKept(e)
      <3>1. RegistrationLive(e) => registration[e] # None /\ registration[e].attempts \in Nat
        BY <2>1 DEF LimiterTypeOK, RegistrationLive, RegistrationState
      <3> QED  BY <2>2, <3>1 DEF RegistrationKept
    <2>3. ASSUME \A k \in Emails : signIn[k] # None /\ ~Expired(window[signIn[k]])
                                      => signIn'[k] = signIn[k],
                 window' = window, failures' = failures
          PROVE  \A s \in Checks : FailuresKept(e, s)
      <3> TAKE s \in Checks
      <3>1. ~Expired(window[s]) => failures[window[s]] \in Nat
        BY <2>1 DEF LimiterTypeOK, Expired
      <3> QED  BY <2>3, <3>1, LimitsAssumption DEF FailuresKept
    <2>4. ASSUME NEW c \in Checks, NEW k \in Emails, ReserveSignIn(c, k)
          PROVE  RegistrationKept(e) /\ \A s \in Checks : FailuresKept(e, s)
      BY <1>1, <2>2, <2>4, ReserveKeepsFailures DEF ReserveSignIn
    <2>5. ASSUME NEW c \in Checks, NEW outcome, Settle(c, outcome)
          PROVE  RegistrationKept(e) /\ \A s \in Checks : FailuresKept(e, s)
      BY <1>1, <2>2, <2>5, SettleKeepsFailures DEF Settle
    <2>6. ASSUME NEW k \in Emails, RefuseSignIn(k)
          PROVE  RegistrationKept(e) /\ \A s \in Checks : FailuresKept(e, s)
      BY <1>1, <2>2, <2>3, <2>6, SweptKeeps DEF RefuseSignIn
    <2>7. ASSUME NEW k \in Emails, AdmitRegistration(k)
          PROVE  RegistrationKept(e) /\ \A s \in Checks : FailuresKept(e, s)
      BY <2>1, <2>3, <2>7, RegistrationsAreKept DEF AdmitRegistration, signInVars
    <2>8. CASE LimiterTick
      BY <2>2, <2>3, <2>8 DEF LimiterTick, signInVars
    <2> QED  BY <1>1, <2>4, <2>5, <2>6, <2>7, <2>8 DEF LimiterNext
  <1>2. ASSUME LimiterInv, [LimiterNext]_limiterVars
        PROVE  [\A e \in Emails :
                   /\ RegistrationLive(e) =>
                         /\ registration'[e] # None
                         /\ registration'[e].expiresAt = registration[e].expiresAt
                         /\ registration'[e].attempts >= registration[e].attempts
                   /\ \A s \in Checks :
                         (/\ signIn[e] = s /\ ~Expired(window[s])
                          /\ failures[window[s]] > 0) =>
                            \/ /\ signIn'[e] = s /\ window'[s] = window[s]
                               /\ failures'[window[s]] >= failures[window[s]]
                            \/ \E c \in Running(Checks) :
                                  /\ check[c].window = window[s]
                                  /\ check'[c].stage = "settled"
                                  /\ rejected' = rejected]_limiterVars
    BY <1>1, <1>2 DEF RegistrationKept, FailuresKept
  <1> QED  BY <1>2, InitHolds, NextKeeps, PTL DEF LimiterSpec, BudgetsAreKept

-----------------------------------------------------------------------------
(* The S3 adapter, which carries out what the coordinator asks of storage: *)
(* any number of calls and bodies for one key.                             *)

\* What an answered call is entitled to say; SuccessVouches says it of each.
Vouched(c) ==
    /\ call[c].op = "get" /\ Ok(c) => call[c].answer.body \in written
    /\ call[c].op = "verify" /\ Ok(c) =>
          call[c].answer.body \in written /\ call[c].answer.body = call[c].body
    /\ call[c].op = "write" /\ Ok(c) => call[c].body \in written /\ ~call[c].taken
    /\ call[c].answer.code = "already_exists" =>
          call[c].op = "write" /\ (object # Nothing \/ puts # {})

AdapterParts ==
    /\ AdapterTypeOK /\ PutsAreAwaitedOnce /\ WritersHaveBodies
    /\ DigestsAreWritten /\ TakenStaysTaken
    /\ \A c \in Clients : call[c].pc = "answered" => Vouched(c)

LEMMA AdapterInvariant == AdapterInv <=> AdapterParts
  <1>1. \A c \in Clients : AdapterTypeOK => call[c].op \in {"get", "head", "verify", "write"}
    BY DEF AdapterTypeOK, CallRecord, Operation
  <1>2. AdapterInv => AdapterParts
    BY <1>1 DEF AdapterInv, AdapterParts, SuccessVouches, Vouched, Answered
  <1>3. AdapterParts => AdapterInv
    BY <1>1 DEF AdapterInv, AdapterParts, SuccessVouches, Vouched, Answered
  <1> QED  BY <1>2, <1>3

LEMMA AdapterStarts ==
    ASSUME AdapterInit
    PROVE  AdapterParts
  <1>1. object = Nothing /\ puts = {} /\ written = {} /\ call = [c \in Clients |-> Idle]
    BY DEF AdapterInit
  <1>2. Idle \in CallRecord /\ Idle.pc = "idle" /\ ~Idle.taken
    BY DEF Idle, CallRecord, Operation
  <1>3. \A c \in Clients : call[c].pc = "idle" /\ ~call[c].taken
    BY <1>1, <1>2
  <1> QED  BY <1>1, <1>2, <1>3 DEF AdapterParts, AdapterTypeOK, PutsAreAwaitedOnce,
              WritersHaveBodies, DigestsAreWritten, TakenStaysTaken

\* What a call relies on is not taken away: an object stays, if not the same, what
\* has been stored has been, and a put under way is served before the key could be
\* found empty again.
StorageStays ==
    /\ object' \in StoredObject \cup {Nothing} /\ (object # Nothing => object' # Nothing)
    /\ written \subseteq written' /\ written' \subseteq Bodies
    /\ object' # Nothing => object'.sha256 \in written' \cup {Nothing}
    /\ puts # {} => puts' # {} \/ object' # Nothing

LEMMA VouchedStays ==
    ASSUME StorageStays, NEW c \in Clients, call'[c] = call[c], Vouched(c)
    PROVE  Vouched(c)'
  BY DEF StorageStays, Vouched, Ok

\* One call moves on to record r; the puts stay sound if it awaits none.
LEMMA CallMoves ==
    ASSUME AdapterParts, StorageStays, NEW c \in Clients, NEW r \in CallRecord,
           call' = [call EXCEPT ![c] = r],
           puts' \subseteq [caller : Clients, body : Bodies, awaited : BOOLEAN],
           PutsAreAwaitedOnce',
           r.pc \in {"put", "waiting"} => r.op = "write",
           r.pc # "idle" /\ r.op \in {"verify", "write"} => r.body \in Bodies,
           r.pc = "answered" => Vouched(c)',
           r.taken => object # Nothing /\ r.pc \notin {"put", "waiting"}
    PROVE  AdapterParts'
  <1>1. /\ call \in [Clients -> CallRecord] /\ call'[c] = r
        /\ \A d \in Clients : d # c => call'[d] = call[d]
        /\ call' \in [Clients -> CallRecord]
    BY DEF AdapterParts, AdapterTypeOK
  <1>2. AdapterTypeOK'
    BY <1>1 DEF AdapterTypeOK, StorageStays
  <1>3. WritersHaveBodies'
    BY <1>1 DEF AdapterParts, WritersHaveBodies
  <1>4. ASSUME NEW d \in Clients, call'[d].pc = "answered"
        PROVE  Vouched(d)'
    <2>1. CASE d = c
      BY <1>1, <1>4, <2>1
    <2>2. CASE d # c
      <3>1. call'[d] = call[d] /\ Vouched(d)
        BY <1>1, <1>4, <2>2 DEF AdapterParts
      <3> QED  BY <3>1, VouchedStays
    <2> QED  BY <2>1, <2>2
  <1>5. DigestsAreWritten' /\ TakenStaysTaken'
    BY <1>1 DEF AdapterParts, StorageStays, DigestsAreWritten, TakenStaysTaken
  <1> QED  BY <1>2, <1>3, <1>4, <1>5 DEF AdapterParts

LEMMA OthersAwaited ==
    ASSUME AdapterParts, NEW c \in Clients, \A d \in Clients : d # c => call'[d] = call[d],
           \A p \in puts' : p.awaited => p \in puts /\ p.caller # c
    PROVE  PutsAreAwaitedOnce'
  BY DEF AdapterParts, AdapterTypeOK, PutsAreAwaitedOnce

\* The answer of a call, at a time when none of its puts is awaited any more.
LEMMA AnswerKeeps ==
    ASSUME AdapterParts, StorageStays, NEW c \in Clients, call[c].pc # "idle",
           NEW answer \in [code : Code \cup {"ok"}, body : Bodies \cup {Cut, Nothing}],
           Answer(c, answer),
           puts' \subseteq [caller : Clients, body : Bodies, awaited : BOOLEAN],
           \A p \in puts' : p.awaited => p \in puts /\ p.caller # c,
           call[c].op = "get" /\ answer.code = "ok" => answer.body \in written',
           call[c].op = "verify" /\ answer.code = "ok" =>
              answer.body \in written' /\ answer.body = call[c].body,
           call[c].op = "write" /\ answer.code = "ok" =>
              call[c].body \in written' /\ ~call[c].taken,
           answer.code = "already_exists" =>
              call[c].op = "write" /\ (object' # Nothing \/ puts' # {})
    PROVE  AdapterParts'
  <1>1. call \in [Clients -> CallRecord] /\ call[c] \in CallRecord
    BY DEF AdapterParts, AdapterTypeOK
  <1> DEFINE r == [call[c] EXCEPT !.pc = "answered", !.answer = answer]
  <1>2. /\ r \in CallRecord /\ r.pc = "answered" /\ r.answer = answer
        /\ r.op = call[c].op /\ r.body = call[c].body /\ r.taken = call[c].taken
    BY <1>1 DEF CallRecord
  <1>3. call' = [call EXCEPT ![c] = r]
    BY <1>1 DEF Answer
  <1> HIDE DEF r
  <1>4. call'[c] = r /\ \A d \in Clients : d # c => call'[d] = call[d]
    BY <1>1, <1>3
  <1>5. PutsAreAwaitedOnce'
    BY <1>4, OthersAwaited
  <1>6. Vouched(c)'
    BY <1>2, <1>4 DEF Vouched, Ok
  <1>7. r.op \in {"verify", "write"} => r.body \in Bodies
    BY <1>2 DEF AdapterParts, WritersHaveBodies
  <1>8. r.taken => object # Nothing /\ r.pc \notin {"put", "waiting"}
    BY <1>2 DEF AdapterParts, TakenStaysTaken
  <1> QED  BY <1>2, <1>3, <1>5, <1>6, <1>7, <1>8, CallMoves

LEMMA AdapterRests ==
    ASSUME AdapterParts, UNCHANGED <<object, puts, written>>
    PROVE  /\ StorageStays
           /\ puts' \subseteq [caller : Clients, body : Bodies, awaited : BOOLEAN]
           /\ \A c \in Clients : call[c].pc # "waiting" =>
                 \A p \in puts' : p.awaited => p \in puts /\ p.caller # c
  BY DEF AdapterParts, AdapterTypeOK, StorageStays, PutsAreAwaitedOnce, DigestsAreWritten

LEMMA Failed ==
    ASSUME AdapterParts, NEW c \in Clients, call[c].pc = "asserted", NEW code \in Code,
           Fails(c, code), UNCHANGED <<object, puts, written>>,
           code = "already_exists" => call[c].op = "write" /\ object # Nothing
    PROVE  AdapterParts'
  <1> DEFINE answer == [code |-> code, body |-> Nothing]
  <1>1. /\ answer \in [code : Code \cup {"ok"}, body : Bodies \cup {Cut, Nothing}]
        /\ answer.code = code /\ code # "ok"
    BY DEF Code
  <1>2. Answer(c, answer)
    BY DEF Fails
  <1> HIDE DEF answer
  <1> QED  BY <1>1, <1>2, AdapterRests, AnswerKeeps

LEMMA CallKeeps ==
    ASSUME AdapterParts, NEW c \in Clients, Invoke(c) \/ Release(c)
    PROVE  AdapterParts'
  <1>1. UNCHANGED <<object, puts, written>> /\ call[c].pc \in {"idle", "answered"}
    BY DEF Invoke, Release
  <1>2. /\ call \in [Clients -> CallRecord]
        /\ Idle \in CallRecord /\ Idle.pc = "idle" /\ ~Idle.taken
    BY DEF AdapterParts, AdapterTypeOK, Idle, CallRecord, Operation
  <1>3. \A p \in puts' : p.awaited => p \in puts /\ p.caller # c
    BY <1>1, AdapterRests
  <1>4. CASE Release(c)
    <2>1. call' = [call EXCEPT ![c] = Idle]
      BY <1>4 DEF Release
    <2>2. PutsAreAwaitedOnce'
      BY <1>2, <1>3, <2>1, OthersAwaited
    <2> QED  BY <1>1, <1>2, <2>1, <2>2, AdapterRests, CallMoves
  <1>5. CASE Invoke(c)
    <2>1. PICK op \in Operation, own \in BOOLEAN :
             \E body \in IF op \in {"verify", "write"} THEN Bodies ELSE {Nothing} :
                call' = [call EXCEPT ![c] =
                           [Idle EXCEPT !.op = op, !.own = own, !.body = body,
                                           !.pc = "asserted", !.taken = object # Nothing]]
      BY <1>5 DEF Invoke
    <2>2. PICK body \in IF op \in {"verify", "write"} THEN Bodies ELSE {Nothing} :
                call' = [call EXCEPT ![c] =
                           [Idle EXCEPT !.op = op, !.own = own, !.body = body,
                                           !.pc = "asserted", !.taken = object # Nothing]]
      BY <2>1
    <2>7. PICK taken \in BOOLEAN : taken = (object # Nothing)
      OBVIOUS
    <2> DEFINE r == [Idle EXCEPT !.op = op, !.own = own, !.body = body, !.pc = "asserted",
                                 !.taken = taken]
    <2>3. body \in Bodies \cup {Nothing} /\ (op \in {"verify", "write"} => body \in Bodies)
      BY <2>2
    <2>4. /\ r \in CallRecord /\ r.pc = "asserted" /\ r.op = op /\ r.body = body
          /\ r.taken = taken
      BY <1>2, <2>3 DEF CallRecord
    <2>5. call' = [call EXCEPT ![c] = r]
      BY <2>2, <2>7
    <2> HIDE DEF r
    <2>6. PutsAreAwaitedOnce'
      BY <1>2, <1>3, <2>5, OthersAwaited
    <2> QED  BY <1>1, <2>3, <2>4, <2>5, <2>6, <2>7, AdapterRests, CallMoves
  <1> QED  BY <1>4, <1>5

LEMMA ReadKeeps ==
    ASSUME AdapterParts, NEW c \in Clients, Read(c)
    PROVE  AdapterParts'
  <1>1. /\ UNCHANGED <<object, puts, written>>
        /\ call[c].pc = "asserted" /\ call[c].op \in {"get", "verify"}
    BY DEF Read
  <1>2. {"invalid_location", "unavailable", "not_found", "invalid_response",
         "integrity_mismatch"} \subseteq Code
    BY DEF Code
  <1>3. CASE \E code \in {"invalid_location", "unavailable", "not_found", "invalid_response",
                          "integrity_mismatch"} : Fails(c, code)
    BY <1>1, <1>2, <1>3, Failed
  <1>4. ASSUME NEW body \in Arriving(object.body), object # Nothing,
               Length(body) = object.length, body = object.sha256,
               call[c].op = "verify" => object.sha256 = call[c].body,
               Succeeds(c, body)
        PROVE  AdapterParts'
    <2>1. object \in StoredObject /\ object.sha256 \in written \cup {Nothing}
      BY <1>4 DEF AdapterParts, AdapterTypeOK, DigestsAreWritten
    <2>2. object.length = 2
      BY <2>1 DEF StoredObject
    <2>3. body \in Bodies \cup {Cut} /\ body \in written
      BY <1>4, <2>1, <2>2, AdapterAssumption DEF Arriving, StoredObject, Length
    <2> DEFINE answer == [code |-> "ok", body |-> body]
    <2>4. /\ answer \in [code : Code \cup {"ok"}, body : Bodies \cup {Cut, Nothing}]
          /\ answer.code = "ok" /\ answer.body = body
      BY <2>3
    <2>5. Answer(c, answer)
      BY <1>4 DEF Succeeds
    <2> HIDE DEF answer
    <2> QED  BY <1>1, <1>4, <2>3, <2>4, <2>5, AdapterRests, AnswerKeeps
  <1>5. \/ \E code \in {"invalid_location", "unavailable", "not_found", "invalid_response",
                        "integrity_mismatch"} : Fails(c, code)
        \/ \E body \in Arriving(object.body) :
              /\ object # Nothing /\ Length(body) = object.length /\ body = object.sha256
              /\ call[c].op = "verify" => object.sha256 = call[c].body
              /\ Succeeds(c, body)
    BY DEF Read, digest
  <1> QED  BY <1>3, <1>4, <1>5

LEMMA HeadKeeps ==
    ASSUME AdapterParts, NEW c \in Clients, head(c)
    PROVE  AdapterParts'
  <1>1. /\ UNCHANGED <<object, puts, written>>
        /\ call[c].pc = "asserted" /\ call[c].op \in {"head", "write"}
        /\ call \in [Clients -> CallRecord] /\ call[c] \in CallRecord
    BY DEF head, AdapterParts, AdapterTypeOK
  <1>2. CASE \E code \in Code : /\ Fails(c, code)
                                /\ code = "already_exists" =>
                                      call[c].op = "write" /\ object # Nothing
    BY <1>1, <1>2, Failed
  <1>3. CASE /\ call[c].op = "write" /\ object = Nothing
             /\ call' = [call EXCEPT ![c].pc = "put"]
    <2> DEFINE r == [call[c] EXCEPT !.pc = "put"]
    <2>1. /\ r \in CallRecord /\ r.pc = "put" /\ r.op = call[c].op /\ r.body = call[c].body
          /\ r.taken = call[c].taken
      BY <1>1 DEF CallRecord
    <2>2. call' = [call EXCEPT ![c] = r]
      BY <1>1, <1>3
    <2>3. r.body \in Bodies
      BY <1>1, <1>3, <2>1 DEF AdapterParts, WritersHaveBodies
    <2> HIDE DEF r
    <2>4. PutsAreAwaitedOnce'
      BY <1>1, <2>2, AdapterRests, OthersAwaited
    <2>5. /\ StorageStays
          /\ puts' \subseteq [caller : Clients, body : Bodies, awaited : BOOLEAN]
      BY <1>1, AdapterRests
    <2>6. r.op = "write" /\ r.pc # "answered" /\ ~r.taken
      BY <1>3, <2>1 DEF AdapterParts, TakenStaysTaken
    <2> QED  BY <2>1, <2>2, <2>3, <2>4, <2>5, <2>6, CallMoves
  <1>4. CASE call[c].op = "head" /\ Succeeds(c, Nothing)
    <2> DEFINE answer == [code |-> "ok", body |-> Nothing]
    <2>1. /\ answer \in [code : Code \cup {"ok"}, body : Bodies \cup {Cut, Nothing}]
          /\ answer.code = "ok"
      OBVIOUS
    <2>2. Answer(c, answer)
      BY <1>4 DEF Succeeds
    <2> HIDE DEF answer
    <2> QED  BY <1>1, <1>4, <2>1, <2>2, AdapterRests, AnswerKeeps
  <1>5. {"invalid_location", "unavailable", "not_found", "invalid_response", "already_exists"}
           \subseteq Code
    BY DEF Code
  <1> QED  BY <1>1, <1>2, <1>3, <1>4, <1>5 DEF head

LEMMA SendPutKeeps ==
    ASSUME AdapterParts, NEW c \in Clients, SendPut(c)
    PROVE  AdapterParts'
  <1>1. /\ call[c].pc = "put" /\ UNCHANGED <<object, written>>
        /\ call \in [Clients -> CallRecord] /\ call[c] \in CallRecord
        /\ call[c].op = "write" /\ call[c].body \in Bodies /\ ~call[c].taken
    BY DEF SendPut, AdapterParts, AdapterTypeOK, WritersHaveBodies, TakenStaysTaken
  <1> DEFINE r == [call[c] EXCEPT !.pc = "waiting"]
             put == [caller |-> c, body |-> call[c].body, awaited |-> TRUE]
  <1>2. /\ r \in CallRecord /\ r.pc = "waiting" /\ r.op = "write" /\ r.body = call[c].body
        /\ ~r.taken
    BY <1>1 DEF CallRecord
  <1>3. call' = [call EXCEPT ![c] = r]
    BY <1>1 DEF SendPut
  <1>4. /\ put \in [caller : Clients, body : Bodies, awaited : BOOLEAN]
        /\ put.caller = c /\ put.body = call[c].body
        /\ puts' = puts \cup {put}
    BY <1>1 DEF SendPut
  <1> HIDE DEF r, put
  <1>5. call'[c] = r /\ \A d \in Clients : d # c => call'[d] = call[d]
    BY <1>1, <1>3
  <1>6. \A p \in puts : p.caller \in Clients /\ (p.awaited => p.caller # c)
    BY <1>1 DEF AdapterParts, AdapterTypeOK, PutsAreAwaitedOnce
  <1>7. PutsAreAwaitedOnce'
    BY <1>2, <1>4, <1>5, <1>6 DEF AdapterParts, PutsAreAwaitedOnce
  <1>8. /\ StorageStays
        /\ puts' \subseteq [caller : Clients, body : Bodies, awaited : BOOLEAN]
    BY <1>1, <1>4 DEF StorageStays, AdapterParts, AdapterTypeOK, DigestsAreWritten
  <1> QED  BY <1>1, <1>2, <1>3, <1>7, <1>8, CallMoves

LEMMA GiveUpKeeps ==
    ASSUME AdapterParts, NEW c \in Clients, GiveUp(c)
    PROVE  AdapterParts'
  <1>1. /\ call[c].pc = "waiting" /\ UNCHANGED <<object, written>>
        /\ Fails(c, "unavailable")
        /\ puts' = {[p EXCEPT !.awaited = @ /\ p.caller # c] : p \in puts}
    BY DEF GiveUp
  <1>2. ASSUME NEW q \in puts'
        PROVE  /\ q \in [caller : Clients, body : Bodies, awaited : BOOLEAN]
               /\ q.awaited => q \in puts /\ q.caller # c
    <2>1. PICK p \in puts : q = [p EXCEPT !.awaited = @ /\ p.caller # c]
      BY <1>1
    <2>2. p \in [caller : Clients, body : Bodies, awaited : BOOLEAN]
      BY DEF AdapterParts, AdapterTypeOK
    <2>3. PICK a \in BOOLEAN : a = (p.awaited /\ p.caller # c)
      OBVIOUS
    <2>4. q = [p EXCEPT !.awaited = a]
      BY <2>1, <2>3
    <2>5. /\ q \in [caller : Clients, body : Bodies, awaited : BOOLEAN]
          /\ q.awaited = a /\ q.caller = p.caller /\ q.body = p.body
      BY <2>2, <2>4
    <2>6. a => q = p
      BY <2>2, <2>3, <2>4
    <2> QED  BY <2>3, <2>5, <2>6
  <1>3. StorageStays
    <2>1. ASSUME NEW p \in puts PROVE puts' # {}
      BY <1>1
    <2>2. puts # {} => puts' # {}
      BY <2>1
    <2> QED  BY <1>1, <2>2 DEF StorageStays, AdapterParts, AdapterTypeOK, DigestsAreWritten
  <1> DEFINE answer == [code |-> "unavailable", body |-> Nothing]
  <1>4. /\ answer \in [code : Code \cup {"ok"}, body : Bodies \cup {Cut, Nothing}]
        /\ answer.code = "unavailable"
    BY DEF Code
  <1>5. Answer(c, answer)
    BY <1>1 DEF Fails
  <1> HIDE DEF answer
  <1>6. puts' \subseteq [caller : Clients, body : Bodies, awaited : BOOLEAN]
    BY <1>2
  <1>7. \A p \in puts' : p.awaited => p \in puts /\ p.caller # c
    BY <1>2
  <1> QED  BY <1>1, <1>3, <1>4, <1>5, <1>6, <1>7, AnswerKeeps

LEMMA ServePutKeeps ==
    ASSUME AdapterParts, NEW p \in puts, ServePut(p)
    PROVE  AdapterParts'
  <1>1. /\ p \in [caller : Clients, body : Bodies, awaited : BOOLEAN]
        /\ puts' = puts \ {p} /\ object \in StoredObject \cup {Nothing}
        /\ puts' \subseteq [caller : Clients, body : Bodies, awaited : BOOLEAN]
        /\ call \in [Clients -> CallRecord]
    BY DEF ServePut, AdapterParts, AdapterTypeOK
  <1>2. PICK c \in Clients, b \in Bodies : c = p.caller /\ b = p.body
    BY <1>1
  <1>3. p.awaited => /\ call[c].pc = "waiting" /\ call[c].op = "write" /\ call[c].body = b
                     /\ ~call[c].taken
                     /\ \A q \in puts' : q.awaited => q \in puts /\ q.caller # c
    BY <1>1, <1>2 DEF AdapterParts, PutsAreAwaitedOnce, WritersHaveBodies, TakenStaysTaken
  <1>4. /\ Stored(b) \in StoredObject /\ Stored(b) # Nothing /\ Stored(b).sha256 = b
    BY <1>2, AdapterAssumption DEF Stored, StoredObject, Length, digest
  \* The put stores its body, or is refused while the key is held or wanted.
  <1>5. /\ StorageStays
        /\ \/ object' = Stored(b) /\ b \in written'
           \/ object' = object /\ (object' # Nothing \/ puts' # {})
    <2>1. CASE object' = Stored(b) /\ written' = written \cup {b}
      <3>1. object' \in StoredObject /\ object' # Nothing /\ object'.sha256 \in written'
        BY <1>4, <2>1
      <3>2. written \subseteq written' /\ written' \subseteq Bodies /\ b \in written'
        BY <2>1 DEF AdapterParts, AdapterTypeOK
      <3> QED  BY <2>1, <3>1, <3>2 DEF StorageStays
    <2>2. CASE UNCHANGED <<object, written>> /\ (object # Nothing \/ puts # {p})
      BY <1>1, <2>2 DEF StorageStays, AdapterParts, AdapterTypeOK, DigestsAreWritten
    <2> QED  BY <1>2, <2>1, <2>2 DEF ServePut
  <1>6. CASE ~p.awaited
    <2>1. call' = call
      BY <1>6 DEF ServePut
    <2>2. PutsAreAwaitedOnce'
      BY <1>1, <2>1 DEF AdapterParts, PutsAreAwaitedOnce
    <2>3. \A d \in Clients : call'[d].pc = "answered" => Vouched(d)'
      BY <1>5, <2>1, VouchedStays DEF AdapterParts
    <2>4. /\ AdapterTypeOK' /\ WritersHaveBodies'
          /\ DigestsAreWritten' /\ TakenStaysTaken'
      BY <1>1, <1>5, <2>1 DEF AdapterParts, AdapterTypeOK, WritersHaveBodies, StorageStays,
         DigestsAreWritten, TakenStaysTaken
    <2> QED  BY <2>2, <2>3, <2>4 DEF AdapterParts
  <1>7. CASE p.awaited /\ b \in written' /\ Succeeds(c, b)
    <2> DEFINE answer == [code |-> "ok", body |-> b]
    <2>1. /\ answer \in [code : Code \cup {"ok"}, body : Bodies \cup {Cut, Nothing}]
          /\ answer.code = "ok"
      BY <1>2
    <2>2. Answer(c, answer)
      BY <1>7 DEF Succeeds
    <2> HIDE DEF answer
    <2> QED  BY <1>1, <1>3, <1>4, <1>5, <1>7, <2>1, <2>2, AnswerKeeps
  <1>8. CASE p.awaited /\ object' = object /\ Fails(c, "already_exists")
    <2> DEFINE answer == [code |-> "already_exists", body |-> Nothing]
    <2>1. /\ answer \in [code : Code \cup {"ok"}, body : Bodies \cup {Cut, Nothing}]
          /\ answer.code = "already_exists"
      BY DEF Code
    <2>2. Answer(c, answer)
      BY <1>8 DEF Fails
    <2>3. object' # Nothing \/ puts' # {}
      BY <1>4, <1>5, <1>8
    <2> HIDE DEF answer
    <2> QED  BY <1>1, <1>3, <1>5, <1>8, <2>1, <2>2, <2>3, AnswerKeeps
  <1> QED  BY <1>2, <1>6, <1>7, <1>8 DEF ServePut

LEMMA AccidentKeeps ==
    ASSUME AdapterParts, Accident
    PROVE  AdapterParts'
  <1>1. UNCHANGED <<call, puts, written>>
    BY DEF Accident
  <1>2. /\ object' \in StoredObject /\ object' # Nothing
        /\ object'.sha256 \in written \cup {Nothing}
    <2>1. CASE object # Nothing
      <3>1. object \in StoredObject /\ object.sha256 \in written \cup {Nothing}
        BY <2>1 DEF AdapterParts, AdapterTypeOK, DigestsAreWritten
      <3>2. PICK b \in Bodies \cup {Cut} : object' = [object EXCEPT !.body = b]
        BY <2>1 DEF Accident
      <3>3. object' \in StoredObject /\ object'.sha256 = object.sha256
        BY <3>1, <3>2 DEF StoredObject
      <3> QED  BY <3>1, <3>3, AdapterAssumption
    <2>2. CASE object = Nothing
      <3>1. PICK b \in Bodies : object' = [Stored(b) EXCEPT !.sha256 = Nothing]
        BY <2>2 DEF Accident
      <3>2. Stored(b) \in StoredObject
        BY AdapterAssumption DEF Stored, StoredObject, Length, digest
      <3>3. object' \in StoredObject /\ object'.sha256 = Nothing
        BY <3>1, <3>2 DEF StoredObject
      <3> QED  BY <2>2, <3>3, AdapterAssumption
    <2> QED  BY <2>1, <2>2
  <1>3. StorageStays
    BY <1>1, <1>2 DEF StorageStays, AdapterParts, AdapterTypeOK
  <1>4. \A d \in Clients : call'[d].pc = "answered" => Vouched(d)'
    BY <1>1, <1>3, VouchedStays DEF AdapterParts
  <1> QED  BY <1>1, <1>2, <1>4 DEF AdapterParts, AdapterTypeOK, PutsAreAwaitedOnce,
              WritersHaveBodies, DigestsAreWritten, TakenStaysTaken

LEMMA AdapterSteps ==
    ASSUME AdapterParts, [AdapterNext]_adapterVars
    PROVE  AdapterParts'
  <1>1. CASE UNCHANGED adapterVars
    BY <1>1 DEF adapterVars, AdapterParts, AdapterTypeOK, PutsAreAwaitedOnce, WritersHaveBodies,
       DigestsAreWritten, TakenStaysTaken, Vouched, Ok
  <1>2. CASE AdapterNext
    BY <1>2, CallKeeps, ReadKeeps, HeadKeeps, SendPutKeeps, GiveUpKeeps, ServePutKeeps,
       AccidentKeeps DEF AdapterNext
  <1> QED  BY <1>1, <1>2

\* Whatever the provider loses, delays or damages, and however many calls overlap: what
\* the adapter returns, verifies or reports as written is whole and was stored under the
\* key, though puts may overwrite each other there; who comes later is never told that he
\* wrote; and "already exists" is never said of an unused key (getObject, verifyObject,
\* writeObject of the S3 adapter).
THEOREM AdapterVouches == AdapterSpec => []SuccessVouches
  <1>1. AdapterInit => AdapterInv
    BY AdapterStarts, AdapterInvariant
  <1>2. AdapterInv /\ [AdapterNext]_adapterVars => AdapterInv'
    <2>1. AdapterInv' <=> AdapterParts'
      BY AdapterInvariant, PTL
    <2> QED  BY <2>1, AdapterInvariant, AdapterSteps
  <1>3. AdapterInv => SuccessVouches
    BY DEF AdapterInv
  <1> QED  BY <1>1, <1>2, <1>3, PTL DEF AdapterSpec

-----------------------------------------------------------------------------
(* The dependency gate. *)

\* A report that passes lists the reviewed chain, which leads to the reviewed
\* advisory and nowhere else.
LEMMA ReviewedChainOnly ==
    ASSUME EvaluateAuditReport
    PROVE  /\ HighNames = DOMAIN expectedParents
           /\ DOMAIN expectedParents \subseteq DOMAIN report.vulnerabilities
           /\ Via("braces") = {"reviewed"}
           /\ \A n \in DOMAIN expectedParents \ {"braces"} : Via(n) = expectedParents[n]
           /\ \A n \in DOMAIN expectedParents : ReachesBraces(n)
  <1>1. HighNames = DOMAIN expectedParents
    BY DEF EvaluateAuditReport
  <1>2. DOMAIN expectedParents \subseteq DOMAIN report.vulnerabilities
    BY <1>1 DEF HighNames, Listed
  <1>3. \A n \in DOMAIN expectedParents : PathIsReviewed(n) /\ ReachesBraces(n)
    BY <1>1 DEF EvaluateAuditReport
  <1>4. Via("braces") = {"reviewed"}
    <2>1. report.vulnerabilities["braces"].via = <<"reviewed">>
      BY <1>3, GateAssumption DEF PathIsReviewed
    <2> QED  BY <2>1 DEF Via, Elements
  <1>5. \A n \in DOMAIN expectedParents \ {"braces"} : Via(n) = expectedParents[n]
    BY <1>3 DEF PathIsReviewed, Via
  <1> QED  BY <1>1, <1>2, <1>3, <1>4, <1>5

LEMMA OnlyReviewedIsReached ==
    ASSUME EvaluateAuditReport, NamesAreKnown, NEW n \in HighNames
    PROVE  Advisories(n) = {"reviewed"}
  <1> DEFINE names == DOMAIN report.vulnerabilities
             all == {n} \union UNION {Via(p) : p \in names}
             Followed(S) == n \in S /\ \A p \in S \intersect names : Via(p) \subseteq S
             chain == DOMAIN expectedParents
             reached == {a \in all : \A S \in SUBSET all : Followed(S) => a \in S}
  <1>1. Advisories(n) = reached \ names
    BY Zenon DEF Advisories
  <1>2. n \in chain /\ chain \subseteq names /\ "braces" \in chain
    BY ReviewedChainOnly, GateAssumption
  <1>3. "reviewed" \notin names
    BY GateAssumption DEF NamesAreKnown
  <1>4. \A p \in chain : Via(p) \subseteq chain \union {"reviewed"}
    BY ReviewedChainOnly, GateAssumption
  <1>5. reached \subseteq chain \union {"reviewed"}
    <2> DEFINE S == (chain \union {"reviewed"}) \intersect all
    <2>1. \A p \in names : Via(p) \subseteq all
      OBVIOUS
    <2>2. \A p \in S \intersect names : p \in chain
      BY <1>3
    <2>3. Followed(S)
      BY <1>2, <1>4, <2>1, <2>2
    <2> QED  BY <2>3
  <1>6. "reviewed" \in all
    BY <1>2, ReviewedChainOnly
  <1>7. ASSUME NEW S \in SUBSET all, Followed(S) PROVE "reviewed" \in S
    <2> DEFINE ends == {p \in {"braces"} \union names : p \in S => "braces" \in S}
    <2>1. ASSUME NEW p \in names, Via(p) # {}, Via(p) \subseteq ends \intersect chain
          PROVE  p \in ends
      BY <1>7, <2>1
    <2>2. n \in ends
      <3>1. ReachesBraces(n)
        BY ReviewedChainOnly
      <3>2. /\ ends \in SUBSET ({"braces"} \union names) /\ "braces" \in ends
            /\ \A p \in names : Via(p) # {} /\ Via(p) \subseteq ends \intersect chain => p \in ends
        BY <2>1
      <3> HIDE DEF ends
      <3> QED  BY <3>1, <3>2 DEF ReachesBraces
    <2>3. "braces" \in S
      BY <1>7, <2>2
    <2> QED  BY <1>2, <1>7, <2>3, ReviewedChainOnly
  <1> QED  BY <1>1, <1>2, <1>3, <1>5, <1>6, <1>7


\* What the policy accepts is in the manifests, the registry and the decisions.
LEMMA CheckedIsReviewed ==
    ASSUME CheckPolicy
    PROVE  /\ \A path \in DOMAIN lock :
                 /\ lock[path].link => lock[path].resolved \in DOMAIN manifests
                 /\ ~lock[path].link => lock[path].resolved \notin {"git", "elsewhere"}
                 /\ Runs(path) => <<path.name, lock[path].version>> \in DOMAIN allowScripts
           /\ \A d \in CollectManifestPaths, dep \in {"native", "web", "store"} :
                 dep \in DOMAIN manifests[d].specs /\ manifests[d].specs[dep] = "workspace"
                    => \E e \in DOMAIN manifests : manifests[e].name = dep
  <1>1. CollectManifestPaths \subseteq DOMAIN manifests
    BY DEF CollectManifestPaths, Expanded
  <1>2. ASSUME NEW path \in DOMAIN lock
        PROVE  /\ lock[path].link => lock[path].resolved \in DOMAIN manifests
               /\ ~lock[path].link => lock[path].resolved \notin {"git", "elsewhere"}
    BY <1>1 DEF CheckPolicy, ValidateLockfileSources
  <1>3. ASSUME NEW path \in DOMAIN lock, Runs(path)
        PROVE  <<path.name, lock[path].version>> \in DOMAIN allowScripts
    <2>1. IsInstallScriptCovered(path.name, lock[path].version)
      BY <1>3 DEF Runs, CheckPolicy, ValidateInstallScripts
    <2> QED  BY <1>3, <2>1 DEF Runs, IsInstallScriptCovered
  <1>4. ASSUME NEW d \in CollectManifestPaths, NEW dep \in {"native", "web", "store"},
               dep \in DOMAIN manifests[d].specs, manifests[d].specs[dep] = "workspace"
        PROVE  \E e \in DOMAIN manifests : manifests[e].name = dep
    <2>1. dep \in WorkspaceNames
      BY <1>4 DEF CheckPolicy, ValidateManifestSources, ClassifyDisallowedSpec
    <2> QED  BY <1>1, <2>1 DEF WorkspaceNames
  <1> QED  BY <1>2, <1>3, <1>4

LEMMA NamesStart == ASSUME GateInit PROVE NamesAreKnown
  <1>1. PICK v, c : v = [n \in DOMAIN expectedParents |-> Vulnerability(n)]
                    /\ report = [vulnerabilities |-> v, counts |-> c]
    BY DEF GateInit
  <1>2. DOMAIN v = DOMAIN expectedParents
    BY <1>1
  <1> QED  BY <1>1, <1>2 DEF NamesAreKnown

LEMMA NamesStay == ASSUME NamesAreKnown, [GateNext]_gateVars PROVE NamesAreKnown'
  <1> DEFINE vulnerabilities == report.vulnerabilities
             names == DOMAIN expectedParents \union {"other"}
  <1>1. CASE report' = report
    BY <1>1 DEF NamesAreKnown
  <1>2. CASE AuditChanges
    <2>1. ASSUME NEW n, report' = Counted(Without(vulnerabilities, n)) PROVE NamesAreKnown'
      BY <2>1 DEF Counted, Without, NamesAreKnown
    <2>2. ASSUME NEW n \in names, NEW value, report' = Counted(Set(vulnerabilities, n, value))
          PROVE  NamesAreKnown'
      BY <2>2 DEF Counted, Set, NamesAreKnown
    <2>3. ASSUME NEW s \in Severities,
                 report' = [report EXCEPT !.counts[s] = report.counts[s] + 1]
          PROVE  NamesAreKnown'
      BY <2>3 DEF NamesAreKnown
    <2> QED  BY <1>2, <2>1, <2>2, <2>3, Zenon DEF AuditChanges
  <1> QED  BY <1>1, <1>2 DEF GateNext, gateVars, LockChanges, DecisionsChange,
              ConfigurationChanges, ManifestsChange, TimePasses

\* Whatever is changed, and however often: a report that passes has the reviewed
\* advisory and no other behind its high and critical packages, all confined to
\* development; and a repository that passes installs from the registry and its own
\* workspaces only, and runs install scripts of approved versions only
\* (evaluateAuditReport, check-policy).
THEOREM GateIsClosed == GateSpec => []GateIsNarrow
  <1>1. ASSUME NamesAreKnown PROVE GateIsNarrow
    <2>1. ASSUME EvaluateAuditReport, NEW n \in HighNames
          PROVE  /\ Advisories(n) = {"reviewed"}
                 /\ \A node \in Elements(report.vulnerabilities[n].nodes) :
                       node \in DOMAIN lock /\ lock[node].dev
      <3>1. Confined(n)
        BY <2>1 DEF EvaluateAuditReport
      <3>2. Elements(report.vulnerabilities[n].nodes) = {Top(n)}
        BY <3>1 DEF Confined, Elements
      <3> QED  BY <1>1, <2>1, <3>1, <3>2, OnlyReviewedIsReached DEF Confined
    <2> QED  BY <2>1, CheckedIsReviewed DEF GateIsNarrow, HighNames
  <1> QED  BY <1>1, NamesStart, NamesStay, PTL DEF GateSpec

=================================================================================
