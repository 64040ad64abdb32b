----------------------------- MODULE RequestProofs -----------------------------
(***************************************************************************)
(* What a request meets, for any number of requests and roots: the way     *)
(* through the gateway to the platform and back (RequestPath), and the     *)
(* inspection of a document's root fields (RootFields).  The two have no   *)
(* variable in common; each has its own inductive invariant.               *)
(***************************************************************************)
EXTENDS CookiePath, FiniteSetTheorems, SequenceTheorems,
        WellFoundedInduction, TLAPS

-----------------------------------------------------------------------------
(* The way of a request: RequestPath.                                      *)

\* The operations a document may name.
AllFields == Queries \cup Mutations

\* The fields of a request are those of its document, as long as that is the same.
LEMMA SameRequest ==
    ASSUME request' = request
    PROVE  /\ \A i : Field(i)' = Field(i)
           /\ Fields' = Fields /\ IsMutation' = IsMutation
  BY DEF Field, Fields, IsMutation

LEMMA RootsAreNumbered ==
    ASSUME TypeOK
    PROVE  \E n \in Nat : DOMAIN request.roots = 1 .. n /\ Len(request.roots) = n
  <1>1. request.roots \in Seq([field : AllFields, executed : BOOLEAN])
    BY DEF TypeOK, AllFields
  <1> QED  BY <1>1, LenProperties

LEMMA FieldsAreKnown ==
    ASSUME TypeOK, NEW i \in DOMAIN request.roots
    PROVE  /\ Field(i) \in AllFields /\ Field(i) \in Fields
           /\ request.roots[i].executed \in BOOLEAN
           /\ request.roots[i] = [field |-> Field(i), executed |-> request.roots[i].executed]
  <1>1. PICK r \in [field : AllFields, executed : BOOLEAN] : r = request.roots[i]
    <2>1. request.roots \in Seq([field : AllFields, executed : BOOLEAN])
      BY DEF TypeOK, AllFields
    <2> QED  BY <2>1, RootsAreNumbered, ElementOfSeq
  <1> QED  BY <1>1 DEF Field, Fields

\* What becomes of an answered call.
ResultOf(op, result) ==
    IF op = "documentTypes" THEN Masked(result) ELSE Masked(MapSessionError(result))

LEMMA ResultsOfCommands ==
    ASSUME NEW op \in AllFields, NEW response, NEW r \in Received(response),
           NEW result, result = ResponsePolicy(op, r)
    PROVE  /\ ResultOf(op, result) \in Results \ {"waiting", "guarded", "calling", "skipped"}
           /\ result = "data" <=> ResultOf(op, result) = "data"
           /\ ResultOf(op, result) = "data" => response = Success
           /\ Rejected(op, ResultOf(op, result)) =>
                 response.body \in AuthCodes \ {"DEPENDENCY_UNAVAILABLE"}
           /\ op = "documentTypes" =>
                 ResultOf(op, result) \in {"data", "EXPECTED", "INTERNAL_SERVER_ERROR"}
  <1>1. r = response \/ r.body \in {"unreadable", "other"}
    BY DEF Received
  <1>2. Success.body = "data"
    BY DEF Success
  <1>3. CASE op = "documentTypes"
    <2>1. /\ result \in {"data", "PlatformInvalidResponse", "PlatformRejectedRequest",
                         "PlatformRequestFailed"}
          /\ result = "data" => r = Success
      BY <1>3 DEF ResponsePolicy, DefaultPolicy
    <2>2. ResultOf(op, result) = IF result = "data" THEN "data"
                                 ELSE IF result = "PlatformRejectedRequest" THEN "EXPECTED"
                                 ELSE "INTERNAL_SERVER_ERROR"
      BY <1>3, <2>1 DEF ResultOf, Masked, AuthCodes
    <2>3. ~Rejected(op, ResultOf(op, result))
      BY <1>3 DEF Rejected
    <2> QED  BY <1>1, <1>2, <2>1, <2>2, <2>3 DEF Results
  <1>4. CASE op # "documentTypes"
    <2>1. /\ result \in {"data", "PlatformUnavailable"} \cup AuthCodes
          /\ result = "data" => r = Success
          /\ result \in AuthCodes => r.body = result
      BY <1>4 DEF ResponsePolicy, SessionPolicy, AuthCodes
    <2>2. ResultOf(op, result) = IF result = "PlatformUnavailable" THEN "DEPENDENCY_UNAVAILABLE"
                                 ELSE result
      BY <1>4, <2>1 DEF ResultOf, Masked, MapSessionError, AuthCodes
    <2>3. Rejected(op, ResultOf(op, result)) =>
             result \in AuthCodes \ {"DEPENDENCY_UNAVAILABLE"}
      BY <2>1, <2>2 DEF Rejected, AuthCodes
    <2>4. {"unreadable", "other"} \cap AuthCodes = {} /\ "DEPENDENCY_UNAVAILABLE" \in AuthCodes
      BY DEF AuthCodes
    <2>5. "data" \notin AuthCodes /\ "PlatformUnavailable" \notin AuthCodes
      BY DEF AuthCodes
    <2>6. ResultOf(op, result) \in Results \ {"waiting", "guarded", "calling", "skipped"}
      BY <2>1, <2>2 DEF Results, AuthCodes
    <2> QED  BY <1>1, <1>2, <1>4, <2>1, <2>2, <2>3, <2>4, <2>5, <2>6
  <1> QED  BY <1>3, <1>4

LEMMA ResultsOfValidation ==
    ASSUME NEW response, NEW r \in Received(response)
    PROVE  MapSessionError(ResponsePolicy("validate", r)) \in AuthCodes \cup {"data"}
  BY DEF MapSessionError, ResponsePolicy, SessionPolicy, AuthCodes

LEMMA MovesOnly ==
    ASSUME IInv,
           UNCHANGED <<requests, request, root, validation, setCookie, calls, committed, charged,
                       sent>>,
           stage' = stage \/ stage' \in {"answered", "idle"},
           stage' \in {"received", "admitted", "executing"} => verdict' = <<>>,
           VerdictsFollow'
    PROVE  IInv'
  <1>1. /\ \A i : Field(i)' = Field(i)
        /\ Fields' = Fields
    BY SameRequest
  <1>2. TypeOK'
    BY <1>1 DEF IInv, TypeOK, IsCall
  <1>3. NothingIsDoneYet'
    BY DEF IInv, NothingIsDoneYet
  <1>4. CallsAreTracked'
    BY <1>1 DEF IInv, CallsAreTracked, CallIsTracked, Pending
  <1>5. RootsAreTrue'
    BY <1>1 DEF IInv, RootsAreTrue
  <1>6. SessionIsShared'
    BY <1>1 DEF IInv, SessionIsShared, Validates
  <1>7. CookieIsTold'
    BY <1>1 DEF IInv, CookieIsTold
  <1>8. ChargesCover'
    <2>1. \A g : Due(g)' = Due(g)
      BY <1>1 DEF Due
    <2> QED  BY <2>1 DEF IInv, ChargesCover
  <1>9. ActivityIsEarned'
    BY DEF IInv, ActivityIsEarned
  <1> QED  BY <1>2, <1>3, <1>4, <1>5, <1>6, <1>7, <1>8, <1>9 DEF IInv

LEMMA RespondKeeps == ASSUME IInv, Respond PROVE IInv'
  <1>1. VerdictsFollow'
    BY SameRequest DEF IInv, Respond, browserVars, VerdictsFollow, Verdict
  <1> QED  BY <1>1, MovesOnly DEF Respond, browserVars, platformVars, limitVars

LEMMA FinishKeeps == ASSUME IInv, Finish PROVE IInv'
  <1>1. VerdictsFollow'
    BY SameRequest DEF IInv, Finish, browserVars, VerdictsFollow, Verdict
  <1> QED  BY <1>1, MovesOnly DEF Finish, browserVars, platformVars, limitVars

LEMMA SessionEndsKeeps == ASSUME IInv, SessionEnds PROVE IInv'
  <1>1. UNCHANGED <<requests, request, stage, root, validation, setCookie, calls, committed,
                    charged, sent, verdict>>
    BY DEF SessionEnds, gatewayVars, browserVars, limitVars
  <1>2. VerdictsFollow'
    BY <1>1, SameRequest DEF IInv, VerdictsFollow, Verdict
  <1> QED  BY <1>1, <1>2, MovesOnly DEF IInv, NothingIsDoneYet

LEMMA ArriveKeeps == ASSUME IInv, Arrive \/ GiveUp PROVE IInv'
  <1>1. /\ stage = "answered"
        /\ UNCHANGED <<requests, request, stage, root, validation, setCookie, calls, committed,
                       charged, sent>>
        /\ \/ verdict' = [i \in DOMAIN root |-> Verdict(Field(i), root[i])]
           \/ verdict' = [i \in DOMAIN root |-> "uncertain"]
    BY DEF Arrive, GiveUp, gatewayVars, platformVars, limitVars
  <1>2. VerdictsFollow'
    BY <1>1, SameRequest DEF VerdictsFollow, Verdict
  <1> QED  BY <1>1, <1>2, MovesOnly

LEMMA WindowExpiresKeeps == ASSUME IInv, WindowExpires PROVE IInv'
  <1>1. /\ stage = "idle"
        /\ UNCHANGED <<requests, request, stage, root, validation, setCookie, calls, committed,
                       verdict>>
        /\ \E g \in Groups : /\ charged' = [charged EXCEPT ![g] = 0]
                               /\ sent' = [sent EXCEPT ![g] = 0]
    BY DEF WindowExpires, gatewayVars, platformVars, browserVars
  <1>2. /\ \A i : Field(i)' = Field(i)
        /\ Fields' = Fields
    BY <1>1, SameRequest
  <1>3. TypeOK'
    BY <1>1, <1>2 DEF IInv, TypeOK, IsCall
  <1>4. ChargesCover'
    <2>1. PICK h \in Groups : /\ charged' = [charged EXCEPT ![h] = 0]
                                /\ sent' = [sent EXCEPT ![h] = 0]
      BY <1>1
    <2>2. ASSUME NEW g \in Groups
          PROVE  /\ charged[g] \in Nat /\ sent[g] \in Nat
                 /\ charged'[g] = IF g = h THEN 0 ELSE charged[g]
                 /\ sent'[g] = IF g = h THEN 0 ELSE sent[g]
      BY <2>1 DEF IInv, TypeOK
    <2>3. \A g \in Groups : sent[g] <= charged[g] /\ charged[g] <= Attempts
      BY DEF IInv, ChargesCover
    <2>4. ASSUME NEW g \in Groups
          PROVE  sent'[g] <= charged'[g] /\ charged'[g] <= Attempts
      BY <2>2, <2>3, PathAssumption
    <2> QED  BY <1>1, <2>4 DEF ChargesCover
  <1>5. NothingIsDoneYet' /\ ActivityIsEarned'
    BY <1>1 DEF IInv, NothingIsDoneYet, ActivityIsEarned
  <1>6. CallsAreTracked' /\ RootsAreTrue' /\ SessionIsShared' /\ CookieIsTold'
    BY <1>1, <1>2 DEF IInv, CallsAreTracked, CallIsTracked, Pending, RootsAreTrue,
       SessionIsShared, Validates, CookieIsTold
  <1>7. VerdictsFollow'
    BY <1>1, <1>2 DEF IInv, VerdictsFollow, Verdict
  <1> QED  BY <1>3, <1>4, <1>5, <1>6, <1>7 DEF IInv

\* A request is sent: nothing is known of it yet, and no call is made for it.
LEMMA SendKeeps == ASSUME IInv, Send PROVE IInv'
  <1>1. /\ request' \in Requests /\ requests' = requests + 1 /\ stage' = "received"
        /\ root' = <<>> /\ validation' = "none" /\ setCookie' = "keep" /\ committed' = {}
        /\ verdict' = <<>> /\ UNCHANGED <<calls, charged, sent>>
        /\ stage = "idle"
    BY DEF Send, limitVars
  <1>2. \A c \in calls : c.request # requests'
    BY <1>1 DEF IInv, TypeOK
  <1>3. TypeOK'
    <2>1. /\ request'.roots \in Seq([field : Queries \cup Mutations, executed : BOOLEAN])
          /\ Fields' \subseteq Queries \/ Fields' \subseteq Mutations
      <3>1. ASSUME NEW fields, NEW roots \in Roots(fields)
            PROVE  /\ roots \in Seq([field : fields, executed : BOOLEAN])
                   /\ {roots[i].field : i \in DOMAIN roots} \subseteq fields
        <4>1. PICK n \in 1 .. MaxRoots : roots \in [1 .. n -> [field : fields, executed : BOOLEAN]]
          <5>1. roots \in UNION {[1 .. n -> [field : fields, executed : BOOLEAN]] :
                                    n \in 1 .. MaxRoots}
            BY <3>1, Zenon DEF Roots
          <5> QED  BY <5>1
        <4>2. n \in Nat
          BY <4>1, PathAssumption
        <4>3. roots \in Seq([field : fields, executed : BOOLEAN])
          <5>1. roots \in UNION {[1 .. m -> [field : fields, executed : BOOLEAN]] : m \in Nat}
            BY <4>1, <4>2
          <5> QED  BY <5>1, SeqDef, Zenon
        <4>4. \A i \in DOMAIN roots : roots[i].field \in fields
          BY <4>1
        <4> QED  BY <4>3, <4>4
      <3> DEFINE R == request'.roots
                 Named == {R[i].field : i \in DOMAIN R}
      <3>a. Fields' = Named
        BY DEF Fields
      <3> HIDE DEF R
      <3>2. CASE R \in Roots(Queries)
        <4>1. R \in Seq([field : Queries, executed : BOOLEAN]) /\ Named \subseteq Queries
          BY <3>1, <3>2
        <4>2. Queries \subseteq AllFields
          BY DEF AllFields
        <4>3. R \in Seq([field : AllFields, executed : BOOLEAN])
          <5>1. [field : Queries, executed : BOOLEAN]
                    \subseteq [field : AllFields, executed : BOOLEAN]
            BY <4>2
          <5> QED  BY <4>1, <5>1, SeqMonotonic
        <4> QED  BY <3>a, <4>1, <4>3 DEF R, AllFields
      <3>3. CASE R \in Roots(Mutations)
        <4>1. R \in Seq([field : Mutations, executed : BOOLEAN]) /\ Named \subseteq Mutations
          BY <3>1, <3>3
        <4>2. Mutations \subseteq AllFields
          BY DEF AllFields
        <4>3. R \in Seq([field : AllFields, executed : BOOLEAN])
          <5>1. [field : Mutations, executed : BOOLEAN]
                    \subseteq [field : AllFields, executed : BOOLEAN]
            BY <4>2
          <5> QED  BY <4>1, <5>1, SeqMonotonic
        <4> QED  BY <3>a, <4>1, <4>3 DEF R, AllFields
      <3>4. CASE R = <<[field |-> "signUp", executed |-> TRUE]>>
        <4>1. R \in Seq([field : AllFields, executed : BOOLEAN])
          BY <3>4 DEF AllFields, Mutations
        <4>2. Named \subseteq Mutations
          BY <3>4 DEF Mutations
        <4> QED  BY <3>a, <4>1, <4>2 DEF R, AllFields
      <3>5. \/ R \in Roots(Queries) \/ R \in Roots(Mutations)
            \/ R = <<[field |-> "signUp", executed |-> TRUE]>>
        BY <1>1 DEF Requests, R
      <3> QED  BY <3>2, <3>3, <3>4, <3>5 DEF R
    <2>2. requests' \in Nat /\ \A c \in calls : c.request \in 0 .. requests'
      BY <1>1 DEF IInv, TypeOK
    <2> QED  BY <1>1, <2>1, <2>2 DEF IInv, TypeOK, IsCall
  <1>4. NothingIsDoneYet' /\ CallsAreTracked' /\ RootsAreTrue' /\ VerdictsFollow'
    BY <1>1, <1>2 DEF NothingIsDoneYet, CallsAreTracked, Pending, RootsAreTrue,
       VerdictsFollow
  <1>5. SessionIsShared' /\ CookieIsTold'
    BY <1>1, <1>2 DEF SessionIsShared, Validates, CookieIsTold
  <1>7. ActivityIsEarned'
    BY <1>1, <1>2 DEF ActivityIsEarned
  <1>6. ChargesCover'
    BY <1>1 DEF IInv, ChargesCover
  <1> QED  BY <1>3, <1>4, <1>5, <1>6, <1>7 DEF IInv


\* A request of the wrong form is answered at once; none of its roots is executed.
LEMMA ParseKeeps == ASSUME IInv, Parse PROVE IInv'
  <1>1. /\ stage = "received" /\ stage' \in {"admitted", "answered"}
        /\ UNCHANGED <<requests, request, validation, setCookie, calls, committed, charged, sent,
                       verdict>>
        /\ \/ root' = root
           \/ /\ root' = [i \in DOMAIN request.roots |-> "HTTP_ERROR"]
              /\ stage' = "answered"
    BY DEF Parse, Refused, platformVars, browserVars, limitVars
  <1>2. /\ root = <<>> /\ verdict = <<>> /\ setCookie = "keep" /\ validation = "none"
        /\ committed = {} /\ \A c \in calls : c.request # requests
    BY <1>1 DEF IInv, NothingIsDoneYet
  <1>3. /\ \A i : Field(i)' = Field(i)
        /\ Fields' = Fields
    BY <1>1, SameRequest
  <1>4. \A i \in DOMAIN root' : root'[i] = "HTTP_ERROR"
    BY <1>1, <1>2
  <1>5. TypeOK'
    <2>1. root' = <<>> \/ root' \in [DOMAIN request.roots -> Results]
      BY <1>1, <1>2 DEF Results
    <2> QED  BY <1>1, <1>3, <2>1 DEF IInv, TypeOK, IsCall
  <1>6. /\ NothingIsDoneYet' /\ VerdictsFollow'
        /\ CallsAreTracked' /\ ActivityIsEarned'
    <2>1. NothingIsDoneYet'
      BY <1>1, <1>2 DEF NothingIsDoneYet
    <2>2. \A c \in calls' : c.request # requests'
      BY <1>1, <1>2
    <2>3. CallsAreTracked' /\ ActivityIsEarned'
      BY <2>2 DEF CallsAreTracked, Pending, ActivityIsEarned
    <2>4. VerdictsFollow'
      BY <1>1, <1>2 DEF VerdictsFollow
    <2> QED  BY <2>1, <2>3, <2>4
  <1>7. RootsAreTrue'
    BY <1>1, <1>2 DEF RootsAreTrue
  <1>8. SessionIsShared' /\ CookieIsTold'
    BY <1>1, <1>2, <1>4 DEF SessionIsShared, Validates, CookieIsTold
  <1>9. ChargesCover'
    BY <1>1 DEF IInv, ChargesCover
  <1> QED  BY <1>5, <1>6, <1>7, <1>8, <1>9 DEF IInv

-----------------------------------------------------------------------------
(* Counting roots. *)

LEMMA Smallest ==
    ASSUME NEW T \in SUBSET Nat, T # {}
    PROVE  \E x \in T : \A y \in T : x <= y
  <1>1. IsWellFoundedOn(OpToRel(<, Nat), Nat)
    BY NatLessThanWellFounded
  <1>2. PICK R : R = OpToRel(<, Nat)
    OBVIOUS
  <1>3. \A x, y \in Nat : x < y => <<x, y>> \in R
    BY <1>2 DEF OpToRel
  <1>4. IsWellFoundedOn(R, Nat)
    BY <1>1, <1>2
  <1>5. PICK x \in T : \A y \in T : ~(<<y, x>> \in R)
    BY <1>4, WFMin
  <1>6. \A y \in T : ~(y < x)
    BY <1>3, <1>5
  <1> QED  BY <1>6

\* The last of some roots.
LEMMA Greatest ==
    ASSUME NEW n \in Nat, NEW T \in SUBSET (1 .. n), T # {}
    PROVE  \E x \in T : \A y \in T : y <= x
  <1> DEFINE U == {n - y : y \in T}
  <1>0. \A y \in T : y \in Nat /\ n - y \in Nat
    OBVIOUS
  <1>1. U \in SUBSET Nat /\ U # {}
    BY <1>0
  <1>2. PICK u \in U : \A v \in U : u <= v
    BY <1>1, Smallest
  <1>3. PICK x \in T : u = n - x
    OBVIOUS
  <1>4. \A y \in T : n - x <= n - y
    BY <1>2, <1>3
  <1> QED  BY <1>0, <1>4

LEMMA CountsOfRoots ==
    ASSUME NEW n \in Nat, NEW T \in SUBSET (1 .. n)
    PROVE  /\ IsFiniteSet(T) /\ Cardinality(T) \in Nat
           /\ \A S \in SUBSET T : IsFiniteSet(S) /\ Cardinality(S) \in Nat
                                  /\ Cardinality(S) <= Cardinality(T)
           /\ Cardinality(1 .. n) = n
  <1>1. IsFiniteSet(1 .. n) /\ Cardinality(1 .. n) = n
    BY FS_Interval
  <1>2. IsFiniteSet(T)
    BY <1>1, FS_Subset
  <1>3. ASSUME NEW S \in SUBSET T
        PROVE  IsFiniteSet(S) /\ Cardinality(S) <= Cardinality(T)
    BY <1>2, FS_Subset
  <1> QED  BY <1>1, <1>2, <1>3, FS_CardinalityType

\* The roots that are charged are the first ones, up to the first that is refused.
LEMMA TheFirstAreAdmitted ==
    ASSUME NEW n \in Nat, DOMAIN request.roots = 1 .. n
    PROVE  /\ Admitted \in 0 .. n
           /\ \A i \in 1 .. Admitted : ~OverLimit(i)
           /\ ~Exhausted => Admitted = n
  <1> DEFINE T == {i \in 1 .. n : OverLimit(i)}
             A == {i \in 1 .. n : \A j \in 1 .. i : ~OverLimit(j)}
  <1>1. Admitted = Cardinality(A)
    BY DEF Admitted
  <1>2. CASE T = {}
    <2>0. \A i \in 1 .. n : ~OverLimit(i)
      BY <1>2
    <2>1. A = 1 .. n
      BY <2>0
    <2>2. Admitted = n
      <3> HIDE DEF A
      <3> QED  BY <1>1, <2>1, CountsOfRoots
    <2> QED  BY <2>0, <2>2
  <1>3. CASE T # {}
    <2>0. T \in SUBSET Nat
      OBVIOUS
    <2>1. PICK m \in T : \A y \in T : m <= y
      <3> HIDE DEF T
      <3> QED  BY <1>3, <2>0, Smallest
    <2>2. m - 1 \in Nat /\ m \in 1 .. n /\ OverLimit(m)
      BY <2>1
    <2>3. \A i \in 1 .. (m - 1) : ~OverLimit(i)
      BY <2>1, <2>2
    <2>4. A = 1 .. (m - 1)
      BY <2>2, <2>3
    <2>5. Admitted = m - 1
      BY <1>1, <2>2, <2>4, CountsOfRoots
    <2>6. Exhausted
      BY <2>2 DEF Exhausted
    <2> QED  BY <2>2, <2>3, <2>5, <2>6
  <1> QED  BY <1>2, <1>3

\* As many roots as are admitted can be charged.
LEMMA ChargesAreAllowed ==
    ASSUME TypeOK, ChargesCover, NEW n \in Nat, DOMAIN request.roots = 1 .. n,
           NEW k \in 0 .. n, \A i \in 1 .. k : ~OverLimit(i), NEW g \in Groups
    PROVE  Charge(g, k) \in Nat /\ charged[g] + Charge(g, k) <= Attempts
  <1> DEFINE T(j) == {i \in 1 .. j : g \in Policy(Field(i)).rateLimit}
  <1>1. \A j \in Nat : T(j) \in SUBSET (1 .. j)
    OBVIOUS
  <1>2. ASSUME NEW j \in Nat
        PROVE  Charge(g, j) = Cardinality(T(j)) /\ Charge(g, j) \in Nat
    <2>1. Charge(g, j) = Cardinality(T(j))
      BY DEF Charge
    <2> HIDE DEF T
    <2> QED  BY <1>1, <2>1, CountsOfRoots
  <1>3. charged[g] \in Nat /\ charged[g] <= Attempts /\ k \in Nat /\ Attempts \in Nat
    BY PathAssumption DEF TypeOK, ChargesCover
  <1>4. CASE T(k) = {}
    <2>1. Charge(g, k) = 0
      BY <1>2, <1>3, <1>4, FS_EmptySet
    <2> QED  BY <1>3, <2>1
  <1>5. CASE T(k) # {}
    <2>1. PICK m \in T(k) : \A y \in T(k) : y <= m
      BY <1>1, <1>3, <1>5, Greatest
    <2>2. m \in 1 .. k /\ m \in Nat /\ T(m) = T(k) /\ g \in Policy(Field(m)).rateLimit
      BY <2>1
    <2>3. Charge(g, k) = Charge(g, m)
      BY <1>2, <1>3, <2>2
    <2>4. ~(charged[g] + Charge(g, m) > Attempts)
      <3>1. ~ \E h \in Policy(Field(m)).rateLimit : charged[h] + Charge(h, m) > Attempts
        BY <2>2 DEF OverLimit
      <3>2. g \in Policy(Field(m)).rateLimit
        BY <2>2
      <3> HIDE DEF T
      <3> QED  BY <3>1, <3>2, Zenon
    <2>5. charged[g] \in Nat /\ Attempts \in Nat /\ Charge(g, m) \in Nat
      BY <1>2, <1>3, <2>2
    <2> QED  BY <2>3, <2>4, <2>5
  <1> QED  BY <1>4, <1>5


LEMMA ProtectKeeps == ASSUME IInv, Protect PROVE IInv'
  <1>1. /\ stage = "admitted" /\ stage' \in {"answered", "executing"}
        /\ UNCHANGED <<requests, request, validation, setCookie, calls, committed, sent, verdict>>
    BY DEF Protect, platformVars, browserVars
  <1>2. \/ ~IsMutation /\ charged' = charged
        \/ IsMutation /\ stage' = "answered" /\ charged' = charged
        \/ /\ IsMutation /\ ~SoleRootViolated
           /\ charged' = [g \in Groups |-> charged[g] + Charge(g, Admitted)]
           /\ stage' = "executing" => ~Exhausted
    BY DEF Protect
  <1>3. root' \in [DOMAIN request.roots -> {"waiting", "skipped", "BAD_REQUEST", "RATE_LIMITED"}]
    <2>1. \/ root' = [i \in DOMAIN request.roots |->
                        IF i \in Executed THEN "waiting" ELSE "skipped"]
          \/ root' = [i \in DOMAIN request.roots |-> "BAD_REQUEST"]
          \/ root' = [i \in DOMAIN request.roots |-> "RATE_LIMITED"]
      <3>1. root' = IF stage' = "executing"
                    THEN [i \in DOMAIN request.roots |->
                                    IF i \in Executed THEN "waiting" ELSE "skipped"]
                    ELSE [i \in DOMAIN request.roots |->
                             IF SoleRootViolated THEN "BAD_REQUEST" ELSE "RATE_LIMITED"]
        BY Zenon DEF Protect, Refused
      <3> QED  BY <3>1
    <2> QED  BY <2>1
  <1>4. /\ root = <<>> /\ verdict = <<>> /\ setCookie = "keep" /\ validation = "none"
        /\ committed = {} /\ \A c \in calls : c.request # requests
    BY <1>1 DEF IInv, NothingIsDoneYet
  <1>5. /\ \A i : Field(i)' = Field(i)
        /\ Fields' = Fields
    BY <1>1, SameRequest
  <1>6. PICK n \in Nat : DOMAIN request.roots = 1 .. n /\ Len(request.roots) = n
    BY RootsAreNumbered DEF IInv
  <1>7. TypeOK /\ ChargesCover
    BY DEF IInv
  <1>8. /\ Admitted \in 0 .. n /\ \A i \in 1 .. Admitted : ~OverLimit(i)
        /\ ~Exhausted => Admitted = n
    BY <1>6, TheFirstAreAdmitted
  <1>9. ASSUME NEW g \in Groups
        PROVE  Charge(g, Admitted) \in Nat /\ charged[g] + Charge(g, Admitted) <= Attempts
    BY <1>6, <1>7, <1>8, ChargesAreAllowed
  <1>10. charged' \in [Groups -> Nat]
    <2>1. \A g \in Groups : charged[g] \in Nat
      BY <1>7 DEF TypeOK
    <2>2. \A g \in Groups : charged[g] + Charge(g, Admitted) \in Nat
      BY <1>9, <2>1
    <2>3. charged \in [Groups -> Nat]
      BY <1>7 DEF TypeOK
    <2> QED  BY <1>2, <2>2, <2>3
  <1>11. TypeOK'
    <2>1. root' \in [DOMAIN request.roots -> Results]
      <3>1. {"waiting", "skipped", "BAD_REQUEST", "RATE_LIMITED"} \subseteq Results
        BY DEF Results, AuthCodes
      <3> QED  BY <1>3, <3>1
    <2> QED  BY <1>1, <1>5, <1>7, <1>10, <2>1 DEF TypeOK, IsCall
  <1>12. /\ NothingIsDoneYet' /\ VerdictsFollow'
         /\ CallsAreTracked' /\ ActivityIsEarned'
    <2>1. NothingIsDoneYet'
      BY <1>1, <1>4 DEF NothingIsDoneYet
    <2>2. \A c \in calls' : c.request # requests'
      BY <1>1, <1>4
    <2>3. CallsAreTracked' /\ ActivityIsEarned'
      BY <2>2 DEF CallsAreTracked, Pending, ActivityIsEarned
    <2>4. VerdictsFollow'
      BY <1>1, <1>4 DEF VerdictsFollow
    <2> QED  BY <2>1, <2>3, <2>4
  <1>13. \A i \in DOMAIN root' : root'[i] \in {"waiting", "skipped", "BAD_REQUEST", "RATE_LIMITED"}
    BY <1>3
  <1>14. RootsAreTrue' /\ SessionIsShared'
    BY <1>1, <1>4, <1>13 DEF RootsAreTrue, SessionIsShared, Validates
  <1>15. CookieIsTold'
    <2>1. ASSUME stage' = "executing", NEW i \in DOMAIN request.roots,
                 NEW j \in DOMAIN request.roots, Field(i) \in {"signIn", "signOut"}
          PROVE  i = j
      <3>1. Field(i) \in Fields
        BY <1>7, FieldsAreKnown
      <3>2. IsMutation
        BY <1>7, <2>1, <3>1 DEF TypeOK, IsMutation, Queries
      <3>3. ~SoleRootViolated
        BY <1>1, <1>2, <2>1, <3>2
      <3>4. Policy(Field(i)).requiresSoleRoot
        BY <2>1 DEF Policy
      <3>5. n = 1
        BY <1>6, <3>1, <3>3, <3>4 DEF SoleRootViolated
      <3> QED  BY <1>6, <3>5
    <2>2. \A i \in DOMAIN root' : root'[i] # "data"
      BY <1>13
    <2> QED  BY <1>1, <1>4, <1>5, <2>1, <2>2 DEF CookieIsTold
  <1>16. ChargesCover'
    <2>1. ASSUME NEW g \in Groups
          PROVE  sent[g] <= charged'[g] /\ charged'[g] <= Attempts
      <3>1. /\ charged[g] \in Nat /\ sent[g] \in Nat /\ sent[g] <= charged[g]
            /\ charged[g] <= Attempts /\ Attempts \in Nat
        BY <1>7, PathAssumption DEF TypeOK, ChargesCover
      <3>2. charged'[g] \in {charged[g], charged[g] + Charge(g, Admitted)}
        BY <1>2
      <3> QED  BY <1>9, <3>1, <3>2
    <2>2. ASSUME NEW g \in Groups, stage' = "executing"
          PROVE  sent[g] + Cardinality(Due(g)') <= charged'[g]
      <3> DEFINE T == {i \in 1 .. n : g \in Policy(Field(i)).rateLimit}
                 D == Due(g)'
      <3>1. D \in SUBSET T
        BY <1>3, <1>5, <1>6 DEF Due
      <3>2. T \in SUBSET (1 .. n)
        OBVIOUS
      <3>3. Charge(g, n) = Cardinality(T)
        BY DEF Charge
      <3>4. charged[g] \in Nat /\ sent[g] \in Nat /\ sent[g] <= charged[g]
        BY <1>7 DEF TypeOK, ChargesCover
      <3>5. CASE IsMutation
        <4>1. charged'[g] = charged[g] + Charge(g, n)
          BY <1>2, <1>8, <2>2, <3>5
        <4> HIDE DEF D, T
        <4>2. D \in SUBSET (1 .. n)
          BY <3>1, <3>2
        <4>3. /\ Cardinality(D) \in Nat /\ Cardinality(T) \in Nat
              /\ Cardinality(D) <= Cardinality(T)
          BY <3>1, <3>2, <4>2, CountsOfRoots
        <4> QED  BY <3>3, <3>4, <4>1, <4>3 DEF D
      <3>6. CASE ~IsMutation
        <4>1. \A i \in 1 .. n : Field(i) \in Queries
          BY <1>6, <1>7, <3>6, FieldsAreKnown DEF TypeOK, IsMutation
        <4>2. \A i \in 1 .. n : Policy(Field(i)).rateLimit = {}
          BY <4>1 DEF Policy, Queries
        <4>3. T = {}
          BY <4>2
        <4>4. D = {}
          BY <3>1, <4>3
        <4>5. Cardinality(D) = 0
          BY <4>4, FS_EmptySet
        <4>6. charged'[g] = charged[g]
          BY <1>2, <3>6
        <4> QED  BY <3>4, <4>5, <4>6
      <3> QED  BY <3>5, <3>6
    <2> QED  BY <1>1, <2>1, <2>2 DEF ChargesCover
  <1> QED  BY <1>11, <1>12, <1>14, <1>15, <1>16 DEF IInv


-----------------------------------------------------------------------------
(* The steps of a request that is being executed. *)

LEMMA WhileExecuting ==
    ASSUME IInv, stage = "executing"
    PROVE  /\ root \in [DOMAIN request.roots -> Results] /\ verdict = <<>>
           /\ DOMAIN root = DOMAIN request.roots
           /\ \A i \in DOMAIN root : Field(i) \in AllFields
  <1>1. root \in [DOMAIN request.roots -> Results] /\ verdict = <<>>
    BY DEF IInv, TypeOK, NothingIsDoneYet
  <1>2. DOMAIN root = DOMAIN request.roots
    BY <1>1
  <1> QED  BY <1>1, <1>2, FieldsAreKnown DEF IInv

\* One root gets a result, or gets on.
LEMMA OneRootMoves ==
    ASSUME IInv, stage = "executing", NEW i \in DOMAIN root, NEW r \in Results,
           root' = [root EXCEPT ![i] = r]
    PROVE  /\ root' \in [DOMAIN request.roots -> Results]
           /\ DOMAIN root' = DOMAIN root /\ root'[i] = r
           /\ \A j \in DOMAIN root : root'[j] = IF j = i THEN r ELSE root[j]
  BY WhileExecuting

LEMMA DueIsFinite ==
    ASSUME IInv, stage = "executing", NEW g
    PROVE  /\ IsFiniteSet(Due(g)) /\ Cardinality(Due(g)) \in Nat
  <1>1. PICK n \in Nat : DOMAIN request.roots = 1 .. n
    BY RootsAreNumbered DEF IInv
  <1>2. Due(g) \in SUBSET (1 .. n)
    BY <1>1, WhileExecuting DEF Due
  <1> HIDE DEF Due
  <1> QED  BY <1>2, CountsOfRoots

LEMMA DueShrinks ==
    ASSUME IInv, stage = "executing", NEW i \in DOMAIN root, NEW r \in Results \ {"waiting"},
           root' = [root EXCEPT ![i] = r], request' = request, NEW g
    PROVE  /\ Due(g)' = Due(g) \ {i}
           /\ Cardinality(Due(g)') \in Nat
           /\ Cardinality(Due(g)') = IF i \in Due(g) THEN Cardinality(Due(g)) - 1
                                         ELSE Cardinality(Due(g))
  <1>1. Due(g)' = Due(g) \ {i}
    BY OneRootMoves, SameRequest DEF Due
  <1>2. /\ IsFiniteSet(Due(g) \ {i})
        /\ Cardinality(Due(g) \ {i}) = IF i \in Due(g) THEN Cardinality(Due(g)) - 1
                                         ELSE Cardinality(Due(g))
    BY DueIsFinite, FS_RemoveElement
  <1> QED  BY <1>1, <1>2, DueIsFinite, FS_CardinalityType

\* No command is sent by the step.
LEMMA SameCharges ==
    ASSUME IInv, UNCHANGED <<request, stage, charged, sent>>,
           \/ root' = root
           \/ /\ stage = "executing"
              /\ \E i \in DOMAIN root : \E r \in Results \ {"waiting"} :
                    root' = [root EXCEPT ![i] = r]
    PROVE  ChargesCover'
  <1>1. ChargesCover
    BY DEF IInv
  <1>2. CASE root' = root
    <2>1. \A g : Due(g)' = Due(g)
      BY <1>2, SameRequest DEF Due
    <2> QED  BY <1>1, <2>1 DEF ChargesCover
  <1>3. ASSUME stage = "executing", NEW i \in DOMAIN root, NEW r \in Results \ {"waiting"},
               root' = [root EXCEPT ![i] = r]
        PROVE  ChargesCover'
    <2>1. ASSUME NEW g \in Groups
          PROVE  sent[g] + Cardinality(Due(g)') <= charged[g]
      <3>1. /\ Cardinality(Due(g)') \in Nat /\ Cardinality(Due(g)) \in Nat
            /\ Cardinality(Due(g)') <= Cardinality(Due(g))
        <4>1. Cardinality(Due(g)) \in Nat
          BY <1>3, DueIsFinite
        <4>2. /\ Cardinality(Due(g)') \in Nat
              /\ \/ Cardinality(Due(g)') = Cardinality(Due(g)) - 1
                 \/ Cardinality(Due(g)') = Cardinality(Due(g))
          BY <1>3, DueShrinks, Zenon
        <4> QED  BY <4>1, <4>2
      <3>2. sent[g] + Cardinality(Due(g)) <= charged[g]
        BY <1>1, <1>3 DEF ChargesCover
      <3>3. sent[g] \in Nat /\ charged[g] \in Nat
        BY DEF IInv, TypeOK
      <3> QED  BY <3>1, <3>2, <3>3
    <2> QED  BY <1>1, <2>1 DEF ChargesCover
  <1> QED  BY <1>2, <1>3

\* A root that has no call under way.
LEMMA UncalledRoot ==
    ASSUME IInv, NEW i \in DOMAIN root, root[i] \in {"waiting", "guarded"}
    PROVE  /\ \A c \in calls : Pending(c) => c.root # i
           /\ i \notin committed
  <1>1. \A c \in calls : Pending(c) => c.root # i
    BY DEF IInv, CallsAreTracked, CallIsTracked
  <1>2. i \notin committed
    BY DEF IInv, RootsAreTrue
  <1> QED  BY <1>1, <1>2


\* The parts that every step of execution keeps in the same way.
LEMMA StillExecuting ==
    ASSUME IInv, stage = "executing",
           UNCHANGED <<requests, request, stage, verdict>>
    PROVE  /\ NothingIsDoneYet' /\ VerdictsFollow'
           /\ \A i : Field(i)' = Field(i)
           /\ Fields' = Fields
  <1>1. NothingIsDoneYet'
    BY WhileExecuting DEF NothingIsDoneYet
  <1>2. VerdictsFollow'
    BY WhileExecuting DEF VerdictsFollow
  <1> QED  BY <1>1, <1>2, SameRequest

LEMMA StillTyped ==
    ASSUME IInv, stage = "executing", UNCHANGED <<requests, request, stage>>,
           root' \in [DOMAIN request.roots -> Results],
           validation' \in AuthCodes \cup {"none", "pending", "data"},
           \A c \in calls' : IsCall(c) /\ c.request \in 0 .. requests,
           charged' \in [Groups -> Nat], sent' \in [Groups -> Nat]
    PROVE  TypeOK'
  <1>1. Fields' = Fields
    BY SameRequest
  <1> QED  BY <1>1 DEF IInv, TypeOK, IsCall

LEMMA StartPublicKeeps ==
    ASSUME IInv, NEW i \in DOMAIN root, StartPublic(i) PROVE IInv'
  <1> DEFINE group(g) == g \in Policy(Field(i)).rateLimit
             r == IF Field(i) = "signOut" /\ ~Readable THEN "data" ELSE "calling"
  <1>1. /\ stage = "executing" /\ root[i] = "waiting" /\ Field(i) \in Public
        /\ UNCHANGED <<requests, request, stage, validation, cookie, verdict, committed, live,
                       charged>>
        /\ sent' = [g \in Groups |-> IF group(g) THEN sent[g] + 1 ELSE sent[g]]
        /\ root' = [root EXCEPT ![i] = r]
    BY DEF StartPublic, MayStart, browserVars
  <1>2. \/ /\ Field(i) = "signOut" /\ r = "data" /\ setCookie' = "clear" /\ calls' = calls
        \/ /\ r = "calling" /\ UNCHANGED setCookie
           /\ \E session : calls' = calls \cup {Call(i, Field(i), session, FALSE)}
    BY DEF StartPublic
  <1>3. r \in Results \ {"waiting"}
    BY DEF Results
  <1> HIDE DEF r
  <1>4. /\ root' \in [DOMAIN request.roots -> Results]
        /\ DOMAIN root' = DOMAIN root /\ root'[i] = r
        /\ \A j \in DOMAIN root : root'[j] = IF j = i THEN r ELSE root[j]
    BY <1>1, <1>3, OneRootMoves
  <1>5. /\ NothingIsDoneYet' /\ VerdictsFollow'
        /\ \A j : Field(j)' = Field(j)
        /\ DOMAIN root = DOMAIN request.roots
    BY <1>1, StillExecuting, WhileExecuting
  <1>6. /\ i \notin committed
        /\ \A c \in calls : Pending(c) => c.root # i
    BY <1>1, UncalledRoot
  <1>7. PICK session : \/ calls' = calls /\ r = "data"
                       \/ /\ calls' = calls \cup {Call(i, Field(i), session, FALSE)}
                          /\ r = "calling"
    BY <1>2
  <1>8. PICK new : new = Call(i, Field(i), session, FALSE)
    OBVIOUS
  <1>9. /\ IsCall(new) /\ new.request \in 0 .. requests /\ new.request = requests
        /\ new.root = i /\ new.op = Field(i) /\ new.activity = FALSE /\ new.state = "sent"
    <2>1. requests \in Nat
      BY DEF IInv, TypeOK
    <2> QED  BY <1>8, <2>1 DEF Call, IsCall
  <1>10. \A c \in calls' : c \in calls \/ (c = new /\ r = "calling")
    BY <1>7, <1>8
  <1>11. TypeOK'
    <2>1. charged' \in [Groups -> Nat] /\ sent' \in [Groups -> Nat]
      BY <1>1 DEF IInv, TypeOK
    <2>2. \A c \in calls : IsCall(c) /\ c.request \in 0 .. requests
      BY DEF IInv, TypeOK
    <2>3. \A c \in calls' : IsCall(c) /\ c.request \in 0 .. requests
      BY <1>9, <1>10, <2>2
    <2>4. validation' \in AuthCodes \cup {"none", "pending", "data"}
      BY <1>1 DEF IInv, TypeOK
    <2> QED  BY <1>1, <1>4, <2>1, <2>3, <2>4, StillTyped
  <1>12. CallsAreTracked'
    <2>1. \A c \in calls' : Pending(c)' =>
             Pending(c) /\ (c = new \/ (c \in calls /\ c.root # i))
      BY <1>1, <1>6, <1>10 DEF Pending
    <2>2. ASSUME NEW c \in calls, Pending(c) PROVE CallIsTracked(c)'
      <3>1. CallIsTracked(c) /\ c.root # i
        BY <1>6, <2>2 DEF IInv, CallsAreTracked
      <3> QED  BY <1>1, <1>4, <1>5, <3>1 DEF CallIsTracked
    <2>3. r = "calling" => CallIsTracked(new)'
      BY <1>1, <1>4, <1>5, <1>6, <1>9 DEF CallIsTracked
    <2>4. \A c \in calls' : Pending(c)' => CallIsTracked(c)'
      BY <1>10, <2>1, <2>2, <2>3
    <2>5. \A c, d \in calls' : Pending(c)' /\ Pending(d)' /\ c.root = d.root => c = d
      BY <1>9, <2>1 DEF IInv, CallsAreTracked
    <2> QED  BY <2>4, <2>5 DEF CallsAreTracked, Pending
  <1>13. RootsAreTrue'
    <2>1. ~Rejected(Field(i), r)
      BY <1>2 DEF Rejected
    <2>2. r = "data" => Field(i) = "signOut"
      BY <1>2
    <2> QED  BY <1>1, <1>2, <1>4, <1>5, <2>1, <2>2 DEF IInv, RootsAreTrue
  <1>14. SessionIsShared'
    <2>1. Field(i) # "validate"
      BY <1>1 DEF Public
    <2>2. \A c \in calls' : Validates(c)' => c \in calls /\ Validates(c)
      BY <1>1, <1>9, <1>10, <2>1 DEF Validates
    <2>3. SessionIsShared
      BY DEF IInv
    <2>4. \A j \in DOMAIN root : Field(j) \notin Public => root'[j] = root[j]
      BY <1>1, <1>4
    <2> QED  BY <1>1, <1>4, <1>5, <2>2, <2>3, <2>4 DEF SessionIsShared
  <1>15. CookieIsTold'
    <2>1. CookieIsTold
      BY DEF IInv
    <2> QED  BY <1>1, <1>2, <1>4, <1>5, <2>1 DEF CookieIsTold
  <1>16. ActivityIsEarned'
    BY <1>1, <1>9, <1>10 DEF IInv, ActivityIsEarned
  <1>17. ChargesCover'
    <2>1. ASSUME NEW g \in Groups
          PROVE  /\ sent'[g] + Cardinality(Due(g)') <= charged[g]
                 /\ sent'[g] <= charged[g] /\ charged[g] <= Attempts
      <3>1. i \in Due(g) <=> group(g)
        BY <1>1 DEF Due
      <3>2. sent'[g] = IF group(g) THEN sent[g] + 1 ELSE sent[g]
        BY <1>1
      <3> HIDE DEF group
      <3>3. Cardinality(Due(g)) \in Nat
        BY <1>1, DueIsFinite
      <3>4. /\ Cardinality(Due(g)') \in Nat
            /\ Cardinality(Due(g)') = IF i \in Due(g) THEN Cardinality(Due(g)) - 1
                                          ELSE Cardinality(Due(g))
        BY <1>1, <1>3, DueShrinks, Zenon
      <3>5. /\ sent[g] \in Nat /\ charged[g] \in Nat /\ charged[g] <= Attempts
            /\ sent[g] + Cardinality(Due(g)) <= charged[g]
        BY <1>1 DEF IInv, TypeOK, ChargesCover
      <3>6. sent'[g] + Cardinality(Due(g)') = sent[g] + Cardinality(Due(g))
        BY <3>1, <3>2, <3>3, <3>4, <3>5
      <3>7. sent'[g] \in Nat
        BY <3>2, <3>5
      <3> QED  BY <3>4, <3>5, <3>6, <3>7
    <2> QED  BY <1>1, <2>1 DEF ChargesCover
  <1> QED  BY <1>5, <1>11, <1>12, <1>13, <1>14, <1>15, <1>16, <1>17 DEF IInv


\* A root is guarded: nobody has called for it, and the validation is started at most once.
LEMMA GuardKeeps == ASSUME IInv, NEW i \in DOMAIN root, Guard(i) PROVE IInv'
  <1>1. /\ stage = "executing" /\ root[i] = "waiting" /\ Field(i) \notin Public
        /\ UNCHANGED <<requests, request, stage, setCookie, cookie, verdict, committed, live,
                       charged, sent>>
        /\ root' = [root EXCEPT ![i] = "guarded"]
    BY DEF Guard, MayStart, browserVars, limitVars
  <1>2. \/ calls' = calls /\ validation' = validation
        \/ validation = "none" /\ calls' = calls /\ validation' = "SESSION_INVALID"
        \/ /\ validation = "none" /\ validation' = "pending"
           /\ calls' = calls \cup {Call(i, "validate", cookie, Activity)}
    BY DEF Guard, MustValidate
  <1>3. "guarded" \in Results \ {"waiting"}
    BY DEF Results
  <1>4. /\ root' \in [DOMAIN request.roots -> Results]
        /\ DOMAIN root' = DOMAIN root /\ root'[i] = "guarded"
        /\ \A j \in DOMAIN root : root'[j] = IF j = i THEN "guarded" ELSE root[j]
    BY <1>1, <1>3, OneRootMoves
  <1>5. /\ NothingIsDoneYet' /\ VerdictsFollow'
        /\ \A j : Field(j)' = Field(j)
        /\ DOMAIN root = DOMAIN request.roots
    BY <1>1, StillExecuting, WhileExecuting
  <1>6. /\ i \notin committed
        /\ \A c \in calls : Pending(c) => c.root # i
    BY <1>1, UncalledRoot
  <1>7. PICK new : new = Call(i, "validate", cookie, Activity)
    OBVIOUS
  <1>8. /\ IsCall(new) /\ new.request \in 0 .. requests /\ new.request = requests
        /\ new.op = "validate" /\ new.activity = Activity
    <2>1. requests \in Nat
      BY DEF IInv, TypeOK
    <2> QED  BY <1>7, <2>1 DEF Call, IsCall
  <1>9. \A c \in calls' : c \in calls \/ (c = new /\ validation = "none" /\ validation' = "pending")
    BY <1>2, <1>7
  <1>10. TypeOK'
    <2>1. \A c \in calls : IsCall(c) /\ c.request \in 0 .. requests
      BY DEF IInv, TypeOK
    <2>2. \A c \in calls' : IsCall(c) /\ c.request \in 0 .. requests
      BY <1>8, <1>9, <2>1
    <2>3. validation' \in AuthCodes \cup {"none", "pending", "data"}
      BY <1>2 DEF IInv, TypeOK, AuthCodes
    <2>4. charged' \in [Groups -> Nat] /\ sent' \in [Groups -> Nat]
      BY <1>1 DEF IInv, TypeOK
    <2> QED  BY <1>1, <1>4, <2>2, <2>3, <2>4, StillTyped
  <1>11. CallsAreTracked'
    <2>1. \A c \in calls' : Pending(c)' => Pending(c) /\ c \in calls /\ c.root # i
      BY <1>1, <1>6, <1>8, <1>9 DEF Pending
    <2>2. ASSUME NEW c \in calls, Pending(c) PROVE CallIsTracked(c)'
      <3>1. CallIsTracked(c) /\ c.root # i
        BY <1>6, <2>2 DEF IInv, CallsAreTracked
      <3> QED  BY <1>1, <1>4, <1>5, <3>1 DEF CallIsTracked
    <2>3. \A c, d \in calls : Pending(c) /\ Pending(d) /\ c.root = d.root => c = d
      BY DEF IInv, CallsAreTracked
    <2> QED  BY <2>1, <2>2, <2>3 DEF CallsAreTracked
  <1>12. RootsAreTrue'
    BY <1>1, <1>4, <1>5, <1>6 DEF IInv, RootsAreTrue
  <1>13. SessionIsShared'
    <2>1. SessionIsShared
      BY DEF IInv
    <2>2. CASE validation' = validation /\ calls' = calls
      BY <1>1, <1>4, <1>5, <2>1, <2>2 DEF SessionIsShared, Validates
    <2>3. CASE validation = "none" /\ validation' \in {"SESSION_INVALID", "pending"}
      <3>1. \A c \in calls : ~Validates(c)
        BY <2>1, <2>3 DEF SessionIsShared
      <3>2. \A c \in calls' : Validates(c)' => c = new /\ validation' = "pending"
        BY <1>1, <1>9, <3>1 DEF Validates
      <3>3. \A j \in DOMAIN root : Field(j) \notin Public =>
               root'[j] \notin {"SESSION_INVALID", "data", "FORBIDDEN", "CONFLICT", "calling"}
        BY <1>4, <2>1, <2>3 DEF SessionIsShared
      <3> QED  BY <1>4, <1>5, <3>2, <3>3 DEF SessionIsShared
    <2> QED  BY <1>2, <2>2, <2>3
  <1>14. CookieIsTold'
    BY <1>1, <1>4, <1>5 DEF IInv, CookieIsTold
  <1>15. ActivityIsEarned'
    <2>1. ASSUME Activity
          PROVE  \E j \in DOMAIN request.roots :
                    request.roots[j] \in [field : {"documentTypes", "submit"}, executed : {TRUE}]
      <3>1. PICK j \in DOMAIN request.roots :
                request.roots[j].executed /\ Policy(Field(j)).recordActivity
        BY <2>1 DEF Activity, Executed
      <3>2. Field(j) \in {"documentTypes", "submit"}
        BY <3>1 DEF Policy
      <3>3. /\ request.roots[j] = [field |-> Field(j), executed |-> request.roots[j].executed]
            /\ request.roots[j].executed \in BOOLEAN
        <4>1. TypeOK
          BY DEF IInv
        <4>2. request.roots[j].executed \in BOOLEAN
          BY <4>1, FieldsAreKnown
        <4>3. request.roots[j] = [field |-> Field(j), executed |-> request.roots[j].executed]
          BY <4>1, FieldsAreKnown
        <4> QED  BY <4>2, <4>3
      <3>4. request.roots[j].executed = TRUE
        BY <3>1, <3>3
      <3>5. request.roots[j] = [field |-> Field(j), executed |-> TRUE]
        BY <3>3, <3>4
      <3>6. request.roots[j] \in [field : {"documentTypes", "submit"}, executed : {TRUE}]
        BY <3>2, <3>5
      <3> QED  BY <3>6
    <2> QED  BY <1>1, <1>8, <1>9, <2>1 DEF IInv, ActivityIsEarned
  <1>16. ChargesCover'
    BY <1>1, <1>3, SameCharges
  <1> QED  BY <1>5, <1>10, <1>11, <1>12, <1>13, <1>14, <1>15, <1>16 DEF IInv

\* A guarded root is refused, served by the gateway, or calls the platform.
LEMMA ResolveKeeps == ASSUME IInv, NEW i \in DOMAIN root, Resolve(i) PROVE IInv'
  <1>1. /\ stage = "executing" /\ root[i] = "guarded" /\ validation \notin {"none", "pending"}
        /\ UNCHANGED <<requests, request, stage, validation, setCookie, cookie, verdict, live,
                       charged, sent>>
    BY DEF Resolve, browserVars, limitVars
  <1>2. PICK r : /\ root' = [root EXCEPT ![i] = r]
                 /\ \/ /\ validation # "data" /\ r = validation
                       /\ UNCHANGED <<calls, committed>>
                    \/ /\ validation = "data" /\ Field(i) \in {"me", "documentTypes"}
                       /\ r = IF Field(i) = "me" THEN "data" ELSE "FORBIDDEN"
                       /\ UNCHANGED <<calls, committed>>
                    \/ /\ validation = "data" /\ Field(i) = "submit" /\ calls' = calls
                       /\ r \in {"data", "FORBIDDEN", "CONFLICT"}
                       /\ committed' = IF r = "data" THEN committed \cup {i} ELSE committed
                    \/ /\ validation = "data" /\ Field(i) = "documentTypes" /\ r = "calling"
                       /\ calls' = calls \cup {Call(i, Field(i), None, FALSE)}
                       /\ committed' = committed
    BY Zenon DEF Resolve
  <1>3. r \in Results \ {"waiting", "skipped", "guarded"}
    <2>1. validation \in AuthCodes \cup {"data"}
      BY <1>1 DEF IInv, TypeOK
    <2> QED  BY <1>2, <2>1 DEF Results, AuthCodes
  <1>4. /\ root' \in [DOMAIN request.roots -> Results]
        /\ DOMAIN root' = DOMAIN root /\ root'[i] = r
        /\ \A j \in DOMAIN root : root'[j] = IF j = i THEN r ELSE root[j]
    BY <1>1, <1>2, <1>3, OneRootMoves
  <1>5. /\ NothingIsDoneYet' /\ VerdictsFollow'
        /\ \A j : Field(j)' = Field(j)
        /\ DOMAIN root = DOMAIN request.roots
    BY <1>1, StillExecuting, WhileExecuting
  <1>6. /\ i \notin committed
        /\ \A c \in calls : Pending(c) => c.root # i
    BY <1>1, UncalledRoot
  <1>7. PICK new : new = Call(i, Field(i), None, FALSE)
    OBVIOUS
  <1>8. /\ IsCall(new) /\ new.request \in 0 .. requests /\ new.request = requests
        /\ new.root = i /\ new.op = Field(i) /\ new.activity = FALSE /\ new.state = "sent"
    <2>1. requests \in Nat
      BY DEF IInv, TypeOK
    <2> QED  BY <1>7, <2>1 DEF Call, IsCall
  <1>9. \A c \in calls' : \/ c \in calls
                          \/ /\ c = new /\ r = "calling" /\ validation = "data"
                             /\ Field(i) = "documentTypes"
    BY <1>2, <1>7
  <1>10. /\ \A j \in DOMAIN root : j # i => (j \in committed' <=> j \in committed)
         /\ i \in committed' => r = "data"
         /\ Field(i) \in {"signIn", "confirmEmail", "submit"} /\ r = "data" => i \in committed'
    BY <1>1, <1>2, <1>6
  <1>11. TypeOK'
    <2>1. \A c \in calls : IsCall(c) /\ c.request \in 0 .. requests
      BY DEF IInv, TypeOK
    <2>2. \A c \in calls' : IsCall(c) /\ c.request \in 0 .. requests
      BY <1>8, <1>9, <2>1
    <2>3. validation' \in AuthCodes \cup {"none", "pending", "data"}
      BY <1>1 DEF IInv, TypeOK
    <2>4. charged' \in [Groups -> Nat] /\ sent' \in [Groups -> Nat]
      BY <1>1 DEF IInv, TypeOK
    <2> QED  BY <1>1, <1>4, <2>2, <2>3, <2>4, StillTyped
  <1>12. CallsAreTracked'
    <2>1. \A c \in calls' : Pending(c)' =>
             Pending(c) /\ (c = new \/ (c \in calls /\ c.root # i))
      BY <1>1, <1>6, <1>9 DEF Pending
    <2>2. ASSUME NEW c \in calls, Pending(c) PROVE CallIsTracked(c)'
      <3>1. CallIsTracked(c) /\ c.root # i
        BY <1>6, <2>2 DEF IInv, CallsAreTracked
      <3>2. c.root \in DOMAIN root
        BY <3>1 DEF CallIsTracked
      <3>3. root'[c.root] = root[c.root] /\ (c.root \in committed' <=> c.root \in committed)
        BY <1>4, <1>10, <3>1, <3>2
      <3> QED  BY <1>4, <1>5, <3>1, <3>3 DEF CallIsTracked
    <2>3. r = "calling" /\ Field(i) = "documentTypes" => CallIsTracked(new)'
      BY <1>1, <1>4, <1>5, <1>8, <1>10 DEF CallIsTracked
    <2>4. \A c \in calls' : Pending(c)' => CallIsTracked(c)'
      BY <1>9, <2>1, <2>2, <2>3
    <2>5. \A c, d \in calls' : Pending(c)' /\ Pending(d)' /\ c.root = d.root => c = d
      BY <1>8, <2>1 DEF IInv, CallsAreTracked
    <2> QED  BY <2>4, <2>5 DEF CallsAreTracked, Pending
  <1>13. RootsAreTrue'
    <2>1. ASSUME NEW j \in DOMAIN root, j # i
          PROVE  /\ root'[j] = root[j]
                 /\ j \in committed' <=> j \in committed
      BY <1>4, <1>10, <2>1
    <2>2. Rejected(Field(i), r) => i \notin committed'
      BY <1>10 DEF Rejected
    <2> QED  BY <1>3, <1>4, <1>5, <1>10, <2>1, <2>2 DEF IInv, RootsAreTrue
  <1>14. SessionIsShared'
    <2>1. SessionIsShared
      BY DEF IInv
    <2>2. /\ r = "SESSION_INVALID" => validation = "SESSION_INVALID"
          /\ r \in {"data", "FORBIDDEN", "CONFLICT", "calling"} => validation = "data"
      <3>1. validation \in AuthCodes \cup {"data"}
        BY <1>1 DEF IInv, TypeOK
      <3> QED  BY <1>2, <3>1 DEF AuthCodes
    <2>3. \A c \in calls' : Validates(c)' => c \in calls /\ Validates(c)
      BY <1>1, <1>8, <1>9 DEF Validates
    <2> QED  BY <1>1, <1>4, <1>5, <2>1, <2>2, <2>3 DEF SessionIsShared
  <1>15. CookieIsTold'
    <2>1. Field(i) \in {"signIn", "signOut"} => r # "data"
      BY <1>2
    <2> QED  BY <1>1, <1>4, <1>5, <2>1 DEF IInv, CookieIsTold
  <1>16. ActivityIsEarned'
    BY <1>1, <1>8, <1>9 DEF IInv, ActivityIsEarned
  <1>17. ChargesCover'
    <2>1. \E q \in Results \ {"waiting"} : root' = [root EXCEPT ![i] = q]
      BY <1>2, <1>3
    <2> QED  BY <1>1, <2>1, SameCharges
  <1> QED  BY <1>5, <1>11, <1>12, <1>13, <1>14, <1>15, <1>16, <1>17 DEF IInv


-----------------------------------------------------------------------------
(* What becomes of a call. *)

\* The validation is known, one way or the other: the roots that wait for it go on.
LEMMA ValidationSettles ==
    ASSUME IInv, stage = "executing", NEW c \in calls, Validates(c),
           validation' \in AuthCodes \cup {"data"}, calls' = calls \ {c},
           UNCHANGED <<requests, request, stage, root, setCookie, committed, verdict, charged,
                       sent>>
    PROVE  IInv'
  <1>1. /\ NothingIsDoneYet' /\ VerdictsFollow'
        /\ \A j : Field(j)' = Field(j)
    BY StillExecuting
  <1>2. TypeOK'
    <2>1. root' \in [DOMAIN request.roots -> Results]
      BY WhileExecuting
    <2>2. \A d \in calls' : IsCall(d) /\ d.request \in 0 .. requests
      BY DEF IInv, TypeOK
    <2>3. charged' \in [Groups -> Nat] /\ sent' \in [Groups -> Nat]
      BY DEF IInv, TypeOK
    <2> QED  BY <2>1, <2>2, <2>3, StillTyped
  <1>3. CallsAreTracked'
    <2>1. CallsAreTracked
      BY DEF IInv
    <2> QED  BY <1>1, <2>1 DEF CallsAreTracked, CallIsTracked, Pending
  <1>4. RootsAreTrue'
    BY <1>1 DEF IInv, RootsAreTrue
  <1>5. SessionIsShared'
    <2>1. SessionIsShared
      BY DEF IInv
    <2>2. validation = "pending"
      BY <2>1 DEF SessionIsShared
    <2>3. \A j \in DOMAIN root : Field(j) \notin Public =>
             root[j] \notin {"SESSION_INVALID", "data", "FORBIDDEN", "CONFLICT", "calling"}
      BY <2>1, <2>2 DEF SessionIsShared
    <2>4. \A d \in calls' : ~Validates(d)'
      BY <2>1 DEF SessionIsShared, Validates
    <2> QED  BY <1>1, <2>3, <2>4 DEF SessionIsShared
  <1>6. CookieIsTold'
    BY <1>1 DEF IInv, CookieIsTold
  <1>7. ActivityIsEarned'
    BY DEF IInv, ActivityIsEarned
  <1>8. ChargesCover'
    BY SameCharges
  <1> QED  BY <1>1, <1>2, <1>3, <1>4, <1>5, <1>6, <1>7, <1>8 DEF IInv

\* A command or the document types are answered, or given up; a command that has been sent
\* may then still be done.
LEMMA CommandSettles ==
    ASSUME IInv, stage = "executing", NEW c \in calls, Pending(c),
           NEW r \in Results \ {"waiting", "guarded", "calling", "skipped"},
           root' = [root EXCEPT ![c.root] = r],
           \/ calls' = calls \ {c}
           \/ /\ r = "DEPENDENCY_UNAVAILABLE" /\ c.op \in Commands
              /\ calls' = (calls \ {c}) \cup {[c EXCEPT !.state = "abandoned"]},
           setCookie' = IF c.op = "signOut" THEN "clear"
                        ELSE IF c.op = "signIn" /\ r = "data" THEN "set" ELSE setCookie,
           r = "data" => c.root \in committed \/ c.op \notin {"signIn", "confirmEmail", "submit"},
           Rejected(c.op, r) => c.root \notin committed,
           c.op = "documentTypes" => r \in {"data", "EXPECTED", "INTERNAL_SERVER_ERROR"},
           UNCHANGED <<requests, request, stage, validation, committed, verdict, charged, sent>>
    PROVE  IInv'
  <1>1. /\ NothingIsDoneYet' /\ VerdictsFollow'
        /\ \A j : Field(j)' = Field(j)
        /\ DOMAIN root = DOMAIN request.roots
    BY StillExecuting, WhileExecuting
  <1>2. /\ c.root \in DOMAIN root /\ c.op = Field(c.root)
        /\ c.op \in Public \cup {"documentTypes"}
        /\ \/ root[c.root] = "calling"
           \/ c.op \in Commands /\ root[c.root] = "DEPENDENCY_UNAVAILABLE"
        /\ \A d \in calls : Pending(d) /\ d.root = c.root => d = c
    BY DEF IInv, CallsAreTracked, CallIsTracked
  <1>3. /\ root' \in [DOMAIN request.roots -> Results]
        /\ DOMAIN root' = DOMAIN root /\ root'[c.root] = r
        /\ \A j \in DOMAIN root : root'[j] = IF j = c.root THEN r ELSE root[j]
    BY <1>2, OneRootMoves
  <1>4. \A d \in calls : IsCall(d) /\ d.request \in 0 .. requests
    BY DEF IInv, TypeOK
  <1>5. PICK left : left = [c EXCEPT !.state = "abandoned"]
    OBVIOUS
  <1>6. /\ left = [request |-> c.request, root |-> c.root, op |-> c.op, session |-> c.session,
                   activity |-> c.activity, state |-> "abandoned", response |-> c.response]
    BY <1>4, <1>5 DEF IsCall
  <1>7. /\ IsCall(left) /\ left.request = requests /\ left.root = c.root /\ left.op = c.op
        /\ left.activity = c.activity /\ left.state = "abandoned" /\ left.op # "validate"
    BY <1>6 DEF IsCall, Pending
  <1>8. \A d \in calls' : \/ d \in calls /\ d # c
                          \/ d = left /\ r = "DEPENDENCY_UNAVAILABLE" /\ c.op \in Commands
    BY <1>5
  <1>9. TypeOK'
    <2>1. \A d \in calls' : IsCall(d) /\ d.request \in 0 .. requests
      BY <1>4, <1>7, <1>8 DEF Pending
    <2>2. charged' \in [Groups -> Nat] /\ sent' \in [Groups -> Nat]
      BY DEF IInv, TypeOK
    <2>3. validation' \in AuthCodes \cup {"none", "pending", "data"}
      BY DEF IInv, TypeOK
    <2> QED  BY <1>3, <2>1, <2>2, <2>3, StillTyped
  <1>10. CallsAreTracked'
    <2>1. \A d \in calls' : Pending(d)' =>
             Pending(d) /\ (d = left \/ (d \in calls /\ d.root # c.root))
      BY <1>2, <1>8 DEF Pending
    <2>2. ASSUME NEW d \in calls, Pending(d), d # c PROVE CallIsTracked(d)'
      <3>1. CallIsTracked(d) /\ d.root # c.root
        BY <1>2, <2>2 DEF IInv, CallsAreTracked
      <3>2. d.root \in DOMAIN root
        BY <3>1 DEF CallIsTracked
      <3> QED  BY <1>1, <1>3, <3>1, <3>2 DEF CallIsTracked
    <2>3. r = "DEPENDENCY_UNAVAILABLE" /\ c.op \in Commands => CallIsTracked(left)'
      BY <1>1, <1>2, <1>3, <1>7 DEF CallIsTracked
    <2>4. \A d \in calls' : Pending(d)' => CallIsTracked(d)'
      BY <1>8, <2>1, <2>2, <2>3
    <2>5. \A d, e \in calls' : Pending(d)' /\ Pending(e)' /\ d.root = e.root => d = e
      BY <1>7, <2>1 DEF IInv, CallsAreTracked
    <2> QED  BY <2>4, <2>5 DEF CallsAreTracked, Pending
  <1>11. RootsAreTrue'
    BY <1>1, <1>2, <1>3 DEF IInv, RootsAreTrue
  <1>12. SessionIsShared'
    <2>1. SessionIsShared
      BY DEF IInv
    <2>2. \A d \in calls' : Validates(d)' => d \in calls /\ Validates(d)
      BY <1>7, <1>8 DEF Validates
    <2>3. c.op \notin Public =>
             /\ r # "SESSION_INVALID"
             /\ r \in {"data", "FORBIDDEN", "CONFLICT"} => validation = "data"
      <3>1. ASSUME c.op \notin Public PROVE root[c.root] = "calling" /\ c.op = "documentTypes"
        BY <1>2, <3>1 DEF Commands, Public
      <3> QED  BY <1>2, <2>1, <3>1 DEF SessionIsShared
    <2> QED  BY <1>1, <1>2, <1>3, <2>1, <2>2, <2>3 DEF SessionIsShared
  <1>13. CookieIsTold'
    <2>1. CookieIsTold
      BY DEF IInv
    <2>2. c.op \in {"signIn", "signOut"} => \A j \in DOMAIN root : j = c.root
      BY <1>1, <1>2, <2>1 DEF CookieIsTold
    <2>3. c.op = "signIn" => setCookie = "keep"
      BY <1>2, <2>1 DEF CookieIsTold
    <2> QED  BY <1>1, <1>2, <1>3, <2>1, <2>2, <2>3 DEF CookieIsTold
  <1>14. ActivityIsEarned'
    BY <1>7, <1>8 DEF IInv, ActivityIsEarned, Pending
  <1>15. ChargesCover'
    BY <1>2, SameCharges
  <1> QED  BY <1>1, <1>9, <1>10, <1>11, <1>12, <1>13, <1>14, <1>15 DEF IInv


LEMMA ReceiveKeeps == ASSUME IInv, NEW c \in calls, Receive(c) PROVE IInv'
  <1>1. PICK a \in Received(c.response) : Settle(c, ResponsePolicy(c.op, a))
    BY DEF Receive
  <1>2. PICK result : result = ResponsePolicy(c.op, a)
    OBVIOUS
  <1>3. stage = "executing" /\ c.request = requests /\ c.state = "answered"
    BY DEF Receive, IsAwaited
  <1>4. UNCHANGED <<requests, request, stage, committed, verdict, charged, sent>>
        /\ calls' = calls \ {c}
    BY <1>1 DEF Settle, browserVars, limitVars
  <1>5. CASE c.op = "validate"
    <2>1. /\ validation' = MapSessionError(ResponsePolicy("validate", a))
          /\ UNCHANGED <<root, setCookie>>
      BY <1>1, <1>5 DEF Settle
    <2>2. validation' \in AuthCodes \cup {"data"}
      BY <2>1, ResultsOfValidation
    <2>3. Validates(c)
      BY <1>3, <1>5 DEF Validates
    <2> QED  BY <1>3, <1>4, <2>1, <2>2, <2>3, ValidationSettles
  <1>6. CASE c.op # "validate"
    <2>1. Pending(c)
      BY <1>3, <1>6 DEF Pending
    <2>2. CallIsTracked(c)
      BY <2>1 DEF IInv, CallsAreTracked
    <2>3. c.op \in AllFields
      BY <2>2 DEF CallIsTracked, AllFields, Public, Queries, Mutations
    <2>4. PICK r : r = ResultOf(c.op, result)
      OBVIOUS
    <2>5. /\ root' = [root EXCEPT ![c.root] = r] /\ validation' = validation
          /\ setCookie' = IF c.op = "signOut" THEN "clear"
                          ELSE IF c.op = "signIn" /\ result = "data" THEN "set" ELSE setCookie
      BY <1>1, <1>2, <1>6, <2>4 DEF Settle, ResultOf
    <2>6. /\ r \in Results \ {"waiting", "guarded", "calling", "skipped"}
          /\ result = "data" <=> r = "data"
          /\ r = "data" => c.response = Success
          /\ Rejected(c.op, r) => c.response.body \in AuthCodes \ {"DEPENDENCY_UNAVAILABLE"}
          /\ c.op = "documentTypes" => r \in {"data", "EXPECTED", "INTERNAL_SERVER_ERROR"}
      BY <1>2, <2>3, <2>4, ResultsOfCommands
    <2>7. /\ c.response = Success => c.root \in committed
          /\ c.response.body \in AuthCodes \ {"DEPENDENCY_UNAVAILABLE"} => c.root \notin committed
      BY <1>3, <2>2 DEF CallIsTracked
    <2> QED  BY <1>3, <1>4, <2>1, <2>5, <2>6, <2>7, CommandSettles
  <1> QED  BY <1>5, <1>6

LEMMA TimesOutKeeps == ASSUME IInv, NEW c \in calls, TimesOut(c) PROVE IInv'
  <1>1. /\ stage = "executing" /\ c.request = requests
        /\ UNCHANGED <<requests, request, stage, committed, verdict, charged, sent>>
    BY DEF TimesOut, IsAwaited, browserVars, limitVars
  <1>2. CASE c.op = "validate"
    <2>1. /\ validation' = "DEPENDENCY_UNAVAILABLE" /\ root' = root /\ setCookie' = setCookie
          /\ calls' = calls \ {c}
      BY <1>2 DEF TimesOut, Commands
    <2>2. Validates(c) /\ validation' \in AuthCodes \cup {"data"}
      BY <1>1, <1>2, <2>1 DEF Validates, AuthCodes
    <2> QED  BY <1>1, <2>1, <2>2, ValidationSettles
  <1>3. CASE c.op # "validate"
    <2>1. PICK r : r = IF c.op = "documentTypes" THEN "INTERNAL_SERVER_ERROR"
                       ELSE "DEPENDENCY_UNAVAILABLE"
      OBVIOUS
    <2>2. /\ root' = [root EXCEPT ![c.root] = r] /\ validation' = validation
          /\ setCookie' = IF c.op = "signOut" THEN "clear"
                          ELSE IF c.op = "signIn" /\ r = "data" THEN "set" ELSE setCookie
      <3>1. Masked("PlatformUnavailable") = "INTERNAL_SERVER_ERROR"
        BY DEF Masked, AuthCodes
      <3> QED  BY <1>3, <2>1, <3>1 DEF TimesOut
    <2>3. \/ calls' = calls \ {c}
          \/ /\ r = "DEPENDENCY_UNAVAILABLE" /\ c.op \in Commands
             /\ calls' = (calls \ {c}) \cup {[c EXCEPT !.state = "abandoned"]}
      BY <2>1 DEF TimesOut, Commands
    <2>4. /\ r \in Results \ {"waiting", "guarded", "calling", "skipped"} /\ r # "data"
          /\ ~Rejected(c.op, r)
          /\ c.op = "documentTypes" => r = "INTERNAL_SERVER_ERROR"
      BY <2>1 DEF Results, AuthCodes, Rejected
    <2>5. Pending(c)
      BY <1>1, <1>3 DEF Pending
    <2> QED  BY <1>1, <2>2, <2>3, <2>4, <2>5, CommandSettles
  <1> QED  BY <1>2, <1>3

\* The platform answers, or does what nobody waits for any more.
LEMMA ServeKeeps == ASSUME IInv, NEW c \in calls, Serve(c) PROVE IInv'
  <1>1. /\ UNCHANGED <<requests, request, stage, root, validation, setCookie, verdict, charged,
                       sent>>
        /\ c.state \in {"sent", "abandoned"}
    BY DEF Serve, gatewayVars, browserVars, limitVars
  <1>2. PICK response :
          /\ calls' = (calls \ {c}) \cup
                (IF c.state = "sent"
                 THEN {[c EXCEPT !.state = "answered", !.response = response]} ELSE {})
          /\ \/ committed' = committed /\ response.body # "data"
             \/ /\ committed' = IF Pending(c) THEN committed \cup {c.root} ELSE committed
                /\ response.body \in {"data", "DEPENDENCY_UNAVAILABLE"}
    <2>1. /\ Success.body = "data"
          /\ Failure("DEPENDENCY_UNAVAILABLE").body = "DEPENDENCY_UNAVAILABLE"
          /\ \A x : Failure(x).body # "data"
      BY DEF Success, Failure, AuthCodes
    <2>2. CASE /\ \E x \in Exceptions(c.op) :
                     calls' = (calls \ {c}) \cup
                       (IF c.state = "sent"
                        THEN {[c EXCEPT !.state = "answered", !.response = Failure(x)]} ELSE {})
               /\ committed' = committed
      BY <2>1, <2>2
    <2>3. CASE /\ calls' = (calls \ {c}) \cup
                    (IF c.state = "sent"
                     THEN {[c EXCEPT !.state = "answered",
                                     !.response = Failure("SESSION_INVALID")]} ELSE {})
               /\ committed' = committed
      BY <2>1, <2>3
    <2>4. CASE /\ committed' = IF c.request = requests /\ c.op # "validate"
                               THEN committed \cup {c.root} ELSE committed
               /\ \E y \in {Success, Failure("DEPENDENCY_UNAVAILABLE")} :
                     calls' = (calls \ {c}) \cup
                       (IF c.state = "sent"
                        THEN {[c EXCEPT !.state = "answered", !.response = y]} ELSE {})
      BY <2>1, <2>4 DEF Pending
    <2> QED  BY <2>2, <2>3, <2>4 DEF Serve
  <1>3. \A d \in calls : IsCall(d) /\ d.request \in 0 .. requests
    BY DEF IInv, TypeOK
  <1>4. PICK done : done = [c EXCEPT !.state = "answered", !.response = response]
    OBVIOUS
  <1>5. done = [request |-> c.request, root |-> c.root, op |-> c.op, session |-> c.session,
                activity |-> c.activity, state |-> "answered", response |-> response]
    <2>1. c = [request |-> c.request, root |-> c.root, op |-> c.op, session |-> c.session,
               activity |-> c.activity, state |-> c.state, response |-> c.response]
      BY <1>3 DEF IsCall
    <2>2. PICK half : half = [c EXCEPT !.state = "answered"]
      OBVIOUS
    <2>3. half = [request |-> c.request, root |-> c.root, op |-> c.op, session |-> c.session,
                  activity |-> c.activity, state |-> "answered", response |-> c.response]
      BY <2>1, <2>2
    <2>4. done = [half EXCEPT !.response = response]
      BY <1>4, <2>2
    <2> QED  BY <2>3, <2>4
  <1>6. /\ IsCall(done) /\ done.request = c.request /\ done.root = c.root /\ done.op = c.op
        /\ done.activity = c.activity /\ done.state = "answered" /\ done.response = response
    BY <1>5 DEF IsCall
  <1>7. \A d \in calls' : \/ d \in calls /\ d # c
                          \/ d = done /\ c.state = "sent"
    BY <1>2, <1>4
  <1>8. /\ \A i : Field(i)' = Field(i)
        /\ Fields' = Fields
    BY <1>1, SameRequest
  <1>9. Pending(c) => /\ CallIsTracked(c)
                        /\ \A d \in calls : Pending(d) /\ d.root = c.root => d = c
    BY DEF IInv, CallsAreTracked
  <1>10. /\ \A i : i \in committed => i \in committed'
         /\ \A i : i \in committed' => i \in committed \/ (Pending(c) /\ i = c.root)
    BY <1>2
  <1>11. TypeOK'
    <2>1. \A d \in calls' : IsCall(d) /\ d.request \in 0 .. requests
      BY <1>3, <1>6, <1>7
    <2> QED  BY <1>1, <1>8, <2>1 DEF IInv, TypeOK, IsCall
  <1>12. NothingIsDoneYet'
    <2>1. NothingIsDoneYet
      BY DEF IInv
    <2>2. ASSUME stage \in {"received", "admitted"}
          PROVE  committed' = {} /\ \A d \in calls' : d.request # requests
      <3>1. c.request # requests /\ committed = {}
        BY <2>1, <2>2 DEF NothingIsDoneYet
      <3> QED  BY <1>2, <1>6, <1>7, <2>1, <2>2, <3>1 DEF NothingIsDoneYet, Pending
    <2> QED  BY <1>1, <2>1, <2>2 DEF NothingIsDoneYet
  <1>13. CallsAreTracked'
    <2>1. \A d \in calls' : Pending(d)' =>
             \/ d = done /\ Pending(c) /\ c.state = "sent"
             \/ Pending(d) /\ d \in calls /\ d # c
      BY <1>1, <1>6, <1>7 DEF Pending
    <2>2. ASSUME NEW d \in calls, Pending(d), d # c PROVE CallIsTracked(d)'
      <3>1. CallIsTracked(d) /\ (d.root \in committed' <=> d.root \in committed)
        BY <1>9, <1>10, <2>2 DEF IInv, CallsAreTracked
      <3> QED  BY <1>1, <1>8, <3>1 DEF CallIsTracked
    <2>3. ASSUME Pending(c), c.state = "sent" PROVE CallIsTracked(done)'
      <3>1. /\ c.root \in DOMAIN root /\ c.op = Field(c.root)
            /\ c.op \in Public \cup {"documentTypes"}
            /\ root[c.root] = "calling" /\ c.root \notin committed
        BY <1>9, <2>3 DEF CallIsTracked
      <3>2. response = Success => c.root \in committed'
        BY <1>2, <2>3 DEF Success
      <3>3. response.body \in AuthCodes \ {"DEPENDENCY_UNAVAILABLE"} => c.root \notin committed'
        BY <1>2, <2>3, <3>1 DEF AuthCodes
      <3> QED  BY <1>1, <1>6, <1>8, <3>1, <3>2, <3>3 DEF CallIsTracked
    <2>4. \A d \in calls' : Pending(d)' => CallIsTracked(d)'
      BY <2>1, <2>2, <2>3
    <2>5. \A d, e \in calls' : Pending(d)' /\ Pending(e)' /\ d.root = e.root => d = e
      BY <1>6, <1>9, <2>1 DEF IInv, CallsAreTracked
    <2> QED  BY <2>4, <2>5 DEF CallsAreTracked, Pending
  <1>14. RootsAreTrue'
    <2>1. Pending(c) => root[c.root] \in {"calling", "DEPENDENCY_UNAVAILABLE"}
      BY <1>1, <1>9 DEF CallIsTracked
    <2>2. ASSUME NEW i \in DOMAIN root,
                 root[i] \in {"waiting", "guarded"} \/ Rejected(Field(i), root[i])
          PROVE  i \notin committed'
      <3>1. root[i] \notin {"calling", "DEPENDENCY_UNAVAILABLE"}
        BY <2>2 DEF Rejected
      <3>2. i \notin committed
        BY <2>2 DEF IInv, RootsAreTrue
      <3> QED  BY <1>10, <2>1, <3>1, <3>2
    <2> QED  BY <1>1, <1>8, <1>10, <2>2 DEF IInv, RootsAreTrue, Rejected
  <1>15. VerdictsFollow'
    BY <1>1, <1>8 DEF IInv, VerdictsFollow, Verdict
  <1>16. SessionIsShared'
    <2>1. SessionIsShared
      BY DEF IInv
    <2>2. \A d \in calls' : Validates(d)' =>
             \/ d = done /\ Validates(c)
             \/ Validates(d) /\ d \in calls /\ d # c
      BY <1>1, <1>6, <1>7 DEF Validates
    <2> QED  BY <1>1, <1>8, <2>1, <2>2 DEF SessionIsShared
  <1>17. CookieIsTold'
    BY <1>1, <1>8 DEF IInv, CookieIsTold
  <1>18. ActivityIsEarned'
    BY <1>1, <1>6, <1>7 DEF IInv, ActivityIsEarned
  <1>19. ChargesCover'
    BY <1>1, SameCharges
  <1> QED  BY <1>11, <1>12, <1>13, <1>14, <1>15, <1>16, <1>17, <1>18, <1>19 DEF IInv

-----------------------------------------------------------------------------
LEMMA PathStarts == ASSUME Init PROVE IInv
  <1> USE DEF Init
  <1>1. request.roots = <<>> /\ root = <<>> /\ verdict = <<>> /\ calls = {} /\ committed = {}
        /\ stage = "idle" /\ requests = 0 /\ validation = "none"
        /\ charged = [g \in Groups |-> 0] /\ sent = charged
    BY DEF NoRequest
  <1> USE <1>1
  <1> HIDE DEF Init
  <1>2. TypeOK
    <2>1. request.roots \in Seq([field : Queries \cup Mutations, executed : BOOLEAN])
      BY EmptySeq
    <2>2. Fields = {}
      BY DEF Fields
    <2> QED  BY <2>1, <2>2 DEF TypeOK
  <1>3. /\ NothingIsDoneYet /\ CallsAreTracked /\ RootsAreTrue /\ VerdictsFollow
        /\ SessionIsShared /\ CookieIsTold /\ ActivityIsEarned
    BY DEF NothingIsDoneYet, CallsAreTracked, RootsAreTrue, VerdictsFollow,
       SessionIsShared, CookieIsTold, ActivityIsEarned
  <1>4. ChargesCover
    BY PathAssumption DEF ChargesCover
  <1> QED  BY <1>2, <1>3, <1>4 DEF IInv

LEMMA PathKeeps == ASSUME IInv, [Next]_vars PROVE IInv'
  <1>1. CASE Send
    BY <1>1, SendKeeps
  <1>2. CASE Arrive \/ GiveUp
    BY <1>2, ArriveKeeps
  <1>3. CASE Finish
    BY <1>3, FinishKeeps
  <1>4. CASE Executes
    BY <1>4, ParseKeeps, ProtectKeeps, RespondKeeps, StartPublicKeeps, GuardKeeps, ResolveKeeps
    DEF Executes
  <1>5. CASE Settles
    BY <1>5, ReceiveKeeps, TimesOutKeeps DEF Settles
  <1>6. CASE WindowExpires
    BY <1>6, WindowExpiresKeeps
  <1>7. CASE SessionEnds
    BY <1>7, SessionEndsKeeps
  <1>8. CASE \E c \in calls : Serve(c)
    BY <1>8, ServeKeeps
  <1>9. CASE UNCHANGED vars
    <2>1. UNCHANGED <<requests, request, stage, root, validation, setCookie, calls, committed,
                      charged, sent, verdict>>
      BY <1>9 DEF vars, gatewayVars, platformVars, browserVars, limitVars
    <2>2. VerdictsFollow'
      BY <2>1, SameRequest DEF IInv, VerdictsFollow, Verdict
    <2> QED  BY <2>1, <2>2, MovesOnly DEF IInv, NothingIsDoneYet
  <1> QED  BY <1>1, <1>2, <1>3, <1>4, <1>5, <1>6, <1>7, <1>8, <1>9 DEF Next

\* However answers are lost, cut or late, and whatever the platform still does after the
\* gateway has given up: what the web application calls accepted or rejected is what was
\* committed, and the fields of a request agree on the session.
THEOREM VerdictsHold == Spec => []VerdictsAreSound
  <1>1. ASSUME IInv PROVE VerdictsAreSound
    <2>1. VerdictsAreTrue
      <3>1. ASSUME NEW i \in DOMAIN verdict,
                   verdict[i] = "accepted", Field(i) \in {"signIn", "confirmEmail", "submit"}
            PROVE  i \in committed
        <4>1. i \in DOMAIN root /\ Verdict(Field(i), root[i]) = "accepted"
          BY <1>1, <3>1 DEF IInv, VerdictsFollow
        <4>2. root[i] = "data"
          BY <4>1 DEF Verdict
        <4> QED  BY <1>1, <3>1, <4>1, <4>2 DEF IInv, RootsAreTrue
      <3>2. ASSUME NEW i \in DOMAIN verdict, verdict[i] = "rejected"
            PROVE  i \notin committed
        <4>1. i \in DOMAIN root /\ Verdict(Field(i), root[i]) = "rejected"
          BY <1>1, <3>2 DEF IInv, VerdictsFollow
        <4>2. Rejected(Field(i), root[i])
          BY <4>1 DEF Verdict
        <4> QED  BY <1>1, <4>1, <4>2 DEF IInv, RootsAreTrue
      <3> QED  BY <3>1, <3>2 DEF VerdictsAreTrue
    <2>2. FieldsAgreeOnSession
      BY <1>1 DEF IInv, SessionIsShared, FieldsAgreeOnSession
    <2> QED  BY <2>1, <2>2 DEF VerdictsAreSound
  <1> QED  BY <1>1, PathStarts, PathKeeps, PTL DEF Spec

\* Only operations that are executed extend a session, and however a document repeats its
\* roots, no more commands of a group are sent on a window than it allows.
THEOREM PolicyHolds == Spec => []PolicyIsKept
  <1>1. ASSUME IInv PROVE PolicyIsKept
    <2>1. ASSUME NEW g \in Groups PROVE sent[g] <= Attempts
      <3>1. sent[g] \in Nat /\ charged[g] \in Nat /\ sent[g] <= charged[g] /\ charged[g] <= Attempts
        BY <1>1 DEF IInv, TypeOK, ChargesCover
      <3> QED  BY <3>1, PathAssumption
    <2> QED  BY <1>1, <2>1 DEF IInv, PolicyIsKept, CommandsAreCharged
  <1> QED  BY <1>1, PathStarts, PathKeeps, PTL DEF Spec

\* The browser's cookie changes with the verdict it is shown, never against it.
THEOREM CookieIsFollowed == Spec => CookieFollowsVerdict
  <1>1. ASSUME IInv, [Next]_vars
        PROVE  [verdict = <<>> /\ verdict' # <<>> =>
                  \A i \in DOMAIN verdict' :
                     /\ (Field(i) = "signIn" /\ verdict'[i] = "accepted") => cookie' = requests
                     /\ (Field(i) = "signOut" /\ verdict'[i] = "accepted") => cookie' = None
                     /\ (Field(i) = "signIn" /\ verdict'[i] = "rejected") => cookie' = cookie
               ]_vars
    <2>1. ASSUME verdict = <<>>, verdict' # <<>>, Next
          PROVE  Arrive \/ GiveUp
      <3>1. verdict' = <<>> \/ Arrive \/ GiveUp
        BY <2>1 DEF Next, Send, Finish, Executes, Parse, Protect, Respond,
           StartPublic, Guard, Resolve, Settles, Receive, Settle, TimesOut,
           WindowExpires, SessionEnds, Serve, browserVars
      <3> QED  BY <2>1, <3>1
    <2>2. ASSUME GiveUp, NEW i \in DOMAIN verdict' PROVE verdict'[i] = "uncertain"
      BY <2>2 DEF GiveUp
    <2>3. ASSUME Arrive, NEW i \in DOMAIN verdict'
          PROVE  /\ (Field(i) = "signIn" /\ verdict'[i] = "accepted") => cookie' = requests
                 /\ (Field(i) = "signOut" /\ verdict'[i] = "accepted") => cookie' = None
                 /\ (Field(i) = "signIn" /\ verdict'[i] = "rejected") => cookie' = cookie
      <3>1. /\ i \in DOMAIN root /\ verdict'[i] = Verdict(Field(i), root[i])
            /\ cookie' = CookieAfter
        BY <2>3 DEF Arrive
      <3>2. /\ verdict'[i] = "accepted" => root[i] = "data"
            /\ verdict'[i] = "rejected" => root[i] # "data"
        BY <3>1 DEF Verdict, Rejected
      <3>3. CookieIsTold
        BY <1>1 DEF IInv
      <3>4. /\ Field(i) = "signIn" => setCookie = IF root[i] = "data" THEN "set" ELSE "keep"
            /\ Field(i) = "signOut" /\ root[i] = "data" => setCookie = "clear"
        BY <3>1, <3>3 DEF CookieIsTold
      <3> QED  BY <3>1, <3>2, <3>4 DEF CookieAfter
    <2> QED  BY <1>1, <2>1, <2>2, <2>3
  <1> QED  BY <1>1, PathStarts, PathKeeps, PTL DEF Spec, CookieFollowsVerdict

-----------------------------------------------------------------------------
(* The cookie requests among all: CookiePath.                              *)

IsExchanged == CookieIInv' /\ [Exchange!ExchangeNext]_(Exchange!worldVars)

LEMMA CookieFacts ==
    ASSUME CookieIInv
    PROVE  /\ requests \in Nat /\ carried \subseteq Nat
           /\ None \notin carried /\ Malformed \notin carried
           /\ BrowserCookie \in {None} \cup carried
           /\ cookie \in Nat => BrowserCookie = cookie /\ cookie \in carried
           /\ cookie \notin Nat => BrowserCookie = None
           /\ requests + 1 \notin carried /\ requests + 1 # BrowserCookie
  <1>1. /\ requests \in Nat /\ carried \subseteq 0 .. requests
        /\ cookie \in {None, Malformed} \cup carried
    BY DEF CookieIInv, IInv, TypeOK, CarriedIsKnown
  <1>2. carried \subseteq Nat /\ requests + 1 \in Nat /\ requests + 1 \notin carried
    BY <1>1
  <1>3. None \notin carried /\ Malformed \notin carried /\ requests + 1 # None
    BY <1>2, PathAssumption
  <1>4. /\ cookie \in Nat => BrowserCookie = cookie /\ cookie \in carried
        /\ cookie \notin Nat => BrowserCookie = None
    BY <1>1, <1>2, PathAssumption DEF BrowserCookie
  <1> QED  BY <1>1, <1>2, <1>3, <1>4

\* As long as the response's effect on the cookie is the same, so are the credentials
\* that have been carried.
LEMMA NothingNewIsCarried ==
    ASSUME CookieIInv, Carry, UNCHANGED <<requests, setCookie>>
    PROVE  carried' = carried
  BY DEF CookieIInv, CarriedIsKnown, Carry

\* An executing request that touches the cookie is one command.
LEMMA CommandIsSole ==
    ASSUME CookieIInv, stage = "executing",
           IsCookieRequest \/ \E i \in DOMAIN root : Field(i) \in {"signIn", "signOut"}
    PROVE  /\ IsCookieRequest /\ OnTheWire /\ root # <<>>
           /\ DOMAIN root = {1} /\ Field(1) \in {"signIn", "signOut"}
           /\ Fields = {Field(1)}
           /\ \A c, d \in calls : Pending(c) =>
                 c.root = 1 /\ c.op = Field(1) /\ (Pending(d) => d = c)
  <1>1. DOMAIN root = DOMAIN request.roots /\ 1 \in DOMAIN root /\ verdict = <<>>
    BY WhileExecuting DEF CookieIInv, AnswerIsFormed
  <1>2. PICK i \in DOMAIN root : Field(i) \in {"signIn", "signOut"}
    BY <1>1 DEF IsCookieRequest, Fields, Field
  <1>3. \A j \in DOMAIN root : i = j
    BY <1>1, <1>2 DEF CookieIInv, IInv, CookieIsTold
  <1>4. /\ i = 1 /\ DOMAIN root = {1} /\ Field(1) \in {"signIn", "signOut"}
    BY <1>1, <1>2, <1>3
  <1>5. Fields = {Field(1)}
    BY <1>1, <1>4 DEF Fields, Field
  <1>6. root # <<>>
    BY <1>1
  <1>7. IsCookieRequest /\ OnTheWire
    BY <1>1, <1>4, <1>5 DEF IsCookieRequest, OnTheWire
  <1>8. ASSUME NEW c \in calls, NEW d \in calls, Pending(c)
        PROVE  c.root = 1 /\ c.op = Field(1) /\ (Pending(d) => d = c)
    BY <1>4, <1>8 DEF CookieIInv, IInv, CallsAreTracked, CallIsTracked
  <1> QED  BY <1>4, <1>5, <1>6, <1>7, <1>8

\* A step that the tabs do not see.
LEMMA PathRests ==
    ASSUME CookieIInv, IInv', Carry,
           UNCHANGED <<requests, request, setCookie, cookie>>,
           stage' # "idle" => stage # "idle",
           OnTheWire' = OnTheWire, OnTheWire => Outcome' = Outcome,
           live' \cap carried = live \cap carried,
           AnswerIsFormed', RevocationIsTheCookies',
           \A c \in calls' : c.op = "signIn" /\ c.state # "answered" => c.request \notin carried
    PROVE  IsExchanged
  <1>1. carried' = carried
    BY NothingNewIsCarried
  <1>2. CarriedIsKnown'
    BY <1>1 DEF CookieIInv, CarriedIsKnown
  <1>3. Fields' = Fields
    BY SameRequest
  <1>4. OnTheWire => CookieRequest' = CookieRequest
    BY <1>3 DEF CookieRequest, BrowserCookie
  <1>5. UNCHANGED Exchange!worldVars
    BY <1>1, <1>4 DEF Exchange!worldVars, BrowserCookie
  <1> QED  BY <1>2, <1>5 DEF CookieIInv, IsExchanged

\* The command gets its answer; what the platform has done is no part of the step.
LEMMA CommandIsServed ==
    ASSUME CookieIInv, UNCHANGED <<requests, request, cookie, live>>,
           OnTheWire, OnTheWire', Outcome = "sent",
           setCookie' # "set" => carried' = carried,
           setCookie' = "set" => carried' = carried \cup {requests},
           IF "signIn" \in Fields
           THEN \/ Outcome' = "ok" /\ setCookie' = "set"
                \/ Outcome' \in {"rejected", "error"} /\ setCookie' = "keep"
           ELSE \/ Outcome' = "ok" /\ setCookie' = "clear" /\ BrowserCookie \notin live \cap carried
                \/ Outcome' = "error" /\ setCookie' = "clear" /\ BrowserCookie # None
                \/ Outcome' = "error" /\ setCookie' = "keep"
    PROVE  Exchange!ExchangeNext
  <1> DEFINE r == CookieRequest
             wire == IF OnTheWire THEN {CookieRequest} ELSE {}
             kind == IF "signIn" \in Fields THEN "sign-in" ELSE "sign-out"
  <1>1. /\ r = [id |-> requests, cookie |-> BrowserCookie, stage |-> "sent", jar |-> "keep",
                kind |-> kind]
        /\ wire = {r}
    BY DEF CookieRequest, CookieIInv, AnswerIsFormed, OnTheWire
  <1>2. /\ r' = [id |-> requests, cookie |-> BrowserCookie, stage |-> Outcome', jar |-> setCookie',
                 kind |-> kind]
        /\ wire' = {r'} /\ BrowserCookie' = BrowserCookie
    BY SameRequest DEF CookieRequest, BrowserCookie
  <1>3. /\ r.kind = kind /\ r.stage = "sent" /\ r.id = requests /\ r.cookie = BrowserCookie
        /\ "signIn" \in Fields => r.kind = "sign-in"
        /\ "signIn" \notin Fields => r.kind = "sign-out"
    BY <1>1
  <1> HIDE DEF kind, r
  <1>4. /\ r' = [r EXCEPT !.stage = Outcome', !.jar = setCookie']
        /\ setCookie' = "keep" => r' = [r EXCEPT !.stage = Outcome']
    <2>1. PICK next, result, jar : /\ next = r' /\ result = Outcome' /\ jar = setCookie'
      OBVIOUS
    <2>2. next = [id |-> requests, cookie |-> BrowserCookie, stage |-> result, jar |-> jar,
                  kind |-> kind]
      BY <1>2, <2>1
    <2>3. PICK half : half = [r EXCEPT !.stage = result]
      OBVIOUS
    <2>4. half = [id |-> requests, cookie |-> BrowserCookie, stage |-> result, jar |-> "keep",
                  kind |-> kind]
      BY <1>1, <2>3
    <2>5. next = [half EXCEPT !.jar = jar]
      BY <2>2, <2>4
    <2>6. [half EXCEPT !.jar = jar] = [r EXCEPT !.stage = result, !.jar = jar]
      BY <2>3
    <2>7. jar = "keep" => next = half
      BY <2>2, <2>4
    <2> QED  BY <2>1, <2>3, <2>5, <2>6, <2>7
  <1>5. r \in wire /\ wire' = (wire \ {r}) \cup {r'}
    BY <1>1, <1>2
  <1>6. CASE "signIn" \in Fields
    <2>1. CASE Outcome' = "ok" /\ setCookie' = "set"
      <3>1. (live \cap carried)' \in {live \cap carried, (live \cap carried) \cup {r.id}}
        BY <1>3, <2>1
      <3>2. r' = [r EXCEPT !.stage = "ok", !.jar = "set"]
        BY <1>4, <2>1
      <3>3. Exchange!SignInServed(r)
        BY <1>2, <1>3, <1>5, <1>6, <3>1, <3>2 DEF Exchange!SignInServed
      <3> QED  BY <1>5, <3>3 DEF Exchange!ExchangeNext
    <2>2. CASE Outcome' \in {"rejected", "error"} /\ setCookie' = "keep"
      <3>1. (live \cap carried)' = live \cap carried
        BY <2>2
      <3>2. Exchange!SignInServed(r)
        BY <1>2, <1>3, <1>4, <1>5, <1>6, <2>2, <3>1 DEF Exchange!SignInServed
      <3> QED  BY <1>5, <3>2 DEF Exchange!ExchangeNext
    <2> QED  BY <1>6, <2>1, <2>2
  <1>7. CASE "signIn" \notin Fields
    <2>1. (live \cap carried)' = live \cap carried
      BY <1>7
    <2>2. CASE Outcome' = "ok" /\ setCookie' = "clear" /\ BrowserCookie \notin live \cap carried
      <3>1. (live \cap carried)' = (live \cap carried) \ {r.cookie}
        BY <1>3, <2>1, <2>2
      <3>2. r' = [r EXCEPT !.stage = "ok", !.jar = "clear"]
        BY <1>4, <2>2
      <3>3. Exchange!SignOutServed(r)
        BY <1>2, <1>3, <1>5, <1>7, <3>1, <3>2 DEF Exchange!SignOutServed
      <3> QED  BY <1>5, <3>3 DEF Exchange!ExchangeNext
    <2>3. CASE Outcome' = "error" /\ setCookie' = "clear" /\ BrowserCookie # None
      <3>1. r' = [r EXCEPT !.stage = "error", !.jar = "clear"]
        BY <1>4, <2>3
      <3>2. Exchange!SignOutServed(r)
        BY <1>2, <1>3, <1>5, <1>7, <2>1, <2>3, <3>1 DEF Exchange!SignOutServed
      <3> QED  BY <1>5, <3>2 DEF Exchange!ExchangeNext
    <2>4. CASE Outcome' = "error" /\ setCookie' = "keep"
      <3>1. r' = [r EXCEPT !.stage = "error"]
        BY <1>4, <2>4
      <3>2. Exchange!SignOutServed(r)
        BY <1>2, <1>3, <1>5, <1>7, <2>1, <3>1 DEF Exchange!SignOutServed
      <3> QED  BY <1>5, <3>2 DEF Exchange!ExchangeNext
    <2> QED  BY <1>7, <2>2, <2>3, <2>4
  <1> QED  BY <1>6, <1>7

\* What execution keeps of the answer's form.
LEMMA FormStays ==
    ASSUME CookieIInv, stage \in {"executing", "answered"},
           stage' = stage \/ stage' = "idle", request' = request,
           root' \in [DOMAIN request.roots -> Results],
           stage = "answered" => root' = root,
           Outcome' = "sent" \/ ~IsCookieRequest => setCookie' = "keep",
           "signIn" \notin Fields => setCookie' # "set",
           \A i \in DOMAIN root' : root'[i] = "guarded" => Field(i) \notin Public
    PROVE  AnswerIsFormed'
  <1>1. /\ Fields' = Fields /\ IsCookieRequest' = IsCookieRequest
        /\ \A i : Field(i)' = Field(i)
    BY SameRequest DEF IsCookieRequest
  <1> QED  BY <1>1 DEF CookieIInv, AnswerIsFormed, Done

\* What has been found of a sign-out stays so: no session comes back.
LEMMA RevocationStays ==
    ASSUME CookieIInv, stage' = "executing" => stage = "executing",
           UNCHANGED <<requests, cookie, setCookie>>,
           cookie \notin live => cookie \notin live',
           \A c \in calls' : c \in calls \/ ~Pending(c) \/ c.op # "signOut"
    PROVE  RevocationIsTheCookies'
  BY DEF CookieIInv, RevocationIsTheCookies, Pending

\* Nothing of the gateway's moves but the stage.
LEMMA StageMoves ==
    ASSUME CookieIInv, IInv', Carry,
           UNCHANGED <<requests, request, root, setCookie, cookie, calls>>,
           stage' # "idle" => stage # "idle",
           stage' = "executing" => stage = "executing",
           OnTheWire' = OnTheWire, AnswerIsFormed',
           live' \subseteq live, live' \cap carried = live \cap carried
    PROVE  IsExchanged
  <1>1. OnTheWire => Outcome' = Outcome
    BY SameRequest DEF Outcome
  <1>2. RevocationIsTheCookies'
    BY RevocationStays
  <1>3. \A c \in calls' : c.op = "signIn" /\ c.state # "answered" => c.request \notin carried
    BY DEF CookieIInv, CarriedIsKnown
  <1> QED  BY <1>1, <1>2, <1>3, PathRests

LEMMA WindowExpiresIsExchanged ==
    ASSUME CookieIInv, IInv', Carry, WindowExpires PROVE IsExchanged
  <1>1. /\ stage = "idle" /\ stage' = "idle"
        /\ UNCHANGED <<requests, request, root, setCookie, cookie, calls, live>>
    BY DEF WindowExpires, gatewayVars, browserVars, platformVars
  <1>2. OnTheWire' = OnTheWire /\ AnswerIsFormed'
    BY <1>1 DEF OnTheWire, AnswerIsFormed
  <1> QED  BY <1>1, <1>2, StageMoves

LEMMA FinishIsExchanged ==
    ASSUME CookieIInv, IInv', Carry, Finish PROVE IsExchanged
  <1>1. /\ stage' = "idle" /\ verdict # <<>> /\ stage # "idle"
        /\ UNCHANGED <<requests, request, root, setCookie, cookie, calls, live>>
    BY DEF Finish, browserVars, platformVars
  <1>2. OnTheWire' = OnTheWire /\ AnswerIsFormed'
    BY <1>1 DEF OnTheWire, AnswerIsFormed
  <1> QED  BY <1>1, <1>2, StageMoves

LEMMA RespondIsExchanged ==
    ASSUME CookieIInv, IInv', Carry, Respond PROVE IsExchanged
  <1>1. /\ stage = "executing" /\ stage' = "answered" /\ \A i \in DOMAIN root : Done(i)
        /\ UNCHANGED <<requests, request, root, setCookie, cookie, calls, live, verdict>>
    BY DEF Respond, browserVars, platformVars
  <1>2. Fields' = Fields /\ IsCookieRequest' = IsCookieRequest /\ Outcome' = Outcome
    BY <1>1, SameRequest DEF IsCookieRequest, Outcome
  <1>3. OnTheWire' = OnTheWire
    BY <1>1, <1>2 DEF OnTheWire
  <1>4. AnswerIsFormed'
    BY <1>1, <1>2 DEF CookieIInv, AnswerIsFormed, Done
  <1> QED  BY <1>1, <1>3, <1>4, StageMoves

\* What the platform does is seen by the sessions that the tabs know of.
LEMMA PlatformIsExchanged ==
    ASSUME CookieIInv, IInv', Carry,
           UNCHANGED <<requests, request, stage, root, setCookie, cookie, verdict>>,
           live' \cap carried = live \cap carried \/ \E s : live' = live \ {s},
           RevocationIsTheCookies',
           \A c \in calls' : c.op = "signIn" /\ c.state # "answered" => c.request \notin carried
    PROVE  IsExchanged
  <1>1. /\ Fields' = Fields /\ IsCookieRequest' = IsCookieRequest /\ Outcome' = Outcome
        /\ OnTheWire' = OnTheWire
    BY SameRequest DEF IsCookieRequest, Outcome, OnTheWire
  <1>2. AnswerIsFormed'
    BY <1>1, SameRequest DEF CookieIInv, AnswerIsFormed, Done
  <1>3. CASE live' \cap carried = live \cap carried
    BY <1>1, <1>2, <1>3, PathRests
  <1>4. CASE live' \cap carried # live \cap carried
    <2>1. PICK s : live' = live \ {s}
      BY <1>4
    <2>2. carried' = carried
      BY NothingNewIsCarried
    <2>3. CarriedIsKnown'
      BY <2>2 DEF CookieIInv, CarriedIsKnown
    <2>4. /\ s \in live \cap carried
          /\ (live \cap carried)' = (live \cap carried) \ {s}
      BY <1>4, <2>1, <2>2
    <2>5. BrowserCookie' = BrowserCookie /\ CookieRequest' = CookieRequest
      BY <1>1 DEF BrowserCookie, CookieRequest
    <2>6. Exchange!SessionExpires
      BY <1>1, <2>4, <2>5 DEF Exchange!SessionExpires
    <2> QED  BY <1>2, <2>3, <2>6 DEF IsExchanged, CookieIInv, Exchange!ExchangeNext
  <1> QED  BY <1>3, <1>4

\* The end of a session is the end of what its credential was good for.
LEMMA SessionEndsIsExchanged ==
    ASSUME CookieIInv, IInv', Carry, SessionEnds PROVE IsExchanged
  <1>1. PICK s \in live : live' = live \ {s}
    BY DEF SessionEnds
  <1>2. UNCHANGED <<requests, request, stage, root, setCookie, cookie, calls, verdict>>
    BY DEF SessionEnds, gatewayVars, browserVars
  <1>3. RevocationIsTheCookies'
    BY <1>1, <1>2, RevocationStays
  <1>4. \A c \in calls' : c.op = "signIn" /\ c.state # "answered" => c.request \notin carried
    BY <1>2 DEF CookieIInv, CarriedIsKnown
  <1> QED  BY <1>1, <1>2, <1>3, <1>4, PlatformIsExchanged

\* The browser hears the answer: the cookie is what it says.
LEMMA ArriveIsExchanged ==
    ASSUME CookieIInv, IInv', Carry, Arrive \/ GiveUp PROVE IsExchanged
  <1>1. /\ stage = "answered" /\ verdict = <<>>
        /\ UNCHANGED <<requests, request, stage, root, setCookie, calls, live>>
        /\ \E f : verdict' = [i \in DOMAIN root |-> f[i]]
        /\ cookie' = CookieAfter \/ (cookie' = cookie /\ GiveUp)
    <2>1. CASE Arrive
      <3>1. PICK f : f = [i \in DOMAIN root |-> Verdict(Field(i), root[i])]
        OBVIOUS
      <3>2. verdict' = f
        BY <2>1, <3>1 DEF Arrive
      <3>3. f = [i \in DOMAIN root |-> f[i]]
        BY <3>1
      <3>4. verdict' = [i \in DOMAIN root |-> f[i]]
        BY <3>2, <3>3
      <3> QED  BY <2>1, <3>4 DEF Arrive, gatewayVars, platformVars
    <2>2. CASE GiveUp
      <3>1. PICK f : f = [i \in DOMAIN root |-> "uncertain"]
        OBVIOUS
      <3>2. verdict' = f
        BY <2>2, <3>1 DEF GiveUp
      <3>3. f = [i \in DOMAIN root |-> f[i]]
        BY <3>1
      <3>4. verdict' = [i \in DOMAIN root |-> f[i]]
        BY <3>2, <3>3
      <3> QED  BY <2>2, <3>4 DEF GiveUp, gatewayVars, platformVars
    <2> QED  BY <2>1, <2>2
  <1>2. 1 \in DOMAIN root /\ root[1] \notin {"waiting", "calling"} /\ root # <<>>
    <2>1. 1 \in DOMAIN root /\ Done(1)
      BY <1>1 DEF CookieIInv, AnswerIsFormed
    <2> QED  BY <2>1 DEF Done
  <1>3. verdict' # <<>>
    <2>1. 1 \in DOMAIN verdict'
      BY <1>1, <1>2
    <2> QED  BY <2>1
  <1>4. ~OnTheWire' /\ (IsCookieRequest => OnTheWire)
    BY <1>1, <1>3 DEF OnTheWire
  <1>5. carried' = carried /\ Fields' = Fields
    BY <1>1, NothingNewIsCarried, SameRequest
  <1>6. /\ setCookie \in {"keep", "set", "clear"}
        /\ setCookie = "set" => requests \in carried
        /\ cookie \in {None, Malformed} \cup carried
    BY DEF CookieIInv, CarriedIsKnown
  <1>7. CookieAfter = CASE setCookie = "set" -> requests
                         [] setCookie = "clear" -> None
                         [] setCookie = "keep" -> cookie
    BY <1>6 DEF CookieAfter
  <1>8. CarriedIsKnown'
    <2>1. cookie' \in {None, Malformed} \cup carried
      BY <1>1, <1>6, <1>7
    <2> QED  BY <1>1, <1>5, <2>1 DEF CookieIInv, CarriedIsKnown
  <1>9. AnswerIsFormed' /\ RevocationIsTheCookies'
    <2>1. root' \in [DOMAIN request.roots -> Results]
      BY <1>1 DEF CookieIInv, AnswerIsFormed
    <2>2. Outcome' = Outcome
      BY <1>1, <1>5 DEF Outcome
    <2>3. AnswerIsFormed'
      BY <1>1, <2>1, <2>2, FormStays DEF CookieIInv, AnswerIsFormed
    <2> QED  BY <1>1, <2>3 DEF RevocationIsTheCookies
  <1>10. /\ setCookie = "set" /\ cookie' = CookieAfter => BrowserCookie' = requests
         /\ setCookie = "clear" /\ cookie' = CookieAfter => BrowserCookie' = None
         /\ setCookie = "keep" /\ cookie' = CookieAfter => BrowserCookie' = BrowserCookie
         /\ cookie' = cookie => BrowserCookie' = BrowserCookie
    <2>1. requests # Malformed
      BY CookieFacts, PathAssumption
    <2>2. BrowserCookie' = IF cookie' = Malformed THEN None ELSE cookie'
      BY DEF BrowserCookie
    <2> QED  BY <1>7, <2>1, <2>2 DEF BrowserCookie
  <1>11. (live \cap carried)' = live \cap carried
    BY <1>1, <1>5
  <1>12. CASE ~IsCookieRequest
    <2>1. setCookie = "keep" /\ ~OnTheWire
      BY <1>1, <1>12 DEF CookieIInv, AnswerIsFormed, OnTheWire
    <2>2. BrowserCookie' = BrowserCookie
      BY <1>1, <1>10, <2>1
    <2>3. UNCHANGED Exchange!worldVars
      BY <1>4, <1>11, <2>1, <2>2 DEF Exchange!worldVars
    <2> QED  BY <1>8, <1>9, <2>3 DEF IsExchanged, CookieIInv
  <1>13. CASE IsCookieRequest
    <2> DEFINE r == CookieRequest
               wire == IF OnTheWire THEN {CookieRequest} ELSE {}
    <2>1. Outcome # "sent"
      BY <1>2 DEF Outcome
    <2>2. /\ r.stage # "sent" /\ r.jar = setCookie /\ r.id = requests
          /\ wire = {r} /\ wire' = {}
      BY <1>4, <1>13, <2>1 DEF CookieRequest
    <2> HIDE DEF r
    <2>3. r \in wire /\ wire' = wire \ {r}
      BY <2>2
    <2>4. ASSUME cookie' = cookie PROVE Exchange!ExchangeNext
      <3>1. Exchange!IsLost(r)
        BY <1>10, <1>11, <2>3, <2>4 DEF Exchange!IsLost
      <3> QED  BY <2>3, <3>1 DEF Exchange!ExchangeNext
    <2>5. ASSUME cookie' = CookieAfter PROVE Exchange!ExchangeNext
      <3>1. BrowserCookie' = CASE r.jar = "set" -> r.id
                               [] r.jar = "clear" -> None
                               [] r.jar = "keep" -> BrowserCookie
        BY <1>6, <1>10, <2>2, <2>5
      <3>2. Exchange!Arrives(r)
        BY <1>11, <2>2, <2>3, <3>1 DEF Exchange!Arrives
      <3> QED  BY <2>3, <3>2 DEF Exchange!ExchangeNext
    <2>6. Exchange!ExchangeNext
      BY <1>1, <2>4, <2>5
    <2> QED  BY <1>8, <1>9, <2>6 DEF IsExchanged, CookieIInv
  <1> QED  BY <1>12, <1>13

\* A request leaves, with the cookie; it has an id that no session has.
LEMMA SendIsExchanged ==
    ASSUME CookieIInv, IInv', Carry, Send PROVE IsExchanged
  <1> DEFINE wire == IF OnTheWire THEN {CookieRequest} ELSE {}
             kind == IF "signIn" \in Fields THEN "sign-in" ELSE "sign-out"
  <1>1. /\ stage = "idle" /\ stage' = "received" /\ requests' = requests + 1
        /\ root' = <<>> /\ setCookie' = "keep" /\ verdict' = <<>> /\ request' \in Requests
        /\ UNCHANGED <<calls, live, cookie>>
    BY DEF Send
  <1>2. 1 \in DOMAIN request'.roots
    <2>1. ASSUME NEW fields, NEW roots \in Roots(fields) PROVE 1 \in DOMAIN roots
      <3>1. PICK n \in 1 .. MaxRoots : roots \in [1 .. n -> [field : fields, executed : BOOLEAN]]
        <4>1. roots \in UNION {[1 .. n -> [field : fields, executed : BOOLEAN]] :
                                  n \in 1 .. MaxRoots}
          BY <2>1, Zenon DEF Roots
        <4> QED  BY <4>1
      <3>2. n \in Nat /\ n >= 1
        BY <3>1, PathAssumption
      <3> QED  BY <3>1, <3>2
    <2>2. \/ request'.roots \in Roots(Queries) \/ request'.roots \in Roots(Mutations)
          \/ request'.roots = <<[field |-> "signUp", executed |-> TRUE]>>
      BY <1>1 DEF Requests
    <2> QED  BY <2>1, <2>2
  <1>3. carried' = carried /\ BrowserCookie' = BrowserCookie
    BY <1>1 DEF Carry, BrowserCookie
  <1>4. /\ requests \in Nat /\ requests + 1 \notin carried /\ requests + 1 # BrowserCookie
    BY CookieFacts
  <1>5. CarriedIsKnown'
    <2>1. carried \subseteq 0 .. requests /\ cookie \in {None, Malformed} \cup carried
      BY DEF CookieIInv, CarriedIsKnown
    <2>2. carried' \subseteq 0 .. requests'
      BY <1>1, <1>3, <1>4, <2>1
    <2> QED  BY <1>1, <1>3, <1>4, <2>1, <2>2 DEF CookieIInv, CarriedIsKnown
  <1>6. Outcome' = "sent"
    BY <1>1 DEF Outcome
  <1>7. AnswerIsFormed' /\ RevocationIsTheCookies'
    BY <1>1, <1>2, <1>6 DEF AnswerIsFormed, RevocationIsTheCookies
  <1>8. wire = {} /\ wire' \in {{}, {CookieRequest'}}
    BY <1>1 DEF OnTheWire
  <1>9. (live \cap carried)' = live \cap carried
    BY <1>1, <1>3
  <1>10. CASE wire' = {}
    <2>1. UNCHANGED Exchange!worldVars
      BY <1>3, <1>8, <1>9, <1>10 DEF Exchange!worldVars
    <2> QED  BY <1>5, <1>7, <2>1 DEF IsExchanged, CookieIInv
  <1>11. CASE wire' = {CookieRequest'}
    <2>1. PICK r : r = CookieRequest'
      OBVIOUS
    <2>2. PICK k \in {"sign-in", "sign-out"} : k = kind'
      OBVIOUS
    <2>3. r = [id |-> requests + 1, kind |-> k, cookie |-> BrowserCookie, stage |-> "sent",
               jar |-> "keep"]
      BY <1>1, <1>3, <1>6, <2>1, <2>2 DEF CookieRequest
    <2>4. /\ r.id = requests + 1 /\ r.kind = k
          /\ r = [id |-> r.id, kind |-> r.kind, cookie |-> BrowserCookie, stage |-> "sent",
                  jar |-> "keep"]
      BY <2>3
    <2>5. r.id \in Nat \ ((live \cap carried) \cup {BrowserCookie})
      BY <1>4, <2>4
    <2>6. Exchange!Departs(r.id, r.kind)
      BY <1>8, <1>11, <2>1, <2>4 DEF Exchange!Departs
    <2>7. r \in wire' /\ r.kind \in {"sign-in", "sign-out"}
      BY <1>11, <2>1, <2>2, <2>4
    <2>8. Exchange!Sends
      BY <1>3, <1>9, <2>5, <2>6, <2>7 DEF Exchange!Sends
    <2> QED  BY <1>5, <1>7, <2>8 DEF IsExchanged, CookieIInv, Exchange!ExchangeNext
  <1> QED  BY <1>8, <1>10, <1>11

\* A request that is refused keeps the cookie.
LEMMA RefusalIsExchanged ==
    ASSUME CookieIInv, IInv', Carry, stage \in {"received", "admitted"}, stage' = "answered",
           UNCHANGED <<requests, request, setCookie, cookie, calls, live, verdict>>,
           NEW code \in {"HTTP_ERROR", "BAD_REQUEST", "RATE_LIMITED"},
           root' = [i \in DOMAIN request.roots |-> code]
    PROVE  IsExchanged
  <1>1. root = <<>> /\ setCookie = "keep" /\ verdict = <<>> /\ 1 \in DOMAIN request.roots
    BY DEF CookieIInv, IInv, NothingIsDoneYet, AnswerIsFormed
  <1>2. Fields' = Fields /\ IsCookieRequest' = IsCookieRequest /\ OnTheWire' = OnTheWire
    BY <1>1, SameRequest DEF IsCookieRequest, OnTheWire
  <1>3. Outcome = "sent"
    BY <1>1 DEF Outcome
  <1>4. 1 \in DOMAIN root' /\ root'[1] = code /\ root' # <<>>
    BY <1>1
  <1>5. /\ Outcome' \in {"rejected", "error"}
        /\ "signIn" \notin Fields => Outcome' = "error"
    BY <1>2, <1>4 DEF Outcome
  <1>6. carried' = carried
    BY NothingNewIsCarried
  <1>7. AnswerIsFormed'
    <2>1. root' \in [DOMAIN request.roots -> Results]
      <3>1. code \in Results
        BY DEF Results, AuthCodes
      <3> QED  BY <3>1
    <2>2. \A i \in DOMAIN root' : Done(i)' /\ root'[i] # "guarded"
      BY DEF Done
    <2> QED  BY <1>1, <1>5, <2>1, <2>2 DEF AnswerIsFormed
  <1>8. CarriedIsKnown' /\ RevocationIsTheCookies'
    BY <1>6 DEF CookieIInv, CarriedIsKnown, RevocationIsTheCookies
  <1>9. CASE OnTheWire
    <2>1. Exchange!ExchangeNext
      BY <1>1, <1>2, <1>3, <1>5, <1>6, <1>9, CommandIsServed
    <2> QED  BY <1>7, <1>8, <2>1 DEF IsExchanged, CookieIInv
  <1>10. CASE ~OnTheWire
    <2>1. \A c \in calls' : c.op = "signIn" /\ c.state # "answered" => c.request \notin carried
      BY DEF CookieIInv, CarriedIsKnown
    <2> QED  BY <1>2, <1>7, <1>8, <1>10, <2>1, PathRests
  <1> QED  BY <1>9, <1>10

LEMMA ParseIsExchanged ==
    ASSUME CookieIInv, IInv', Carry, Parse PROVE IsExchanged
  <1>1. /\ stage = "received"
        /\ UNCHANGED <<requests, request, setCookie, cookie, calls, live, verdict>>
    BY DEF Parse, platformVars, browserVars
  <1>2. CASE request.form = "good"
    <2>1. stage' = "admitted" /\ root' = root
      BY <1>2 DEF Parse
    <2>2. root = <<>> /\ setCookie = "keep" /\ 1 \in DOMAIN request.roots
      BY <1>1 DEF CookieIInv, IInv, NothingIsDoneYet, AnswerIsFormed
    <2>3. Fields' = Fields /\ IsCookieRequest' = IsCookieRequest /\ OnTheWire' = OnTheWire
      BY <1>1, <2>1, SameRequest DEF IsCookieRequest, OnTheWire
    <2>4. AnswerIsFormed'
      BY <1>1, <2>1, <2>2, <2>3 DEF AnswerIsFormed
    <2> QED  BY <1>1, <2>1, <2>3, <2>4, StageMoves
  <1>3. CASE request.form # "good"
    <2>1. stage' = "answered" /\ root' = [i \in DOMAIN request.roots |-> "HTTP_ERROR"]
      BY <1>3 DEF Parse, Refused
    <2> QED  BY <1>1, <2>1, RefusalIsExchanged
  <1> QED  BY <1>2, <1>3

\* The first root of a request that may execute waits, or is skipped.
LEMMA ProtectIsExchanged ==
    ASSUME CookieIInv, IInv', Carry, Protect PROVE IsExchanged
  <1>1. /\ stage = "admitted" /\ stage' \in {"answered", "executing"}
        /\ UNCHANGED <<requests, request, setCookie, cookie, calls, live, verdict>>
    BY DEF Protect, platformVars, browserVars
  <1>2. /\ root = <<>> /\ setCookie = "keep" /\ verdict = <<>> /\ 1 \in DOMAIN request.roots
        /\ \A c \in calls : c.request # requests
    BY <1>1 DEF CookieIInv, IInv, NothingIsDoneYet, AnswerIsFormed
  <1>3. root' = IF stage' = "executing"
                THEN [i \in DOMAIN request.roots |->
                                IF i \in Executed THEN "waiting" ELSE "skipped"]
                ELSE [i \in DOMAIN request.roots |->
                         IF SoleRootViolated THEN "BAD_REQUEST" ELSE "RATE_LIMITED"]
    BY Zenon DEF Protect, Refused
  <1>4. CASE stage' = "answered"
    <2>1. PICK code \in {"BAD_REQUEST", "RATE_LIMITED"} :
             root' = [i \in DOMAIN request.roots |-> code]
      <3>1. \/ root' = [i \in DOMAIN request.roots |-> "BAD_REQUEST"]
            \/ root' = [i \in DOMAIN request.roots |-> "RATE_LIMITED"]
        BY <1>3, <1>4
      <3> QED  BY <3>1
    <2> QED  BY <1>1, <1>4, <2>1, RefusalIsExchanged
  <1>5. CASE stage' = "executing"
    <2>1. /\ 1 \in DOMAIN root' /\ root'[1] \in {"waiting", "skipped"} /\ root' # <<>>
          /\ root' \in [DOMAIN request.roots -> Results]
          /\ \A i \in DOMAIN root' : root'[i] # "guarded"
      BY <1>2, <1>3, <1>5 DEF Results
    <2>2. Fields' = Fields /\ IsCookieRequest' = IsCookieRequest /\ OnTheWire' = OnTheWire
      BY <1>1, <1>5, SameRequest DEF IsCookieRequest, OnTheWire
    <2>3. Outcome = "sent" /\ Outcome' \in {"sent", "error"}
      BY <1>2, <2>1 DEF Outcome, Rejected
    <2>4. carried' = carried
      BY <1>1, NothingNewIsCarried
    <2>5. CarriedIsKnown' /\ AnswerIsFormed' /\ RevocationIsTheCookies'
      BY <1>1, <1>2, <1>5, <2>1, <2>4
         DEF CookieIInv, CarriedIsKnown, AnswerIsFormed, RevocationIsTheCookies, Pending
    <2>6. CASE OnTheWire /\ Outcome' = "error"
      <3>1. Exchange!ExchangeNext
        BY <1>1, <1>2, <2>2, <2>3, <2>4, <2>6, CommandIsServed
      <3> QED  BY <2>5, <3>1 DEF IsExchanged, CookieIInv
    <2>7. CASE ~OnTheWire \/ Outcome' = Outcome
      <3>1. \A c \in calls' : c.op = "signIn" /\ c.state # "answered" => c.request \notin carried
        BY <1>1 DEF CookieIInv, CarriedIsKnown
      <3> QED  BY <1>1, <1>5, <2>2, <2>5, <2>7, <3>1, PathRests
    <2> QED  BY <2>3, <2>6, <2>7
  <1> QED  BY <1>1, <1>4, <1>5

\* Execution that does not touch the command of a cookie request.
LEMMA OthersRest ==
    ASSUME CookieIInv, IInv', Carry, stage = "executing",
           UNCHANGED <<requests, request, stage, setCookie, cookie, live, verdict>>,
           root' \in [DOMAIN request.roots -> Results],
           \A i \in DOMAIN root' : root'[i] = "guarded" => Field(i) \notin Public,
           IsCookieRequest => Outcome' = Outcome,
           RevocationIsTheCookies',
           \A c \in calls' : c.op = "signIn" /\ c.state # "answered" => c.request \notin carried
    PROVE  IsExchanged
  <1>1. Fields' = Fields /\ IsCookieRequest' = IsCookieRequest /\ OnTheWire' = OnTheWire
    BY SameRequest DEF IsCookieRequest, OnTheWire
  <1>2. /\ Outcome = "sent" \/ ~IsCookieRequest => setCookie = "keep"
        /\ "signIn" \notin Fields => setCookie # "set"
    BY DEF CookieIInv, AnswerIsFormed
  <1>3. AnswerIsFormed'
    BY <1>2, FormStays
  <1>4. OnTheWire => Outcome' = Outcome
    BY DEF OnTheWire
  <1> QED  BY <1>1, <1>3, <1>4, PathRests

LEMMA OtherCallsRest ==
    ASSUME CookieIInv, IInv', Carry, stage = "executing",
           UNCHANGED <<requests, request, stage, setCookie, cookie, live, verdict>>,
           root' \in [DOMAIN request.roots -> Results],
           \A i \in DOMAIN root' : root'[i] = "guarded" => Field(i) \notin Public,
           IsCookieRequest => root' = root,
           \A c \in calls' : c \in calls \/ c.op \notin {"signIn", "signOut"}
    PROVE  IsExchanged
  <1>1. IsCookieRequest => Outcome' = Outcome
    BY SameRequest DEF Outcome
  <1>2. RevocationIsTheCookies'
    BY RevocationStays
  <1>3. \A c \in calls' : c.op = "signIn" /\ c.state # "answered" => c.request \notin carried
    BY DEF CookieIInv, CarriedIsKnown
  <1> QED  BY <1>1, <1>2, <1>3, OthersRest

\* The command of a cookie request gets its result.
LEMMA CommandEnds ==
    ASSUME CookieIInv, IInv', Carry, stage = "executing", IsCookieRequest,
           UNCHANGED <<requests, request, stage, cookie, live, verdict>>,
           root' \in [DOMAIN request.roots -> Results],
           root[1] \in {"waiting", "calling"},
           root'[1] \notin {"waiting", "guarded", "calling"},
           IF Field(1) = "signIn"
           THEN setCookie' = IF root'[1] = "data" THEN "set" ELSE "keep"
           ELSE /\ setCookie' = "clear"
                /\ IF root'[1] = "data" THEN BrowserCookie \notin live \cap carried
                   ELSE BrowserCookie # None,
           RevocationIsTheCookies',
           \A c \in calls' : c.op = "signIn" /\ c.state # "answered" =>
              c.request \notin carried /\ (setCookie' = "set" => c.request # requests)
    PROVE  IsExchanged
  <1>1. /\ OnTheWire /\ root # <<>> /\ DOMAIN root = {1} /\ Fields = {Field(1)}
        /\ Field(1) \in {"signIn", "signOut"}
        /\ DOMAIN root = DOMAIN request.roots
    BY CommandIsSole, WhileExecuting DEF CookieIInv
  <1>2. Fields' = Fields /\ IsCookieRequest' = IsCookieRequest /\ OnTheWire'
    BY <1>1, SameRequest DEF IsCookieRequest, OnTheWire
  <1>3. Outcome = "sent"
    BY <1>1 DEF Outcome, Rejected
  <1>4. 1 \in DOMAIN root' /\ root' # <<>>
    BY <1>1
  <1>5. /\ root'[1] = "data" => Outcome' = "ok"
        /\ root'[1] # "data" => Outcome' \in {"rejected", "error"}
        /\ root'[1] # "data" /\ "signIn" \notin Fields => Outcome' = "error"
    BY <1>2, <1>4 DEF Outcome, Rejected
  <1>6. /\ setCookie' # "set" => carried' = carried
        /\ setCookie' = "set" => carried' = carried \cup {requests}
    BY DEF Carry
  <1>7. CarriedIsKnown'
    <2>1. requests \in Nat /\ carried \subseteq 0 .. requests
      BY DEF CookieIInv, IInv, TypeOK, CarriedIsKnown
    <2>2. carried' \subseteq 0 .. requests
      <3>1. requests \in 0 .. requests
        BY <2>1
      <3> QED  BY <1>6, <2>1, <3>1
    <2>3. setCookie = "keep" /\ requests \notin carried
      BY <1>3 DEF CookieIInv, AnswerIsFormed, CarriedIsKnown
    <2>4. /\ cookie \in {None, Malformed} \cup carried'
          /\ setCookie' \in {"keep", "set", "clear"}
          /\ setCookie' = "set" <=> requests \in carried'
      BY <1>6, <2>3 DEF CookieIInv, CarriedIsKnown
    <2>5. \A c \in calls' : c.op = "signIn" /\ c.state # "answered" => c.request \notin carried'
      BY <1>6
    <2> QED  BY <2>2, <2>4, <2>5 DEF CarriedIsKnown
  <1>8. AnswerIsFormed'
    <2>1. Outcome' # "sent" /\ ("signIn" \notin Fields => setCookie' # "set")
      BY <1>1, <1>5
    <2>2. \A i \in DOMAIN root' : root'[i] # "guarded"
      BY <1>1
    <2> QED  BY <2>1, <2>2, FormStays
  <1>9. Exchange!ExchangeNext
    <2>1. "signIn" \in Fields <=> Field(1) = "signIn"
      BY <1>1
    <2>2. IF "signIn" \in Fields
          THEN \/ Outcome' = "ok" /\ setCookie' = "set"
               \/ Outcome' \in {"rejected", "error"} /\ setCookie' = "keep"
          ELSE \/ Outcome' = "ok" /\ setCookie' = "clear" /\ BrowserCookie \notin live \cap carried
               \/ Outcome' = "error" /\ setCookie' = "clear" /\ BrowserCookie # None
               \/ Outcome' = "error" /\ setCookie' = "keep"
      BY <1>5, <2>1
    <2> QED  BY <1>1, <1>2, <1>3, <1>6, <2>2, CommandIsServed
  <1> QED  BY <1>7, <1>8, <1>9 DEF IsExchanged, CookieIInv

LEMMA StartPublicIsExchanged ==
    ASSUME CookieIInv, IInv', Carry, NEW i \in DOMAIN root, StartPublic(i)
    PROVE  IsExchanged
  <1>1. /\ stage = "executing" /\ root[i] = "waiting" /\ Field(i) \in Public
        /\ UNCHANGED <<requests, request, stage, cookie, live, verdict>>
    BY DEF StartPublic, MayStart, browserVars
  <1>2. root' = [root EXCEPT ![i] = "data"] \/ root' = [root EXCEPT ![i] = "calling"]
    BY DEF StartPublic
  <1>3. /\ root \in [DOMAIN request.roots -> Results]
        /\ root' \in [DOMAIN request.roots -> Results]
    <2>1. "data" \in Results /\ "calling" \in Results
      BY DEF Results
    <2>2. root \in [DOMAIN request.roots -> Results]
      BY <1>1, WhileExecuting DEF CookieIInv
    <2> QED  BY <1>2, <2>1, <2>2
  <1>g. \A j \in DOMAIN root' : root'[j] = "guarded" => Field(j) \notin Public
    BY <1>1, <1>2 DEF CookieIInv, AnswerIsFormed
  <1>4. CASE Field(i) \notin {"signIn", "signOut"}
    <2>1. ~IsCookieRequest
      BY <1>1, <1>4, CommandIsSole
    <2>2. \A c \in calls' : c \in calls \/ c.op \notin {"signIn", "signOut"}
      BY <1>4 DEF StartPublic, Call
    <2>3. setCookie' = setCookie
      BY <1>4 DEF StartPublic
    <2> QED  BY <1>1, <1>3, <1>g, <2>1, <2>2, <2>3, OtherCallsRest
  <1>5. CASE Field(i) \in {"signIn", "signOut"}
    <2>1. /\ IsCookieRequest /\ root # <<>> /\ DOMAIN root = {1} /\ Fields = {Field(1)}
          /\ i = 1
          /\ \A c \in calls : Pending(c) => c.root = 1
      BY <1>1, <1>5, CommandIsSole
    <2>2. \A c \in calls : ~Pending(c)
      BY <1>1, <2>1, UncalledRoot DEF CookieIInv
    <2>3. Outcome = "sent"
      BY <1>1, <2>1 DEF Outcome, Rejected
    <2>4. setCookie = "keep" /\ requests \notin carried
      BY <1>1, <2>3 DEF CookieIInv, AnswerIsFormed, CarriedIsKnown
    <2>5. CASE Field(i) = "signOut" /\ ~Readable
      <3>1. root'[1] = "data" /\ setCookie' = "clear" /\ calls' = calls
        BY <2>1, <2>5 DEF StartPublic
      <3>2. BrowserCookie \notin carried
        BY <2>5, CookieFacts DEF Readable
      <3>3. RevocationIsTheCookies'
        BY <1>1, <2>2, <3>1 DEF RevocationIsTheCookies, Pending
      <3>4. \A c \in calls' : c.op = "signIn" /\ c.state # "answered" => c.request \notin carried
        BY <3>1 DEF CookieIInv, CarriedIsKnown
      <3> QED  BY <1>1, <1>3, <2>1, <2>5, <3>1, <3>2, <3>3, <3>4, CommandEnds
    <2>6. CASE ~(Field(i) = "signOut" /\ ~Readable)
      <3>1. PICK call : /\ calls' = calls \cup {call}
                        /\ call.request = requests /\ call.op = Field(i) /\ call.state = "sent"
                        /\ Field(i) = "signOut" => call.session = cookie
        <4>1. PICK call : call = Call(i, Field(i), IF Field(i) = "signOut" THEN cookie ELSE None,
                                      FALSE)
          OBVIOUS
        <4>2. calls' = calls \cup {call}
          BY <2>6, <4>1 DEF StartPublic
        <4>3. /\ call.request = requests /\ call.op = Field(i) /\ call.state = "sent"
              /\ Field(i) = "signOut" => call.session = cookie
          BY <4>1 DEF Call
        <4> QED  BY <4>2, <4>3
      <3>2. setCookie' = setCookie /\ root' = [root EXCEPT ![i] = "calling"]
        BY <2>6 DEF StartPublic
      <3>3. RevocationIsTheCookies'
        <4>1. ASSUME NEW c \in calls', Pending(c)', c.op = "signOut"
              PROVE  c.session \in Nat /\ c.session = cookie /\ c.state = "sent"
          <5>1. c = call
            BY <1>1, <2>2, <3>1, <4>1 DEF Pending
          <5> QED  BY <2>6, <3>1, <4>1, <5>1 DEF Readable
        <4> QED  BY <1>1, <4>1 DEF RevocationIsTheCookies
      <3>4. \A c \in calls' : c.op = "signIn" /\ c.state # "answered" => c.request \notin carried
        BY <2>4, <3>1 DEF CookieIInv, CarriedIsKnown
      <3>5. Outcome' = "sent"
        <4>1. root'[1] = "calling" /\ root' # <<>>
          BY <2>1, <3>2
        <4> QED  BY <4>1 DEF Outcome, Rejected
      <3> QED  BY <1>1, <1>3, <1>g, <2>3, <3>2, <3>3, <3>4, <3>5, OthersRest
    <2> QED  BY <2>5, <2>6
  <1> QED  BY <1>4, <1>5

\* A protected field is no part of a cookie request.
LEMMA GuardIsExchanged ==
    ASSUME CookieIInv, IInv', Carry, NEW i \in DOMAIN root, Guard(i)
    PROVE  IsExchanged
  <1>1. /\ stage = "executing" /\ Field(i) \notin Public
        /\ root' = [root EXCEPT ![i] = "guarded"]
        /\ UNCHANGED <<requests, request, stage, setCookie, cookie, live, verdict>>
    BY DEF Guard, MayStart, browserVars
  <1>2. ~IsCookieRequest
    BY <1>1, CommandIsSole DEF Public
  <1>3. root' \in [DOMAIN request.roots -> Results]
    BY <1>1, WhileExecuting DEF CookieIInv, Results
  <1>4. \A c \in calls' : c \in calls \/ c.op \notin {"signIn", "signOut"}
    <2>1. calls' = calls \/ calls' = calls \cup {Call(i, "validate", cookie, Activity)}
      BY DEF Guard
    <2>2. Call(i, "validate", cookie, Activity).op = "validate"
      BY DEF Call
    <2> QED  BY <2>1, <2>2
  <1>5. \A j \in DOMAIN root' : root'[j] = "guarded" => Field(j) \notin Public
    BY <1>1 DEF CookieIInv, AnswerIsFormed
  <1> QED  BY <1>1, <1>2, <1>3, <1>4, <1>5, OtherCallsRest

LEMMA ResolveIsExchanged ==
    ASSUME CookieIInv, IInv', Carry, NEW i \in DOMAIN root, Resolve(i)
    PROVE  IsExchanged
  <1>1. /\ stage = "executing" /\ root[i] = "guarded"
        /\ UNCHANGED <<requests, request, stage, setCookie, cookie, live, verdict>>
    BY DEF Resolve, browserVars
  <1>2. PICK r : /\ root' = [root EXCEPT ![i] = r]
                 /\ r = validation \/ r \in {"data", "FORBIDDEN", "CONFLICT", "calling"}
                 /\ validation \notin {"none", "pending"}
    BY DEF Resolve
  <1>3. r \in Results
    BY <1>2 DEF CookieIInv, IInv, TypeOK, Results
  <1>4. root' \in [DOMAIN request.roots -> Results]
    BY <1>1, <1>2, <1>3, WhileExecuting DEF CookieIInv
  <1>5. \A c \in calls' : c \in calls \/ c.op \notin {"signIn", "signOut"}
    <2>1. calls' = calls \/ calls' = calls \cup {Call(i, "documentTypes", None, FALSE)}
      BY DEF Resolve
    <2>2. Call(i, "documentTypes", None, FALSE).op = "documentTypes"
      BY DEF Call
    <2> QED  BY <2>1, <2>2
  <1>6. ~IsCookieRequest
    <2>1. Field(i) \notin Public
      BY <1>1 DEF CookieIInv, AnswerIsFormed
    <2> QED  BY <1>1, <2>1, CommandIsSole DEF Public
  <1>7. \A j \in DOMAIN root' : root'[j] = "guarded" => Field(j) \notin Public
    <2>1. r # "guarded"
      BY <1>2 DEF CookieIInv, IInv, TypeOK, AuthCodes
    <2> QED  BY <1>1, <1>2, <2>1 DEF CookieIInv, AnswerIsFormed
  <1> QED  BY <1>1, <1>4, <1>5, <1>6, <1>7, OtherCallsRest

\* What a settled call knows of its request.
LEMMA AwaitedCommand ==
    ASSUME CookieIInv, stage = "executing", NEW c \in calls, Pending(c)
    PROVE  /\ c.root \in DOMAIN root /\ c.op = Field(c.root) /\ c.op \in AllFields
           /\ root[c.root] \in {"calling", "DEPENDENCY_UNAVAILABLE"}
           /\ root[c.root] = "DEPENDENCY_UNAVAILABLE" <=> c.state = "abandoned"
           /\ c.state = "answered" => root[c.root] = "calling"
           /\ c.op \in {"signIn", "signOut"} =>
                 /\ IsCookieRequest /\ c.root = 1 /\ DOMAIN root = {1} /\ root # <<>>
                 /\ Fields = {c.op} /\ \A d \in calls : Pending(d) => d = c
           /\ c.op \notin {"signIn", "signOut"} => ~IsCookieRequest
           /\ c.op = "signOut" =>
                 /\ BrowserCookie = cookie /\ BrowserCookie # None
                 /\ c.state = "answered" /\ c.response = Success =>
                       BrowserCookie \notin live \cap carried
                 /\ c.state = "abandoned" => setCookie = "clear"
  <1>1. CallIsTracked(c)
    BY DEF CookieIInv, IInv, CallsAreTracked
  <1>2. /\ c.root \in DOMAIN root /\ c.op = Field(c.root) /\ c.op \in AllFields
        /\ root[c.root] \in {"calling", "DEPENDENCY_UNAVAILABLE"}
        /\ root[c.root] = "DEPENDENCY_UNAVAILABLE" <=> c.state = "abandoned"
        /\ c.state = "answered" => root[c.root] = "calling"
    BY <1>1 DEF CallIsTracked, AllFields, Public, Queries, Mutations
  <1>3. c.op \in {"signIn", "signOut"} =>
           /\ IsCookieRequest /\ c.root = 1 /\ DOMAIN root = {1} /\ root # <<>>
           /\ Fields = {c.op} /\ \A d \in calls : Pending(d) => d = c
    BY <1>2, CommandIsSole
  <1>4. c.op \notin {"signIn", "signOut"} => ~IsCookieRequest
    BY <1>2, CommandIsSole
  <1>5. c.op = "signOut" =>
           /\ c.session \in Nat /\ c.session = cookie
           /\ c.state = "answered" /\ c.response = Success => cookie \notin live
           /\ c.state = "abandoned" => setCookie = "clear"
    BY DEF CookieIInv, RevocationIsTheCookies
  <1>6. c.op = "signOut" => BrowserCookie = cookie /\ BrowserCookie # None
    BY <1>5, CookieFacts, PathAssumption
  <1> QED  BY <1>2, <1>3, <1>4, <1>5, <1>6

LEMMA ReceiveIsExchanged ==
    ASSUME CookieIInv, IInv', Carry, NEW c \in calls, Receive(c)
    PROVE  IsExchanged
  <1>1. PICK a \in Received(c.response) : Settle(c, ResponsePolicy(c.op, a))
    BY DEF Receive
  <1>2. PICK result : result = ResponsePolicy(c.op, a)
    OBVIOUS
  <1>3. /\ stage = "executing" /\ c.request = requests /\ c.state = "answered"
        /\ root \in [DOMAIN request.roots -> Results]
    BY WhileExecuting DEF Receive, IsAwaited, CookieIInv
  <1>4. UNCHANGED <<requests, request, stage, cookie, live, verdict>> /\ calls' = calls \ {c}
    BY <1>1 DEF Settle, browserVars
  <1>5. \A i \in DOMAIN root : root[i] = "guarded" => Field(i) \notin Public
    BY <1>3 DEF CookieIInv, AnswerIsFormed
  <1>6. CASE c.op = "validate"
    <2>1. UNCHANGED <<root, setCookie>>
      BY <1>1, <1>6 DEF Settle
    <2> QED  BY <1>3, <1>4, <1>5, <2>1, OtherCallsRest
  <1>7. CASE c.op # "validate"
    <2>1. Pending(c)
      BY <1>3, <1>7 DEF Pending
    <2>2. PICK r : r = ResultOf(c.op, result)
      OBVIOUS
    <2>3. /\ root' = [root EXCEPT ![c.root] = r]
          /\ setCookie' = IF c.op = "signOut" THEN "clear"
                          ELSE IF c.op = "signIn" /\ result = "data" THEN "set" ELSE setCookie
      BY <1>1, <1>2, <1>7, <2>2 DEF Settle, ResultOf
    <2>4. /\ r \in Results \ {"waiting", "guarded", "calling", "skipped"}
          /\ result = "data" <=> r = "data"
          /\ r = "data" => c.response = Success
      BY <1>2, <1>3, <2>1, <2>2, AwaitedCommand, ResultsOfCommands
    <2>5. root' \in [DOMAIN request.roots -> Results]
      BY <1>3, <2>3, <2>4
    <2>6. \A i \in DOMAIN root' : root'[i] = "guarded" => Field(i) \notin Public
      BY <1>3, <1>5, <2>3, <2>4
    <2>7. CASE c.op \notin {"signIn", "signOut"}
      <3>1. ~IsCookieRequest
        BY <1>3, <2>1, <2>7, AwaitedCommand
      <3>2. setCookie' = setCookie
        BY <2>3, <2>7
      <3> QED  BY <1>3, <1>4, <2>5, <2>6, <3>1, <3>2, OtherCallsRest
    <2>8. CASE c.op \in {"signIn", "signOut"}
      <3>1. /\ IsCookieRequest /\ c.root = 1 /\ DOMAIN root = {1} /\ root # <<>>
            /\ Fields = {c.op} /\ c.op = Field(1) /\ root[1] = "calling"
            /\ \A d \in calls : Pending(d) => d = c
        BY <1>3, <2>1, <2>8, AwaitedCommand
      <3>2. root'[1] = r
        BY <2>3, <3>1
      <3>3. setCookie = "keep"
        <4>1. Outcome = "sent"
          BY <3>1 DEF Outcome, Rejected
        <4> QED  BY <1>3, <4>1 DEF CookieIInv, AnswerIsFormed
      <3>4. IF Field(1) = "signIn"
            THEN setCookie' = IF root'[1] = "data" THEN "set" ELSE "keep"
            ELSE /\ setCookie' = "clear"
                 /\ IF root'[1] = "data" THEN BrowserCookie \notin live \cap carried
                    ELSE BrowserCookie # None
        <4>1. CASE c.op = "signIn"
          BY <2>3, <2>4, <3>1, <3>2, <3>3, <4>1
        <4>2. CASE c.op = "signOut"
          <5>1. BrowserCookie # None
            BY <1>3, <2>1, <4>2, AwaitedCommand
          <5>2. r = "data" => BrowserCookie \notin live \cap carried
            BY <1>3, <2>1, <2>4, <4>2, AwaitedCommand
          <5> QED  BY <2>3, <3>1, <3>2, <4>2, <5>1, <5>2
        <4> QED  BY <2>8, <4>1, <4>2
      <3>5. \A d \in calls' : ~Pending(d)
        BY <1>4, <3>1
      <3>6. RevocationIsTheCookies'
        BY <1>4, <3>5 DEF RevocationIsTheCookies, Pending
      <3>7. \A d \in calls' : d.op = "signIn" /\ d.state # "answered" =>
               d.request \notin carried /\ (setCookie' = "set" => d.request # requests)
        BY <1>4, <3>5 DEF CookieIInv, CarriedIsKnown, Pending
      <3>8. root'[1] \notin {"waiting", "guarded", "calling"} /\ root[1] \in {"waiting", "calling"}
        BY <2>4, <3>1, <3>2
      <3> QED  BY <1>3, <1>4, <2>5, <3>1, <3>4, <3>6, <3>7, <3>8, CommandEnds
    <2> QED  BY <2>7, <2>8
  <1> QED  BY <1>6, <1>7

\* A command that has run out of time may still be done: the session that it creates
\* is carried by nothing.
LEMMA TimesOutIsExchanged ==
    ASSUME CookieIInv, IInv', Carry, NEW c \in calls, TimesOut(c)
    PROVE  IsExchanged
  <1>1. /\ stage = "executing" /\ c.request = requests
        /\ root \in [DOMAIN request.roots -> Results]
        /\ UNCHANGED <<requests, request, stage, cookie, live, verdict>>
        /\ setCookie' = IF c.op = "signOut" THEN "clear" ELSE setCookie
    BY WhileExecuting DEF TimesOut, IsAwaited, CookieIInv, browserVars
  <1>2. PICK late : /\ late = [c EXCEPT !.state = "abandoned"]
                    /\ calls' = (calls \ {c}) \cup
                          (IF c.state = "sent" /\ c.op \in Commands THEN {late} ELSE {})
    BY DEF TimesOut
  <1>3. /\ late.op = c.op /\ late.session = c.session /\ late.request = c.request
        /\ late.state = "abandoned"
    <2>1. c = [request |-> c.request, root |-> c.root, op |-> c.op, session |-> c.session,
               activity |-> c.activity, state |-> c.state, response |-> c.response]
      BY DEF CookieIInv, IInv, TypeOK, IsCall
    <2> QED  BY <1>2, <2>1
  <1>4. \A i \in DOMAIN root : root[i] = "guarded" => Field(i) \notin Public
    BY <1>1 DEF CookieIInv, AnswerIsFormed
  <1>5. CASE c.op = "validate"
    <2>1. UNCHANGED <<root, setCookie>>
      BY <1>1, <1>5 DEF TimesOut
    <2>2. calls' = calls \ {c}
      BY <1>2, <1>5 DEF Commands
    <2> QED  BY <1>1, <1>4, <2>1, <2>2, OtherCallsRest
  <1>6. CASE c.op # "validate"
    <2>1. Pending(c)
      BY <1>1, <1>6 DEF Pending
    <2>2. PICK r \in {"INTERNAL_SERVER_ERROR", "DEPENDENCY_UNAVAILABLE"} :
             /\ root' = [root EXCEPT ![c.root] = r]
             /\ c.op # "documentTypes" => r = "DEPENDENCY_UNAVAILABLE"
      BY <1>6 DEF TimesOut, Masked, AuthCodes
    <2>3. r \in Results
      BY DEF Results, AuthCodes
    <2>4. root' \in [DOMAIN request.roots -> Results]
      BY <1>1, <2>2, <2>3
    <2>5. \A i \in DOMAIN root' : root'[i] = "guarded" => Field(i) \notin Public
      BY <1>1, <1>4, <2>2
    <2>6. CASE c.op \notin {"signIn", "signOut"}
      <3>1. ~IsCookieRequest
        BY <1>1, <2>1, <2>6, AwaitedCommand
      <3>2. \A d \in calls' : d \in calls \/ d.op \notin {"signIn", "signOut"}
        BY <1>2, <1>3, <2>6
      <3> QED  BY <1>1, <2>4, <2>5, <2>6, <3>1, <3>2, OtherCallsRest
    <2>7. CASE c.op \in {"signIn", "signOut"}
      <3>1. /\ IsCookieRequest /\ c.root = 1 /\ DOMAIN root = {1} /\ root # <<>>
            /\ Fields = {c.op} /\ c.op = Field(1)
            /\ root[1] \in {"calling", "DEPENDENCY_UNAVAILABLE"}
            /\ root[1] = "DEPENDENCY_UNAVAILABLE" <=> c.state = "abandoned"
            /\ \A d \in calls : Pending(d) => d = c
        BY <1>1, <2>1, <2>7, AwaitedCommand
      <3>2. root'[1] = "DEPENDENCY_UNAVAILABLE"
        BY <2>2, <2>7, <3>1
      <3>3. c.op = "signOut" =>
               BrowserCookie # None /\ (c.state = "abandoned" => setCookie = "clear")
        BY <1>1, <2>1, AwaitedCommand
      <3>4. CASE c.state = "abandoned"
        <4>1. root' = root /\ calls' = calls \ {c}
          BY <1>1, <1>2, <2>2, <2>7, <3>1, <3>4
        <4>2. setCookie' = setCookie
          BY <1>1, <3>3, <3>4
        <4> QED  BY <1>1, <1>4, <2>4, <4>1, <4>2, OtherCallsRest
      <3>5. CASE c.state # "abandoned"
        <4>1. root[1] = "calling"
          BY <3>1, <3>5
        <4>2. setCookie = "keep" /\ requests \notin carried
          <5>1. Outcome = "sent"
            BY <3>1, <4>1 DEF Outcome, Rejected
          <5> QED  BY <1>1, <5>1 DEF CookieIInv, AnswerIsFormed, CarriedIsKnown
        <4>3. \A d \in calls' : Pending(d) => d = late
          BY <1>2, <3>1
        <4>4. RevocationIsTheCookies'
          <5>1. ASSUME NEW d \in calls', Pending(d), d.op = "signOut"
                PROVE  /\ d.session \in Nat /\ d.session = cookie
                       /\ d.state = "abandoned" /\ setCookie' = "clear"
            <6>1. d = late /\ c.op = "signOut"
              BY <1>3, <4>3, <5>1
            <6>2. c.session \in Nat /\ c.session = cookie
              BY <1>1, <2>1, <6>1 DEF CookieIInv, RevocationIsTheCookies
            <6> QED  BY <1>1, <1>3, <6>1, <6>2
          <5> QED  BY <1>1, <5>1 DEF RevocationIsTheCookies, Pending
        <4>5. \A d \in calls' : d.op = "signIn" /\ d.state # "answered" =>
                 d.request \notin carried /\ (setCookie' = "set" => d.request # requests)
          BY <1>1, <1>2, <1>3, <4>2 DEF CookieIInv, CarriedIsKnown
        <4>6. IF Field(1) = "signIn"
              THEN setCookie' = IF root'[1] = "data" THEN "set" ELSE "keep"
              ELSE /\ setCookie' = "clear"
                   /\ IF root'[1] = "data" THEN BrowserCookie \notin live \cap carried
                      ELSE BrowserCookie # None
          BY <1>1, <2>7, <3>1, <3>2, <3>3, <4>2
        <4>7. /\ root[1] \in {"waiting", "calling"}
              /\ root'[1] \notin {"waiting", "guarded", "calling"}
          BY <3>2, <4>1
        <4> QED  BY <1>1, <2>4, <3>1, <4>4, <4>5, <4>6, <4>7, CommandEnds
      <3> QED  BY <3>4, <3>5
    <2> QED  BY <2>6, <2>7
  <1> QED  BY <1>5, <1>6

\* The platform serves a call: a sign-in creates a session that the tabs do not know of,
\* a sign-out ends the session of its cookie.
LEMMA ServeIsExchanged ==
    ASSUME CookieIInv, IInv', Carry, NEW c \in calls, Serve(c)
    PROVE  IsExchanged
  <1>1. /\ UNCHANGED <<requests, request, stage, root, setCookie, cookie, verdict>>
        /\ c.state \in {"sent", "abandoned"}
    BY DEF Serve, gatewayVars, browserVars
  <1>2. PICK response :
          /\ calls' = (calls \ {c}) \cup
                (IF c.state = "sent"
                 THEN {[c EXCEPT !.state = "answered", !.response = response]} ELSE {})
          /\ (live' = live /\ response # Success) \/ live' = Effect(c)
    <2>1. \A x : Failure(x) # Success
      <3>1. Success.body = "data" /\ \A x : Failure(x).body # "data"
        BY DEF Success, Failure, AuthCodes
      <3> QED  BY <3>1
    <2>2. CASE /\ \E x \in Exceptions(c.op) :
                     calls' = (calls \ {c}) \cup
                       (IF c.state = "sent"
                        THEN {[c EXCEPT !.state = "answered", !.response = Failure(x)]} ELSE {})
               /\ live' = live
      BY <2>1, <2>2
    <2>3. CASE /\ calls' = (calls \ {c}) \cup
                    (IF c.state = "sent"
                     THEN {[c EXCEPT !.state = "answered",
                                     !.response = Failure("SESSION_INVALID")]} ELSE {})
               /\ live' = live
      BY <2>1, <2>3
    <2>4. CASE /\ live' = Effect(c)
               /\ \E y \in {Success, Failure("DEPENDENCY_UNAVAILABLE")} :
                     calls' = (calls \ {c}) \cup
                       (IF c.state = "sent"
                        THEN {[c EXCEPT !.state = "answered", !.response = y]} ELSE {})
      BY <2>4
    <2> QED  BY <2>2, <2>3, <2>4 DEF Serve
  <1>3. PICK done : done = [c EXCEPT !.state = "answered", !.response = response]
    OBVIOUS
  <1>4. /\ done.op = c.op /\ done.session = c.session /\ done.request = c.request
        /\ done.state = "answered" /\ done.response = response
    <2>1. c = [request |-> c.request, root |-> c.root, op |-> c.op, session |-> c.session,
               activity |-> c.activity, state |-> c.state, response |-> c.response]
      BY DEF CookieIInv, IInv, TypeOK, IsCall
    <2> QED  BY <1>3, <2>1
  <1>5. \A d \in calls' : d \in calls \/ d = done
    BY <1>2, <1>3
  <1>6. c.op = "signIn" => c.request \notin carried
    BY <1>1 DEF CookieIInv, CarriedIsKnown
  <1>7. /\ live' \cap carried = live \cap carried \/ \E s : live' = live \ {s}
        /\ cookie \in Nat /\ cookie \notin live => cookie \notin live'
        /\ c.op = "signOut" /\ response = Success => c.session \notin live'
    <2>1. CASE live' = live /\ response # Success
      BY <2>1
    <2>2. CASE live' = Effect(c)
      <3>1. cookie \in Nat => cookie \in carried
        BY CookieFacts
      <3> QED  BY <1>6, <2>2, <3>1 DEF Effect
    <2> QED  BY <1>2, <2>1, <2>2
  <1>8. RevocationIsTheCookies'
    <2>1. ASSUME stage = "executing", NEW d \in calls', Pending(d), d.op = "signOut"
          PROVE  /\ d.session \in Nat /\ d.session = cookie
                 /\ d.state = "answered" /\ d.response = Success => cookie \notin live'
                 /\ d.state = "abandoned" => setCookie = "clear"
      <3>1. CASE d \in calls
        BY <1>7, <2>1, <3>1 DEF CookieIInv, RevocationIsTheCookies
      <3>2. CASE d = done
        <4>1. Pending(c) /\ c.op = "signOut"
          BY <1>4, <2>1, <3>2 DEF Pending
        <4>2. c.session \in Nat /\ c.session = cookie
          BY <2>1, <4>1 DEF CookieIInv, RevocationIsTheCookies
        <4> QED  BY <1>4, <1>7, <3>2, <4>1, <4>2
      <3> QED  BY <1>5, <3>1, <3>2
    <2> QED  BY <1>1, <2>1 DEF RevocationIsTheCookies, Pending
  <1>9. \A d \in calls' : d.op = "signIn" /\ d.state # "answered" => d.request \notin carried
    BY <1>4, <1>5 DEF CookieIInv, CarriedIsKnown
  <1> QED  BY <1>1, <1>7, <1>8, <1>9, PlatformIsExchanged

LEMMA ExchangeStarts == ASSUME CarriedInit PROVE CookieIInv /\ Exchange!ExchangeInit
  <1>1. /\ requests = 0 /\ stage = "idle" /\ root = <<>> /\ setCookie = "keep" /\ calls = {}
        /\ live \subseteq {0} /\ cookie \in {None, 0, Malformed} /\ carried = {cookie} \cap {0}
    BY DEF CarriedInit, Init
  <1>2. IInv
    BY PathStarts DEF CarriedInit
  <1>3. CarriedIsKnown /\ AnswerIsFormed /\ RevocationIsTheCookies
    <2>1. carried \subseteq 0 .. requests /\ cookie \in {None, Malformed} \cup carried
      <3>1. 0 \in 0 .. requests
        BY <1>1
      <3>2. carried \subseteq {0} /\ (cookie = 0 => 0 \in carried)
        BY <1>1
      <3> QED  BY <1>1, <3>1, <3>2
    <2>2. CarriedIsKnown
      BY <1>1, <2>1 DEF CarriedIsKnown
    <2> QED  BY <1>1, <2>2 DEF AnswerIsFormed, RevocationIsTheCookies
  <1>4. Exchange!ExchangeInit
    <2>1. BrowserCookie \in {None, 0} /\ live \cap carried \subseteq {BrowserCookie} \ {None}
      BY <1>1, PathAssumption DEF BrowserCookie
    <2>2. ~OnTheWire
      BY <1>1 DEF OnTheWire
    <2> QED  BY <2>1, <2>2 DEF Exchange!ExchangeInit
  <1> QED  BY <1>2, <1>3, <1>4 DEF CookieIInv

LEMMA PathGoesOn == ASSUME CookieIInv, [CarriedNext]_pathVars PROVE IsExchanged
  <1>1. IInv'
    BY PathKeeps DEF CookieIInv, CarriedNext, pathVars
  <1>2. ASSUME Next, Carry PROVE IsExchanged
    <2>1. CASE Send
      BY <1>1, <1>2, <2>1, SendIsExchanged
    <2>2. CASE Arrive \/ GiveUp
      BY <1>1, <1>2, <2>2, ArriveIsExchanged
    <2>3. CASE Finish
      BY <1>1, <1>2, <2>3, FinishIsExchanged
    <2>4. CASE Executes
      <3>1. CASE Parse
        BY <1>1, <1>2, <3>1, ParseIsExchanged
      <3>2. CASE Protect
        BY <1>1, <1>2, <3>2, ProtectIsExchanged
      <3>3. CASE Respond
        BY <1>1, <1>2, <3>3, RespondIsExchanged
      <3>4. ASSUME NEW i \in DOMAIN root, StartPublic(i) PROVE IsExchanged
        BY <1>1, <1>2, <3>4, StartPublicIsExchanged
      <3>5. ASSUME NEW i \in DOMAIN root, Guard(i) PROVE IsExchanged
        BY <1>1, <1>2, <3>5, GuardIsExchanged
      <3>6. ASSUME NEW i \in DOMAIN root, Resolve(i) PROVE IsExchanged
        BY <1>1, <1>2, <3>6, ResolveIsExchanged
      <3> QED  BY <2>4, <3>1, <3>2, <3>3, <3>4, <3>5, <3>6 DEF Executes
    <2>5. CASE Settles
      <3>1. ASSUME NEW c \in calls, Receive(c) PROVE IsExchanged
        BY <1>1, <1>2, <3>1, ReceiveIsExchanged
      <3>2. ASSUME NEW c \in calls, TimesOut(c) PROVE IsExchanged
        BY <1>1, <1>2, <3>2, TimesOutIsExchanged
      <3> QED  BY <2>5, <3>1, <3>2 DEF Settles
    <2>6. CASE WindowExpires
      BY <1>1, <1>2, <2>6, WindowExpiresIsExchanged
    <2>7. CASE SessionEnds
      BY <1>1, <1>2, <2>7, SessionEndsIsExchanged
    <2>8. CASE \E c \in calls : Serve(c)
      <3>1. ASSUME NEW c \in calls, Serve(c) PROVE IsExchanged
        BY <1>1, <1>2, <3>1, ServeIsExchanged
      <3> QED  BY <2>8, <3>1
    <2> QED  BY <1>2, <2>1, <2>2, <2>3, <2>4, <2>5, <2>6, <2>7, <2>8 DEF Next
  <1>3. CASE UNCHANGED pathVars
    <2>1. UNCHANGED <<requests, request, stage, root, setCookie, calls, live, cookie, verdict,
                      carried>>
      BY <1>3 DEF pathVars, vars, gatewayVars, platformVars, browserVars
    <2>2. /\ IsCookieRequest' = IsCookieRequest /\ Outcome' = Outcome /\ OnTheWire' = OnTheWire
          /\ BrowserCookie' = BrowserCookie /\ CookieRequest' = CookieRequest
      BY <2>1, SameRequest DEF IsCookieRequest, Outcome, OnTheWire, BrowserCookie, CookieRequest
    <2>3. AnswerIsFormed'
      BY <2>1, <2>2, SameRequest DEF CookieIInv, AnswerIsFormed, Done
    <2>4. CarriedIsKnown' /\ RevocationIsTheCookies'
      BY <2>1 DEF CookieIInv, CarriedIsKnown, RevocationIsTheCookies, Pending
    <2>5. UNCHANGED Exchange!worldVars
      BY <2>1, <2>2 DEF Exchange!worldVars
    <2> QED  BY <1>1, <2>3, <2>4, <2>5 DEF IsExchanged, CookieIInv
  <1> QED  BY <1>2, <1>3 DEF CarriedNext


\* To the tabs, the whole path from the gateway to the platform and back is the exchange on
\* which they are built, whatever is lost, late or refused on the way; and the cookie is
\* what the verdict says.
THEOREM PathKeepsTheExchange == CarriedSpec => CookieIsKept
  <1>1. CarriedSpec => Exchange!ExchangeSpec
    BY ExchangeStarts, PathGoesOn, PTL DEF CarriedSpec, Exchange!ExchangeSpec, IsExchanged
  <1>2. CarriedInit => Init
    BY DEF CarriedInit
  <1>3. [CarriedNext]_pathVars => [Next]_vars
    BY DEF CarriedNext, pathVars
  <1>4. CarriedSpec => Spec
    BY <1>2, <1>3, PTL DEF CarriedSpec, Spec
  <1> QED  BY <1>1, <1>4, CookieIsFollowed, PTL DEF CookieIsKept

-----------------------------------------------------------------------------
(* The inspection of a document: RootFields.                               *)

CONSTANTS Operations, Fragments, Inputs
VARIABLES document, given, worklist, visited, found, inspection

R == INSTANCE RootFields WITH roots <- found, verdict <- inspection

\* A document is made of selections; its inline fragments are blocks of it.
Written(Selections) ==
    /\ \A s \in Selections : s.kind \in {"field", "inline", "spread"}
    /\ Operations \subseteq Seq(Selections)
    /\ \A f \in Fragments : \A b \in DOMAIN f : f[b] \in Seq(Selections)
    /\ \A f \in Fragments : \A s \in Selections : s.kind = "inline" => s.name \in DOMAIN f

\* What the inspection works on.
InspectionTyped(Selections) ==
    /\ \A b \in R!Blocks : document[b] \in Seq(Selections)
    /\ "operation" \in R!Blocks
    /\ \A s \in Selections : s.kind = "inline" => s.name \in R!Blocks
    /\ worklist \in Seq(Selections)
    /\ found \in Seq({s.name : s \in Selections})

LEMMA ElementsOfSeq ==
    ASSUME NEW S, NEW list \in Seq(S)
    PROVE  R!Elements(list) = {list[i] : i \in 1 .. Len(list)} /\ R!Elements(list) \subseteq S
  BY LenProperties, ElementOfSeq DEF R!Elements

\* Pushed selections are on the worklist, whatever their order.
LEMMA Pushes ==
    ASSUME NEW S, NEW list \in Seq(S), NEW b, document[b] \in Seq(S)
    PROVE  /\ R!PushSelections(list, b) \in Seq(S)
           /\ R!Elements(R!PushSelections(list, b)) = R!Elements(list) \cup R!SelectionsOf(b)
  <1>1. PICK d \in Seq(S) : d = document[b]
    OBVIOUS
  <1>2. PICK n \in Nat : n = Len(d) /\ DOMAIN d = 1 .. n
    BY LenProperties
  <1>3. PICK m \in Nat : m = Len(list) /\ DOMAIN list = 1 .. m
    BY LenProperties
  <1>4. PICK back : back = [i \in 1 .. n |-> d[n + 1 - i]]
    OBVIOUS
  <1>5. \A i \in 1 .. n : n + 1 - i \in 1 .. n /\ d[i] \in S
    BY <1>2, ElementOfSeq
  <1>6. back \in [1 .. n -> S]
    BY <1>4, <1>5
  <1>7. back \in Seq(S)
    BY <1>6, SeqDef
  <1>8. Len(back) = n
    BY <1>4, <1>7, LenProperties
  <1>9. R!PushSelections(list, b) = list \o back
    BY <1>1, <1>2, <1>4 DEF R!PushSelections
  <1>10. PICK all : all = list \o back
    OBVIOUS
  <1>11. /\ all \in Seq(S) /\ Len(all) = m + n
         /\ \A i \in 1 .. (m + n) : all[i] = IF i <= m THEN list[i] ELSE back[i - m]
    BY <1>3, <1>7, <1>8, <1>10, ConcatProperties
  <1>12. R!Elements(all) = {all[i] : i \in 1 .. (m + n)}
    BY <1>11, ElementsOfSeq
  <1>13. R!Elements(list) = {list[i] : i \in 1 .. m} /\ R!SelectionsOf(b) = {d[i] : i \in 1 .. n}
    BY <1>1, <1>2, <1>3 DEF R!Elements, R!SelectionsOf
  <1>14. ASSUME NEW i \in 1 .. (m + n)
         PROVE  all[i] \in R!Elements(list) \cup R!SelectionsOf(b)
    <2>1. CASE i <= m
      BY <1>11, <1>13, <2>1
    <2>2. CASE i > m
      <3>1. i - m \in 1 .. n /\ all[i] = back[i - m]
        BY <1>11, <2>2
      <3>2. back[i - m] = d[n + 1 - (i - m)] /\ n + 1 - (i - m) \in 1 .. n
        BY <1>4, <1>5, <3>1
      <3> QED  BY <1>13, <3>1, <3>2
    <2> QED  BY <2>1, <2>2
  <1>15. ASSUME NEW i \in 1 .. m PROVE list[i] \in R!Elements(all)
    <2>1. i \in 1 .. (m + n) /\ all[i] = list[i]
      BY <1>11
    <2> QED  BY <1>12, <2>1
  <1>16. ASSUME NEW i \in 1 .. n PROVE d[i] \in R!Elements(all)
    <2>1. PICK j \in 1 .. n : j = n + 1 - i
      BY <1>5
    <2>2. i = n + 1 - j
      BY <2>1
    <2>3. back[j] = d[i]
      BY <1>4, <2>2
    <2>4. m + j \in 1 .. (m + n) /\ all[m + j] = back[j]
      BY <1>11
    <2> QED  BY <1>12, <2>3, <2>4
  <1>17. R!Elements(all) = R!Elements(list) \cup R!SelectionsOf(b)
    <2>1. R!Elements(all) \subseteq R!Elements(list) \cup R!SelectionsOf(b)
      BY <1>12, <1>14
    <2>2. R!Elements(list) \subseteq R!Elements(all) /\ R!SelectionsOf(b) \subseteq R!Elements(all)
      BY <1>13, <1>15, <1>16
    <2> QED  BY <2>1, <2>2
  <1> QED  BY <1>9, <1>10, <1>11, <1>17

\* The next selection is taken off the worklist.
LEMMA Pops ==
    ASSUME NEW S, worklist \in Seq(S), worklist # <<>>
    PROVE  /\ R!Rest \in Seq(S) /\ R!Top \in S
           /\ R!Elements(worklist) = R!Elements(R!Rest) \cup {R!Top}
  <1>1. PICK n \in Nat : n = Len(worklist) /\ n > 0 /\ DOMAIN worklist = 1 .. n
    BY LenProperties, EmptySeq
  <1>2. PICK rest : rest = R!Rest
    OBVIOUS
  <1>3. rest = SubSeq(worklist, 1, n - 1)
    BY <1>1, <1>2 DEF R!Rest
  <1>4. \A i \in 1 .. n : worklist[i] \in S
    BY <1>1, ElementOfSeq
  <1>5. rest = [i \in 1 .. (n - 1) |-> worklist[i]]
    BY <1>1, <1>3
  <1>6. rest \in [1 .. (n - 1) -> S] /\ n - 1 \in Nat
    BY <1>1, <1>4, <1>5
  <1>7. rest \in Seq(S)
    BY <1>6, SeqDef
  <1>8. R!Elements(rest) = {worklist[i] : i \in 1 .. (n - 1)}
    BY <1>5 DEF R!Elements
  <1>9. R!Elements(worklist) = {worklist[i] : i \in 1 .. n}
    BY <1>1 DEF R!Elements
  <1>10. R!Top = worklist[n]
    BY <1>1 DEF R!Top
  <1>11. 1 .. n = (1 .. (n - 1)) \cup {n}
    BY <1>1
  <1> QED  BY <1>1, <1>2, <1>4, <1>7, <1>8, <1>9, <1>10, <1>11


LEMMA SameDocument ==
    ASSUME UNCHANGED <<document, given>>
    PROVE  /\ R!Blocks' = R!Blocks /\ R!Reached' = R!Reached
           /\ R!ExecutedFields' = R!ExecutedFields /\ R!Filtered' = R!Filtered
           /\ \A b : R!SelectionsOf(b)' = R!SelectionsOf(b)
           /\ \A s : R!Runs(s)' = R!Runs(s)
  <1>1. R!Blocks' = R!Blocks /\ R!Filtered' = R!Filtered
    BY DEF R!Blocks, R!Filtered
  <1>2. \A b : R!SelectionsOf(b)' = R!SelectionsOf(b)
    BY DEF R!SelectionsOf, R!Elements
  <1>3. \A s : R!Runs(s)' = R!Runs(s)
    <2>1. \A a : R!Condition(a)' = R!Condition(a)
      BY DEF R!Condition, R!Variable
    <2> QED  BY <1>1, <2>1 DEF R!Runs, R!Throws, R!SkipThrows, R!Skipped, R!Boolean,
               R!ShouldExecute
  <1>4. \A S : R!Leads(S)' = R!Leads(S)
    BY <1>1, <1>2, <1>3 DEF R!Leads
  <1>5. R!Reached' = R!Reached
    BY <1>1, <1>4 DEF R!Reached
  <1>6. R!ExecutedFields' = R!ExecutedFields
    BY <1>2, <1>3, <1>5 DEF R!ExecutedFields
  <1> QED  BY <1>1, <1>2, <1>3, <1>5, <1>6

LEMMA ReachedIsLeast ==
    ASSUME "operation" \in R!Blocks
    PROVE  /\ "operation" \in R!Reached /\ R!Reached \subseteq R!Blocks
           /\ R!Leads(R!Reached) \subseteq R!Reached
           /\ \A S \in SUBSET R!Blocks :
                 "operation" \in S /\ R!Leads(S) \subseteq S => R!Reached \subseteq S
  <1>1. "operation" \in R!Reached /\ R!Reached \subseteq R!Blocks
    BY DEF R!Reached
  <1>2. ASSUME NEW S \in SUBSET R!Blocks, "operation" \in S, R!Leads(S) \subseteq S
        PROVE  R!Reached \subseteq S
    BY <1>2 DEF R!Reached
  <1>3. ASSUME NEW b \in R!Leads(R!Reached) PROVE b \in R!Reached
    <2>1. ASSUME NEW S \in SUBSET R!Blocks, "operation" \in S, R!Leads(S) \subseteq S
          PROVE  b \in S
      <3>1. R!Reached \subseteq S
        BY <1>2, <2>1
      <3>2. b \in R!Leads(S)
        BY <1>3, <3>1 DEF R!Leads
      <3> QED  BY <2>1, <3>2
    <2>2. b \in R!Blocks
      BY <1>3 DEF R!Leads
    <2> QED  BY <2>1, <2>2 DEF R!Reached
  <1> QED  BY <1>1, <1>2, <1>3

\* The next selection is done with, and the blocks it led to are on the worklist.
LEMMA TopIsDone ==
    ASSUME NEW S, InspectionTyped(S), R!WorklistIsSound, worklist # <<>>,
           UNCHANGED <<document, given>>, inspection' # "found",
           NEW been \in SUBSET R!Reached, R!HasBeenTo(been), NEW more \in SUBSET R!Reached,
           R!Elements(worklist)' = R!Elements(R!Rest) \cup UNION {R!SelectionsOf(b) : b \in more},
           R!Elements(found) \subseteq R!Elements(found)',
           R!Elements(found)' \subseteq R!ExecutedFields,
           visited' \subseteq been \cup more,
           R!Runs(R!Top) => IF R!Top.kind = "field" THEN R!Top.name \in R!Elements(found)'
                            ELSE R!Top.name \in R!Blocks => R!Top.name \in been \cup more
    PROVE  R!WorklistIsSound'
  <1>1. /\ R!Blocks' = R!Blocks /\ R!Reached' = R!Reached
        /\ R!ExecutedFields' = R!ExecutedFields
        /\ \A b : R!SelectionsOf(b)' = R!SelectionsOf(b)
        /\ \A s : R!Runs(s)' = R!Runs(s)
    BY SameDocument
  <1>2. R!Elements(worklist) = R!Elements(R!Rest) \cup {R!Top}
    BY Pops DEF InspectionTyped
  <1>3. PICK passed \in SUBSET R!Reached : passed = been \cup more
    OBVIOUS
  <1>4. ASSUME NEW b \in passed, NEW s \in R!SelectionsOf(b), s \notin R!Elements(worklist)'
        PROVE  R!Runs(s) => IF s.kind = "field" THEN s.name \in R!Elements(found)'
                            ELSE s.name \in R!Blocks => s.name \in passed
    <2>1. b \in been /\ s \notin R!Elements(R!Rest)
      BY <1>3, <1>4
    <2>2. CASE s = R!Top
      BY <1>3, <2>2
    <2>3. CASE s # R!Top
      <3>1. R!Handled(s, been)
        BY <1>2, <2>1, <2>3 DEF R!HasBeenTo
      <3> QED  BY <1>3, <3>1 DEF R!Handled
    <2> QED  BY <2>2, <2>3
  <1>5. R!HasBeenTo(passed)'
    <2>1. "operation" \in passed /\ visited' \subseteq passed
      BY <1>3 DEF R!HasBeenTo
    <2>2. ASSUME NEW b \in passed, NEW s \in R!SelectionsOf(b)'
          PROVE  s \in R!Elements(worklist)' \/ R!Handled(s, passed)'
      BY <1>1, <1>4 DEF R!Handled
    <2> QED  BY <2>1, <2>2 DEF R!HasBeenTo
  <1>6. ASSUME NEW s \in R!Elements(worklist)'
        PROVE  \E b \in R!Reached : s \in R!SelectionsOf(b)
    <2>1. CASE s \in R!Elements(R!Rest)
      BY <1>2, <2>1 DEF R!WorklistIsSound
    <2>2. CASE s \in UNION {R!SelectionsOf(b) : b \in more}
      BY <2>2
    <2> QED  BY <2>1, <2>2
  <1> QED  BY <1>1, <1>5, <1>6 DEF R!WorklistIsSound

\* Whatever the next selection names, if it is executed, the engine reaches, or executes.
LEMMA TopIsReached ==
    ASSUME NEW S, InspectionTyped(S), R!WorklistIsSound, worklist # <<>>, R!Runs(R!Top)
    PROVE  /\ R!Top.kind # "field" /\ R!Top.name \in R!Blocks => R!Top.name \in R!Reached
           /\ R!Top.kind = "field" => R!Top.name \in R!ExecutedFields
  <1>1. R!Top \in R!Elements(worklist)
    BY Pops DEF InspectionTyped
  <1>2. PICK b \in R!Reached : R!Top \in R!SelectionsOf(b)
    BY <1>1 DEF R!WorklistIsSound
  <1>3. R!Top.kind # "field" /\ R!Top.name \in R!Blocks => R!Top.name \in R!Leads(R!Reached)
    BY <1>2 DEF R!Leads
  <1>4. R!Leads(R!Reached) \subseteq R!Reached
    BY ReachedIsLeast DEF InspectionTyped
  <1>5. R!Top.kind = "field" => R!Top.name \in R!ExecutedFields
    BY <1>2 DEF R!ExecutedFields
  <1> QED  BY <1>3, <1>4, <1>5


LEMMA InspectionStarts ==
    ASSUME NEW S, Written(S), R!RootInit
    PROVE  InspectionTyped(S) /\ R!WorklistIsSound
  <1>1. /\ worklist = R!PushSelections(<<>>, "operation")
        /\ visited = {} /\ found = <<>> /\ inspection = "working"
    BY DEF R!RootInit
  <1>2. PICK o \in Operations, f \in Fragments :
            document = [b \in DOMAIN f \cup {"operation"} |-> IF b = "operation" THEN o ELSE f[b]]
    BY DEF R!RootInit
  <1>3. R!Blocks = DOMAIN f \cup {"operation"}
    BY <1>2 DEF R!Blocks
  <1>4. \A b \in R!Blocks : document[b] \in Seq(S)
    BY <1>2, <1>3 DEF Written
  <1>5. document["operation"] \in Seq(S) /\ <<>> \in Seq(S)
    BY <1>3, <1>4, EmptySeq
  <1>6. /\ worklist \in Seq(S)
        /\ R!Elements(worklist) = R!Elements(<<>>) \cup R!SelectionsOf("operation")
    BY <1>1, <1>5, Pushes
  <1>7. R!Elements(<<>>) = {}
    BY DEF R!Elements
  <1>8. InspectionTyped(S)
    <2>1. found \in Seq({s.name : s \in S})
      BY <1>1, EmptySeq
    <2>2. \A s \in S : s.kind = "inline" => s.name \in R!Blocks
      BY <1>3 DEF Written
    <2> QED  BY <1>3, <1>4, <1>6, <2>1, <2>2 DEF InspectionTyped
  <1>9. "operation" \in R!Reached
    BY <1>3, ReachedIsLeast
  <1>10. R!HasBeenTo({"operation"})
    BY <1>1, <1>6 DEF R!HasBeenTo
  <1> QED  BY <1>1, <1>6, <1>7, <1>8, <1>9, <1>10 DEF R!WorklistIsSound

\* A selection that is not executed, a field, a block that is expanded, or a fragment
\* that is missing or has been expanded.
LEMMA InspectionGoesOn ==
    ASSUME NEW S, Written(S), InspectionTyped(S), R!WorklistIsSound, R!RootNext
    PROVE  InspectionTyped(S)' /\ R!WorklistIsSound'
  <1>1. UNCHANGED <<document, given>>
    BY DEF R!RootNext, R!Refuse, R!Throw, R!Skip, R!Field, R!Inline, R!Spread, R!Finish
  <1>2. /\ R!Blocks' = R!Blocks /\ R!Reached' = R!Reached
        /\ R!ExecutedFields' = R!ExecutedFields
        /\ \A b : R!SelectionsOf(b)' = R!SelectionsOf(b)
        /\ \A s : R!Runs(s)' = R!Runs(s)
    BY <1>1, SameDocument
  <1>3. ASSUME worklist' \in Seq(S), found' \in Seq({s.name : s \in S})
        PROVE  InspectionTyped(S)'
    BY <1>1, <1>2, <1>3 DEF InspectionTyped
  <1>4. PICK been \in SUBSET R!Reached : R!HasBeenTo(been)
    BY DEF R!WorklistIsSound
  <1>5. CASE R!Refuse \/ R!Throw \/ R!Finish
    <2>1. /\ UNCHANGED <<worklist, visited, found>>
          /\ inspection' = "found" => worklist = <<>>
      BY <1>5 DEF R!Refuse, R!Throw, R!Finish
    <2>2. InspectionTyped(S)'
      BY <1>3, <2>1 DEF InspectionTyped
    <2>3. R!HasBeenTo(been)'
      BY <1>2, <1>4, <2>1 DEF R!HasBeenTo, R!Handled, R!Elements
    <2>4. R!Elements(worklist)' = R!Elements(worklist) /\ R!Elements(found)' = R!Elements(found)
      BY <2>1 DEF R!Elements
    <2> QED  BY <1>2, <2>1, <2>2, <2>3, <2>4 DEF R!WorklistIsSound
  <1>6. ASSUME R!MayLook
        PROVE  /\ inspection = "working" /\ worklist # <<>>
               /\ R!Rest \in Seq(S) /\ R!Top \in S
    BY <1>6, Pops DEF R!MayLook, InspectionTyped
  <1>7. R!Permitted <=> R!Runs(R!Top)
    BY DEF R!Permitted, R!Runs
  <1>8. CASE R!Skip
    <2>1. /\ worklist # <<>> /\ inspection' # "found" /\ worklist' = R!Rest /\ R!Rest \in Seq(S)
          /\ UNCHANGED <<visited, found>> /\ ~R!Runs(R!Top)
      BY <1>6, <1>8 DEF R!Skip, R!Runs
    <2>2. InspectionTyped(S)'
      BY <1>3, <2>1 DEF InspectionTyped
    <2>3. R!Elements(worklist)' = R!Elements(R!Rest) /\ R!Elements(found)' = R!Elements(found)
      BY <2>1 DEF R!Elements
    <2>4. R!WorklistIsSound'
      <3>1. PICK more \in SUBSET R!Reached : more = {}
        OBVIOUS
      <3>2. R!Elements(worklist)' = R!Elements(R!Rest) \cup UNION {R!SelectionsOf(b) : b \in more}
        BY <2>3, <3>1
      <3>3. visited' \subseteq been \cup more /\ R!Elements(found)' \subseteq R!ExecutedFields
        BY <1>4, <2>1, <2>3 DEF R!HasBeenTo, R!WorklistIsSound
      <3> QED  BY <1>1, <1>4, <2>1, <2>3, <3>2, <3>3, TopIsDone
    <2> QED  BY <2>2, <2>4
  <1>9. CASE R!Field
    <2>1. /\ worklist # <<>> /\ inspection' # "found" /\ worklist' = R!Rest /\ R!Rest \in Seq(S)
          /\ visited' = visited /\ found' = Append(found, R!Top.name) /\ R!Runs(R!Top)
          /\ R!Top.kind = "field" /\ R!Top \in S
      BY <1>6, <1>7, <1>9 DEF R!Field
    <2>2. /\ found' \in Seq({s.name : s \in S})
          /\ R!Elements(found)' = R!Elements(found) \cup {R!Top.name}
      <3>1. PICK Names : Names = {s.name : s \in S}
        OBVIOUS
      <3>2. found \in Seq(Names) /\ R!Top.name \in Names
        BY <2>1, <3>1 DEF InspectionTyped
      <3>3. PICK n \in Nat : n = Len(found) /\ DOMAIN found = 1 .. n
        BY <3>2, LenProperties
      <3>4. /\ found' \in Seq(Names) /\ DOMAIN found' = 1 .. (n + 1)
            /\ \A i \in 1 .. n : found'[i] = found[i]
            /\ found'[n + 1] = R!Top.name
        BY <2>1, <3>2, <3>3
      <3>5. 1 .. (n + 1) = (1 .. n) \cup {n + 1}
        OBVIOUS
      <3>6. R!Elements(found)' = {found'[i] : i \in 1 .. (n + 1)}
        BY <3>4 DEF R!Elements
      <3>7. R!Elements(found) = {found[i] : i \in 1 .. n}
        BY <3>3 DEF R!Elements
      <3> QED  BY <3>1, <3>4, <3>5, <3>6, <3>7
    <2>3. InspectionTyped(S)'
      BY <1>3, <2>1, <2>2
    <2>4. R!Elements(worklist)' = R!Elements(R!Rest)
      BY <2>1 DEF R!Elements
    <2>5. R!WorklistIsSound'
      <3>1. PICK more \in SUBSET R!Reached : more = {}
        OBVIOUS
      <3>2. R!Elements(worklist)' = R!Elements(R!Rest) \cup UNION {R!SelectionsOf(b) : b \in more}
        BY <2>4, <3>1
      <3>3. visited' \subseteq been \cup more
        BY <1>4, <2>1 DEF R!HasBeenTo
      <3>4. R!Elements(found)' \subseteq R!ExecutedFields
        BY <2>1, <2>2, TopIsReached DEF R!WorklistIsSound
      <3> QED  BY <1>1, <1>4, <2>1, <2>2, <3>2, <3>3, <3>4, TopIsDone
    <2> QED  BY <2>3, <2>5
  <1>10. ASSUME R!MayLook, R!Runs(R!Top), R!Top.kind # "field", R!Top.name \in R!Blocks,
                worklist' = R!PushSelections(R!Rest, R!Top.name),
                visited' \subseteq visited \cup {R!Top.name},
                UNCHANGED <<found, inspection>>
         PROVE  InspectionTyped(S)' /\ R!WorklistIsSound'
    <2>1. /\ worklist # <<>> /\ inspection' # "found" /\ R!Rest \in Seq(S)
      BY <1>6, <1>10
    <2>2. document[R!Top.name] \in Seq(S)
      BY <1>10 DEF InspectionTyped
    <2>3. PICK list \in Seq(S) : list = R!Rest
      BY <2>1
    <2>4. PICK name : name = R!Top.name
      OBVIOUS
    <2>5. /\ worklist' \in Seq(S)
          /\ R!Elements(R!PushSelections(list, name)) = R!Elements(list) \cup R!SelectionsOf(name)
      BY <1>10, <2>2, <2>3, <2>4, Pushes
    <2>6. /\ R!Elements(worklist)' = R!Elements(R!Rest) \cup R!SelectionsOf(name)
          /\ R!Elements(found)' = R!Elements(found)
      <3>1. R!Elements(worklist)' = R!Elements(R!PushSelections(list, name))
        BY <1>10, <2>3, <2>4 DEF R!Elements
      <3>2. R!Elements(found)' = R!Elements(found)
        BY <1>10 DEF R!Elements
      <3> QED  BY <2>3, <2>5, <3>1, <3>2
    <2>7. InspectionTyped(S)'
      BY <1>3, <1>10, <2>5 DEF InspectionTyped
    <2>8. R!WorklistIsSound'
      <3>1. name \in R!Reached
        BY <1>10, <2>1, <2>4, TopIsReached
      <3>2. PICK more \in SUBSET R!Reached : more = {name}
        BY <3>1
      <3>3. R!Elements(worklist)' = R!Elements(R!Rest) \cup UNION {R!SelectionsOf(b) : b \in more}
        BY <2>6, <3>2
      <3>4. visited' \subseteq been \cup more /\ R!Elements(found)' \subseteq R!ExecutedFields
        BY <1>4, <1>10, <2>4, <2>6, <3>2 DEF R!HasBeenTo, R!WorklistIsSound
      <3>5. R!Top.name \in been \cup more
        BY <2>4, <3>2
      <3> QED  BY <1>1, <1>4, <1>10, <2>1, <2>6, <3>3, <3>4, <3>5, TopIsDone
    <2> QED  BY <2>7, <2>8
  <1>11. CASE R!Inline
    <2>1. R!Top.name \in R!Blocks
      BY <1>6, <1>11 DEF R!Inline, InspectionTyped
    <2> QED  BY <1>7, <1>10, <1>11, <2>1 DEF R!Inline
  <1>12. CASE R!Spread
    <2>1. R!MayLook /\ R!Runs(R!Top) /\ R!Top.kind = "spread" /\ UNCHANGED <<found, inspection>>
      BY <1>7, <1>12 DEF R!Spread
    <2>2. CASE R!Top.name \in R!Blocks \ visited
      <3>1. /\ visited' = visited \cup {R!Top.name}
            /\ worklist' = R!PushSelections(R!Rest, R!Top.name)
        BY <1>12, <2>2 DEF R!Spread
      <3> QED  BY <1>10, <2>1, <2>2, <3>1
    <2>3. CASE R!Top.name \notin R!Blocks \ visited
      <3>1. /\ worklist # <<>> /\ inspection' # "found" /\ R!Rest \in Seq(S)
            /\ worklist' = R!Rest /\ visited' = visited
        BY <1>6, <1>12, <2>1, <2>3 DEF R!Spread
      <3>2. InspectionTyped(S)'
        BY <1>3, <2>1, <3>1 DEF InspectionTyped
      <3>3. R!Elements(worklist)' = R!Elements(R!Rest) /\ R!Elements(found)' = R!Elements(found)
        BY <2>1, <3>1 DEF R!Elements
      <3>4. PICK more \in SUBSET R!Reached : more = {}
        OBVIOUS
      <3>5. R!Elements(worklist)' = R!Elements(R!Rest) \cup UNION {R!SelectionsOf(b) : b \in more}
        BY <3>3, <3>4
      <3>6. visited' \subseteq been \cup more /\ R!Elements(found)' \subseteq R!ExecutedFields
        BY <1>4, <3>1, <3>3 DEF R!HasBeenTo, R!WorklistIsSound
      <3>7. R!Top.name \in R!Blocks => R!Top.name \in been \cup more
        BY <1>4, <2>3 DEF R!HasBeenTo
      <3>8. R!WorklistIsSound'
        BY <1>1, <1>4, <2>1, <3>1, <3>3, <3>5, <3>6, <3>7, TopIsDone
      <3> QED  BY <3>2, <3>8
    <2> QED  BY <2>2, <2>3
  <1> QED  BY <1>5, <1>8, <1>9, <1>11, <1>12 DEF R!RootNext

\* Whatever the fragments of a document share, skip, leave out or spread in a cycle, the
\* inspection finds exactly the root fields that the engine executes.
THEOREM RootsAreFound ==
    ASSUME NEW S, Written(S) PROVE R!RootSpec => []R!FoundIsExecuted
  <1>1. ASSUME InspectionTyped(S), R!WorklistIsSound PROVE R!FoundIsExecuted
    <2> SUFFICES ASSUME inspection = "found" PROVE R!Elements(found) = R!ExecutedFields
      BY DEF R!FoundIsExecuted
    <2>1. worklist = <<>>
      BY <1>1 DEF R!WorklistIsSound
    <2>2. R!Elements(worklist) = {}
      BY <2>1 DEF R!Elements
    <2>3. PICK been \in SUBSET R!Reached : R!HasBeenTo(been)
      BY <1>1 DEF R!WorklistIsSound
    <2>4. \A b \in been : \A s \in R!SelectionsOf(b) : R!Handled(s, been)
      BY <2>2, <2>3 DEF R!HasBeenTo
    <2>5. R!Leads(been) \subseteq been
      BY <2>4 DEF R!Leads, R!Handled
    <2>6. been = R!Reached
      <3>1. "operation" \in been /\ been \subseteq R!Blocks
        BY <1>1, <2>3, ReachedIsLeast DEF R!HasBeenTo, InspectionTyped
      <3> QED  BY <1>1, <2>3, <2>5, <3>1, ReachedIsLeast DEF InspectionTyped
    <2>7. R!ExecutedFields \subseteq R!Elements(found)
      BY <2>4, <2>6 DEF R!ExecutedFields, R!Handled
    <2> QED  BY <1>1, <2>7 DEF R!WorklistIsSound
  <1>2. InspectionTyped(S) /\ R!WorklistIsSound /\ UNCHANGED R!rootVars
        => InspectionTyped(S)' /\ R!WorklistIsSound'
    <2> SUFFICES ASSUME InspectionTyped(S), R!WorklistIsSound, UNCHANGED R!rootVars
                 PROVE  InspectionTyped(S)' /\ R!WorklistIsSound'
      OBVIOUS
    <2>1. UNCHANGED <<document, given, worklist, visited, found, inspection>>
      BY DEF R!rootVars
    <2>2. InspectionTyped(S)'
      BY <2>1, SameDocument DEF InspectionTyped
    <2>3. \A been : R!HasBeenTo(been)' <=> R!HasBeenTo(been)
      BY <2>1, SameDocument DEF R!HasBeenTo, R!Handled, R!Elements
    <2>4. R!Elements(worklist)' = R!Elements(worklist) /\ R!Elements(found)' = R!Elements(found)
      BY <2>1 DEF R!Elements
    <2> QED  BY <2>1, <2>2, <2>3, <2>4, SameDocument DEF R!WorklistIsSound
  <1> QED  BY <1>1, <1>2, InspectionStarts, InspectionGoesOn, PTL DEF R!RootSpec
=============================================================================
