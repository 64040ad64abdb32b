------------------------ MODULE SourceObjectReservation ------------------------
(***************************************************************************)
(* The source-object write of the platform service: a reservation row in   *)
(* PostgreSQL, the immutable document_object row, the bytes in S3, and the *)
(* concurrent callers of SourceObjectCoordinator.createSourceObject that   *)
(* move between them.  No database transaction spans storage I/O, so every *)
(* pc value below is a point where another caller, a timeout, a late PUT   *)
(* or a crash may come in between.                                         *)
(*                                                                         *)
(* Abstractions.  An object identity is (document, object id, digest,      *)
(* bucket); the digest stands for every other immutable field the code     *)
(* compares (byte length, content type, file name).  The key of the bytes  *)
(* is derived from document and object id.  Lease ids are random UUIDs and *)
(* each grant increments attemptCount, so a lease of a reservation is      *)
(* named by the attempt number it was granted with.  Time is the number of *)
(* ticks a lease still has (leaseLeft), zero once the database clock has   *)
(* reached leaseExpiresAt.                                                 *)
(***************************************************************************)
EXTENDS Integers, FiniteSets

CONSTANTS
    Callers,          \* concurrent invocations of createSourceObject
    Documents, ObjectIds, Digests, Buckets, Owners,
    DocumentOwner,    \* owner (and type) of each registered document
    ConfiguredBucket, \* the bucket of the S3 adapter
    Requests,         \* inputs the callers may pass
    LegacyObjects,    \* document_object rows that may predate reservations
    StrayDigests,     \* digests that may lie in the bucket before any call
    LeaseTicks,       \* DOCUMENT_OBJECT_RESERVATION_LEASE_MS, in ticks
    MaxAttempts,      \* DOCUMENT_OBJECT_RESERVATION_MAX_ATTEMPTS
    NoRow, NoBytes    \* absent row, absent S3 object

Object == [documentId : Documents, objectId : ObjectIds, sha256 : Digests,
           storageBucket : Buckets]
Request == [object : Object, ownerId : Owners]
Key == Documents \X ObjectIds

FailureCodes == {"unavailable", "not_found", "integrity_mismatch",
                 "invalid_location", "invalid_response"}
NoFailure == "none"

Row == [object : Object, attemptCount : 1..MaxAttempts,
        leaseLeft : 0..LeaseTicks,
        status : {"pending", "failed", "finalized"},
        failureCode : FailureCodes \cup {NoFailure}]

ASSUME ConstantsAssumption ==
    /\ LeaseTicks \in Nat \ {0}
    /\ MaxAttempts \in Nat \ {0}
    /\ ConfiguredBucket \in Buckets
    /\ DocumentOwner \in [Documents -> Owners]
    /\ Requests \subseteq Request /\ Requests # {}
    /\ LegacyObjects \subseteq Object
    /\ StrayDigests \subseteq Digests
    /\ NoRow \notin Row
    /\ NoRow \notin Object
    /\ NoBytes \notin Digests

VARIABLES
    reservation,    \* document_object_reservation, by document
    documentObject, \* document_object, by document
    bytes,          \* objects of the configured bucket, by key
    wire,           \* PUT requests the storage may still execute
    pc, request, lease, failure, outcome  \* locals of each caller

dbVars == <<reservation, documentObject>>
storageVars == <<bytes, wire>>
callVars == <<pc, request, lease, failure, outcome>>
vars == <<reservation, documentObject, bytes, wire,
          pc, request, lease, failure, outcome>>

\* buildSourceObjectKey
KeyOf(o) == <<o.documentId, o.objectId>>

-----------------------------------------------------------------------------
(* The unique indexes: (document, kind), object id, (bucket, key).  The key *)
(* contains both other identities, so the third never adds a conflict.      *)

SharesIdentity(o1, o2) ==
    \/ o1.documentId = o2.documentId
    \/ o1.objectId = o2.objectId

\* Mutant: conflicts looked up, and indexed, by document alone.
ConflictingReservationsByDocument(o) ==
    {d \in Documents : /\ reservation[d] # NoRow
                       /\ reservation[d].object.documentId = o.documentId}

ConflictingReservations(o) ==
    {d \in Documents : /\ reservation[d] # NoRow
                       /\ SharesIdentity(reservation[d].object, o)}

\* Mutant: the same for registered objects.
ConflictingObjectsByDocument(o) ==
    {d \in Documents : /\ documentObject[d] # NoRow
                       /\ documentObject[d].documentId = o.documentId}

ConflictingObjects(o) ==
    {d \in Documents : /\ documentObject[d] # NoRow
                       /\ SharesIdentity(documentObject[d], o)}

DocumentMatches(r) == DocumentOwner[r.object.documentId] = r.ownerId

PendingRow(o, n) ==
    [object |-> o, attemptCount |-> n, leaseLeft |-> LeaseTicks,
     status |-> "pending", failureCode |-> NoFailure]

\* Mutant: any pending row counts as leased, expired or not.
LeaseLivePending(row) == row.status = "pending"

LeaseLive(row) == row.status = "pending" /\ row.leaseLeft > 0

AttemptsExhausted(row) == row.attemptCount >= MaxAttempts

Goto(p, label) == pc' = [pc EXCEPT ![p] = label]

\* The call ends with a result or a thrown error the caller sees.
Return(p, result) ==
    /\ Goto(p, "idle")
    /\ outcome' = [outcome EXCEPT ![p] = result]

-----------------------------------------------------------------------------
(* acquire *)

Call(p, r) ==
    /\ pc[p] = "idle"
    /\ Goto(p, "acquire")
    /\ request' = [request EXCEPT ![p] = r]
    /\ outcome' = [outcome EXCEPT ![p] = "none"]
    /\ failure' = [failure EXCEPT ![p] = NoFailure]
    /\ lease' = [lease EXCEPT ![p] = 0]
    /\ UNCHANGED <<dbVars, storageVars>>

\* Mutant: only the ids are compared, not what the bytes should be.
MatchesIdentityByIds(row, o) ==
    row.object.documentId = o.documentId /\ row.object.objectId = o.objectId

\* matchesReservationIdentity
MatchesIdentity(row, o) == row.object = o

\* decideExistingReservation and its effect, the row being locked.
DecideAndApplyExisting(p, d) ==
    LET row == reservation[d] IN
    \/ /\ ~MatchesIdentity(row, request[p].object)
       /\ Return(p, "identity_conflict")
       /\ UNCHANGED <<reservation, lease>>
    \/ /\ MatchesIdentity(row, request[p].object)
       /\ row.status = "finalized"
       /\ Goto(p, "verifyFinalized")
       /\ UNCHANGED <<reservation, lease, outcome>>
    \/ /\ MatchesIdentity(row, request[p].object)
       /\ LeaseLive(row)
       /\ Return(p, "in_progress")
       /\ UNCHANGED <<reservation, lease>>
    \/ /\ MatchesIdentity(row, request[p].object)
       /\ row.status # "finalized" /\ ~LeaseLive(row)
       /\ AttemptsExhausted(row)
       /\ Return(p, "retry_exhausted")
       /\ UNCHANGED <<reservation, lease>>
    \/ /\ MatchesIdentity(row, request[p].object)
       /\ row.status # "finalized" /\ ~LeaseLive(row)
       /\ ~AttemptsExhausted(row)
       /\ reservation' = [reservation EXCEPT ![d] =
                            PendingRow(row.object, row.attemptCount + 1)]
       /\ lease' = [lease EXCEPT ![p] = row.attemptCount + 1]
       /\ Goto(p, "write")
       /\ UNCHANGED outcome

\* First transaction: assertDocument, then the locked look-up, whose OR
\* condition returns any one of the conflicting rows.
FindReservation(p) ==
    /\ pc[p] = "acquire"
    /\ \/ /\ ~DocumentMatches(request[p])
          /\ Return(p, "document_mismatch")
          /\ UNCHANGED <<reservation, lease>>
       \/ /\ DocumentMatches(request[p])
          /\ \E d \in ConflictingReservations(request[p].object) :
                DecideAndApplyExisting(p, d)
       \/ /\ DocumentMatches(request[p])
          /\ ConflictingReservations(request[p].object) = {}
          /\ Goto(p, "findObject")
          /\ UNCHANGED <<reservation, lease, outcome>>
    /\ UNCHANGED <<documentObject, storageVars, request, failure>>

\* findConflictingObject, without a row lock.
FindObject(p) ==
    /\ pc[p] = "findObject"
    /\ \/ /\ ConflictingObjects(request[p].object) = {}
          /\ Goto(p, "insert")
          /\ UNCHANGED outcome
       \/ \E d \in ConflictingObjects(request[p].object) :
             \/ /\ documentObject[d] = request[p].object
                /\ Goto(p, "adopt")
                /\ UNCHANGED outcome
             \/ /\ documentObject[d] # request[p].object
                /\ Return(p, "identity_conflict")
    /\ UNCHANGED <<dbVars, storageVars, request, lease, failure>>

\* insertPendingReservation; a unique violation (23505) starts the second
\* transaction.
InsertPending(p) ==
    LET o == request[p].object IN
    /\ pc[p] = "insert"
    /\ IF ConflictingReservations(o) = {}
       THEN /\ reservation' = [reservation EXCEPT
                                 ![o.documentId] = PendingRow(o, 1)]
            /\ lease' = [lease EXCEPT ![p] = 1]
            /\ Goto(p, "write")
       ELSE /\ Goto(p, "reacquire")
            /\ UNCHANGED <<reservation, lease>>
    /\ UNCHANGED <<documentObject, storageVars, request, failure, outcome>>

\* adoptFinalizedObject: the row is inserted finalized, without any lease
\* holder and without reading the bytes.
AdoptFinalized(p) ==
    LET o == request[p].object IN
    /\ pc[p] = "adopt"
    /\ IF ConflictingReservations(o) = {}
       THEN /\ reservation' = [reservation EXCEPT ![o.documentId] =
                                 [PendingRow(o, 1) EXCEPT !.status = "finalized"]]
            /\ Goto(p, "verifyFinalized")
       ELSE /\ Goto(p, "reacquire")
            /\ UNCHANGED reservation
    /\ UNCHANGED <<documentObject, storageVars, request, lease, failure, outcome>>

\* acquireExistingInTransaction
Reacquire(p) ==
    /\ pc[p] = "reacquire"
    /\ \/ \E d \in ConflictingReservations(request[p].object) :
             DecideAndApplyExisting(p, d)
       \/ /\ ConflictingReservations(request[p].object) = {}
          /\ Return(p, "identity_conflict")
          /\ UNCHANGED <<reservation, lease>>
    /\ UNCHANGED <<documentObject, storageVars, request, failure>>

-----------------------------------------------------------------------------
(* Storage I/O, outside every transaction.  Each request may also fail or   *)
(* time out ("unavailable"), with no automatic retry.                       *)

\* What the bytes under a key may be taken for: on the way they may be cut or
\* damaged, and their metadata may be other or missing, whatever they are.
Misread == {"integrity_mismatch", "invalid_response"}

\* Mutant: any body that arrives is good.
VerifyResultsTrusting(o) == {"unavailable", IF bytes[KeyOf(o)] = NoBytes
                                            THEN "not_found" ELSE "ok"}

\* What verifyObject may report: it reads the whole object and compares.
VerifyResults(o) ==
    LET found == bytes[KeyOf(o)] IN
    IF o.storageBucket # ConfiguredBucket
    THEN {"invalid_location"}
    ELSE {"unavailable"} \cup (IF found = NoBytes THEN {"not_found"} ELSE Misread)
                        \cup (IF found = o.sha256 THEN {"ok"} ELSE {})

\* The error a storage failure becomes for the caller.
FailureResult(code) ==
    IF code = "integrity_mismatch" THEN "recovery_required" ELSE "storage_failure"

\* A row that acquire reports finalized is verified before the answer.
VerifyFinalized(p) ==
    /\ pc[p] = "verifyFinalized"
    /\ \E result \in VerifyResults(request[p].object) :
          Return(p, IF result = "ok" THEN "finalized" ELSE FailureResult(result))
    /\ UNCHANGED <<dbVars, storageVars, request, lease, failure>>

\* A storage error: the caller goes on to failLease with its code.
StorageFails(p, code) ==
    /\ Goto(p, "failing")
    /\ failure' = [failure EXCEPT ![p] = code]

\* Mutant: the PUT is sent without looking first.
HeadObjectSkipped(p) ==
    /\ pc[p] = "write"
    /\ Goto(p, "put")
    /\ UNCHANGED <<dbVars, storageVars, request, lease, failure, outcome>>

\* writeObject, first request: HeadObject.  An object that is already there
\* (already_exists) is not written but verified; one without its metadata is
\* an invalid response.
HeadObject(p) ==
    /\ pc[p] = "write"
    /\ \/ /\ Goto(p, IF bytes[KeyOf(request[p].object)] = NoBytes
                     THEN "put" ELSE "verify")
          /\ UNCHANGED failure
       \/ StorageFails(p, "unavailable")
       \/ bytes[KeyOf(request[p].object)] # NoBytes /\ StorageFails(p, "invalid_response")
    /\ UNCHANGED <<dbVars, storageVars, request, lease, outcome>>

PutRequest(p) == [caller |-> p, lease |-> lease[p], object |-> request[p].object]

\* writeObject, second request: PutObject with If-None-Match: *.
PutObject(p) ==
    /\ pc[p] = "put"
    /\ wire' = wire \cup {PutRequest(p)}
    /\ Goto(p, "putting")
    /\ UNCHANGED <<dbVars, bytes, request, lease, failure, outcome>>

Awaits(p, w) == pc[p] = "putting" /\ w = PutRequest(p)

\* The storage executes a PUT, perhaps long after its caller gave up on it.
\* If-None-Match is no authority (Garage does not make it atomic): over an
\* existing object the PUT is refused (412, already_exists) or stored all the
\* same.  A caller that still waits and gets the response goes on to verify.
PutLands(w) ==
    /\ w \in wire
    /\ wire' = wire \ {w}
    /\ \/ bytes' = [bytes EXCEPT ![KeyOf(w.object)] = w.object.sha256]
       \/ bytes[KeyOf(w.object)] # NoBytes /\ UNCHANGED bytes
    /\ \/ Awaits(w.caller, w) /\ Goto(w.caller, "verify")
       \/ UNCHANGED pc
    /\ UNCHANGED <<dbVars, request, lease, failure, outcome>>

\* The storage refuses a PUT because another one for the key is under way
\* (409, already_exists too).
PutConflicts(p) ==
    /\ pc[p] = "putting"
    /\ PutRequest(p) \in wire
    /\ \E w \in wire : /\ w # PutRequest(p)
                       /\ KeyOf(w.object) = KeyOf(request[p].object)
    /\ wire' = wire \ {PutRequest(p)}
    /\ Goto(p, "verify")
    /\ UNCHANGED <<dbVars, bytes, request, lease, failure, outcome>>

\* The request timeout aborts the caller, not necessarily the PUT.
PutTimesOut(p) ==
    /\ pc[p] = "putting"
    /\ StorageFails(p, "unavailable")
    /\ UNCHANGED <<dbVars, storageVars, request, lease, outcome>>

\* verifyObject of the bytes just written or found.
VerifyWritten(p) ==
    /\ pc[p] = "verify"
    /\ \E result \in VerifyResults(request[p].object) :
          \/ result = "ok" /\ Goto(p, "finalize") /\ UNCHANGED failure
          \/ result # "ok" /\ StorageFails(p, result)
    /\ UNCHANGED <<dbVars, storageVars, request, lease, outcome>>

-----------------------------------------------------------------------------
(* fail and finalize: short transactions that lock the row and recheck the  *)
(* lease id (but not its expiry).                                           *)

\* Mutant: the update does not compare the lease.
OwnsLeasePending(p) ==
    LET row == reservation[request[p].object.documentId] IN
    row # NoRow /\ row.status = "pending"

\* Does the row the caller locks still carry the caller's lease?
OwnsLease(p) ==
    LET row == reservation[request[p].object.documentId] IN
    row # NoRow /\ row.status = "pending" /\ row.attemptCount = lease[p]

Fail(p) ==
    LET d == request[p].object.documentId IN
    /\ pc[p] = "failing"
    /\ IF OwnsLease(p)
       THEN reservation' = [reservation EXCEPT ![d].status = "failed",
                                               ![d].failureCode = failure[p]]
       ELSE UNCHANGED reservation
    /\ Return(p, FailureResult(failure[p]))
    /\ UNCHANGED <<documentObject, storageVars, request, lease, failure>>

IsFinal(row) == row # NoRow /\ row.status = "finalized"

\* A finalized row answers any holder of any of its leases.
Finalize(p) ==
    LET o == request[p].object
        d == o.documentId
        row == reservation[d] IN
    /\ pc[p] = "finalize"
    /\ \/ /\ IsFinal(row)
          /\ Return(p, "finalized")
          /\ UNCHANGED dbVars
       \/ /\ ~IsFinal(row) /\ ~OwnsLease(p)
          /\ Return(p, "lease_lost")
          /\ UNCHANGED dbVars
       \/ /\ OwnsLease(p)
          /\ ConflictingObjects(row.object) # {}
          /\ Return(p, "unique_violation")
          /\ UNCHANGED dbVars
       \/ /\ OwnsLease(p)
          /\ ConflictingObjects(row.object) = {}
          /\ documentObject' = [documentObject EXCEPT ![d] = row.object]
          /\ reservation' = [reservation EXCEPT ![d].status = "finalized",
                                                ![d].failureCode = NoFailure]
          /\ Return(p, "finalized")
    /\ UNCHANGED <<storageVars, request, lease, failure>>

-----------------------------------------------------------------------------
\* The process dies, or a database call throws: the call is gone, its lease
\* and its PUT are not.
Crash(p) ==
    /\ pc[p] # "idle"
    /\ Return(p, "none")
    /\ UNCHANGED <<dbVars, storageVars, request, lease, failure>>

\* The database clock advances by a tick.
Tick ==
    /\ \E d \in Documents : reservation[d] # NoRow /\ reservation[d].leaseLeft > 0
    /\ reservation' =
          [d \in Documents |->
             IF reservation[d] # NoRow /\ reservation[d].leaseLeft > 0
             THEN [reservation[d] EXCEPT !.leaseLeft = @ - 1]
             ELSE reservation[d]]
    /\ UNCHANGED <<documentObject, storageVars, callVars>>

Init ==
    /\ reservation = [d \in Documents |-> NoRow]
    /\ documentObject \in [Documents -> LegacyObjects \cup {NoRow}]
    /\ \A d, e \in Documents :
          documentObject[d] # NoRow =>
             /\ documentObject[d].documentId = d
             /\ (e # d /\ documentObject[e] # NoRow) =>
                   documentObject[e].objectId # documentObject[d].objectId
    /\ bytes \in [Key -> StrayDigests \cup {NoBytes}]
    /\ wire = {}
    /\ pc = [p \in Callers |-> "idle"]
    /\ request = [p \in Callers |-> CHOOSE r \in Requests : TRUE]
    /\ lease = [p \in Callers |-> 0]
    /\ failure = [p \in Callers |-> NoFailure]
    /\ outcome = [p \in Callers |-> "none"]

\* The steps of the coordinator once a call is made.
CallStep(p) ==
    \/ FindReservation(p) \/ FindObject(p) \/ InsertPending(p)
    \/ AdoptFinalized(p) \/ Reacquire(p) \/ VerifyFinalized(p)
    \/ HeadObject(p) \/ PutObject(p) \/ PutConflicts(p) \/ PutTimesOut(p)
    \/ VerifyWritten(p) \/ Fail(p) \/ Finalize(p)

Next ==
    \/ \E p \in Callers :
          (\E r \in Requests : Call(p, r)) \/ CallStep(p) \/ Crash(p)
    \/ \E w \in wire : PutLands(w)
    \/ Tick

Spec == Init /\ [][Next]_vars
-----------------------------------------------------------------------------
(* Properties *)

Results == {"none", "document_mismatch", "identity_conflict", "in_progress",
            "retry_exhausted", "finalized", "recovery_required",
            "storage_failure", "lease_lost", "unique_violation"}

\* The steps of a caller that holds a lease, live or not.
Holding == {"write", "put", "putting", "verify", "failing", "finalize"}
Labels == {"idle", "acquire", "findObject", "insert", "adopt", "reacquire",
           "verifyFinalized"} \cup Holding

\* Every variable has its type: rows are absent or well-formed, attempts stay
\* within 1..MaxAttempts (CHK_document_object_reservation_attempt), locals
\* within the calls of the coordinator.
TypeOK ==
    /\ reservation \in [Documents -> Row \cup {NoRow}]
    /\ documentObject \in [Documents -> Object \cup {NoRow}]
    /\ bytes \in [Key -> Digests \cup {NoBytes}]
    /\ wire \subseteq [caller : Callers, lease : 0..MaxAttempts, object : Object]
    /\ pc \in [Callers -> Labels]
    /\ request \in [Callers -> Requests]
    /\ lease \in [Callers -> 0..MaxAttempts]
    /\ failure \in [Callers -> FailureCodes \cup {NoFailure}]
    /\ outcome \in [Callers -> Results]

\* A caller that is told "finalized" by createSourceObject, as the first
\* writer, a recoverer, a superseded holder or a later reader, has its own
\* request registered in document_object and its own bytes in the bucket.
AnsweredObjectIsDurable ==
    \A p \in Callers :
        outcome[p] = "finalized" =>
            LET o == request[p].object IN
            /\ documentObject[o.documentId] = o
            /\ bytes[KeyOf(o)] = o.sha256

\* A document_object row that finalize inserted describes bytes that are in
\* the bucket, whatever crashed, timed out or landed late.
RegisteredObjectIsDurable ==
    \A d \in Documents :
        /\ documentObject[d] # NoRow
        /\ documentObject[d] \notin LegacyObjects
        => bytes[KeyOf(documentObject[d])] = documentObject[d].sha256

\* A reservation is finalized exactly when it has its document_object row;
\* while it is pending or failed no registered object conflicts with it, so
\* the insert in finalize cannot hit a unique violation.
ReservationMatchesObject ==
    \A d \in Documents :
        reservation[d] # NoRow =>
            IF reservation[d].status = "finalized"
            THEN documentObject[d] = reservation[d].object
            ELSE ConflictingObjects(reservation[d].object) = {}

\* No two reservations and no two registered objects share an identity.
IdentitiesAreUnique ==
    \A d, e \in Documents : d # e =>
        /\ reservation[d] # NoRow /\ reservation[e] # NoRow =>
              ~SharesIdentity(reservation[d].object, reservation[e].object)
        /\ documentObject[d] # NoRow /\ documentObject[e] # NoRow =>
              ~SharesIdentity(documentObject[d], documentObject[e])

\* No two callers ever hold the same lease of a reservation, although a
\* lease is granted in four places and holders outlive their leases.
LeaseIsExclusive ==
    \A p, q \in Callers :
        /\ p # q
        /\ pc[p] \in Holding /\ pc[q] \in Holding
        /\ request[p].object.documentId = request[q].object.documentId
        => lease[p] # lease[q]

\* Once registered, an object and its finalized reservation never change
\* (status, identity, attempt), not even by a stale holder's fail.
FinalizedIsForever ==
    [][\A d \in Documents :
          /\ documentObject[d] # NoRow => documentObject'[d] = documentObject[d]
          /\ reservation[d] # NoRow =>
                /\ reservation'[d] # NoRow
                /\ reservation'[d].object = reservation[d].object
                /\ reservation[d].status = "finalized" =>
                      /\ reservation'[d].status = "finalized"
                      /\ reservation'[d].attemptCount = reservation[d].attemptCount
      ]_dbVars

\* While a lease is live nobody else takes the reservation over, and only
\* its holder can end it.
LiveLeaseIsRespected ==
    [][\A d \in Documents :
          (reservation[d] # NoRow /\ LeaseLive(reservation[d])) =>
             /\ reservation'[d].attemptCount = reservation[d].attemptCount
             /\ reservation'[d].status # "pending" =>
                   \E p \in Callers :
                      /\ pc[p] \in {"failing", "finalize"} /\ pc'[p] = "idle"
                      /\ request[p].object = reservation[d].object
                      /\ lease[p] = reservation[d].attemptCount
      ]_dbVars

\* What the database has once promised about a source is kept: a final state for
\* ever, a lease for its term.
PromisesAreKept == FinalizedIsForever /\ LiveLeaseIsRespected

\* The bytes under a key, once present, are never replaced by others, although
\* PUTs of several attempts, some long abandoned, may land in any order and
\* the storage does not make If-None-Match atomic.
BytesAreWrittenOnce ==
    [][\A k \in Key : bytes[k] # NoBytes => bytes'[k] = bytes[k]]_storageVars
-----------------------------------------------------------------------------
(* The inductive invariant: what every pc value stands for. *)

\* Rows are filed under their own document.
RowsAtHome ==
    \A d \in Documents :
        /\ reservation[d] # NoRow => reservation[d].object.documentId = d
        /\ documentObject[d] # NoRow => documentObject[d].documentId = d

\* A lease holder's reservation exists, is for the holder's object, and has
\* granted the holder's lease.
HoldersAreGranted ==
    \A p \in Callers :
        pc[p] \in Holding =>
            LET row == reservation[request[p].object.documentId] IN
            /\ row # NoRow
            /\ row.object = request[p].object
            /\ 1 <= lease[p] /\ lease[p] <= row.attemptCount

\* What a caller has learnt at its pc still holds when it acts on it.
KnowledgeIsStable ==
    \A p \in Callers :
        LET o == request[p].object IN
        /\ pc[p] = "finalize" => bytes[KeyOf(o)] = o.sha256
        /\ pc[p] \in {"adopt", "verifyFinalized"} =>
              documentObject[o.documentId] = o
        /\ pc[p] = "insert" =>
              \A d \in ConflictingObjects(o) : reservation[d] # NoRow

\* Why an overwriting PUT does no harm: whoever may still PUT, now or late,
\* was granted a lease for these very bytes, and looked first.
Agrees(o) ==
    /\ reservation[o.documentId] # NoRow
    /\ reservation[o.documentId].object = o
    /\ bytes[KeyOf(o)] \in {NoBytes, o.sha256}

PutsAgree ==
    /\ \A w \in wire : Agrees(w.object)
    /\ \A p \in Callers : pc[p] = "put" => Agrees(request[p].object)

\* The safety of the write path; with PutsAgree, its inductive invariant.
Safety ==
    /\ RowsAtHome
    /\ HoldersAreGranted
    /\ KnowledgeIsStable
    /\ AnsweredObjectIsDurable
    /\ RegisteredObjectIsDurable
    /\ ReservationMatchesObject
    /\ IdentitiesAreUnique
    /\ LeaseIsExclusive

IInv == Safety /\ PutsAgree

-----------------------------------------------------------------------------
\* The steps of a call in progress are taken (every storage request has a
\* timeout, the event loop runs on) and the database clock advances.
FairSpec ==
    /\ Spec
    /\ \A p \in Callers : WF_vars(CallStep(p))
    /\ WF_vars(Tick)

\* Nothing is left to be done for a request: it is refused for good, final,
\* or out of attempts.
Settled(r) ==
    LET o == r.object IN
    \/ ~DocumentMatches(r)
    \/ \E d \in ConflictingReservations(o) : reservation[d].object # o
    \/ \E d \in ConflictingObjects(o) : documentObject[d] # o
    \/ /\ reservation[o.documentId] # NoRow
       /\ LET row == reservation[o.documentId] IN
          \/ row.status = "finalized"
          \/ row.attemptCount = MaxAttempts /\ ~LeaseLive(row)

\* A source that is requested again and again, crashes having ended, is
\* eventually final or out of attempts: an abandoned lease cannot keep it
\* "in progress", nor failures keep it retrying, for ever.
RetriesSettle ==
    \A r \in Requests :
        (/\ <>[][\A p \in Callers : ~Crash(p)]_vars
         /\ []<><<\E p \in Callers : Call(p, r)>>_vars)
        => <>[]Settled(r)

\* The document's words (docs/data-and-recovery.md): only the lease holder
\* can upload.  A PUT is sent only under the reservation's current lease.
OnlyLeaseHolderUploads ==
    [][\A p \in Callers :
          (pc[p] = "put" /\ pc'[p] = "putting") => OwnsLease(p)]_<<pc, wire>>

\* The abstract specification this one implements.
WriteOnce == INSTANCE WriteOnceObject WITH
    registered <- documentObject,
    stored <- bytes,
    answer <- [p \in Callers |-> IF outcome[p] = "finalized"
                                 THEN request[p].object ELSE NoRow]

\* The write path keeps the promise of WriteOnceObject: registered once,
\* after the bytes, and answered only then.
WriteOncePromise == WriteOnce!Spec
=============================================================================
