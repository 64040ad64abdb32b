--------------------- MODULE SourceObjectReservationProofs ---------------------
(***************************************************************************)
(* Proofs about SourceObjectReservation for every number of callers,       *)
(* documents, objects, attempts and ticks.                                 *)
(***************************************************************************)
EXTENDS SourceObjectReservation, TLAPS

-----------------------------------------------------------------------------
(* Types *)

LEMMA PendingRowType ==
    ASSUME NEW o \in Object, NEW n \in 1..MaxAttempts
    PROVE  PendingRow(o, n) \in Row
  BY ConstantsAssumption DEF PendingRow, Row

LEMMA RequestType ==
    ASSUME TypeOK, NEW p \in Callers
    PROVE  /\ request[p].object \in Object
           /\ request[p].object.documentId \in Documents
           /\ request[p].object.objectId \in ObjectIds
           /\ request[p].object.sha256 \in Digests
           /\ KeyOf(request[p].object) \in Key
  BY ConstantsAssumption DEF TypeOK, Request, Object, KeyOf, Key

LEMMA InitType == Init => TypeOK
  <1> SUFFICES ASSUME Init PROVE TypeOK
    OBVIOUS
  <1>1. (CHOOSE r \in Requests : TRUE) \in Requests
    BY ConstantsAssumption
  <1>2. documentObject \in [Documents -> Object \cup {NoRow}]
    BY ConstantsAssumption DEF Init
  <1>3. bytes \in [Key -> Digests \cup {NoBytes}]
    BY ConstantsAssumption DEF Init
  <1> QED
    BY <1>1, <1>2, <1>3, ConstantsAssumption DEF Init, TypeOK, Labels, Results

LEMMA DecideType ==
    ASSUME TypeOK, NEW p \in Callers, NEW d \in Documents,
           reservation[d] # NoRow, DecideAndApplyExisting(p, d),
           UNCHANGED <<documentObject, storageVars, request, failure>>
    PROVE  TypeOK'
  <1> DEFINE row == reservation[d]
  <1>1. row \in Row /\ row.object \in Object /\ row.attemptCount \in 1..MaxAttempts
    BY DEF TypeOK, Row
  <1>2. /\ reservation' \in [Documents -> Row \cup {NoRow}]
        /\ lease' \in [Callers -> 0..MaxAttempts]
    <2>1. CASE UNCHANGED <<reservation, lease>>
      BY <2>1 DEF TypeOK
    <2>2. CASE /\ ~AttemptsExhausted(row)
               /\ reservation' = [reservation EXCEPT ![d] =
                                    PendingRow(row.object, row.attemptCount + 1)]
               /\ lease' = [lease EXCEPT ![p] = row.attemptCount + 1]
      <3>1. row.attemptCount + 1 \in 1..MaxAttempts
        BY <1>1, <2>2, ConstantsAssumption DEF AttemptsExhausted
      <3> QED
        BY <1>1, <2>2, <3>1, PendingRowType DEF TypeOK
    <2> QED
      BY <2>1, <2>2 DEF DecideAndApplyExisting
  <1>3. /\ pc' \in [Callers -> Labels]
        /\ outcome' \in [Callers -> Results]
    BY DEF DecideAndApplyExisting, TypeOK, Goto, Return, Labels, Holding, Results
  <1> QED
    BY <1>2, <1>3 DEF TypeOK, storageVars

LEMMA TypeStep == TypeOK /\ [Next]_vars => TypeOK'
  <1> SUFFICES ASSUME TypeOK, [Next]_vars PROVE TypeOK'
    OBVIOUS
  <1> USE DEF dbVars, storageVars, callVars, Goto, Return, StorageFails
  <1>1. ASSUME NEW p \in Callers, NEW r \in Requests, Call(p, r)
        PROVE  TypeOK'
    BY <1>1, ConstantsAssumption DEF Call, TypeOK, Labels, Results
  <1>2. ASSUME NEW p \in Callers, FindReservation(p)
        PROVE  TypeOK'
    <2>1. CASE \E d \in ConflictingReservations(request[p].object) :
                  DecideAndApplyExisting(p, d)
      BY <1>2, <2>1, DecideType DEF FindReservation, ConflictingReservations
    <2>2. CASE Return(p, "document_mismatch") /\ UNCHANGED <<reservation, lease>>
      BY <1>2, <2>2 DEF FindReservation, TypeOK, Labels, Results
    <2>3. CASE Goto(p, "findObject") /\ UNCHANGED <<reservation, lease, outcome>>
      BY <1>2, <2>3 DEF FindReservation, TypeOK, Labels
    <2> QED
      BY <1>2, <2>1, <2>2, <2>3 DEF FindReservation
  <1>3. ASSUME NEW p \in Callers, FindObject(p)
        PROVE  TypeOK'
    BY <1>3 DEF FindObject, TypeOK, Labels, Results
  <1>4. ASSUME NEW p \in Callers, InsertPending(p)
        PROVE  TypeOK'
    <2>1. PendingRow(request[p].object, 1) \in Row
      BY RequestType, PendingRowType, ConstantsAssumption
    <2>2. 1 \in 0..MaxAttempts
      BY ConstantsAssumption
    <2>3. reservation' \in [Documents -> Row \cup {NoRow}]
      BY <1>4, <2>1, RequestType DEF InsertPending, TypeOK
    <2> QED
      BY <1>4, <2>2, <2>3 DEF InsertPending, TypeOK, Labels, Holding
  <1>5. ASSUME NEW p \in Callers, AdoptFinalized(p)
        PROVE  TypeOK'
    <2>1. [PendingRow(request[p].object, 1) EXCEPT !.status = "finalized"] \in Row
      BY RequestType, PendingRowType, ConstantsAssumption DEF Row
    <2> QED
      BY <1>5, <2>1, RequestType DEF AdoptFinalized, TypeOK, Labels
  <1>6. ASSUME NEW p \in Callers, Reacquire(p)
        PROVE  TypeOK'
    <2>1. CASE \E d \in ConflictingReservations(request[p].object) :
                  DecideAndApplyExisting(p, d)
      BY <1>6, <2>1, DecideType DEF Reacquire, ConflictingReservations
    <2>2. CASE Return(p, "identity_conflict") /\ UNCHANGED <<reservation, lease>>
      BY <1>6, <2>2 DEF Reacquire, TypeOK, Labels, Results
    <2> QED
      BY <1>6, <2>1, <2>2 DEF Reacquire
  <1>7. ASSUME NEW p \in Callers, VerifyFinalized(p)
        PROVE  TypeOK'
    BY <1>7 DEF VerifyFinalized, FailureResult, TypeOK, Labels, Results
  <1>8. ASSUME NEW p \in Callers, HeadObject(p)
        PROVE  TypeOK'
    BY <1>8 DEF HeadObject, TypeOK, Labels, Holding, FailureCodes
  <1>9. ASSUME NEW p \in Callers, PutObject(p)
        PROVE  TypeOK'
    BY <1>9, RequestType DEF PutObject, PutRequest, TypeOK, Labels, Holding
  <1>10. ASSUME NEW w \in wire, PutLands(w)
         PROVE  TypeOK'
    <2>1. w.caller \in Callers /\ w.object \in Object
      BY DEF TypeOK
    <2>2. w.object.sha256 \in Digests /\ KeyOf(w.object) \in Key
      BY <2>1 DEF Object, KeyOf, Key
    <2> QED
      BY <1>10, <2>1, <2>2 DEF PutLands, TypeOK, Labels, Holding
  <1>11. ASSUME NEW p \in Callers, PutConflicts(p)
         PROVE  TypeOK'
    BY <1>11 DEF PutConflicts, TypeOK, Labels, Holding
  <1>12. ASSUME NEW p \in Callers, PutTimesOut(p)
         PROVE  TypeOK'
    BY <1>12 DEF PutTimesOut, TypeOK, Labels, Holding, FailureCodes
  <1>13. ASSUME NEW p \in Callers, VerifyWritten(p)
         PROVE  TypeOK'
    BY <1>13 DEF VerifyWritten, VerifyResults, Misread, TypeOK, Labels, Holding, FailureCodes
  <1>14. ASSUME NEW p \in Callers, Fail(p)
         PROVE  TypeOK'
    <2> DEFINE d == request[p].object.documentId
    <2>1. d \in Documents
      BY RequestType
    <2>2. reservation' \in [Documents -> Row \cup {NoRow}]
      <3>1. CASE UNCHANGED reservation
        BY <3>1 DEF TypeOK
      <3>2. CASE OwnsLease(p)
        <4>1. reservation[d] \in Row
          BY <2>1, <3>2 DEF OwnsLease, TypeOK
        <4>2. failure[p] \in FailureCodes \cup {NoFailure}
          BY DEF TypeOK
        <4>3. [reservation[d] EXCEPT !.status = "failed",
                                     !.failureCode = failure[p]] \in Row
          BY <4>1, <4>2 DEF Row
        <4> QED
          BY <1>14, <2>1, <3>2, <4>3 DEF Fail, TypeOK
      <3> QED
        BY <1>14, <3>1, <3>2 DEF Fail
    <2> QED
      BY <1>14, <2>2 DEF Fail, FailureResult, TypeOK, Labels, Results
  <1>15. ASSUME NEW p \in Callers, Finalize(p)
         PROVE  TypeOK'
    <2> DEFINE d == request[p].object.documentId
    <2>1. d \in Documents
      BY RequestType
    <2>2. CASE UNCHANGED dbVars
      BY <1>15, <2>2 DEF Finalize, TypeOK, Labels, Results
    <2>3. CASE ~ UNCHANGED dbVars
      <3>1. /\ OwnsLease(p)
            /\ documentObject' = [documentObject EXCEPT ![d] = reservation[d].object]
            /\ reservation' = [reservation EXCEPT ![d].status = "finalized",
                                                  ![d].failureCode = NoFailure]
        BY <1>15, <2>3 DEF Finalize
      <3>2. reservation[d] \in Row /\ reservation[d].object \in Object
        BY <2>1, <3>1 DEF OwnsLease, TypeOK, Row
      <3>3. [reservation[d] EXCEPT !.status = "finalized",
                                   !.failureCode = NoFailure] \in Row
        BY <3>2 DEF Row
      <3>4. /\ reservation' \in [Documents -> Row \cup {NoRow}]
            /\ documentObject' \in [Documents -> Object \cup {NoRow}]
        BY <2>1, <3>1, <3>2, <3>3 DEF TypeOK
      <3> QED
        BY <1>15, <3>4 DEF Finalize, TypeOK, Labels, Results
    <2> QED
      BY <2>2, <2>3
  <1>16. ASSUME NEW p \in Callers, Crash(p)
         PROVE  TypeOK'
    BY <1>16 DEF Crash, TypeOK, Labels, Results
  <1>17. CASE Tick
    <2>1. reservation' \in [Documents -> Row \cup {NoRow}]
      <3> SUFFICES ASSUME NEW d \in Documents, reservation[d] # NoRow,
                          reservation[d].leaseLeft > 0
                   PROVE  [reservation[d] EXCEPT !.leaseLeft = @ - 1] \in Row
        BY <1>17 DEF Tick, TypeOK
      <3> QED
        BY ConstantsAssumption DEF TypeOK, Row
    <2> QED
      BY <1>17, <2>1 DEF Tick, TypeOK
  <1>18. CASE UNCHANGED vars
    BY <1>18 DEF vars, TypeOK
  <1> QED
    BY <1>1, <1>2, <1>3, <1>4, <1>5, <1>6, <1>7, <1>8, <1>9, <1>10, <1>11,
       <1>12, <1>13, <1>14, <1>15, <1>16, <1>17, <1>18 DEF Next, CallStep

\* Type correctness, for every value of the constants.
THEOREM TypeCorrect == Spec => []TypeOK
  BY InitType, TypeStep, PTL DEF Spec
-----------------------------------------------------------------------------
(* The inductive invariant.  Each step is split into the rows and bytes it  *)
(* leaves behind (StoreSafe) and what the callers know of them (CallsSafe). *)

StoreSafe ==
    /\ RowsAtHome
    /\ RegisteredObjectIsDurable
    /\ ReservationMatchesObject
    /\ IdentitiesAreUnique

CallsSafe ==
    /\ HoldersAreGranted
    /\ KnowledgeIsStable
    /\ AnsweredObjectIsDurable
    /\ LeaseIsExclusive

LEMMA SafetySplit == Safety <=> StoreSafe /\ CallsSafe
  BY DEF Safety, StoreSafe, CallsSafe

LEMMA InitSafety == Init => Safety
  BY ConstantsAssumption
     DEF Init, Safety, RowsAtHome, HoldersAreGranted, KnowledgeIsStable,
         AnsweredObjectIsDurable, RegisteredObjectIsDurable,
         ReservationMatchesObject, IdentitiesAreUnique, LeaseIsExclusive,
         Holding, SharesIdentity, Object

\* Steps that touch neither rows nor bytes keep StoreSafe.
LEMMA StoreFrame ==
    ASSUME StoreSafe, UNCHANGED <<reservation, documentObject, bytes>>
    PROVE  StoreSafe'
  BY DEF StoreSafe, RowsAtHome, RegisteredObjectIsDurable,
         ReservationMatchesObject, IdentitiesAreUnique,
         ConflictingObjects

\* Steps of one caller that touch no row and no byte.
LEMMA LocalSteps ==
    ASSUME TypeOK, Safety, NEW p \in Callers,
           \/ \E r \in Requests : Call(p, r)
           \/ FindObject(p) \/ VerifyFinalized(p) \/ HeadObject(p)
           \/ PutObject(p) \/ PutConflicts(p) \/ PutTimesOut(p)
           \/ VerifyWritten(p) \/ Crash(p)
    PROVE  Safety'
  <1> USE DEF dbVars, storageVars, Goto, Return, StorageFails, Holding
  <1> DEFINE o == request[p].object
  <1>1. UNCHANGED <<reservation, documentObject, bytes>>
    BY DEF Call, FindObject, VerifyFinalized, HeadObject, PutObject,
           PutConflicts, PutTimesOut, VerifyWritten, Crash
  <1>2. StoreSafe'
    BY <1>1, StoreFrame, SafetySplit
  <1>3. CASE \E r \in Requests : Call(p, r)
    <2>1. HoldersAreGranted' /\ AnsweredObjectIsDurable' /\ LeaseIsExclusive'
      BY <1>3, <1>1 DEF Call, TypeOK, Safety, HoldersAreGranted,
                       AnsweredObjectIsDurable, LeaseIsExclusive
    <2>2. KnowledgeIsStable'
      BY <1>3, <1>1 DEF Call, TypeOK, Safety, KnowledgeIsStable,
                       ConflictingObjects
    <2> QED
      BY <1>2, <2>1, <2>2 DEF Safety, StoreSafe, CallsSafe
  <1>4. CASE FindObject(p)
    <2>1. pc'[p] = "adopt" => documentObject[o.documentId] = o
      BY <1>4 DEF FindObject, ConflictingObjects, TypeOK, Safety, RowsAtHome
    <2>2. pc'[p] = "insert" => ConflictingObjects(o) = {}
      BY <1>4 DEF FindObject, TypeOK
    <2>3. pc'[p] \in {"adopt", "insert", "idle"} /\ UNCHANGED <<request, failure, lease>>
      BY <1>4 DEF FindObject, TypeOK
    <2>4. \A q \in Callers \ {p} : pc'[q] = pc[q]
      BY <1>4 DEF FindObject, TypeOK
    <2>5. outcome'[p] # "finalized" \/ outcome'[p] = outcome[p]
      BY <1>4 DEF FindObject, TypeOK
    <2>6. KnowledgeIsStable'
      BY <1>1, <2>1, <2>2, <2>3, <2>4 DEF Safety, KnowledgeIsStable, ConflictingObjects
    <2>7. HoldersAreGranted' /\ LeaseIsExclusive'
      BY <1>1, <2>3, <2>4 DEF Safety, HoldersAreGranted, LeaseIsExclusive
    <2>8. AnsweredObjectIsDurable'
      BY <1>4, <1>1, <2>5 DEF FindObject, TypeOK, Safety, AnsweredObjectIsDurable
    <2> QED
      BY <1>2, <2>6, <2>7, <2>8 DEF Safety, StoreSafe, CallsSafe
  <1>5. CASE VerifyFinalized(p)
    <2>1. outcome'[p] = "finalized" =>
             documentObject[o.documentId] = o /\ bytes[KeyOf(o)] = o.sha256
      BY <1>5, RequestType, ConstantsAssumption
         DEF VerifyFinalized, FailureResult, VerifyResults, Misread, TypeOK, Safety,
             KnowledgeIsStable
    <2>2. AnsweredObjectIsDurable'
      BY <1>5, <1>1, <2>1 DEF VerifyFinalized, TypeOK, Safety, AnsweredObjectIsDurable
    <2>3. KnowledgeIsStable' /\ HoldersAreGranted' /\ LeaseIsExclusive'
      BY <1>5, <1>1 DEF VerifyFinalized, TypeOK, Safety, KnowledgeIsStable,
                       HoldersAreGranted, LeaseIsExclusive, ConflictingObjects
    <2> QED
      BY <1>2, <2>2, <2>3 DEF Safety, StoreSafe, CallsSafe
  <1>6. CASE HeadObject(p)
    <2>1. HoldersAreGranted' /\ AnsweredObjectIsDurable' /\ LeaseIsExclusive'
      BY <1>6, <1>1 DEF HeadObject, TypeOK, Safety, HoldersAreGranted,
                       AnsweredObjectIsDurable, LeaseIsExclusive
    <2>2. KnowledgeIsStable'
      BY <1>6, <1>1 DEF HeadObject, TypeOK, Safety, KnowledgeIsStable,
                       ConflictingObjects
    <2> QED
      BY <1>2, <2>1, <2>2 DEF Safety, StoreSafe, CallsSafe
  <1>7. CASE PutObject(p)
    <2>1. HoldersAreGranted' /\ AnsweredObjectIsDurable' /\ LeaseIsExclusive'
      BY <1>7, <1>1 DEF PutObject, TypeOK, Safety, HoldersAreGranted,
                       AnsweredObjectIsDurable, LeaseIsExclusive
    <2>2. KnowledgeIsStable'
      BY <1>7, <1>1 DEF PutObject, TypeOK, Safety, KnowledgeIsStable,
                       ConflictingObjects
    <2> QED
      BY <1>2, <2>1, <2>2 DEF Safety, StoreSafe, CallsSafe
  <1>8. CASE PutConflicts(p)
    <2>1. HoldersAreGranted' /\ AnsweredObjectIsDurable' /\ LeaseIsExclusive'
      BY <1>8, <1>1 DEF PutConflicts, TypeOK, Safety, HoldersAreGranted,
                       AnsweredObjectIsDurable, LeaseIsExclusive
    <2>2. KnowledgeIsStable'
      BY <1>8, <1>1 DEF PutConflicts, TypeOK, Safety, KnowledgeIsStable,
                       ConflictingObjects
    <2> QED
      BY <1>2, <2>1, <2>2 DEF Safety, StoreSafe, CallsSafe
  <1>9. CASE PutTimesOut(p)
    <2>1. HoldersAreGranted' /\ AnsweredObjectIsDurable' /\ LeaseIsExclusive'
      BY <1>9, <1>1 DEF PutTimesOut, TypeOK, Safety, HoldersAreGranted,
                       AnsweredObjectIsDurable, LeaseIsExclusive
    <2>2. KnowledgeIsStable'
      BY <1>9, <1>1 DEF PutTimesOut, TypeOK, Safety, KnowledgeIsStable,
                       ConflictingObjects
    <2> QED
      BY <1>2, <2>1, <2>2 DEF Safety, StoreSafe, CallsSafe
  <1>10. CASE VerifyWritten(p)
    <2>1. HoldersAreGranted' /\ AnsweredObjectIsDurable' /\ LeaseIsExclusive'
      BY <1>10, <1>1 DEF VerifyWritten, VerifyResults, Misread, TypeOK, Safety, HoldersAreGranted,
                       AnsweredObjectIsDurable, LeaseIsExclusive
    <2>2. KnowledgeIsStable'
      BY <1>10, <1>1 DEF VerifyWritten, VerifyResults, Misread, TypeOK, Safety, KnowledgeIsStable,
                       ConflictingObjects
    <2> QED
      BY <1>2, <2>1, <2>2 DEF Safety, StoreSafe, CallsSafe
  <1>11. CASE Crash(p)
    <2>1. HoldersAreGranted' /\ AnsweredObjectIsDurable' /\ LeaseIsExclusive'
      BY <1>11, <1>1 DEF Crash, TypeOK, Safety, HoldersAreGranted,
                       AnsweredObjectIsDurable, LeaseIsExclusive
    <2>2. KnowledgeIsStable'
      BY <1>11, <1>1 DEF Crash, TypeOK, Safety, KnowledgeIsStable,
                       ConflictingObjects
    <2> QED
      BY <1>2, <2>1, <2>2 DEF Safety, StoreSafe, CallsSafe
  <1> QED
    BY <1>3, <1>4, <1>5, <1>6, <1>7, <1>8, <1>9, <1>10, <1>11

\* Bytes that are present stay, even under a PUT that overwrites them.
LEMMA BytesStay ==
    ASSUME TypeOK, PutsAgree, NEW w \in wire, PutLands(w)
    PROVE  \A k \in Key : bytes[k] # NoBytes => bytes'[k] = bytes[k]
  BY DEF PutLands, TypeOK, PutsAgree, Agrees

LEMMA PutLandsSafe ==
    ASSUME TypeOK, Safety, PutsAgree, NEW w \in wire, PutLands(w)
    PROVE  Safety'
  <1>1. /\ UNCHANGED <<reservation, documentObject, request, lease, failure, outcome>>
        /\ \A p \in Callers : pc'[p] = pc[p] \/ (pc[p] = "putting" /\ pc'[p] = "verify")
    BY DEF PutLands, Awaits, Goto, dbVars, TypeOK
  <1>2. \A p \in Callers :
           LET o == request[p].object IN
           bytes[KeyOf(o)] # NoBytes => bytes'[KeyOf(o)] = bytes[KeyOf(o)]
    BY BytesStay, RequestType
  <1>3. \A p \in Callers : request[p].object.sha256 # NoBytes
    BY RequestType, ConstantsAssumption
  <1>4. RegisteredObjectIsDurable'
    <2>1. \A d \in Documents :
             documentObject[d] # NoRow =>
                /\ documentObject[d].sha256 # NoBytes
                /\ KeyOf(documentObject[d]) \in Key
      BY ConstantsAssumption DEF TypeOK, Object, KeyOf, Key
    <2> QED
      BY <1>1, <2>1, BytesStay DEF Safety, RegisteredObjectIsDurable
  <1>5. RowsAtHome' /\ ReservationMatchesObject' /\ IdentitiesAreUnique'
    BY <1>1 DEF Safety, RowsAtHome, ReservationMatchesObject,
                IdentitiesAreUnique, ConflictingObjects
  <1>6. HoldersAreGranted' /\ LeaseIsExclusive'
    BY <1>1 DEF Safety, HoldersAreGranted, LeaseIsExclusive, Holding
  <1>7. KnowledgeIsStable'
    BY <1>1, <1>2, <1>3 DEF Safety, KnowledgeIsStable, ConflictingObjects
  <1>8. AnsweredObjectIsDurable'
    BY <1>1, <1>2, <1>3 DEF Safety, AnsweredObjectIsDurable
  <1> QED
    BY <1>4, <1>5, <1>6, <1>7, <1>8 DEF Safety

\* A row that stays unfinalized, under the same identity.
LEMMA OpenRowUpdate ==
    ASSUME TypeOK, Safety, NEW d \in Documents, NEW row \in Row,
           reservation[d] # NoRow,
           reservation[d].status # "finalized", row.status # "finalized",
           row.object = reservation[d].object,
           reservation' = [reservation EXCEPT ![d] = row],
           UNCHANGED <<documentObject, bytes>>
    PROVE  /\ StoreSafe'
           /\ \A e \in Documents :
                 reservation[e] # NoRow =>
                    /\ reservation'[e] # NoRow
                    /\ reservation'[e].object = reservation[e].object
  <1>1. /\ reservation'[d] = row /\ row # NoRow
        /\ \A e \in Documents \ {d} : reservation'[e] = reservation[e]
    BY ConstantsAssumption DEF TypeOK
  <1>2. \A e \in Documents :
           /\ (reservation'[e] # NoRow) <=> (reservation[e] # NoRow)
           /\ reservation[e] # NoRow =>
                 reservation'[e].object = reservation[e].object
    BY <1>1
  <1>3. RowsAtHome' /\ IdentitiesAreUnique'
    BY <1>2 DEF Safety, RowsAtHome, IdentitiesAreUnique
  <1>4. ReservationMatchesObject'
    BY <1>1 DEF Safety, ReservationMatchesObject, ConflictingObjects
  <1>5. RegisteredObjectIsDurable'
    BY <1>1 DEF Safety, RegisteredObjectIsDurable
  <1> QED
    BY <1>2, <1>3, <1>4, <1>5 DEF StoreSafe

LEMMA TickSafe ==
    ASSUME TypeOK, Safety, Tick
    PROVE  Safety'
  <1>1. \A d \in Documents :
           /\ (reservation'[d] # NoRow) <=> (reservation[d] # NoRow)
           /\ reservation[d] # NoRow =>
                 /\ reservation'[d].object = reservation[d].object
                 /\ reservation'[d].status = reservation[d].status
                 /\ reservation'[d].attemptCount = reservation[d].attemptCount
                 /\ reservation'[d].failureCode = reservation[d].failureCode
    <2> SUFFICES ASSUME NEW d \in Documents, reservation[d] # NoRow
                 PROVE  /\ reservation'[d] # NoRow
                        /\ reservation'[d].object = reservation[d].object
                        /\ reservation'[d].status = reservation[d].status
                        /\ reservation'[d].attemptCount = reservation[d].attemptCount
                        /\ reservation'[d].failureCode = reservation[d].failureCode
      BY DEF Tick
    <2>1. reservation[d] \in Row
      BY DEF TypeOK
    <2>2. [reservation[d] EXCEPT !.leaseLeft = @ - 1] \in Row \/ reservation[d].leaseLeft = 0
      BY <2>1, ConstantsAssumption DEF Row
    <2>3. CASE reservation[d].leaseLeft > 0
      <3>1. reservation'[d] = [reservation[d] EXCEPT !.leaseLeft = @ - 1]
        BY <2>3 DEF Tick
      <3> QED
        BY <2>1, <2>2, <2>3, <3>1, ConstantsAssumption DEF Row
    <2>4. CASE ~(reservation[d].leaseLeft > 0)
      BY <2>4 DEF Tick
    <2> QED
      BY <2>3, <2>4
  <1>2. UNCHANGED <<documentObject, bytes, pc, request, lease, failure, outcome>>
    BY DEF Tick, storageVars, callVars
  <1>3. RowsAtHome' /\ IdentitiesAreUnique'
    BY <1>1, <1>2 DEF Safety, RowsAtHome, IdentitiesAreUnique
  <1>4. ReservationMatchesObject'
    BY <1>1, <1>2 DEF Safety, ReservationMatchesObject, ConflictingObjects
  <1>5. RegisteredObjectIsDurable'
    BY <1>1, <1>2 DEF Safety, RegisteredObjectIsDurable
  <1>6. HoldersAreGranted'
    BY <1>1, <1>2, RequestType DEF Safety, HoldersAreGranted
  <1>7. KnowledgeIsStable'
    BY <1>1, <1>2 DEF Safety, KnowledgeIsStable, ConflictingObjects
  <1>8. AnsweredObjectIsDurable' /\ LeaseIsExclusive'
    BY <1>2 DEF Safety, AnsweredObjectIsDurable, LeaseIsExclusive
  <1> QED
    BY <1>3, <1>4, <1>5, <1>6, <1>7, <1>8 DEF Safety

LEMMA FailSafe ==
    ASSUME TypeOK, Safety, NEW p \in Callers, Fail(p)
    PROVE  Safety'
  <1> DEFINE o == request[p].object
             d == o.documentId
             row == [reservation[d] EXCEPT !.status = "failed",
                                           !.failureCode = failure[p]]
  <1>1. /\ UNCHANGED <<documentObject, bytes, request, lease, failure>>
        /\ pc[p] = "failing" /\ pc'[p] = "idle"
        /\ \A q \in Callers \ {p} : pc'[q] = pc[q]
        /\ outcome'[p] # "finalized"
        /\ \A q \in Callers \ {p} : outcome'[q] = outcome[q]
    BY DEF Fail, Return, Goto, FailureResult, storageVars, TypeOK
  <1>2. d \in Documents /\ reservation[d] # NoRow /\ reservation[d].object = o
    BY <1>1, RequestType DEF Safety, HoldersAreGranted, Holding
  <1>3. /\ StoreSafe'
        /\ \A e \in Documents :
              reservation[e] # NoRow =>
                 /\ reservation'[e] # NoRow
                 /\ reservation'[e].object = reservation[e].object
                 /\ reservation'[e].attemptCount = reservation[e].attemptCount
    <2>1. CASE UNCHANGED reservation
      BY <1>1, <2>1, StoreFrame, SafetySplit
    <2>2. CASE OwnsLease(p)
      <3>1. reservation[d] \in Row /\ failure[p] \in FailureCodes \cup {NoFailure}
        BY <1>2 DEF TypeOK
      <3>2. /\ row \in Row /\ row.status = "failed" /\ row.failureCode = failure[p]
            /\ row.object = o /\ row.attemptCount = reservation[d].attemptCount
        BY <1>2, <3>1 DEF Row
      <3>3. reservation' = [reservation EXCEPT ![d] = row]
        BY <1>2, <2>2 DEF Fail
      <3>4. reservation[d].status = "pending"
        BY <2>2 DEF OwnsLease
      <3>5. /\ StoreSafe'
            /\ \A e \in Documents :
                  reservation[e] # NoRow =>
                     /\ reservation'[e] # NoRow
                     /\ reservation'[e].object = reservation[e].object
        BY <1>1, <1>2, <3>2, <3>3, <3>4, OpenRowUpdate
      <3>6. \A e \in Documents :
               reservation'[e].attemptCount = reservation[e].attemptCount
        BY <1>2, <3>2, <3>3 DEF TypeOK
      <3> QED
        BY <3>5, <3>6
    <2> QED
      BY <2>1, <2>2 DEF Fail
  <1>4. HoldersAreGranted' /\ LeaseIsExclusive'
    BY <1>1, <1>3, RequestType DEF Safety, HoldersAreGranted, LeaseIsExclusive, Holding
  <1>5. KnowledgeIsStable' /\ AnsweredObjectIsDurable'
    BY <1>1, <1>3 DEF Safety, KnowledgeIsStable, AnsweredObjectIsDurable,
                      ConflictingObjects
  <1> QED
    BY <1>3, <1>4, <1>5 DEF Safety, StoreSafe

\* A new row where no reservation and (if pending) no object conflicts.
LEMMA NewRow ==
    ASSUME TypeOK, Safety, NEW o \in Object, NEW row \in Row,
           ConflictingReservations(o) = {}, row.object = o,
           row.failureCode = NoFailure,
           IF row.status = "finalized" THEN documentObject[o.documentId] = o
                                       ELSE ConflictingObjects(o) = {},
           reservation' = [reservation EXCEPT ![o.documentId] = row],
           UNCHANGED <<documentObject, bytes>>
    PROVE  /\ StoreSafe'
           /\ reservation[o.documentId] = NoRow /\ reservation'[o.documentId] = row
           /\ \A e \in Documents : reservation[e] # NoRow => reservation'[e] = reservation[e]
  <1> DEFINE d == o.documentId
  <1>1. d \in Documents
    BY DEF Object
  <1>2. \A e \in Documents : reservation[e] # NoRow => ~SharesIdentity(reservation[e].object, o)
    BY DEF ConflictingReservations
  <1>3. reservation[d] = NoRow
    BY <1>1, <1>2 DEF SharesIdentity, Safety, RowsAtHome
  <1>4. /\ reservation'[d] = row /\ row # NoRow
        /\ \A e \in Documents \ {d} : reservation'[e] = reservation[e]
    BY <1>1, ConstantsAssumption DEF TypeOK
  <1>5. RowsAtHome'
    BY <1>4 DEF Safety, RowsAtHome
  <1>6. IdentitiesAreUnique'
    BY <1>1, <1>2, <1>3, <1>4 DEF Safety, IdentitiesAreUnique, SharesIdentity
  <1>7. ReservationMatchesObject'
    BY <1>1, <1>4 DEF Safety, ReservationMatchesObject, ConflictingObjects
  <1>8. RegisteredObjectIsDurable'
    BY DEF Safety, RegisteredObjectIsDurable
  <1> QED
    BY <1>3, <1>4, <1>5, <1>6, <1>7, <1>8 DEF StoreSafe

LEMMA InsertPendingSafe ==
    ASSUME TypeOK, Safety, NEW p \in Callers, InsertPending(p)
    PROVE  Safety'
  <1> DEFINE o == request[p].object
             d == o.documentId
             row == PendingRow(o, 1)
  <1>1. /\ UNCHANGED <<documentObject, bytes, request, failure, outcome>>
        /\ pc[p] = "insert"
        /\ \A q \in Callers \ {p} : pc'[q] = pc[q] /\ lease'[q] = lease[q]
    BY DEF InsertPending, Goto, storageVars, TypeOK
  <1>2. CASE ConflictingReservations(o) = {}
    <2>1. row \in Row /\ row.object = o /\ row.failureCode = NoFailure
          /\ row.status = "pending" /\ row.attemptCount = 1
      BY RequestType, PendingRowType, ConstantsAssumption DEF PendingRow
    <2>2. /\ reservation' = [reservation EXCEPT ![d] = row]
          /\ lease'[p] = 1 /\ pc'[p] = "write"
      BY <1>2 DEF InsertPending, Goto, TypeOK
    <2>3. ConflictingObjects(o) = {}
      \* An object that conflicts has a reservation by now, and that one
      \* conflicts as well.
      <3> SUFFICES ASSUME NEW e \in ConflictingObjects(o) PROVE FALSE
        OBVIOUS
      <3>1. e \in Documents /\ documentObject[e] # NoRow
            /\ SharesIdentity(documentObject[e], o) /\ reservation[e] # NoRow
        BY <1>1 DEF ConflictingObjects, Safety, KnowledgeIsStable
      <3>2. documentObject[e].documentId = e /\ reservation[e].object.documentId = e
        BY <3>1 DEF Safety, RowsAtHome
      <3>3. e \in ConflictingObjects(reservation[e].object)
        BY <3>1, <3>2 DEF ConflictingObjects, SharesIdentity
      <3>4. reservation[e].object = documentObject[e]
        BY <3>1, <3>3 DEF Safety, ReservationMatchesObject
      <3> QED
        BY <1>2, <3>1, <3>4 DEF ConflictingReservations
    <2>4. /\ StoreSafe'
          /\ reservation[d] = NoRow /\ reservation'[d] = row
          /\ \A e \in Documents : reservation[e] # NoRow => reservation'[e] = reservation[e]
      BY <1>1, <1>2, <2>1, <2>2, <2>3, NewRow, RequestType
    <2>5. \A q \in Callers : pc[q] \in Holding => request[q].object.documentId # d
      BY <2>4 DEF Safety, HoldersAreGranted
    <2>6. d \in Documents /\ row # NoRow
      BY <2>1, RequestType, ConstantsAssumption
    <2>7. HoldersAreGranted'
      <3>1. ASSUME NEW q \in Callers, q # p, pc'[q] \in Holding
            PROVE  LET r == reservation'[request[q].object.documentId] IN
                   /\ r # NoRow /\ r.object = request[q].object
                   /\ 1 <= lease'[q] /\ lease'[q] <= r.attemptCount
        BY <1>1, <2>4, <3>1, RequestType DEF Safety, HoldersAreGranted
      <3>2. 1 <= lease'[p] /\ lease'[p] <= reservation'[d].attemptCount
        BY <2>1, <2>2, <2>4
      <3> QED
        BY <1>1, <2>1, <2>4, <2>6, <3>1, <3>2 DEF HoldersAreGranted
    <2>8. LeaseIsExclusive'
      BY <1>1, <2>5 DEF Safety, LeaseIsExclusive, Holding
    <2>9. KnowledgeIsStable' /\ AnsweredObjectIsDurable'
      BY <1>1, <2>2, <2>4, <2>6 DEF Safety, KnowledgeIsStable,
                                     AnsweredObjectIsDurable, ConflictingObjects
    <2> QED
      BY <2>4, <2>7, <2>8, <2>9 DEF Safety, StoreSafe
  <1>3. CASE ConflictingReservations(o) # {}
    <2>1. UNCHANGED <<reservation, lease>> /\ pc'[p] = "reacquire"
      BY <1>3 DEF InsertPending, Goto, TypeOK
    <2>2. StoreSafe'
      BY <1>1, <2>1, StoreFrame, SafetySplit
    <2>3. CallsSafe'
      BY <1>1, <2>1 DEF Safety, CallsSafe, HoldersAreGranted, KnowledgeIsStable,
            AnsweredObjectIsDurable, LeaseIsExclusive, ConflictingObjects, Holding
    <2> QED
      BY <2>2, <2>3 DEF Safety, StoreSafe, CallsSafe
  <1> QED
    BY <1>2, <1>3

LEMMA AdoptFinalizedSafe ==
    ASSUME TypeOK, Safety, NEW p \in Callers, AdoptFinalized(p)
    PROVE  Safety'
  <1> DEFINE o == request[p].object
             d == o.documentId
             row == [PendingRow(o, 1) EXCEPT !.status = "finalized"]
  <1>1. /\ UNCHANGED <<documentObject, bytes, request, lease, failure, outcome>>
        /\ pc[p] = "adopt" /\ pc'[p] \in {"verifyFinalized", "reacquire"}
        /\ \A q \in Callers \ {p} : pc'[q] = pc[q]
    BY DEF AdoptFinalized, Goto, storageVars, TypeOK
  <1>2. documentObject[d] = o
    BY <1>1 DEF Safety, KnowledgeIsStable
  <1>3. /\ StoreSafe'
        /\ \A e \in Documents : reservation[e] # NoRow => reservation'[e] = reservation[e]
        /\ reservation'[d] # NoRow \/ UNCHANGED reservation
    <2>1. CASE ConflictingReservations(o) = {}
      <3>1. row \in Row /\ row.object = o /\ row.failureCode = NoFailure
            /\ row.status = "finalized"
        BY RequestType, PendingRowType, ConstantsAssumption DEF PendingRow, Row
      <3>2. reservation' = [reservation EXCEPT ![d] = row]
        BY <2>1 DEF AdoptFinalized
      <3>3. row # NoRow
        BY <3>1, ConstantsAssumption
      <3> QED
        BY <1>1, <1>2, <2>1, <3>1, <3>2, <3>3, NewRow, RequestType
    <2>2. CASE ConflictingReservations(o) # {}
      <3>1. UNCHANGED reservation
        BY <2>2 DEF AdoptFinalized
      <3> QED
        BY <1>1, <3>1, StoreFrame, SafetySplit
    <2> QED
      BY <2>1, <2>2
  <1>4. \A e \in Documents : reservation[e] # NoRow => reservation'[e] # NoRow
    BY <1>3
  <1>5. HoldersAreGranted' /\ LeaseIsExclusive'
    BY <1>1, <1>3, RequestType DEF Safety, HoldersAreGranted, LeaseIsExclusive, Holding
  <1>6. KnowledgeIsStable' /\ AnsweredObjectIsDurable'
    BY <1>1, <1>2, <1>4 DEF Safety, KnowledgeIsStable, AnsweredObjectIsDurable,
                            ConflictingObjects
  <1> QED
    BY <1>3, <1>5, <1>6 DEF Safety, StoreSafe

\* Both look-ups of a locked row end here.
LEMMA DecideSafe ==
    ASSUME TypeOK, Safety, NEW p \in Callers, pc[p] \notin Holding,
           NEW d \in Documents, reservation[d] # NoRow,
           DecideAndApplyExisting(p, d),
           UNCHANGED <<documentObject, bytes, request, failure>>
    PROVE  Safety'
  <1> DEFINE o == request[p].object
             row == reservation[d]
             new == PendingRow(row.object, row.attemptCount + 1)
  <1>1. /\ \A q \in Callers \ {p} : pc'[q] = pc[q] /\ outcome'[q] = outcome[q]
                                     /\ lease'[q] = lease[q]
        /\ outcome'[p] = "finalized" => outcome[p] = "finalized"
    BY DEF DecideAndApplyExisting, AttemptsExhausted, MatchesIdentity, Goto, Return, TypeOK
  <1>2. row \in Row /\ row.object \in Object /\ row.attemptCount \in 1..MaxAttempts
        /\ row.object.documentId = d
    BY DEF TypeOK, Row, Safety, RowsAtHome
  <1>3. CASE UNCHANGED <<reservation, lease>>
    <2>1. StoreSafe'
      BY <1>3, StoreFrame, SafetySplit
    <2>2. /\ pc'[p] \in {"idle", "verifyFinalized"}
          /\ pc'[p] = "verifyFinalized" => row.object = o /\ row.status = "finalized"
      <3>1. CASE Goto(p, "write")
        <4>1. reservation'[d] = new /\ lease'[p] = row.attemptCount + 1
          BY <3>1 DEF DecideAndApplyExisting, AttemptsExhausted, MatchesIdentity, Goto, Return, TypeOK
        <4>2. new.attemptCount = row.attemptCount + 1
          BY DEF PendingRow
        <4> QED
          BY <1>2, <1>3, <4>1, <4>2
      <3>2. CASE ~Goto(p, "write")
        BY <3>2 DEF DecideAndApplyExisting, AttemptsExhausted, MatchesIdentity, Goto, Return, TypeOK
      <3> QED
        BY <3>1, <3>2
    <2>3. pc'[p] = "verifyFinalized" => documentObject[o.documentId] = o
      BY <1>2, <2>2 DEF Safety, ReservationMatchesObject
    <2>4. HoldersAreGranted' /\ LeaseIsExclusive'
      BY <1>1, <1>3, <2>2 DEF Safety, HoldersAreGranted, LeaseIsExclusive, Holding
    <2>5. KnowledgeIsStable' /\ AnsweredObjectIsDurable'
      BY <1>1, <1>3, <2>2, <2>3 DEF Safety, KnowledgeIsStable,
                                    AnsweredObjectIsDurable, ConflictingObjects
    <2> QED
      BY <2>1, <2>4, <2>5 DEF Safety, StoreSafe
  <1>4. CASE ~ UNCHANGED <<reservation, lease>>
    <2>1. /\ row.object = o /\ row.status # "finalized"
          /\ row.attemptCount < MaxAttempts
          /\ reservation' = [reservation EXCEPT ![d] = new]
          /\ lease'[p] = row.attemptCount + 1
          /\ pc'[p] = "write" /\ UNCHANGED outcome
      BY <1>2, <1>4, ConstantsAssumption
         DEF DecideAndApplyExisting, AttemptsExhausted, MatchesIdentity, Goto, Return, TypeOK
    <2>2. /\ new \in Row /\ new.object = o /\ new.status = "pending"
          /\ new.failureCode = NoFailure /\ new.attemptCount = row.attemptCount + 1
      <3>1. row.attemptCount + 1 \in 1..MaxAttempts
        BY <1>2, <2>1, ConstantsAssumption
      <3> QED
        BY <1>2, <2>1, <3>1, PendingRowType DEF PendingRow
    <2>3. /\ StoreSafe'
          /\ \A e \in Documents :
                reservation[e] # NoRow =>
                   /\ reservation'[e] # NoRow
                   /\ reservation'[e].object = reservation[e].object
      BY <2>1, <2>2, OpenRowUpdate DEF NoFailure
    <2>4. /\ reservation'[d] = new
          /\ \A e \in Documents \ {d} : reservation'[e] = reservation[e]
      BY <2>1 DEF TypeOK
    <2>5. \A q \in Callers \ {p} :
             (pc'[q] \in Holding /\ request[q].object.documentId = d) =>
                lease[q] <= row.attemptCount
      BY <1>1 DEF Safety, HoldersAreGranted
    <2>6. \A q \in Callers : lease[q] \in Nat /\ request[q].object.documentId \in Documents
      BY RequestType, ConstantsAssumption DEF TypeOK
    <2>7. HoldersAreGranted'
      <3>1. ASSUME NEW q \in Callers, q # p, pc'[q] \in Holding
            PROVE  LET r == reservation'[request[q].object.documentId] IN
                   /\ r # NoRow /\ r.object = request[q].object
                   /\ 1 <= lease'[q] /\ lease'[q] <= r.attemptCount
        <4>1. LET r == reservation[request[q].object.documentId] IN
              /\ r # NoRow /\ r.object = request[q].object
              /\ 1 <= lease[q] /\ lease[q] <= r.attemptCount
          BY <1>1, <3>1 DEF Safety, HoldersAreGranted
        <4> QED
          BY <1>1, <1>2, <2>1, <2>2, <2>3, <2>4, <2>6, <3>1, <4>1
      <3>2. reservation'[o.documentId] = new /\ new # NoRow
        BY <1>2, <2>1, <2>2, <2>4, ConstantsAssumption
      <3>3. 1 <= lease'[p] /\ lease'[p] <= new.attemptCount
        BY <1>2, <2>1, <2>2
      <3> QED
        BY <2>2, <3>1, <3>2, <3>3 DEF HoldersAreGranted
    <2>8. LeaseIsExclusive'
      BY <1>1, <1>2, <2>1, <2>5, <2>6 DEF Safety, LeaseIsExclusive
    <2>9. KnowledgeIsStable' /\ AnsweredObjectIsDurable'
      BY <1>1, <2>1, <2>3 DEF Safety, KnowledgeIsStable, AnsweredObjectIsDurable,
                              ConflictingObjects
    <2> QED
      BY <2>3, <2>7, <2>8, <2>9 DEF Safety, StoreSafe
  <1> QED
    BY <1>3, <1>4
LEMMA FinalizeSafe ==
    ASSUME TypeOK, Safety, NEW p \in Callers, Finalize(p)
    PROVE  Safety'
  <1> DEFINE o == request[p].object
             d == o.documentId
             row == [reservation[d] EXCEPT !.status = "finalized",
                                           !.failureCode = NoFailure]
  <1>1. /\ UNCHANGED <<bytes, request, lease, failure>>
        /\ pc[p] = "finalize" /\ pc'[p] = "idle"
        /\ \A q \in Callers \ {p} : pc'[q] = pc[q] /\ outcome'[q] = outcome[q]
    BY DEF Finalize, Goto, Return, storageVars, TypeOK
  <1>2. /\ reservation[d] # NoRow /\ reservation[d].object = o
        /\ bytes[KeyOf(o)] = o.sha256
    BY <1>1 DEF Safety, HoldersAreGranted, KnowledgeIsStable, Holding
  <1>3. /\ d \in Documents /\ o \in Object /\ o # NoRow
        /\ reservation[d] \in Row
    BY <1>2, RequestType, ConstantsAssumption DEF TypeOK
  <1>4. CASE UNCHANGED dbVars
    <2>1. UNCHANGED <<reservation, documentObject>>
      BY <1>4 DEF dbVars
    <2>2. outcome'[p] = "finalized" => reservation[d].status = "finalized"
      <3>1. CASE Return(p, "finalized") /\ IsFinal(reservation[d])
        BY <3>1 DEF IsFinal
      <3>2. CASE outcome'[p] # "finalized"
        BY <3>2
      <3>3. CASE /\ OwnsLease(p)
                 /\ ConflictingObjects(o) = {}
                 /\ documentObject' = [documentObject EXCEPT ![d] = o]
        <4>1. documentObject'[d] = o
          BY <1>3, <3>3 DEF TypeOK
        <4>2. documentObject[d] = NoRow
          BY <1>3, <3>3 DEF ConflictingObjects, SharesIdentity, Safety, RowsAtHome
        <4> QED
          BY <1>3, <2>1, <4>1, <4>2
      <3> QED
        BY <1>2, <3>1, <3>2, <3>3 DEF Finalize, Return, TypeOK
    <2>3. outcome'[p] = "finalized" => documentObject[d] = o
      BY <1>2, <1>3, <2>2 DEF Safety, ReservationMatchesObject
    <2>4. StoreSafe'
      BY <1>1, <2>1, StoreFrame, SafetySplit
    <2>5. HoldersAreGranted' /\ LeaseIsExclusive'
      BY <1>1, <2>1 DEF Safety, HoldersAreGranted, LeaseIsExclusive, Holding
    <2>6. KnowledgeIsStable' /\ AnsweredObjectIsDurable'
      BY <1>1, <1>2, <2>1, <2>3 DEF Safety, KnowledgeIsStable,
                                    AnsweredObjectIsDurable, ConflictingObjects
    <2> QED
      BY <2>4, <2>5, <2>6 DEF Safety, StoreSafe
  <1>5. CASE ~ UNCHANGED dbVars
    <2>1. /\ OwnsLease(p) /\ ConflictingObjects(o) = {}
          /\ documentObject' = [documentObject EXCEPT ![d] = o]
          /\ reservation' = [reservation EXCEPT ![d].status = "finalized",
                                                ![d].failureCode = NoFailure]
          /\ Return(p, "finalized")
      BY <1>2, <1>5 DEF Finalize
    <2>2. /\ row \in Row /\ row # NoRow /\ row.object = o
          /\ row.status = "finalized" /\ row.failureCode = NoFailure
          /\ row.attemptCount = reservation[d].attemptCount
      <3>1. row \in Row
        BY <1>3 DEF Row
      <3> QED
        BY <1>2, <1>3, <3>1, ConstantsAssumption DEF Row
    <2>3. /\ reservation'[d] = row /\ documentObject'[d] = o
          /\ \A e \in Documents \ {d} : /\ reservation'[e] = reservation[e]
                                        /\ documentObject'[e] = documentObject[e]
      BY <1>3, <2>1 DEF TypeOK
    <2>4. \A e \in Documents :
             /\ (reservation'[e] # NoRow) <=> (reservation[e] # NoRow)
             /\ reservation[e] # NoRow =>
                   /\ reservation'[e].object = reservation[e].object
                   /\ reservation'[e].attemptCount = reservation[e].attemptCount
      BY <1>2, <2>2, <2>3
    <2>5. \A e \in Documents :
             documentObject[e] # NoRow =>
                e # d /\ ~SharesIdentity(documentObject[e], o)
      BY <1>3, <2>1 DEF ConflictingObjects, SharesIdentity, Safety, RowsAtHome
    <2>0. \A q \in Callers :
             LET r == request[q].object IN
             documentObject[r.documentId] = r => documentObject'[r.documentId] = r
      BY <2>3, <2>5, RequestType, ConstantsAssumption
    <2>6. RowsAtHome'
      BY <2>3, <2>4 DEF Safety, RowsAtHome
    <2>7. RegisteredObjectIsDurable'
      BY <1>1, <1>2, <2>3 DEF Safety, RegisteredObjectIsDurable
    <2>8. IdentitiesAreUnique'
      <3>1. \A e, f \in Documents :
               (e # f /\ reservation'[e] # NoRow /\ reservation'[f] # NoRow) =>
                  ~SharesIdentity(reservation'[e].object, reservation'[f].object)
        BY <2>4 DEF Safety, IdentitiesAreUnique
      <3>2. \A e, f \in Documents :
               (e # f /\ documentObject'[e] # NoRow /\ documentObject'[f] # NoRow) =>
                  ~SharesIdentity(documentObject'[e], documentObject'[f])
        BY <2>3, <2>5 DEF Safety, IdentitiesAreUnique, SharesIdentity
      <3> QED
        BY <3>1, <3>2 DEF IdentitiesAreUnique
    <2>9. \A e \in Documents \ {d} :
             reservation[e] # NoRow => ~SharesIdentity(o, reservation[e].object)
      BY <1>2, <1>3 DEF Safety, IdentitiesAreUnique
    <2>10. ReservationMatchesObject'
      <3> SUFFICES ASSUME NEW e \in Documents, reservation'[e] # NoRow
                   PROVE  IF reservation'[e].status = "finalized"
                          THEN documentObject'[e] = reservation'[e].object
                          ELSE \A f \in Documents :
                                  documentObject'[f] = NoRow \/
                                  ~SharesIdentity(documentObject'[f],
                                                  reservation'[e].object)
        BY DEF ReservationMatchesObject, ConflictingObjects
      <3>1. CASE e = d
        BY <2>2, <2>3, <3>1
      <3>2. CASE e # d /\ reservation[e].status = "finalized"
        BY <2>3, <3>2 DEF Safety, ReservationMatchesObject
      <3>3. CASE e # d /\ reservation[e].status # "finalized"
        <4>1. /\ reservation'[e] = reservation[e]
              /\ ConflictingObjects(reservation[e].object) = {}
          BY <2>3, <3>3 DEF Safety, ReservationMatchesObject
        <4>2. ~SharesIdentity(o, reservation[e].object)
          BY <2>9, <3>3, <4>1
        <4>3. \A f \in Documents :
                 documentObject'[f] = NoRow \/
                 ~SharesIdentity(documentObject'[f], reservation'[e].object)
          BY <2>3, <4>1, <4>2 DEF ConflictingObjects
        <4> QED
          BY <3>3, <4>1, <4>3
      <3> QED
        BY <3>1, <3>2, <3>3
    <2>12. HoldersAreGranted' /\ LeaseIsExclusive'
      BY <1>1, <2>4, RequestType DEF Safety, HoldersAreGranted, LeaseIsExclusive, Holding
    <2>13. KnowledgeIsStable'
      <3>1. \A e \in Documents : documentObject'[e] # NoRow =>
               reservation'[e] # NoRow \/ documentObject'[e] = documentObject[e]
        BY <2>2, <2>3
      <3>2. ASSUME NEW q \in Callers, pc'[q] = "insert",
                   NEW e \in Documents, documentObject'[e] # NoRow,
                   SharesIdentity(documentObject'[e], request[q].object)
            PROVE  reservation'[e] # NoRow
        BY <1>1, <2>4, <3>1, <3>2 DEF Safety, KnowledgeIsStable, ConflictingObjects
      <3> QED
        BY <1>1, <2>0, <3>2 DEF Safety, KnowledgeIsStable, ConflictingObjects
    <2>14. AnsweredObjectIsDurable'
      BY <1>1, <1>2, <2>0, <2>3 DEF Safety, AnsweredObjectIsDurable
    <2> QED
      BY <2>6, <2>7, <2>8, <2>10, <2>12, <2>13, <2>14 DEF Safety
  <1> QED
    BY <1>4, <1>5

LEMMA SafetyStep == TypeOK /\ IInv /\ [Next]_vars => Safety'
  <1> SUFFICES ASSUME TypeOK, Safety, PutsAgree, [Next]_vars PROVE Safety'
    BY DEF IInv
  <1>1. ASSUME NEW p \in Callers, FindReservation(p)
        PROVE  Safety'
    <2>1. /\ UNCHANGED <<documentObject, bytes, request, failure>>
          /\ pc[p] \notin Holding
      BY <1>1 DEF FindReservation, storageVars, Holding
    <2>2. CASE \E d \in Documents :
                  reservation[d] # NoRow /\ DecideAndApplyExisting(p, d)
      BY <2>1, <2>2, DecideSafe
    <2>3. CASE ~ \E d \in Documents :
                  reservation[d] # NoRow /\ DecideAndApplyExisting(p, d)
      <3>0. UNCHANGED <<reservation, lease>>
        BY <1>1, <2>3 DEF FindReservation, ConflictingReservations
      <3>1. /\ pc'[p] \in {"idle", "findObject"}
            /\ outcome'[p] # "finalized" \/ outcome'[p] = outcome[p]
            /\ \A q \in Callers \ {p} : pc'[q] = pc[q] /\ outcome'[q] = outcome[q]
        BY <1>1, <2>3 DEF FindReservation, Goto, Return, TypeOK, ConflictingReservations
      <3>2. StoreSafe'
        BY <2>1, <3>0, StoreFrame, SafetySplit
      <3>3. HoldersAreGranted' /\ LeaseIsExclusive'
        BY <2>1, <3>0, <3>1 DEF Safety, HoldersAreGranted, LeaseIsExclusive, Holding
      <3>4. KnowledgeIsStable' /\ AnsweredObjectIsDurable'
        BY <2>1, <3>0, <3>1 DEF Safety, KnowledgeIsStable,
                                AnsweredObjectIsDurable, ConflictingObjects
      <3> QED
        BY <3>2, <3>3, <3>4 DEF Safety, StoreSafe
    <2> QED
      BY <2>2, <2>3
  <1>2. ASSUME NEW p \in Callers, Reacquire(p)
        PROVE  Safety'
    <2>1. /\ UNCHANGED <<documentObject, bytes, request, failure>>
          /\ pc[p] \notin Holding
      BY <1>2 DEF Reacquire, storageVars, Holding
    <2>2. CASE \E d \in Documents :
                  reservation[d] # NoRow /\ DecideAndApplyExisting(p, d)
      BY <2>1, <2>2, DecideSafe
    <2>3. CASE UNCHANGED <<reservation, lease>> /\ Return(p, "identity_conflict")
      <3>1. /\ pc'[p] = "idle" /\ outcome'[p] # "finalized"
            /\ \A q \in Callers \ {p} : pc'[q] = pc[q] /\ outcome'[q] = outcome[q]
        BY <2>3 DEF Goto, Return, TypeOK
      <3>2. StoreSafe'
        BY <2>1, <2>3, StoreFrame, SafetySplit
      <3>3. HoldersAreGranted' /\ LeaseIsExclusive'
        BY <2>1, <2>3, <3>1 DEF Safety, HoldersAreGranted, LeaseIsExclusive, Holding
      <3>4. KnowledgeIsStable' /\ AnsweredObjectIsDurable'
        BY <2>1, <2>3, <3>1 DEF Safety, KnowledgeIsStable,
                                AnsweredObjectIsDurable, ConflictingObjects
      <3> QED
        BY <3>2, <3>3, <3>4 DEF Safety, StoreSafe
    <2> QED
      BY <1>2, <2>2, <2>3 DEF Reacquire, dbVars, ConflictingReservations
  <1>3. CASE UNCHANGED vars
    <2>1. StoreSafe'
      BY <1>3, StoreFrame, SafetySplit DEF vars
    <2>2. CallsSafe'
      BY <1>3 DEF vars, Safety, CallsSafe, HoldersAreGranted, KnowledgeIsStable,
            AnsweredObjectIsDurable, LeaseIsExclusive, ConflictingObjects
    <2> QED
      BY <2>1, <2>2, SafetySplit DEF Safety, StoreSafe, CallsSafe
  <1> QED
    BY <1>1, <1>2, <1>3, LocalSteps, InsertPendingSafe, AdoptFinalizedSafe,
       PutLandsSafe, FailSafe, FinalizeSafe, TickSafe DEF Next, CallStep

-----------------------------------------------------------------------------
(* What a step may never do.                                                *)

\* Only finalize registers objects, and never over another.
LEMMA ObjectStays ==
    ASSUME TypeOK, Safety, [Next]_vars, NEW d \in Documents, documentObject[d] # NoRow
    PROVE  documentObject'[d] = documentObject[d]
  <1>1. CASE UNCHANGED documentObject
    BY <1>1
  <1>2. ASSUME NEW p \in Callers, Finalize(p), ~ UNCHANGED documentObject
        PROVE  documentObject'[d] = documentObject[d]
    <2> DEFINE e == request[p].object.documentId
    <2>1. /\ documentObject' = [documentObject EXCEPT ![e] = reservation[e].object]
          /\ ConflictingObjects(reservation[e].object) = {}
          /\ pc[p] = "finalize"
      BY <1>2 DEF Finalize, dbVars
    <2>2. reservation[e].object = request[p].object
      BY <2>1 DEF Safety, HoldersAreGranted, Holding
    <2> QED
      BY <2>1, <2>2 DEF ConflictingObjects, SharesIdentity, Safety, RowsAtHome, TypeOK
  <1>3. UNCHANGED documentObject \/ \E p \in Callers : Finalize(p)
    BY DEF Next, CallStep, Call, FindReservation, FindObject, InsertPending,
           AdoptFinalized, Reacquire, VerifyFinalized, HeadObject, PutObject,
           PutLands, PutConflicts, PutTimesOut, VerifyWritten, Fail, Crash, Tick,
           dbVars, vars
  <1> QED
    BY <1>1, <1>2, <1>3

\* The rows a step may change: one row, in one of four ways, or the clock.
LEMMA RowSteps ==
    ASSUME TypeOK, Safety, [Next]_vars, NEW d \in Documents, reservation[d] # NoRow
    PROVE  /\ reservation'[d] # NoRow
           /\ reservation'[d].object = reservation[d].object
           /\ documentObject[d] # NoRow => documentObject'[d] = documentObject[d]
           /\ \/ /\ reservation'[d].status = reservation[d].status
                 /\ reservation'[d].attemptCount = reservation[d].attemptCount
              \/ /\ reservation[d].status # "finalized" /\ ~LeaseLive(reservation[d])
              \/ /\ reservation[d].status = "pending"
                 /\ reservation'[d].status \in {"failed", "finalized"}
                 /\ reservation'[d].attemptCount = reservation[d].attemptCount
                 /\ \E p \in Callers :
                       /\ pc[p] \in {"failing", "finalize"} /\ pc'[p] = "idle"
                       /\ request[p].object = reservation[d].object
                       /\ lease[p] = reservation[d].attemptCount
  <1> DEFINE row == reservation[d]
  <1>0. row \in Row
    BY DEF TypeOK
  <1>1. CASE UNCHANGED <<reservation, documentObject>>
    BY <1>1
  <1>2. ASSUME NEW p \in Callers, NEW e \in Documents, reservation[e] # NoRow,
               DecideAndApplyExisting(p, e), UNCHANGED documentObject
        PROVE  \/ UNCHANGED <<reservation, documentObject>>
               \/ /\ e = d
                  /\ reservation'[d] = PendingRow(row.object, row.attemptCount + 1)
                  /\ row.status # "finalized" /\ ~LeaseLive(row)
                  /\ UNCHANGED documentObject
               \/ e # d /\ reservation'[d] = row /\ UNCHANGED documentObject
    BY <1>2 DEF DecideAndApplyExisting, AttemptsExhausted, MatchesIdentity, TypeOK
  <1>3. ASSUME NEW p \in Callers, FindReservation(p) \/ Reacquire(p)
        PROVE  \/ UNCHANGED <<reservation, documentObject>>
               \/ /\ reservation'[d] = PendingRow(row.object, row.attemptCount + 1)
                  /\ row.status # "finalized" /\ ~LeaseLive(row)
                  /\ UNCHANGED documentObject
               \/ reservation'[d] = row /\ UNCHANGED documentObject
    BY <1>2, <1>3 DEF FindReservation, Reacquire, ConflictingReservations
  <1>4. ASSUME NEW p \in Callers, InsertPending(p) \/ AdoptFinalized(p)
        PROVE  reservation'[d] = row /\ UNCHANGED documentObject
    <2> DEFINE o == request[p].object
    <2>1. CASE ConflictingReservations(o) = {}
      <3>1. row.object.documentId = d
        BY DEF Safety, RowsAtHome
      <3>2. o.documentId # d
        BY <2>1, <3>1 DEF ConflictingReservations, SharesIdentity
      <3> QED
        BY <1>4, <2>1, <3>2 DEF InsertPending, AdoptFinalized, TypeOK
    <2>2. CASE ConflictingReservations(o) # {}
      BY <1>4, <2>2 DEF InsertPending, AdoptFinalized
    <2> QED
      BY <2>1, <2>2
  <1>5. ASSUME NEW p \in Callers, Fail(p) \/ Finalize(p),
               ~ UNCHANGED <<reservation, documentObject>>
        PROVE  /\ OwnsLease(p) /\ request[p].object = reservation[request[p].object.documentId].object
               /\ pc[p] \in {"failing", "finalize"} /\ pc'[p] = "idle"
               /\ \/ /\ request[p].object.documentId = d
                     /\ reservation'[d].object = row.object
                     /\ reservation'[d].attemptCount = row.attemptCount
                     /\ reservation'[d].status \in {"failed", "finalized"}
                     /\ reservation'[d] \in Row
                  \/ request[p].object.documentId # d /\ reservation'[d] = row
               /\ documentObject[d] # NoRow => documentObject'[d] = documentObject[d]
    <2> DEFINE e == request[p].object.documentId
    <2>1. /\ OwnsLease(p) /\ pc[p] \in {"failing", "finalize"} /\ pc'[p] = "idle"
      BY <1>5 DEF Fail, Finalize, dbVars, Return, Goto, TypeOK
    <2>2. /\ reservation[e].object = request[p].object /\ reservation[e] # NoRow
          /\ e \in Documents
      BY <2>1, RequestType DEF Safety, HoldersAreGranted, Holding
    <2>3. reservation' =
             [reservation EXCEPT ![e] =
                [reservation[e] EXCEPT !.status = "failed", !.failureCode = failure[p]]]
          \/ reservation' =
             [reservation EXCEPT ![e] =
                [reservation[e] EXCEPT !.status = "finalized", !.failureCode = NoFailure]]
      BY <1>5 DEF Fail, Finalize, dbVars
    <2>4. /\ [row EXCEPT !.status = "failed", !.failureCode = failure[p]] \in Row
          /\ [row EXCEPT !.status = "finalized", !.failureCode = NoFailure] \in Row
      <3>1. failure[p] \in FailureCodes \cup {NoFailure}
        BY DEF TypeOK
      <3> QED
        BY <1>0, <3>1 DEF Row
    <2>5. UNCHANGED documentObject
          \/ (/\ documentObject' = [documentObject EXCEPT ![e] = reservation[e].object]
              /\ ConflictingObjects(reservation[e].object) = {})
      BY <1>5 DEF Fail, Finalize, dbVars
    <2>6. documentObject[d] # NoRow => documentObject'[d] = documentObject[d]
      BY <2>2, <2>5 DEF ConflictingObjects, SharesIdentity, Safety, RowsAtHome, TypeOK
    <2>7. CASE e = d
      <3>1. /\ reservation'[d].object = row.object
            /\ reservation'[d].attemptCount = row.attemptCount
            /\ reservation'[d].status \in {"failed", "finalized"}
            /\ reservation'[d] \in Row
        <4>1. \/ reservation'[d] = [row EXCEPT !.status = "failed",
                                               !.failureCode = failure[p]]
              \/ reservation'[d] = [row EXCEPT !.status = "finalized",
                                               !.failureCode = NoFailure]
          BY <2>3, <2>7 DEF TypeOK
        <4> QED
          BY <1>0, <2>4, <4>1 DEF Row
      <3> QED
        BY <2>1, <2>2, <2>6, <2>7, <3>1
    <2>8. CASE e # d
      BY <2>1, <2>2, <2>3, <2>6, <2>8 DEF TypeOK
    <2> QED
      BY <2>7, <2>8
  <1>6. CASE Tick
    <2>1. CASE row.leaseLeft > 0
      <3>1. reservation'[d] = [row EXCEPT !.leaseLeft = @ - 1] /\ UNCHANGED documentObject
        BY <1>6, <2>1 DEF Tick
      <3>2. row.leaseLeft - 1 \in 0..LeaseTicks
        BY <1>0, <2>1, ConstantsAssumption DEF Row
      <3>3. [row EXCEPT !.leaseLeft = @ - 1] \in Row
        BY <1>0, <3>2 DEF Row
      <3> QED
        BY <1>0, <3>1, <3>3, ConstantsAssumption DEF Row
    <2>2. CASE ~(row.leaseLeft > 0)
      BY <1>6, <2>2 DEF Tick
    <2> QED
      BY <2>1, <2>2
  <1>7. ASSUME NEW p \in Callers, FindReservation(p) \/ Reacquire(p)
        PROVE  reservation'[d] = row \/
               (/\ reservation'[d] # NoRow /\ reservation'[d].object = row.object
                /\ row.status # "finalized" /\ ~LeaseLive(row))
    <2>1. CASE reservation'[d] = PendingRow(row.object, row.attemptCount + 1)
               /\ row.status # "finalized" /\ ~LeaseLive(row)
      <3>1. CASE row.attemptCount + 1 \in 1..MaxAttempts
        BY <1>0, <2>1, <3>1, PendingRowType, ConstantsAssumption DEF PendingRow, Row
      <3>2. CASE reservation'[d] = row
        BY <3>2
      <3>3. row.attemptCount + 1 \in 1..MaxAttempts \/ reservation'[d] = row
        BY <1>0, <1>7, ConstantsAssumption
           DEF FindReservation, Reacquire, ConflictingReservations,
               DecideAndApplyExisting, AttemptsExhausted, MatchesIdentity, TypeOK, Row
      <3> QED
        BY <3>1, <3>2, <3>3
    <2> QED
      BY <1>3, <1>7, <2>1
  <1>8. ASSUME NEW p \in Callers, Fail(p) \/ Finalize(p),
               request[p].object.documentId = d,
               ~ UNCHANGED <<reservation, documentObject>>
        PROVE  /\ row.status = "pending" /\ lease[p] = row.attemptCount
               /\ request[p].object = row.object
               /\ reservation'[d] # NoRow
    BY <1>5, <1>8, ConstantsAssumption DEF OwnsLease
  <1>9. \/ UNCHANGED <<reservation, documentObject>>
        \/ \E p \in Callers : \/ FindReservation(p) \/ Reacquire(p)
                              \/ InsertPending(p) \/ AdoptFinalized(p)
                              \/ Fail(p) \/ Finalize(p)
        \/ Tick
    BY DEF Next, CallStep, Call, FindObject, VerifyFinalized, HeadObject, PutObject,
           PutLands, PutConflicts, PutTimesOut, VerifyWritten, Crash, dbVars, vars
  <1>10. ASSUME NEW p \in Callers, FindReservation(p) \/ Reacquire(p)
         PROVE  UNCHANGED documentObject
    BY <1>10 DEF FindReservation, Reacquire
  <1>11. CASE \E p \in Callers : FindReservation(p) \/ Reacquire(p)
    BY <1>7, <1>10, <1>11
  <1>12. CASE \E p \in Callers : InsertPending(p) \/ AdoptFinalized(p)
    BY <1>4, <1>12
  <1>13. CASE \E p \in Callers : Fail(p) \/ Finalize(p)
    BY <1>1, <1>5, <1>8, <1>13
  <1> QED
    BY <1>1, <1>6, <1>9, <1>11, <1>12, <1>13

\* Every PUT, sent or about to be sent, agrees with its reservation.
LEMMA PutsAgreeStep == TypeOK /\ IInv /\ [Next]_vars => PutsAgree'
  <1> SUFFICES ASSUME TypeOK, Safety, PutsAgree, [Next]_vars
               PROVE  PutsAgree'
    BY DEF IInv
  <1>1. ASSUME NEW o \in Object, Agrees(o), UNCHANGED bytes
        PROVE  Agrees(o)'
    BY <1>1, RowSteps DEF Agrees, Object
  <1>2. /\ \A w \in wire : w.object \in Object
        /\ \A p \in Callers : request[p].object \in Object
    BY RequestType DEF TypeOK
  \* Steps that send no PUT and lead no caller to one.
  <1>3. CASE /\ UNCHANGED bytes /\ wire' \subseteq wire
             /\ \A p \in Callers :
                   pc'[p] = "put" => pc[p] = "put" /\ request'[p] = request[p]
    BY <1>1, <1>2, <1>3 DEF PutsAgree, Agrees
  <1>4. ASSUME NEW p \in Callers, HeadObject(p)
        PROVE  PutsAgree'
    <2>1. /\ UNCHANGED <<bytes, wire, reservation, request>> /\ pc[p] = "write"
          /\ \A q \in Callers \ {p} : pc'[q] = pc[q]
          /\ pc'[p] = "put" => bytes[KeyOf(request[p].object)] = NoBytes
      BY <1>4 DEF HeadObject, StorageFails, Goto, dbVars, storageVars, TypeOK
    <2>2. /\ reservation[request[p].object.documentId] # NoRow
          /\ reservation[request[p].object.documentId].object = request[p].object
      BY <2>1 DEF Safety, HoldersAreGranted, Holding
    <2> QED
      BY <2>1, <2>2 DEF PutsAgree, Agrees
  <1>5. ASSUME NEW p \in Callers, PutObject(p)
        PROVE  PutsAgree'
    <2>1. /\ UNCHANGED <<bytes, reservation, request>> /\ pc[p] = "put"
          /\ \A w \in wire' : w \in wire \/ w.object = request[p].object
          /\ \A q \in Callers : pc'[q] = "put" => pc[q] = "put"
      BY <1>5 DEF PutObject, PutRequest, Goto, dbVars, TypeOK
    <2> QED
      BY <2>1 DEF PutsAgree, Agrees
  <1>6. ASSUME NEW w \in wire, PutLands(w)
        PROVE  PutsAgree'
    <2>1. /\ UNCHANGED <<reservation, request>> /\ wire' \subseteq wire
          /\ \A q \in Callers : pc'[q] = "put" => pc[q] = "put"
      BY <1>6 DEF PutLands, Goto, dbVars, TypeOK
    <2>2. ASSUME NEW o \in Object, Agrees(o)
          PROVE  Agrees(o)'
      <3>1. KeyOf(o) = KeyOf(w.object) => o = w.object
        BY <2>2 DEF KeyOf, PutsAgree, Agrees
      <3>2. KeyOf(o) \in Key
        BY DEF KeyOf, Key, Object
      <3>3. bytes'[KeyOf(o)] \in {bytes[KeyOf(o)], o.sha256}
        BY <1>6, <3>1, <3>2 DEF PutLands, TypeOK
      <3> QED
        BY <2>1, <2>2, <3>3 DEF Agrees
    <2> QED
      BY <1>2, <2>1, <2>2 DEF PutsAgree
  <1>7. ASSUME NEW p \in Callers,
               \/ \E r \in Requests : Call(p, r)
               \/ FindReservation(p) \/ FindObject(p) \/ InsertPending(p)
               \/ AdoptFinalized(p) \/ Reacquire(p) \/ VerifyFinalized(p)
               \/ PutConflicts(p) \/ PutTimesOut(p) \/ VerifyWritten(p)
               \/ Fail(p) \/ Finalize(p) \/ Crash(p)
        PROVE  /\ UNCHANGED bytes /\ wire' \subseteq wire
               /\ \A q \in Callers :
                     pc'[q] = "put" => pc[q] = "put" /\ request'[q] = request[q]
    BY <1>7 DEF Call, FindReservation, FindObject, InsertPending, AdoptFinalized,
          Reacquire, VerifyFinalized, PutConflicts, PutTimesOut, VerifyWritten,
          Fail, Finalize, Crash, DecideAndApplyExisting, StorageFails, Return,
          Goto, dbVars, storageVars, TypeOK
  <1>8. CASE Tick \/ UNCHANGED vars
    BY <1>3, <1>8 DEF Tick, vars, storageVars, callVars
  <1> QED
    BY <1>3, <1>4, <1>5, <1>6, <1>7, <1>8 DEF Next, CallStep

\* Everything the runs check of the write path holds for every number of
\* callers, documents and attempts.
THEOREM SafetyHolds == Spec => []IInv
  <1>1. Init => IInv
    BY InitSafety DEF Init, IInv, PutsAgree
  <1>2. TypeOK /\ IInv /\ [Next]_vars => IInv'
    BY SafetyStep, PutsAgreeStep DEF IInv
  <1> QED
    BY <1>1, <1>2, TypeCorrect, PTL DEF Spec

\* No two reservations and no two registered objects share an identity,
\* although a reservation is inserted by a call that has only looked for one.
THEOREM IdentitiesStayUnique == Spec => []IdentitiesAreUnique
  <1>1. IInv => IdentitiesAreUnique
    BY DEF IInv, Safety
  <1> QED
    BY <1>1, SafetyHolds, PTL

\* Present bytes are never replaced, by however late a PUT.
THEOREM BytesForever == Spec => BytesAreWrittenOnce
  <1>1. ASSUME TypeOK, PutsAgree, [Next]_vars
        PROVE  [\A k \in Key : bytes[k] # NoBytes => bytes'[k] = bytes[k]]_storageVars
    <2>1. CASE \E w \in wire : PutLands(w)
      BY <1>1, <2>1, BytesStay
    <2>2. CASE UNCHANGED bytes
      BY <2>2
    <2>3. (\E w \in wire : PutLands(w)) \/ UNCHANGED bytes
      BY <1>1 DEF Next, CallStep, Call, FindReservation, FindObject, InsertPending,
             AdoptFinalized, Reacquire, VerifyFinalized, HeadObject, PutObject,
             PutConflicts, PutTimesOut, VerifyWritten, Fail, Finalize, Crash, Tick,
             storageVars, vars
    <2> QED
      BY <2>1, <2>2, <2>3
  <1> QED
    BY <1>1, TypeCorrect, SafetyHolds, PTL DEF Spec, BytesAreWrittenOnce, IInv

\* A registered object and its finalized reservation never change.
THEOREM FinalizedForever == Spec => FinalizedIsForever
  <1> DEFINE A == \A d \in Documents :
          /\ documentObject[d] # NoRow => documentObject'[d] = documentObject[d]
          /\ reservation[d] # NoRow =>
                /\ reservation'[d] # NoRow
                /\ reservation'[d].object = reservation[d].object
                /\ reservation[d].status = "finalized" =>
                      /\ reservation'[d].status = "finalized"
                      /\ reservation'[d].attemptCount = reservation[d].attemptCount
  <1>1. ASSUME TypeOK, Safety, [Next]_vars
        PROVE  [A]_dbVars
    <2>1. \A d \in Documents :
             documentObject[d] # NoRow => documentObject'[d] = documentObject[d]
      BY <1>1, ObjectStays
    <2> QED
      BY <1>1, <2>1, RowSteps
  <1> QED
    BY <1>1, TypeCorrect, SafetyHolds, PTL DEF Spec, FinalizedIsForever, IInv

\* A live lease is ended by its holder alone.
THEOREM LiveLeaseRespected == Spec => LiveLeaseIsRespected
  <1> DEFINE A == \A d \in Documents :
          (reservation[d] # NoRow /\ LeaseLive(reservation[d])) =>
             /\ reservation'[d].attemptCount = reservation[d].attemptCount
             /\ reservation'[d].status # "pending" =>
                   \E p \in Callers :
                      /\ pc[p] \in {"failing", "finalize"} /\ pc'[p] = "idle"
                      /\ request[p].object = reservation[d].object
                      /\ lease[p] = reservation[d].attemptCount
  <1>1. ASSUME TypeOK, Safety, [Next]_vars
        PROVE  [A]_dbVars
    BY <1>1, RowSteps DEF LeaseLive
  <1> QED
    BY <1>1, TypeCorrect, SafetyHolds, PTL DEF Spec, LiveLeaseIsRespected, IInv

\* Final states and live leases are kept, whatever stale holders still do.
THEOREM PromisesKept == Spec => PromisesAreKept
  BY FinalizedForever, LiveLeaseRespected DEF PromisesAreKept
-----------------------------------------------------------------------------
(* The write path implements WriteOnceObject.                               *)

Answer == [p \in Callers |-> IF outcome[p] = "finalized" THEN request[p].object
                                                         ELSE NoRow]

\* What a step does to the answer of each caller.
LEMMA AnswerSteps ==
    ASSUME TypeOK, NEW p \in Callers,
           \A q \in Callers \ {p} : outcome'[q] = outcome[q] /\ request'[q] = request[q],
           request' \in [Callers -> Requests], outcome' \in [Callers -> Results]
    PROVE  /\ outcome'[p] # "finalized" => Answer' = [Answer EXCEPT ![p] = NoRow]
           /\ outcome'[p] = "finalized" =>
                 Answer' = [Answer EXCEPT ![p] = request'[p].object]
  BY DEF Answer, TypeOK

LEMMA WriteOnceInit == Init => WriteOnce!Init
  <1> SUFFICES ASSUME Init PROVE WriteOnce!Init
    OBVIOUS
  <1>1. Answer = [p \in Callers |-> NoRow]
    BY DEF Init, Answer
  <1> QED
    BY <1>1, ConstantsAssumption DEF Init, WriteOnce!Init, Answer

LEMMA WriteOnceStep ==
    TypeOK /\ IInv /\ TypeOK' /\ [Next]_vars => [WriteOnce!Next]_(WriteOnce!absVars)
  <1> SUFFICES ASSUME TypeOK, Safety, PutsAgree, TypeOK', [Next]_vars
               PROVE  WriteOnce!Next \/ UNCHANGED <<documentObject, bytes, Answer>>
    BY DEF WriteOnce!absVars, Answer, IInv
  \* Steps that change no answer, no object and no byte.
  <1>1. CASE UNCHANGED <<documentObject, bytes, outcome, request>>
    BY <1>1 DEF Answer
  \* A step of one caller that does not answer "finalized".
  <1>2. ASSUME NEW p \in Callers, UNCHANGED <<documentObject, bytes>>,
               \A q \in Callers \ {p} : outcome'[q] = outcome[q] /\ request'[q] = request[q],
               outcome'[p] # "finalized"
        PROVE  WriteOnce!Next
    <2>1. Answer' = [Answer EXCEPT ![p] = NoRow]
      BY <1>2, AnswerSteps DEF TypeOK
    <2>2. WriteOnce!Withhold(p)
      BY <1>2, <2>1 DEF WriteOnce!Withhold, Answer
    <2> QED
      BY <2>2 DEF WriteOnce!Next
  \* A step that answers p, and may register its object.
  <1>3. ASSUME NEW p \in Callers, UNCHANGED <<bytes, request>>,
               \A q \in Callers \ {p} : outcome'[q] = outcome[q],
               outcome'[p] = "finalized",
               bytes[KeyOf(request[p].object)] = request[p].object.sha256,
               \/ /\ documentObject[request[p].object.documentId] = request[p].object
                  /\ UNCHANGED documentObject
               \/ /\ ConflictingObjects(request[p].object) = {}
                  /\ documentObject' = [documentObject EXCEPT
                        ![request[p].object.documentId] = request[p].object]
        PROVE  WriteOnce!Next
    <2>0. PICK o \in Object : o = request[p].object
      BY RequestType
    <2>1. Answer' = [Answer EXCEPT ![p] = o]
      BY <1>3, <2>0, AnswerSteps DEF TypeOK
    <2>2. \/ documentObject[o.documentId] = o /\ UNCHANGED documentObject
          \/ /\ \A d \in Documents :
                   documentObject[d] # NoRow => ~SharesIdentity(documentObject[d], o)
             /\ documentObject' = [documentObject EXCEPT ![o.documentId] = o]
      BY <1>3, <2>0 DEF ConflictingObjects
    <2>3. WriteOnce!Finalize(p, o)
      BY <1>3, <2>0, <2>1, <2>2 DEF WriteOnce!Finalize, WriteOnce!IsStored, Answer
    <2> QED
      BY <2>3 DEF WriteOnce!Next
  <1>4. ASSUME NEW p \in Callers,
               \/ \E r \in Requests : Call(p, r)
               \/ FindObject(p) \/ FindReservation(p) \/ Reacquire(p)
               \/ Fail(p) \/ Crash(p)
        PROVE  WriteOnce!Next \/ UNCHANGED <<documentObject, bytes, Answer>>
    <2>1. /\ UNCHANGED <<documentObject, bytes>>
          /\ \A q \in Callers \ {p} : outcome'[q] = outcome[q] /\ request'[q] = request[q]
      BY <1>4, SMTT(20) DEF Call, FindObject, FindReservation, Reacquire, Fail, Crash,
                  DecideAndApplyExisting, Return, Goto, dbVars, storageVars, TypeOK
    <2>2. outcome'[p] # "finalized" \/ UNCHANGED <<outcome, request>>
      BY <1>4 DEF Call, FindObject, FindReservation, Reacquire, Fail, Crash,
                  DecideAndApplyExisting, FailureResult, Return, Goto, dbVars,
                  storageVars, TypeOK
    <2> QED
      BY <1>1, <1>2, <2>1, <2>2
  <1>5. ASSUME NEW p \in Callers, VerifyFinalized(p)
        PROVE  WriteOnce!Next
    <2> DEFINE o == request[p].object
    <2>1. /\ UNCHANGED <<documentObject, bytes, request>> /\ pc[p] = "verifyFinalized"
          /\ \A q \in Callers \ {p} : outcome'[q] = outcome[q] /\ request'[q] = request[q]
      BY <1>5 DEF VerifyFinalized, Return, dbVars, storageVars, TypeOK
    <2>2. outcome'[p] = "finalized" => bytes[KeyOf(o)] = o.sha256
      BY <1>5, RequestType, ConstantsAssumption
         DEF VerifyFinalized, FailureResult, VerifyResults, Misread, Return, TypeOK
    <2>3. documentObject[o.documentId] = o
      BY <2>1 DEF Safety, KnowledgeIsStable
    <2> QED
      BY <1>2, <1>3, <2>1, <2>2, <2>3
  <1>6. ASSUME NEW p \in Callers, Finalize(p)
        PROVE  WriteOnce!Next
    <2> DEFINE o == request[p].object
    <2>1. /\ UNCHANGED <<bytes, request>> /\ pc[p] = "finalize"
          /\ \A q \in Callers \ {p} : outcome'[q] = outcome[q]
      BY <1>6 DEF Finalize, Return, storageVars, TypeOK
    <2>2. /\ bytes[KeyOf(o)] = o.sha256
          /\ reservation[o.documentId] # NoRow
          /\ reservation[o.documentId].object = o
      BY <2>1 DEF Safety, KnowledgeIsStable, HoldersAreGranted, Holding
    <2>3. CASE outcome'[p] = "finalized"
      <3>1. \/ /\ IsFinal(reservation[o.documentId])
               /\ UNCHANGED documentObject
            \/ /\ ConflictingObjects(o) = {}
               /\ documentObject' = [documentObject EXCEPT ![o.documentId] = o]
        BY <1>6, <2>2, <2>3 DEF Finalize, Return, dbVars, TypeOK
      <3>2. IsFinal(reservation[o.documentId]) => documentObject[o.documentId] = o
        BY <2>2, RequestType DEF IsFinal, Safety, ReservationMatchesObject
      <3> QED
        BY <1>3, <2>1, <2>2, <2>3, <3>1, <3>2
    <2>4. CASE outcome'[p] # "finalized"
      <3>1. UNCHANGED documentObject
        BY <1>6, <2>4 DEF Finalize, Return, dbVars, TypeOK
      <3> QED
        BY <1>2, <2>1, <2>4, <3>1
    <2> QED
      BY <2>3, <2>4
  <1>7. ASSUME NEW w \in wire, PutLands(w)
        PROVE  WriteOnce!Next \/ UNCHANGED <<documentObject, bytes, Answer>>
    <2>1. UNCHANGED <<documentObject, outcome, request>>
      BY <1>7 DEF PutLands, dbVars
    <2>2. CASE bytes[KeyOf(w.object)] = NoBytes
      <3>1. KeyOf(w.object) \in Key /\ w.object.sha256 \in Digests
        BY DEF TypeOK, Object, KeyOf, Key
      <3>2. WriteOnce!Store(KeyOf(w.object), w.object.sha256)
        BY <1>7, <2>1, <2>2 DEF PutLands, WriteOnce!Store, Answer
      <3> QED
        BY <3>1, <3>2 DEF WriteOnce!Next
    <2>3. CASE bytes[KeyOf(w.object)] # NoBytes
      <3>1. UNCHANGED bytes
        BY <1>7, <2>3 DEF PutLands, PutsAgree, Agrees, TypeOK
      <3> QED
        BY <1>1, <2>1, <3>1
    <2> QED
      BY <2>2, <2>3
  <1>8. ASSUME NEW p \in Callers,
               \/ InsertPending(p) \/ AdoptFinalized(p) \/ HeadObject(p)
               \/ PutObject(p) \/ PutConflicts(p) \/ PutTimesOut(p) \/ VerifyWritten(p)
        PROVE  UNCHANGED <<documentObject, bytes, outcome, request>>
    BY <1>8 DEF InsertPending, AdoptFinalized, HeadObject, PutObject, PutConflicts,
                PutTimesOut, VerifyWritten, dbVars, storageVars
  <1>9. CASE Tick \/ UNCHANGED vars
    BY <1>1, <1>9 DEF Tick, vars, storageVars, callVars
  <1> QED
    BY <1>1, <1>4, <1>5, <1>6, <1>7, <1>8, <1>9 DEF Next, CallStep

\* The detailed write path, with its leases, retries, late PUTs and crashes,
\* implements the abstract one.
THEOREM WriteOnceKept == Spec => WriteOncePromise
  <1>1. Init => WriteOnce!Init
    BY WriteOnceInit
  <1>2. TypeOK /\ IInv /\ TypeOK' /\ [Next]_vars => [WriteOnce!Next]_(WriteOnce!absVars)
    BY WriteOnceStep
  <1> QED
    BY <1>1, <1>2, TypeCorrect, SafetyHolds, PTL
       DEF Spec, WriteOncePromise, WriteOnce!Spec
=============================================================================
