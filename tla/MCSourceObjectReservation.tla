---------------------- MODULE MCSourceObjectReservation ----------------------
(***************************************************************************)
(* Small instances of SourceObjectReservation: which documents, objects    *)
(* and inputs the callers use.                                             *)
(***************************************************************************)
EXTENDS SourceObjectReservation, TLC

CONSTANTS d1, d2, o1, sha1, sha2, platformSource, otherBucket, alice, bob

Obj(d, o, sha, b) ==
    [documentId |-> d, objectId |-> o, sha256 |-> sha, storageBucket |-> b]

From(owner, o) == [object |-> o, ownerId |-> owner]

Source == Obj(d1, o1, sha1, platformSource)

\* One document: the right source, other bytes under the same key, and a
\* request of somebody who does not own the document.
OneDocumentRequests ==
    {From(alice, Source), From(alice, Obj(d1, o1, sha2, platformSource)),
     From(bob, Source)}

\* Two documents that claim the same object id, the second one also in a
\* bucket the adapter is not configured for.
TwoDocumentRequests ==
    {From(alice, Source), From(alice, Obj(d2, o1, sha1, platformSource)),
     From(alice, Obj(d2, o1, sha1, otherBucket))}

\* Repeated requests for one source.
SameRequests == {From(alice, Source)}

AliceOwnsAll == [d \in Documents |-> alice]

LegacySource == {Source}

CallerSymmetry == Permutations(Callers)
=============================================================================
