---------------------------- MODULE WriteOnceObject ----------------------------
(***************************************************************************)
(* What the platform promises about source objects, without leases,        *)
(* attempts, storage requests or crashes: a document gets at most one      *)
(* registered object, only after its bytes are stored; stored bytes and    *)
(* registered objects never change; and a caller is answered "finalized"   *)
(* only for the object it asked for, when that object is registered and    *)
(* stored.                                                                 *)
(***************************************************************************)
CONSTANTS Callers, Documents, Object, Key, Digests, LegacyObjects,
          NoRow, NoBytes,
          KeyOf(_),            \* where the bytes of an object are kept
          SharesIdentity(_, _) \* objects that may not both be registered

VARIABLES registered, \* the object of each document
          stored,     \* the bytes under each key, as their digest
          answer      \* the object each caller was last told is final

absVars == <<registered, stored, answer>>

IsStored(o) == stored[KeyOf(o)] = o.sha256

Init ==
    /\ registered \in [Documents -> LegacyObjects \cup {NoRow}]
    /\ stored \in [Key -> Digests \cup {NoBytes}]
    /\ answer = [p \in Callers |-> NoRow]

\* Bytes appear under a key that had none.
Store(k, sha) ==
    /\ stored[k] = NoBytes
    /\ stored' = [stored EXCEPT ![k] = sha]
    /\ UNCHANGED <<registered, answer>>

\* A caller is answered; the first answer for a document registers it.
Finalize(p, o) ==
    /\ IsStored(o)
    /\ \/ registered[o.documentId] = o /\ UNCHANGED registered
       \/ /\ \A d \in Documents :
                registered[d] # NoRow => ~SharesIdentity(registered[d], o)
          /\ registered' = [registered EXCEPT ![o.documentId] = o]
    /\ answer' = [answer EXCEPT ![p] = o]
    /\ UNCHANGED stored

\* A new call, a refusal or a crash: nothing is promised.
Withhold(p) ==
    /\ answer' = [answer EXCEPT ![p] = NoRow]
    /\ UNCHANGED <<registered, stored>>

Next ==
    \/ \E k \in Key, sha \in Digests : Store(k, sha)
    \/ \E p \in Callers : Withhold(p) \/ \E o \in Object : Finalize(p, o)

Spec == Init /\ [][Next]_absVars
=============================================================================
