-------------------------- MODULE CorrectionSessions --------------------------
(***************************************************************************)
(* The correction session of one document in the gateway: it is opened     *)
(* from the external document, its draft is saved, and corrections are     *)
(* submitted, by concurrent calls.  A payload is the set of edits that it  *)
(* holds on top of the source; the source snapshot never changes but for   *)
(* its normalisation and is left out.                                      *)
(*                                                                         *)
(* A submission leaves a row in the outbox; CorrectionOutbox tells what    *)
(* becomes of it, which no session depends on.  A crash of the gateway is  *)
(* the end of every call, and calls end at any step.                       *)
(***************************************************************************)
EXTENDS Integers, Sequences

CONSTANTS
    Callers,      \* concurrent calls of the gateway
    Users,
    Edits,
    None,
    MaxCommands   \* bound on accepted saves and submissions

Payloads == SUBSET Edits
Versions == 1..(MaxCommands + 1)

SessionRow ==
    [createdBy : Users, lockedBy : Users, draft : Payloads,
     status : {"draft", "submitted"}, version : Versions]

ASSUME CorrectionsAssumption ==
    /\ MaxCommands \in Nat
    /\ None \notin Users
    /\ None \notin SessionRow
    /\ None \notin {"open", "save", "submit"}

VARIABLES
    session,   \* the correction_session row of the document
    stored,    \* every payload the external store has held for the document
    outbox,    \* the versions that the events of correction_event_outbox announce
    accepted,  \* the saves and submissions that have been committed, in order
    call       \* where each call is, and what it remembers

committed == <<session, stored, outbox, accepted>>
vars == <<committed, call>>

NoCall == [op |-> None, step |-> "idle", user |-> None, expected |-> 0,
           payload |-> {}, seen |-> None, loaded |-> None]

Init ==
    /\ outbox = <<>>
    /\ session = None
    /\ stored = {{}}
    /\ accepted = <<>>
    /\ call = [c \in Callers |-> NoCall]

At(c, op, step) == call[c].op \in op /\ call[c].step = step

GoTo(c, step) == call' = [call EXCEPT ![c].step = step]

End(c) == call' = [call EXCEPT ![c] = NoCall]

EnsureSessionAccess(user) == session.lockedBy = user /\ session.createdBy = user

\* Mutant: the row is locked and not compared again.
IsNotCompared(c) == TRUE

IsExpected(c) == session.version = call[c].expected

Accept(c) ==
    /\ Len(accepted) < MaxCommands
    /\ accepted' = Append(accepted, [op |-> call[c].op, base |-> call[c].expected])

-----------------------------------------------------------------------------
(* openSession.  A session that exists is only read, by its owner.         *)

OpenSession(c, u) ==
    /\ call[c] = NoCall
    /\ session = None
    /\ call' = [call EXCEPT ![c] = [NoCall EXCEPT !.op = "open", !.step = "fetch", !.user = u]]
    /\ UNCHANGED committed

FetchDocument(c) ==
    /\ At(c, {"open"}, "fetch")
    /\ \E d \in stored :
          call' = [call EXCEPT ![c].payload = d, ![c].step = "insert"]
    /\ UNCHANGED committed

NewSession(c) ==
    [createdBy |-> call[c].user, lockedBy |-> call[c].user,
     draft |-> call[c].payload, status |-> "draft", version |-> 1]

\* Mutant: no unique index.
InsertAnotherSession(c) ==
    /\ At(c, {"open"}, "insert")
    /\ session' = NewSession(c)
    /\ End(c)
    /\ UNCHANGED <<stored, outbox, accepted>>

\* The unique index on document_id refuses a second session.
InsertSession(c) ==
    /\ At(c, {"open"}, "insert")
    /\ session' = IF session = None THEN NewSession(c) ELSE session
    /\ End(c)
    /\ UNCHANGED <<stored, outbox, accepted>>

-----------------------------------------------------------------------------
(* saveDraft and submitCorrections begin alike: the row is read without a  *)
(* lock, checked, and the document is written to the external store.       *)

\* mergeService.applyEdits: the edits on top of the draft that was read.
ApplyEdits(draft, edits) == draft \cup edits

Command(c, u, op, expected, payload) ==
    /\ call[c] = NoCall
    /\ session # None
    /\ EnsureSessionAccess(u)
    /\ session.version = expected
    /\ call' = [call EXCEPT ![c] =
          [op |-> op, step |-> "put", user |-> u, expected |-> expected,
           payload |-> payload, seen |-> session, loaded |-> None]]
    /\ UNCHANGED committed

SaveDraft(c, u) ==
    \E expected \in Versions, payload \in Payloads :
        Command(c, u, "save", expected, payload)

SubmitCorrections(c, u) ==
    \E expected \in Versions, edits \in Payloads :
        session # None /\ Command(c, u, "submit", expected, ApplyEdits(session.draft, edits))

AfterPut(c) == IF call[c].op = "save" THEN "select" ELSE "commit"

\* Mutant: the call goes on although the store did not answer.
PutDocumentIsSkipped(c) ==
    /\ At(c, {"save", "submit"}, "put")
    /\ GoTo(c, AfterPut(c))
    /\ UNCHANGED committed

PutDocument(c) ==
    /\ At(c, {"save", "submit"}, "put")
    /\ stored' = stored \cup {call[c].payload}
    /\ GoTo(c, AfterPut(c))
    /\ UNCHANGED <<session, outbox, accepted>>

\* The request fails or times out; the store may have done it, or do it yet.
PutDocumentFails(c) ==
    /\ At(c, {"save", "submit"}, "put")
    /\ stored' \in {stored, stored \cup {call[c].payload}}
    /\ End(c)
    /\ UNCHANGED <<session, outbox, accepted>>

-----------------------------------------------------------------------------
(* The repository's save: TypeORM reads the row again and updates the      *)
(* columns in which the entity differs, without comparing versions.        *)

SelectForSave(c) ==
    /\ At(c, {"save"}, "select")
    /\ call' = [call EXCEPT ![c].loaded = session, ![c].step = "update"]
    /\ UNCHANGED committed

Entity(c) ==
    [call[c].seen EXCEPT !.draft = call[c].payload, !.lockedBy = call[c].user, !.version = @ + 1]

UpdateChanged(entity, loaded) ==
    [f \in DOMAIN session |-> IF entity[f] # loaded[f] THEN entity[f] ELSE session[f]]

UpdateSession(c) ==
    /\ At(c, {"save"}, "update")
    /\ session' = UpdateChanged(Entity(c), call[c].loaded)
    /\ Accept(c)
    /\ End(c)
    /\ UNCHANGED <<stored, outbox>>

-----------------------------------------------------------------------------
(* The transaction of submitCorrections locks the row; others see nothing  *)
(* of it before it commits and update the row only after, so it is a step. *)

CommitSubmission(c) ==
    /\ At(c, {"submit"}, "commit")
    /\ IsExpected(c)
    /\ session' = [session EXCEPT
          !.draft = call[c].payload, !.lockedBy = call[c].user, !.status = "submitted",
          !.version = call[c].seen.version + 1]
    /\ outbox' = Append(outbox, call[c].seen.version + 1)
    /\ Accept(c)
    /\ End(c)
    /\ UNCHANGED stored

\* An awaited request fails, a payload or an edit is refused, the version under
\* the lock is not the expected one, or the gateway ends: the call is over.
Throw(c) == call[c] # NoCall /\ End(c) /\ UNCHANGED committed

CallStep(c) ==
    \/ \E u \in Users : OpenSession(c, u) \/ SaveDraft(c, u) \/ SubmitCorrections(c, u)
    \/ FetchDocument(c) \/ InsertSession(c)
    \/ PutDocument(c) \/ PutDocumentFails(c)
    \/ SelectForSave(c) \/ UpdateSession(c)
    \/ CommitSubmission(c) \/ Throw(c)

Next == \E c \in Callers : CallStep(c)

Spec == Init /\ [][Next]_vars

-----------------------------------------------------------------------------
Calls ==
    [op : {None, "open", "save", "submit"},
     step : {"idle", "fetch", "insert", "put", "select", "update", "commit"},
     user : Users \cup {None},
     expected : {0} \cup Versions,
     payload : Payloads,
     seen : SessionRow \cup {None},
     loaded : SessionRow \cup {None}]

\* Types; and whoever opened the session first owns it: users who open the
\* document at once do not take it from each other, and every call that works
\* on it is the owner's.
TypeOK ==
    /\ session \in SessionRow \cup {None}
    /\ stored \subseteq Payloads
    /\ outbox \in Seq(Versions)
    /\ accepted \in Seq([op : {"save", "submit"}, base : Versions])
    /\ call \in [Callers -> Calls]
    /\ session # None => session.lockedBy = session.createdBy
    /\ \A c \in Callers : call[c].op \in {"save", "submit"} =>
          None \notin {session, call[c].seen} /\ call[c].user = session.createdBy

\* An accepted draft save based on an older version.
SavedBelow(k, base) == accepted[k].op = "save" /\ accepted[k].base < base

\* Two submissions commit on the same version only if, between them, a draft
\* save that had been overtaken has set the version back: the comparison
\* under the lock serialises submissions, and the keys of their events
\* (document:version) differ unless saveDraft's unlocked check was outrun.
SubmissionsAreSerialised ==
    \A i, j \in DOMAIN accepted :
        /\ i < j
        /\ accepted[i].op = "submit" /\ accepted[j].op = "submit"
        /\ accepted[i].base = accepted[j].base
        => \E k \in i..j : SavedBelow(k, accepted[i].base)

\* The session never runs ahead of the external store: whatever draft is
\* committed, with calls failing, overtaking each other and dying in between,
\* the store has held it.  A failure leaves the store ahead, never behind.
DraftHasBeenStored == session # None => session.draft \in stored

\* The inductive invariant: once committed, a submission's base is current
\* again only after such a save; and what each call remembers was true.
BasesAreBehind ==
    \A i \in DOMAIN accepted :
        /\ accepted[i].op = "submit"
        /\ session.version <= accepted[i].base
        => \E k \in i..Len(accepted) : SavedBelow(k, accepted[i].base)

VersionsAreCounted ==
    /\ accepted # <<>> => session # None
    /\ session # None => session.version <= Len(accepted) + 1

CallsRemember ==
    \A c \in Callers :
        /\ call[c].op = "open" => call[c].user \in Users
        /\ call[c].op \in {"save", "submit"} =>
              /\ call[c].seen.version = call[c].expected
              /\ call[c].expected <= Len(accepted) + 1
              /\ call[c].seen.createdBy = session.createdBy
        /\ call[c].step = "update" =>
              /\ call[c].op = "save"
              /\ call[c].loaded # None /\ call[c].loaded.createdBy = session.createdBy

PayloadsAreStored ==
    \A c \in Callers :
        call[c].step \in {"insert", "select", "update", "commit"} => call[c].payload \in stored


IInv ==
    /\ TypeOK
    /\ BasesAreBehind
    /\ VersionsAreCounted
    /\ CallsRemember
    /\ PayloadsAreStored
    /\ SubmissionsAreSerialised
    /\ DraftHasBeenStored

\* "optimistic versions": no version of a session is the base of two accepted
\* commands, so that nobody's accepted changes are overwritten unseen.
EachVersionIsAcceptedOnce ==
    \A i, j \in DOMAIN accepted : i # j => accepted[i].base # accepted[j].base
=============================================================================
