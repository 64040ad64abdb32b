----------------------- MODULE CorrectionSessionsProofs -----------------------
(***************************************************************************)
(* Submissions of corrections are serialised, and the session never runs   *)
(* ahead of the external store, for any callers, users, edits and number   *)
(* of commands; and a process of the gateway works with one version of a   *)
(* document type.                                                          *)
(***************************************************************************)
EXTENDS CorrectionSessions, SequenceTheorems, TLAPS

USE CorrectionsAssumption DEF Payloads, Versions

\* A memory that a call may have.
Sound(m) ==
    /\ m \in Calls
    /\ m.op = "open" => m.user \in Users
    /\ m.op \in {"save", "submit"} =>
          /\ None \notin {session, m.seen}
          /\ m.user = session.createdBy
          /\ m.seen.version = m.expected
          /\ m.expected <= Len(accepted) + 1
          /\ m.seen.createdBy = session.createdBy
    /\ m.step = "update" =>
          /\ m.op = "save"
          /\ m.loaded # None /\ m.loaded.createdBy = session.createdBy

\* What every call remembers is sound, by the invariant.
LEMMA Memory ==
    ASSUME IInv, NEW c \in Callers
    PROVE  Sound(call[c])
  BY DEF IInv, TypeOK, CallsRemember, Sound

\* Steps after which a call remembers something else, and the store may hold
\* more, but the database is the same.
LEMMA CallMoves ==
    ASSUME IInv, UNCHANGED <<session, outbox, accepted>>,
           stored \subseteq stored', stored' \subseteq Payloads,
           NEW c \in Callers, NEW next, Sound(next),
           call' = [call EXCEPT ![c] = next],
           next.step \in {"insert", "select", "update", "commit"} => next.payload \in stored'
    PROVE  IInv'
  <1>2. /\ call \in [Callers -> Calls]
        /\ call' \in [Callers -> Calls]
        /\ call'[c] = next
        /\ \A d \in Callers : d # c => call'[d] = call[d]
    BY DEF IInv, TypeOK, Sound
  <1>3. TypeOK'
    BY <1>2 DEF IInv, TypeOK, Sound
  <1>4. CallsRemember'
    BY <1>2 DEF IInv, CallsRemember, Sound
  <1>5. PayloadsAreStored'
    BY <1>2 DEF IInv, PayloadsAreStored
  <1>6. BasesAreBehind' /\ VersionsAreCounted' /\ SubmissionsAreSerialised' /\ DraftHasBeenStored'
    BY DEF IInv, BasesAreBehind, VersionsAreCounted, SubmissionsAreSerialised,
           DraftHasBeenStored, SavedBelow
  <1> QED  BY <1>3, <1>4, <1>5, <1>6 DEF IInv

LEMMA NoCallIsSound == Sound(NoCall) /\ NoCall.step = "idle"
  BY DEF Sound, NoCall, Calls

\* A call ends and has not changed the database.
LEMMA CallEnds ==
    ASSUME IInv, UNCHANGED <<session, outbox, accepted>>,
           stored \subseteq stored', stored' \subseteq Payloads,
           NEW c \in Callers, End(c)
    PROVE  IInv'
  BY CallMoves, NoCallIsSound DEF End

LEMMA InitInvariant == Init => IInv
  <1> SUFFICES ASSUME Init PROVE IInv
    OBVIOUS
  <1>1. TypeOK
    BY NoCallIsSound DEF Init, TypeOK, NoCall, Sound
  <1> QED  BY <1>1 DEF Init, IInv, BasesAreBehind, VersionsAreCounted, CallsRemember,
               PayloadsAreStored, SubmissionsAreSerialised, DraftHasBeenStored, NoCall
-----------------------------------------------------------------------------
(* Opening, and the steps before a command is accepted.                     *)

LEMMA OpenSessionStep ==
    ASSUME IInv, NEW c \in Callers, NEW u \in Users, OpenSession(c, u)
    PROVE  IInv'
  <1> DEFINE next == [NoCall EXCEPT !.op = "open", !.step = "fetch", !.user = u]
  <1>1. Sound(next) /\ next.step = "fetch"
    BY DEF Sound, NoCall, Calls
  <1>2. call' = [call EXCEPT ![c] = next] /\ UNCHANGED <<session, outbox, accepted, stored>>
    BY DEF OpenSession, committed
  <1> QED  BY <1>1, <1>2, CallMoves DEF IInv, TypeOK

LEMMA FetchDocumentStep ==
    ASSUME IInv, NEW c \in Callers, FetchDocument(c)
    PROVE  IInv'
  <1>1. PICK d \in stored : call' = [call EXCEPT ![c].payload = d, ![c].step = "insert"]
    BY DEF FetchDocument
  <1> DEFINE next == [call[c] EXCEPT !.payload = d, !.step = "insert"]
  <1>2. Sound(call[c]) /\ call[c].op = "open"
    BY Memory DEF FetchDocument, At
  <1>3. Sound(next) /\ next.payload = d
    BY <1>2 DEF Sound, Calls, IInv, TypeOK
  <1>4. call' = [call EXCEPT ![c] = next] /\ UNCHANGED <<session, outbox, accepted, stored>>
    BY <1>1 DEF FetchDocument, committed, IInv, TypeOK
  <1>5. next.payload \in stored' /\ stored \subseteq stored' /\ stored' \subseteq Payloads
    BY <1>3, <1>4 DEF IInv, TypeOK
  <1> HIDE DEF next
  <1> QED  BY <1>3, <1>4, <1>5, CallMoves

LEMMA InsertSessionStep ==
    ASSUME IInv, NEW c \in Callers, InsertSession(c)
    PROVE  IInv'
  <1>1. CASE session # None
    BY <1>1, CallEnds DEF InsertSession, IInv, TypeOK
  <1>2. CASE session = None
    <2>1. /\ session' = NewSession(c)
          /\ UNCHANGED <<stored, outbox, accepted>>
          /\ call' = [call EXCEPT ![c] = NoCall]
      BY <1>2 DEF InsertSession, End
    <2>2. NewSession(c) \in SessionRow /\ call[c].payload \in stored
      BY Memory DEF InsertSession, At, NewSession, SessionRow, Sound, Calls, IInv,
                    PayloadsAreStored
    <2>3. accepted = <<>>
      BY <1>2 DEF IInv, VersionsAreCounted
    <2>4. \A d \in Callers : call'[d] \in Calls /\ call'[d].op \notin {"save", "submit"}
                             /\ call'[d].step # "update"
      BY <1>2, <2>1, NoCallIsSound DEF IInv, TypeOK, CallsRemember, Sound, NoCall
    <2>5. TypeOK'
      BY <2>1, <2>2, <2>4, NoCallIsSound DEF IInv, TypeOK, NewSession, Sound
    <2>6. CallsRemember'
      BY <2>1, <2>4, NoCallIsSound DEF IInv, TypeOK, CallsRemember, NoCall
    <2>7. PayloadsAreStored'
      BY <2>1, NoCallIsSound DEF IInv, TypeOK, PayloadsAreStored
    <2>8. BasesAreBehind' /\ SubmissionsAreSerialised' /\ VersionsAreCounted'
      BY <2>1, <2>2, <2>3 DEF BasesAreBehind, SubmissionsAreSerialised, VersionsAreCounted,
                              NewSession
    <2>9. DraftHasBeenStored'
      BY <2>1, <2>2 DEF DraftHasBeenStored, NewSession
    <2> QED  BY <2>5, <2>6, <2>7, <2>8, <2>9 DEF IInv
  <1> QED  BY <1>1, <1>2
-----------------------------------------------------------------------------
(* A command, until it is accepted.                                         *)

LEMMA CommandStep ==
    ASSUME IInv, NEW c \in Callers, NEW u \in Users, NEW op \in {"save", "submit"},
           NEW expected \in Versions, NEW payload \in Payloads,
           Command(c, u, op, expected, payload)
    PROVE  IInv'
  <1> DEFINE next == [op |-> op, step |-> "put", user |-> u, expected |-> expected,
                      payload |-> payload, seen |-> session, loaded |-> None]
  <1>1. session \in SessionRow /\ session # None
    BY DEF Command, IInv, TypeOK
  <1>2. next \in Calls
    BY <1>1 DEF Calls
  <1>3. expected <= Len(accepted) + 1
    BY DEF Command, IInv, VersionsAreCounted
  <1>4. Sound(next) /\ next.step = "put"
    BY <1>1, <1>2, <1>3 DEF Sound, Command, EnsureSessionAccess
  <1>5. call' = [call EXCEPT ![c] = next] /\ UNCHANGED <<session, outbox, accepted, stored>>
    BY DEF Command, committed
  <1>6. stored \subseteq stored' /\ stored' \subseteq Payloads
    BY <1>5 DEF IInv, TypeOK
  <1> HIDE DEF next
  <1> QED  BY <1>4, <1>5, <1>6, CallMoves

LEMMA SaveDraftStep ==
    ASSUME IInv, NEW c \in Callers, NEW u \in Users, SaveDraft(c, u)
    PROVE  IInv'
  BY CommandStep DEF SaveDraft

LEMMA SubmitCorrectionsStep ==
    ASSUME IInv, NEW c \in Callers, NEW u \in Users, SubmitCorrections(c, u)
    PROVE  IInv'
  <1>1. PICK expected \in Versions, edits \in Payloads :
           session # None /\ Command(c, u, "submit", expected, ApplyEdits(session.draft, edits))
    BY DEF SubmitCorrections
  <1>2. ApplyEdits(session.draft, edits) \in Payloads
    BY <1>1 DEF ApplyEdits, IInv, TypeOK, SessionRow
  <1> QED  BY <1>1, <1>2, CommandStep

LEMMA PutDocumentStep ==
    ASSUME IInv, NEW c \in Callers, PutDocument(c)
    PROVE  IInv'
  <1> DEFINE next == [call[c] EXCEPT !.step = AfterPut(c)]
  <1>1. Sound(call[c]) /\ call[c].op \in {"save", "submit"} /\ AfterPut(c) \in {"select", "commit"}
    BY Memory DEF PutDocument, At, AfterPut
  <1>2. Sound(next) /\ next.payload = call[c].payload
    BY <1>1 DEF Sound, Calls
  <1>3. /\ call' = [call EXCEPT ![c] = next]
        /\ UNCHANGED <<session, outbox, accepted>>
        /\ stored' = stored \cup {call[c].payload}
    BY DEF PutDocument, GoTo, IInv, TypeOK
  <1>4. next.payload \in stored' /\ stored \subseteq stored' /\ stored' \subseteq Payloads
    BY <1>1, <1>2, <1>3 DEF IInv, TypeOK, Sound, Calls
  <1> HIDE DEF next
  <1> QED  BY <1>2, <1>3, <1>4, CallMoves

LEMMA PutDocumentFailsStep ==
    ASSUME IInv, NEW c \in Callers, PutDocumentFails(c)
    PROVE  IInv'
  <1>1. call[c].payload \in Payloads
    BY DEF IInv, TypeOK, Calls
  <1>2. stored \subseteq stored' /\ stored' \subseteq Payloads
    BY <1>1 DEF PutDocumentFails, IInv, TypeOK
  <1> QED  BY <1>2, CallEnds DEF PutDocumentFails

LEMMA ThrowStep ==
    ASSUME IInv, NEW c \in Callers, Throw(c)
    PROVE  IInv'
  BY CallEnds DEF Throw, committed, IInv, TypeOK

LEMMA SelectForSaveStep ==
    ASSUME IInv, NEW c \in Callers, SelectForSave(c)
    PROVE  IInv'
  <1> DEFINE next == [call[c] EXCEPT !.loaded = session, !.step = "update"]
  <1>1. Sound(call[c]) /\ call[c].op = "save" /\ call[c].payload \in stored
    BY Memory DEF SelectForSave, At, IInv, PayloadsAreStored
  <1>2. Sound(next) /\ next.payload \in stored
    BY <1>1 DEF Sound, Calls, IInv, TypeOK
  <1>3. call' = [call EXCEPT ![c] = next] /\ UNCHANGED <<session, outbox, accepted, stored>>
    BY DEF SelectForSave, committed, IInv, TypeOK
  <1>4. next.payload \in stored' /\ stored \subseteq stored' /\ stored' \subseteq Payloads
    BY <1>2, <1>3 DEF IInv, TypeOK
  <1> HIDE DEF next
  <1> QED  BY <1>2, <1>3, <1>4, CallMoves
-----------------------------------------------------------------------------
(* A command is accepted.                                                   *)

\* What the two kinds of command have in common: the row stays its owner's,
\* gets a draft that is stored, and the base of the command is recorded.
Accepted(c) ==
    /\ session' \in SessionRow
    /\ session'.createdBy = session.createdBy
    /\ session'.lockedBy = session.createdBy
    /\ session'.draft \in stored
    /\ session'.version <= Len(accepted) + 2
    /\ Accept(c) /\ End(c) /\ UNCHANGED stored
    /\ outbox' \in Seq(Versions)

LEMMA ExpectedIsAVersion ==
    ASSUME IInv, NEW c \in Callers, call[c].op \in {"save", "submit"}
    PROVE  call[c].expected \in Versions /\ call[c].seen \in SessionRow
  <1>1. call[c].seen \in SessionRow /\ call[c].seen.version = call[c].expected
    BY Memory DEF Sound, Calls
  <1> QED  BY <1>1 DEF SessionRow

LEMMA BasesAreIntegers ==
    ASSUME IInv, NEW i \in DOMAIN accepted
    PROVE  accepted[i].base \in Int
  <1> DEFINE Commands == [op : {"save", "submit"}, base : Versions]
  <1>1. accepted \in Seq(Commands)
    BY DEF IInv, TypeOK
  <1>2. accepted[i] \in Commands
    <2> HIDE DEF Commands
    <2> QED  BY <1>1
  <1> QED  BY <1>2

LEMMA AcceptedKeeps ==
    ASSUME IInv, NEW c \in Callers, call[c].op \in {"save", "submit"}, Accepted(c)
    PROVE  /\ TypeOK' /\ VersionsAreCounted' /\ CallsRemember'
           /\ PayloadsAreStored' /\ DraftHasBeenStored'
  <1>1. Sound(call[c]) /\ session # None /\ call[c].expected \in Versions
    BY Memory, ExpectedIsAVersion DEF Sound
  <1>2. /\ accepted' \in Seq([op : {"save", "submit"}, base : Versions])
        /\ Len(accepted') = Len(accepted) + 1
    BY <1>1 DEF Accepted, Accept, IInv, TypeOK
  <1>3. /\ call' \in [Callers -> Calls]
        /\ call'[c] = NoCall
        /\ \A d \in Callers : d # c => call'[d] = call[d]
    BY NoCallIsSound DEF Accepted, End, IInv, TypeOK, Sound
  <1>4. session' # None
    BY DEF Accepted
  <1>5. TypeOK'
    <2>1. /\ session' \in SessionRow \cup {None} /\ stored' \subseteq Payloads
          /\ outbox' \in Seq(Versions)
          /\ session'.lockedBy = session'.createdBy
      BY DEF Accepted, IInv, TypeOK
    <2>2. \A d \in Callers : call'[d].op \in {"save", "submit"} =>
             None \notin {session', call'[d].seen} /\ call'[d].user = session'.createdBy
      <3> TAKE d \in Callers
      <3>1. CASE d = c
        BY <1>3, <3>1 DEF NoCall
      <3>2. CASE d # c
        BY <1>3, <1>4, <3>2, Memory DEF Accepted, Sound
      <3> QED  BY <3>1, <3>2
    <2> QED  BY <1>2, <1>3, <2>1, <2>2 DEF TypeOK
  <1>6. VersionsAreCounted'
    BY <1>2, <1>4 DEF Accepted, VersionsAreCounted
  <1>7. CallsRemember'
    <2> SUFFICES ASSUME NEW d \in Callers
                 PROVE  /\ call'[d].op = "open" => call'[d].user \in Users
                        /\ call'[d].op \in {"save", "submit"} =>
                              /\ call'[d].seen.version = call'[d].expected
                              /\ call'[d].expected <= Len(accepted') + 1
                              /\ call'[d].seen.createdBy = session'.createdBy
                        /\ call'[d].step = "update" =>
                              /\ call'[d].op = "save"
                              /\ call'[d].loaded # None
                              /\ call'[d].loaded.createdBy = session'.createdBy
      BY DEF CallsRemember
    <2>1. CASE d = c
      BY <1>3, <2>1 DEF NoCall
    <2>2. CASE d # c
      <3>1. call'[d] = call[d] /\ Sound(call[d])
        BY <1>3, <2>2, Memory
      <3>2. call[d].op \in {"save", "submit"} => call[d].expected \in Int
        BY ExpectedIsAVersion
      <3> QED  BY <1>2, <3>1, <3>2 DEF Accepted, Sound, IInv, TypeOK
    <2> QED  BY <2>1, <2>2
  <1>8. PayloadsAreStored' /\ DraftHasBeenStored'
    BY <1>3 DEF Accepted, IInv, PayloadsAreStored, DraftHasBeenStored, NoCall
  <1> QED  BY <1>5, <1>6, <1>7, <1>8

LEMMA UpdateSessionStep ==
    ASSUME IInv, NEW c \in Callers, UpdateSession(c)
    PROVE  IInv'
  <1> DEFINE entity == Entity(c)
             loaded == call[c].loaded
             me == [op |-> "save", base |-> call[c].expected]
  <1>a. call[c].op = "save" /\ call[c].step = "update"
    BY DEF UpdateSession, At
  <1>1. /\ Sound(call[c]) /\ session \in SessionRow /\ loaded \in SessionRow
        /\ call[c].payload \in Payloads /\ call[c].user \in Users
    <2>1. Sound(call[c]) /\ session \in SessionRow
      BY <1>a, Memory DEF IInv, TypeOK, Sound
    <2>2. call[c].loaded \in SessionRow /\ call[c].payload \in Payloads
      BY <1>a, <2>1 DEF Sound, Calls
    <2>3. call[c].user \in Users
      BY <1>a, <2>1 DEF Sound, SessionRow
    <2> QED  BY <2>1, <2>2, <2>3
  <1>b. /\ call[c].payload \in stored /\ call[c].expected \in Versions
        /\ call[c].seen \in SessionRow
    BY <1>a, ExpectedIsAVersion DEF IInv, PayloadsAreStored
  <1>2. /\ session' = UpdateChanged(entity, loaded)
        /\ accepted' = Append(accepted, me)
        /\ Len(accepted) < MaxCommands
    BY <1>a DEF UpdateSession, Accept
  <1>3. /\ entity.draft = call[c].payload /\ entity.lockedBy = call[c].user
        /\ entity.createdBy = session.createdBy
        /\ entity.status = call[c].seen.status
        /\ entity.version = call[c].expected + 1
        /\ call[c].user = session.createdBy
        /\ call[c].expected <= Len(accepted) + 1
    BY <1>a, <1>1, <1>b DEF Entity, SessionRow, Sound
  <1>4. /\ DOMAIN session = {"createdBy", "lockedBy", "draft", "status", "version"}
        /\ session'.draft \in {session.draft, entity.draft}
        /\ session'.lockedBy \in {session.lockedBy, entity.lockedBy}
        /\ session'.createdBy \in {session.createdBy, entity.createdBy}
        /\ session'.status \in {session.status, entity.status}
        /\ session'.version \in {session.version, entity.version}
    BY <1>1, <1>2 DEF UpdateChanged, SessionRow
  <1> HIDE DEF entity, loaded
  <1>5. session' \in SessionRow
    <2>1. /\ session'.createdBy \in Users /\ session'.lockedBy \in Users
          /\ session'.draft \in Payloads /\ session'.status \in {"draft", "submitted"}
      BY <1>1, <1>b, <1>3, <1>4 DEF SessionRow
    <2>2. session'.version \in Versions
      BY <1>1, <1>b, <1>2, <1>3, <1>4 DEF SessionRow, IInv, TypeOK
    <2>3. session' = [f \in {"createdBy", "lockedBy", "draft", "status", "version"} |-> session'[f]]
      BY <1>2, <1>4 DEF UpdateChanged
    <2> QED  BY <2>1, <2>2, <2>3 DEF SessionRow
  <1>6. Accepted(c)
    <2>1. session.lockedBy = session.createdBy /\ session.draft \in stored
          /\ session.version <= Len(accepted) + 1
      BY <1>1 DEF IInv, TypeOK, DraftHasBeenStored, VersionsAreCounted
    <2>2. /\ session'.createdBy = session.createdBy /\ session'.lockedBy = session.createdBy
          /\ session'.draft \in stored
      BY <1>b, <1>3, <1>4, <2>1
    <2>3. session'.version <= Len(accepted) + 2
      BY <1>1, <1>b, <1>3, <1>4, <2>1 DEF SessionRow, IInv, TypeOK
    <2> QED  BY <1>5, <2>2, <2>3 DEF Accepted, UpdateSession, IInv, TypeOK
  <1>7. /\ Len(accepted) \in Nat /\ Len(accepted') = Len(accepted) + 1
        /\ DOMAIN accepted' = DOMAIN accepted \cup {Len(accepted')}
        /\ DOMAIN accepted = 1..Len(accepted)
        /\ \A i \in DOMAIN accepted : accepted'[i] = accepted[i]
        /\ accepted'[Len(accepted')] = me
    BY <1>2 DEF IInv, TypeOK
  <1>8. SubmissionsAreSerialised'
    <2> SUFFICES ASSUME NEW i \in DOMAIN accepted', NEW j \in DOMAIN accepted', i < j,
                        accepted'[i].op = "submit", accepted'[j].op = "submit",
                        accepted'[i].base = accepted'[j].base
                 PROVE  \E k \in i..j : SavedBelow(k, accepted[i].base)'
      BY DEF SubmissionsAreSerialised
    <2>1. i \in DOMAIN accepted /\ j \in DOMAIN accepted
      BY <1>7
    <2>2. PICK k \in i..j : SavedBelow(k, accepted[i].base)
      BY <1>7, <2>1 DEF IInv, SubmissionsAreSerialised
    <2> QED  BY <1>7, <2>1, <2>2 DEF SavedBelow
  <1>9. BasesAreBehind'
    <2> SUFFICES ASSUME NEW i \in DOMAIN accepted', accepted'[i].op = "submit",
                        session'.version <= accepted'[i].base
                 PROVE  \E k \in i..Len(accepted') : SavedBelow(k, accepted[i].base)'
      BY DEF BasesAreBehind
    <2>1. i \in 1..Len(accepted) /\ accepted'[i] = accepted[i] /\ accepted[i].base \in Int
      <3>1. i \in 1..Len(accepted)
        BY <1>7
      <3> QED  BY <1>7, <3>1, BasesAreIntegers
    <2>2. CASE session'.version = session.version
      <3>1. PICK k \in i..Len(accepted) : SavedBelow(k, accepted[i].base)
        BY <1>7, <2>1, <2>2 DEF IInv, BasesAreBehind
      <3> QED  BY <1>7, <2>1, <3>1 DEF SavedBelow
    <2>3. CASE session'.version = call[c].expected + 1
      <3>1. SavedBelow(Len(accepted), accepted[i].base)'
        BY <1>b, <1>7, <2>1, <2>3 DEF SavedBelow
      <3> QED  BY <1>7, <2>1, <3>1
    <2> QED  BY <1>3, <1>4, <2>2, <2>3
  <1> QED  BY <1>a, <1>6, <1>8, <1>9, AcceptedKeeps DEF IInv

LEMMA CommitSubmissionStep ==
    ASSUME IInv, NEW c \in Callers, CommitSubmission(c)
    PROVE  IInv'
  <1> DEFINE me == [op |-> "submit", base |-> call[c].expected]
  <1>a. call[c].op = "submit" /\ call[c].step = "commit" /\ session.version = call[c].expected
    BY DEF CommitSubmission, At, IsExpected
  <1>1. /\ call[c].payload \in stored /\ call[c].payload \in Payloads
        /\ call[c].expected \in Versions /\ call[c].user \in Users
        /\ call[c].user = session.createdBy
        /\ session \in SessionRow /\ call[c].seen.version = call[c].expected
        /\ call[c].expected <= Len(accepted) + 1
    BY <1>a, Memory, ExpectedIsAVersion DEF IInv, PayloadsAreStored, TypeOK, Sound, SessionRow
  <1>2. /\ session' = [session EXCEPT
              !.draft = call[c].payload, !.lockedBy = call[c].user, !.status = "submitted",
              !.version = call[c].expected + 1]
        /\ accepted' = Append(accepted, me)
        /\ Len(accepted) < MaxCommands
        /\ outbox' = Append(outbox, call[c].expected + 1)
    BY <1>a, <1>1 DEF CommitSubmission, Accept
  <1>3. call[c].expected + 1 \in Versions
    BY <1>1, <1>2 DEF IInv, TypeOK
  <1>4. Accepted(c)
    <2>1. /\ session' \in SessionRow /\ session'.createdBy = session.createdBy
          /\ session'.lockedBy = session.createdBy /\ session'.draft \in stored
          /\ session'.version = call[c].expected + 1
      BY <1>1, <1>2, <1>3 DEF SessionRow
    <2>2. outbox' \in Seq(Versions)
      BY <1>2, <1>3 DEF IInv, TypeOK
    <2>3. call[c].expected + 1 <= Len(accepted) + 2
      BY <1>1 DEF IInv, TypeOK
    <2> QED  BY <2>1, <2>2, <2>3 DEF Accepted, CommitSubmission
  <1>7. /\ Len(accepted) \in Nat /\ Len(accepted') = Len(accepted) + 1
        /\ DOMAIN accepted' = DOMAIN accepted \cup {Len(accepted')}
        /\ DOMAIN accepted = 1..Len(accepted)
        /\ \A i \in DOMAIN accepted : accepted'[i] = accepted[i] /\ accepted[i].base \in Int
        /\ accepted'[Len(accepted')] = me
    BY <1>2, BasesAreIntegers DEF IInv, TypeOK
  <1>8. SubmissionsAreSerialised'
    <2> SUFFICES ASSUME NEW i \in DOMAIN accepted', NEW j \in DOMAIN accepted', i < j,
                        accepted'[i].op = "submit", accepted'[j].op = "submit",
                        accepted'[i].base = accepted'[j].base
                 PROVE  \E k \in i..j : SavedBelow(k, accepted[i].base)'
      BY DEF SubmissionsAreSerialised
    <2>1. i \in 1..Len(accepted) /\ accepted'[i] = accepted[i]
      BY <1>7
    <2>2. CASE j \in DOMAIN accepted
      <3>1. PICK k \in i..j : SavedBelow(k, accepted[i].base)
        BY <1>7, <2>1, <2>2 DEF IInv, SubmissionsAreSerialised
      <3> QED  BY <1>7, <2>1, <2>2, <3>1 DEF SavedBelow
    <2>3. CASE j = Len(accepted')
      <3>1. session.version <= accepted[i].base
        BY <1>a, <1>1, <1>7, <2>1, <2>3
      <3>2. PICK k \in i..Len(accepted) : SavedBelow(k, accepted[i].base)
        BY <1>7, <2>1, <3>1 DEF IInv, BasesAreBehind
      <3> QED  BY <1>7, <2>1, <2>3, <3>2 DEF SavedBelow
    <2> QED  BY <1>7, <2>2, <2>3
  <1>9. BasesAreBehind'
    <2> SUFFICES ASSUME NEW i \in DOMAIN accepted', accepted'[i].op = "submit",
                        session'.version <= accepted'[i].base
                 PROVE  \E k \in i..Len(accepted') : SavedBelow(k, accepted[i].base)'
      BY DEF BasesAreBehind
    <2>0. session'.version = call[c].expected + 1
      BY <1>1, <1>2 DEF SessionRow
    <2>1. i \in 1..Len(accepted) /\ accepted'[i] = accepted[i]
      BY <1>1, <1>7, <2>0
    <2>2. session.version <= accepted[i].base
      BY <1>a, <1>1, <1>7, <2>0, <2>1
    <2>3. PICK k \in i..Len(accepted) : SavedBelow(k, accepted[i].base)
      BY <1>7, <2>1, <2>2 DEF IInv, BasesAreBehind
    <2> QED  BY <1>7, <2>1, <2>3 DEF SavedBelow
  <1> QED  BY <1>a, <1>4, <1>8, <1>9, AcceptedKeeps DEF IInv
-----------------------------------------------------------------------------
LEMMA NextKeepsInvariant == IInv /\ [Next]_vars => IInv'
  <1> SUFFICES ASSUME IInv, [Next]_vars PROVE IInv'
    OBVIOUS
  <1>1. CASE UNCHANGED vars
    BY <1>1 DEF vars, committed, IInv, TypeOK, BasesAreBehind, VersionsAreCounted, CallsRemember,
                PayloadsAreStored, SubmissionsAreSerialised, DraftHasBeenStored, SavedBelow
  <1>2. ASSUME NEW c \in Callers, CallStep(c) PROVE IInv'
    <2>1. ASSUME NEW u \in Users, OpenSession(c, u) \/ SaveDraft(c, u) \/ SubmitCorrections(c, u)
          PROVE  IInv'
      BY <2>1, OpenSessionStep, SaveDraftStep, SubmitCorrectionsStep
    <2> QED  BY <1>2, <2>1, FetchDocumentStep, InsertSessionStep, PutDocumentStep,
                PutDocumentFailsStep, SelectForSaveStep, UpdateSessionStep,
                CommitSubmissionStep, ThrowStep DEF CallStep
  <1> QED  BY <1>1, <1>2 DEF Next

\* The inductive invariant holds in every reachable state.
THEOREM CorrectionsInvariant == Spec => []IInv
  BY InitInvariant, NextKeepsInvariant, PTL DEF Spec

\* Whoever opened a session first owns it, and every call that works on it.
THEOREM SessionsHaveOneOwner == Spec => []TypeOK
  <1>1. IInv => TypeOK
    BY DEF IInv
  <1> QED  BY <1>1, CorrectionsInvariant, PTL

\* Submissions commit on different versions, as long as no overtaken draft
\* save comes between them.
THEOREM Serialisation == Spec => []SubmissionsAreSerialised
  <1>1. IInv => SubmissionsAreSerialised
    BY DEF IInv
  <1> QED  BY <1>1, CorrectionsInvariant, PTL

\* The session's draft is one that the external store has held.
THEOREM StoreIsNeverBehind == Spec => []DraftHasBeenStored
  <1>1. IInv => DraftHasBeenStored
    BY DEF IInv
  <1> QED  BY <1>1, CorrectionsInvariant, PTL
-----------------------------------------------------------------------------
(* Document types, for any files, calls and number of requests.             *)

CONSTANTS Absent, Directories, MaxRequests
VARIABLES directory, registry, cache, requests, lookup

G == INSTANCE DocumentRegistry WITH Calls <- Callers, call <- lookup

\* The invariant behind it: a promise that has not failed is the one in the cache.
RegistryInv == G!RegistryTyped /\ G!CacheIsCurrent

LEMMA RegistryStarts == G!RegistryInit => RegistryInv
  <1> SUFFICES ASSUME G!RegistryInit PROVE RegistryInv
    OBVIOUS
  <1>1. /\ directory \in Directories /\ DOMAIN registry = {} /\ requests = <<>>
        /\ cache = [t \in G!Wanted |-> 0]
    BY DEF G!RegistryInit, G!Down
  <1>2. requests \in Seq(G!Request) /\ Len(requests) = 0 /\ DOMAIN requests = {}
    BY <1>1, EmptySeq
  <1> QED  BY <1>1, <1>2 DEF RegistryInv, G!RegistryTyped, G!CacheIsCurrent

\* The version of a type that is served is one that was released.
LEMMA ServedWasReleased ==
    ASSUME directory \in Directories, NEW t \in G!Types(directory)
    PROVE  directory[CHOOSE i \in DOMAIN directory : directory[i].type = t].version
              \in G!ReleasedVersions
  <1>1. \E i \in DOMAIN directory : directory[i].type = t
    BY DEF G!Types
  <1>2. PICK k : k = CHOOSE i \in DOMAIN directory : directory[i].type = t
    OBVIOUS
  <1>3. k \in DOMAIN directory
    BY <1>1, <1>2, Zenon
  <1>4. PICK released : released = {directory[i].version : i \in DOMAIN directory}
    OBVIOUS
  <1>5. released \in {{d[i].version : i \in DOMAIN d} : d \in Directories}
    BY <1>4, Zenon
  <1>6. directory[k].version \in released
    BY <1>3, <1>4
  <1>7. released \subseteq G!ReleasedVersions
    BY <1>5, Zenon DEF G!ReleasedVersions
  <1> QED  BY <1>2, <1>6, <1>7

LEMMA RegistryGoesOn == RegistryInv /\ [G!RegistryNext]_G!registryVars => RegistryInv'
  <1> SUFFICES ASSUME RegistryInv, [G!RegistryNext]_G!registryVars PROVE RegistryInv'
    OBVIOUS
  <1>1. /\ directory \in Directories
        /\ \A t \in DOMAIN registry : registry[t] \in G!ReleasedVersions
        /\ requests \in Seq(G!Request) /\ cache \in [G!Wanted -> 0 .. Len(requests)]
    BY DEF RegistryInv, G!RegistryTyped
  <1>2. PICK n \in Nat : n = Len(requests) /\ DOMAIN requests = 1 .. n
    BY <1>1, LenProperties
  <1>3. /\ \A t \in G!Wanted : cache[t] \in 0 .. n
        /\ \A m \in 1 .. n : requests[m] \in G!Request
    BY <1>1, <1>2, ElementOfSeq
  <1>4. /\ \A t \in G!Wanted : cache[t] # 0 =>
              requests[cache[t]].type = t /\ requests[cache[t]].outcome # "failed"
        /\ \A m \in 1 .. n :
              requests[m].outcome # "failed" => cache[requests[m].type] = m
    BY <1>2 DEF RegistryInv, G!CacheIsCurrent
  <1>5. ASSUME UNCHANGED <<requests, cache>>, directory' \in Directories,
               \A t \in DOMAIN registry' : registry'[t] \in G!ReleasedVersions
        PROVE  RegistryInv'
    BY <1>5, <1>1 DEF RegistryInv, G!RegistryTyped, G!CacheIsCurrent
  <1>6. CASE G!Start
    <2>1. /\ UNCHANGED <<requests, cache, directory>>
          /\ registry' = [t \in G!Types(directory) |->
                 directory[CHOOSE i \in DOMAIN directory : directory[i].type = t].version]
      BY <1>6 DEF G!Start
    <2>2. \A t \in DOMAIN registry' : registry'[t] \in G!ReleasedVersions
      BY <1>1, <2>1, ServedWasReleased
    <2> QED  BY <1>1, <1>5, <2>1, <2>2
  <1>7. CASE G!Deploy
    BY <1>5, <1>7 DEF G!Deploy, G!Down
  <1>8. CASE (\E c \in Callers : G!Resume(c)) \/ UNCHANGED G!registryVars
    BY <1>1, <1>5, <1>8 DEF G!Resume, G!registryVars
  <1>9. ASSUME NEW c \in Callers, NEW t \in G!Wanted, G!GetDocumentType(c, t)
        PROVE  RegistryInv'
    <2>1. UNCHANGED <<directory, registry>>
      BY <1>9 DEF G!GetDocumentType
    <2>2. CASE UNCHANGED <<requests, cache>>
      BY <1>1, <1>5, <2>1, <2>2
    <2>3. CASE ~UNCHANGED <<requests, cache>>
      <3>1. PICK new : new = [type |-> t, outcome |-> "pending", version |-> 0]
        OBVIOUS
      <3>2. /\ cache[t] = 0 /\ requests' = Append(requests, new)
            /\ cache' = [cache EXCEPT ![t] = n + 1]
        BY <1>2, <1>9, <2>3, <3>1 DEF G!GetDocumentType, G!Cached
      <3>3. new \in G!Request
        BY <3>1 DEF G!Request
      <3>4. /\ requests' \in Seq(G!Request) /\ Len(requests') = n + 1
            /\ DOMAIN requests' = 1 .. (n + 1) /\ requests'[n + 1] = new
            /\ \A m \in 1 .. n : requests'[m] = requests[m]
        BY <1>1, <1>2, <3>2, <3>3
      <3>5. /\ cache' \in [G!Wanted -> 0 .. (n + 1)] /\ cache'[t] = n + 1
            /\ \A u \in G!Wanted : u # t => cache'[u] = cache[u]
        BY <1>1, <1>2, <3>2
      <3>6. G!RegistryTyped'
        BY <1>1, <2>1, <3>4, <3>5 DEF G!RegistryTyped, G!Request, G!Wanted, G!ReleasedVersions
      <3>7. ASSUME NEW u \in G!Wanted, cache'[u] # 0
            PROVE  requests'[cache'[u]].type = u /\ requests'[cache'[u]].outcome # "failed"
        <4>1. CASE u = t
          BY <3>1, <3>4, <3>5, <4>1
        <4>2. CASE u # t
          <5>1. cache'[u] = cache[u] /\ cache[u] \in 1 .. n
            BY <1>3, <3>5, <3>7, <4>2
          <5> QED  BY <1>4, <3>4, <3>7, <5>1
        <4> QED  BY <4>1, <4>2
      <3>8. ASSUME NEW m \in 1 .. (n + 1), requests'[m].outcome # "failed"
            PROVE  cache'[requests'[m].type] = m
        <4>1. CASE m = n + 1
          BY <3>1, <3>4, <3>5, <4>1
        <4>2. CASE m # n + 1
          <5>1. m \in 1 .. n /\ requests'[m] = requests[m] /\ requests[m].type \in G!Wanted
            BY <1>3, <3>4, <4>2 DEF G!Request
          <5>2. cache[requests[m].type] = m
            BY <1>4, <3>8, <5>1
          <5>3. requests[m].type # t
            BY <3>2, <5>1, <5>2
          <5> QED  BY <3>5, <5>1, <5>2, <5>3
        <4> QED  BY <4>1, <4>2
      <3>9. G!CacheIsCurrent'
        BY <3>4, <3>7, <3>8 DEF G!CacheIsCurrent, G!Wanted, G!Types
      <3> QED  BY <3>6, <3>9 DEF RegistryInv
    <2> QED  BY <2>2, <2>3
  <1>10. ASSUME NEW k \in DOMAIN requests, G!Settles(k)
         PROVE  RegistryInv'
    <2>1. k \in 1 .. n /\ requests[k].outcome = "pending" /\ UNCHANGED <<directory, registry>>
      BY <1>2, <1>10 DEF G!Settles
    <2>2. PICK t : t = requests[k].type
      OBVIOUS
    <2>3. t \in G!Wanted /\ cache[t] = k
      BY <1>3, <1>4, <2>1, <2>2 DEF G!Request
    <2>4. PICK new :
            \/ /\ new = [requests[k] EXCEPT !.outcome = "found", !.version = registry[t]]
               /\ t \in DOMAIN registry /\ cache' = cache
               /\ requests' = [requests EXCEPT ![k] = new]
            \/ /\ new = [requests[k] EXCEPT !.outcome = "failed"]
               /\ cache' = [cache EXCEPT ![t] = 0] /\ requests' = [requests EXCEPT ![k] = new]
      BY <1>10, <2>2 DEF G!Settles, G!Forget
    <2>5. new \in G!Request /\ new.type = t
      <3>1. requests[k] \in G!Request
        BY <1>3, <2>1
      <3>2. t \in DOMAIN registry => registry[t] \in G!ReleasedVersions
        BY <1>1
      <3> QED  BY <2>2, <2>4, <3>1, <3>2 DEF G!Request
    <2>6. /\ requests' \in Seq(G!Request) /\ Len(requests') = n /\ DOMAIN requests' = 1 .. n
          /\ requests'[k] = new
          /\ \A m \in 1 .. n : m # k => requests'[m] = requests[m]
      <3>1. k \in 1 .. Len(requests) /\ requests' = [requests EXCEPT ![k] = new]
        BY <1>2, <2>1, <2>4
      <3>2. requests' \in Seq(G!Request) /\ Len(requests') = n
        BY <1>1, <1>2, <2>5, <3>1, ExceptSeq
      <3>3. DOMAIN requests' = 1 .. n
        BY <3>2, LenProperties
      <3> QED  BY <1>2, <3>1, <3>2, <3>3
    <2>7. /\ cache' \in [G!Wanted -> 0 .. n]
          /\ \A u \in G!Wanted : u # t => cache'[u] = cache[u]
          /\ \/ new.outcome = "found" /\ cache'[t] = k
             \/ new.outcome = "failed" /\ cache'[t] = 0
      <3>1. requests[k] \in G!Request
        BY <1>3, <2>1
      <3>2. \/ new.outcome = "found" /\ cache' = cache
            \/ new.outcome = "failed" /\ cache' = [cache EXCEPT ![t] = 0]
        BY <2>4, <3>1 DEF G!Request
      <3> QED  BY <1>1, <1>2, <2>3, <3>2
    <2>8. G!RegistryTyped'
      BY <1>1, <2>1, <2>6, <2>7 DEF G!RegistryTyped, G!Request, G!Wanted, G!ReleasedVersions
    <2>9. ASSUME NEW u \in G!Wanted, cache'[u] # 0
          PROVE  requests'[cache'[u]].type = u /\ requests'[cache'[u]].outcome # "failed"
      <3>1. CASE u = t
        BY <2>5, <2>6, <2>7, <2>9, <3>1
      <3>2. CASE u # t
        <4>1. cache'[u] = cache[u] /\ cache[u] \in 1 .. n
          BY <1>3, <2>7, <2>9, <3>2
        <4>2. requests[cache[u]].type = u /\ requests[cache[u]].outcome # "failed"
          BY <1>4, <2>9, <4>1
        <4>3. cache[u] # k
          BY <2>2, <3>2, <4>2
        <4> QED  BY <2>6, <4>1, <4>2, <4>3
      <3> QED  BY <3>1, <3>2
    <2>10. ASSUME NEW m \in 1 .. n, requests'[m].outcome # "failed"
           PROVE  cache'[requests'[m].type] = m
      <3>1. CASE m = k
        BY <2>5, <2>6, <2>7, <2>10, <3>1
      <3>2. CASE m # k
        <4>1. requests'[m] = requests[m] /\ requests[m].type \in G!Wanted
          BY <1>3, <2>6, <3>2 DEF G!Request
        <4>2. cache[requests[m].type] = m
          BY <1>4, <2>10, <4>1
        <4>3. requests[m].type # t
          BY <2>3, <3>2, <4>2
        <4> QED  BY <2>7, <4>1, <4>2, <4>3
      <3> QED  BY <3>1, <3>2
    <2>11. G!CacheIsCurrent'
      BY <2>6, <2>9, <2>10 DEF G!CacheIsCurrent, G!Wanted, G!Types
    <2> QED  BY <2>8, <2>11 DEF RegistryInv
  <1> QED  BY <1>6, <1>7, <1>8, <1>9, <1>10 DEF G!RegistryNext

\* Whatever the platform is upgraded to meanwhile, and whichever answers are lost: the next
\* call is given no failure, and a process of the gateway works with one version of a type.
THEOREM OneVersionOfAType == G!RegistryInit /\ [][G!RegistryNext]_G!registryVars
                               => []G!RegistryIsShared
  <1>1. RegistryInv => G!RegistryIsShared
    <2> SUFFICES ASSUME RegistryInv PROVE G!RegistryIsShared
      OBVIOUS
    <2>1. \A t \in G!Wanted : cache[t] # 0 => requests[cache[t]].outcome # "failed"
      BY DEF RegistryInv, G!CacheIsCurrent
    <2>2. ASSUME NEW m \in DOMAIN requests, NEW k \in DOMAIN requests,
                 requests[m].type = requests[k].type,
                 requests[m].outcome = "found", requests[k].outcome = "found"
          PROVE  m = k
      BY <2>2 DEF RegistryInv, G!CacheIsCurrent
    <2> QED  BY <2>1, <2>2 DEF G!RegistryIsShared
  <1> QED  BY <1>1, RegistryStarts, RegistryGoesOn, PTL
=============================================================================
