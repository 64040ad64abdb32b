------------------------- MODULE WebRegistrationProofs -------------------------
(***************************************************************************)
(* What a browser tab shows of the session and of registration, for any    *)
(* number of commands, links and changes of the marker: the screen is of   *)
(* one generation, a reported outcome is true and final.                   *)
(***************************************************************************)
EXTENDS WebRegistration, SequenceTheorems, TLAPS

-----------------------------------------------------------------------------
(* The fence.                                                              *)

FenceTyped ==
    /\ durable \in Durable
    /\ coordinator \in Coordinator
    /\ fenced \subseteq Fenced

FenceHolds == FenceTyped /\ FencedAreOfTheRevision /\ ScreenIsOfTheRevision

\* ScreenIsOfTheRevision of any coordinator.
Coherent(c) ==
    /\ c.identity # None => c.identity = c.seen.version /\ Readable(c)
    /\ c.rows # None => c.rows = c.identity /\ c.failure = "none"

\* What comes to the screen in a step is of the marker's version.
ShowsTheBrowsers ==
    /\ coordinator'.identity \notin {None, coordinator.identity} =>
          coordinator'.identity = durable.version
    /\ coordinator'.rows \notin {None, coordinator.rows} =>
          coordinator'.rows = durable.version

LEMMA PublishedCoordinator ==
    ASSUME NEW seen \in Durable, NEW failure \in {"none", "invalid", "unavailable"}, NEW c
    PROVE  /\ Published(c, seen, failure) \in Coordinator
           /\ Coherent(Published(c, seen, failure))
           /\ Published(c, seen, failure).seen = seen
           /\ Published(c, seen, failure).failure = failure
           /\ Published(c, seen, failure).identity = None
           /\ Published(c, seen, failure).rows = None
  BY DEF Published, Coordinator, Version, Coherent

\* A reread either finds what was seen, or publishes.
LEMMA RefreshedCoordinator ==
    ASSUME FenceHolds
    PROVE  /\ Refreshed(coordinator) \in Coordinator /\ Coherent(Refreshed(coordinator))
           /\ Refreshed(coordinator).seen = durable
           /\ \/ Refreshed(coordinator) = coordinator
              \/ /\ IsPublication(Refreshed(coordinator))
                 /\ Refreshed(coordinator).identity = None /\ Refreshed(coordinator).rows = None
  <1>1. CASE coordinator.seen = durable
    BY <1>1 DEF Refreshed, FenceHolds, FenceTyped, ScreenIsOfTheRevision, Coherent
  <1>2. CASE coordinator.seen # durable
    <2>1. Refreshed(coordinator) = Published(coordinator, durable, "none")
      BY <1>2 DEF Refreshed
    <2>2. durable \in Durable
      BY DEF FenceHolds, FenceTyped
    <2> QED  BY <1>2, <2>1, <2>2, PublishedCoordinator DEF IsPublication
  <1> QED  BY <1>1, <1>2

\* What a publication leaves behind the fence was there, and is not obsolete.
LEMMA RetainedOnes ==
    ASSUME FenceHolds, NEW c \in Coordinator, NEW o \in Retained(c)
    PROVE  /\ o \in fenced /\ ~IsPublication(c)
           /\ IsCurrentOperation(c, o) /\ Mounted(c, o)
           /\ o.version = c.seen.version
  <1>1. PICK p \in fenced : o = [p EXCEPT !.retired = @ \/ IsPublication(c)]
    BY DEF Retained, AfterPublication
  <1>2. IsCurrentOperation(c, o) /\ Mounted(c, o)
    BY DEF Retained
  <1>3. p \in Fenced /\ p.version = coordinator.seen.version
    BY DEF FenceHolds, FenceTyped, FencedAreOfTheRevision
  <1>4. ~o.retired
    BY <1>2 DEF IsCurrentOperation
  <1>5. o.retired = (p.retired \/ IsPublication(c))
    BY <1>1, <1>3 DEF Fenced
  <1>6. ~p.retired /\ ~IsPublication(c)
    BY <1>4, <1>5
  <1>7. o = p
    <2>1. p.retired = FALSE /\ (p.retired \/ IsPublication(c)) = FALSE
      BY <1>3, <1>6 DEF Fenced
    <2>2. o = [p EXCEPT !.retired = FALSE]
      BY <1>1, <2>1
    <2> QED  BY <1>3, <2>1, <2>2 DEF Fenced
  <1>8. c.seen = coordinator.seen
    BY <1>6 DEF IsPublication
  <1> QED  BY <1>1, <1>2, <1>3, <1>6, <1>7, <1>8

\* A new coordinator, the operations it retains, and at most a new one.
LEMMA FenceKept ==
    ASSUME FenceHolds, durable' \in Durable, coordinator' \in Coordinator,
           Coherent(coordinator'), NEW New, fenced' \subseteq Retained(coordinator') \cup New,
           \A o \in New :
              /\ o \in Fenced /\ IsCurrentOperation(coordinator', o) /\ Mounted(coordinator', o)
              /\ o.version = coordinator'.seen.version /\ ~Waits(o.kind),
           \A o, p \in New : o = p
    PROVE  FenceHolds'
  <1>1. ASSUME NEW o \in fenced'
        PROVE  /\ o \in Fenced /\ o \in fenced \cup New
               /\ IsCurrentOperation(coordinator', o) /\ Mounted(coordinator', o)
               /\ o.version = coordinator'.seen.version
    <2>1. CASE o \in New
      BY <2>1
    <2>2. CASE o \in Retained(coordinator')
      <3>1. PICK c \in Coordinator : c = coordinator'
        OBVIOUS
      <3>2. /\ o \in fenced /\ IsCurrentOperation(c, o) /\ Mounted(c, o)
            /\ o.version = c.seen.version
        BY <2>2, <3>1, RetainedOnes
      <3> QED  BY <3>1, <3>2 DEF FenceHolds, FenceTyped
    <2> QED  BY <2>1, <2>2
  <1>2. \A o, p \in fenced' : o.kind = p.kind => o = p
    BY <1>1 DEF FenceHolds, FencedAreOfTheRevision, Waits
  <1>3. FenceTyped'
    BY <1>1 DEF FenceTyped
  <1>4. FencedAreOfTheRevision'
    <2>1. \A o \in fenced' : IsCurrentOperation(coordinator, o)' /\ Mounted(coordinator, o)'
      BY <1>1 DEF IsCurrentOperation, Mounted, Readable, Registrable, Status
    <2> QED  BY <1>1, <1>2, <2>1 DEF FencedAreOfTheRevision
  <1>5. ScreenIsOfTheRevision'
    BY DEF ScreenIsOfTheRevision, Coherent, Readable
  <1> QED  BY <1>3, <1>4, <1>5 DEF FenceHolds

\* Publish, OpenDocument and the like: nothing new waits.
LEMMA PublishKeeps ==
    ASSUME FenceHolds, UNCHANGED durable, coordinator' \in Coordinator,
           Coherent(coordinator'), fenced' \subseteq Retained(coordinator')
    PROVE  FenceHolds' /\ fenced' \subseteq fenced
  <1>1. durable' \in Durable
    BY DEF FenceHolds, FenceTyped
  <1>2. FenceHolds'
    <2>1. PICK New : New = {}
      OBVIOUS
    <2>2. /\ fenced' \subseteq Retained(coordinator') \cup New
          /\ \A o : o \notin New
      BY <2>1
    <2> QED  BY <1>1, <2>2, FenceKept
  <1>3. fenced' \subseteq fenced
    <2>1. PICK c \in Coordinator : c = coordinator'
      OBVIOUS
    <2> QED  BY <2>1, RetainedOnes
  <1> QED  BY <1>2, <1>3

LEMMA DispatchKeeps ==
    ASSUME FenceHolds, NEW kind \in {"me", "product", "signUp"}, NEW request \in Nat,
           ~Waits(kind), Dispatch(kind, request),
           (\E o \in fenced' : o.request = request) => request \in 0..MaxEvents
    PROVE  /\ FenceHolds' /\ ShowsTheBrowsers
           /\ \A o \in fenced' : o \in fenced \/ (o.kind = kind /\ o.request = request)
  <1>1. PICK c : c = Refreshed(coordinator)
    OBVIOUS
  <1>2. /\ c \in Coordinator /\ Coherent(c) /\ c.seen = durable
        /\ c = coordinator \/ (c.identity = None /\ c.rows = None)
    BY <1>1, RefreshedCoordinator
  <1> DEFINE o == [kind |-> kind, version |-> c.seen.version, request |-> request,
                   retired |-> FALSE, overtaken |-> c # coordinator]
             New == {p \in {o} : IsCurrentOperation(c, p) /\ Mounted(c, p)}
  <1>3. coordinator' = c /\ fenced' = Retained(c) \cup New /\ UNCHANGED durable
    BY <1>1 DEF Dispatch
  <1>4. \A p \in New : p = o /\ IsCurrentOperation(c, p) /\ Mounted(c, p)
    OBVIOUS
  <1>5. o.kind = kind /\ o.request = request /\ o.version = c.seen.version
    OBVIOUS
  <1>6. c.seen.version \in 0..MaxEvents /\ durable' \in Durable
    BY <1>2, <1>3 DEF FenceHolds, FenceTyped, Durable
  <1>7. request \in 0..MaxEvents => o \in Fenced
    <2>1. (c # coordinator) \in BOOLEAN
      OBVIOUS
    <2> QED  BY <1>6, <2>1 DEF Fenced
  <1> HIDE DEF o
  <1>8. \A p \in New : p \in Fenced
    BY <1>3, <1>4, <1>5, <1>7
  <1> HIDE DEF New
  <1>9. FenceHolds'
    BY <1>2, <1>3, <1>4, <1>5, <1>6, <1>8, FenceKept
  <1>10. \A p \in fenced' : p \in fenced \/ (p.kind = kind /\ p.request = request)
    BY <1>2, <1>3, <1>4, <1>5, RetainedOnes
  <1>11. ShowsTheBrowsers
    BY <1>2, <1>3 DEF ShowsTheBrowsers
  <1> QED  BY <1>9, <1>10, <1>11

\* An answer is delivered at the revision it was asked for, or not at all.
LEMMA DeliverKeeps ==
    ASSUME FenceHolds, NEW o \in fenced, NEW answer, Deliver(o, answer)
    PROVE  /\ FenceHolds' /\ ShowsTheBrowsers
           /\ fenced' \subseteq fenced /\ \A p \in fenced' : p.kind # o.kind
  <1>1. PICK c : c = Refreshed(coordinator)
    OBVIOUS
  <1>2. /\ c \in Coordinator /\ Coherent(c) /\ c.seen = durable
        /\ \/ c = coordinator
           \/ IsPublication(c) /\ c.identity = None /\ c.rows = None
    BY <1>1, RefreshedCoordinator
  <1>3. PICK now : now = [o EXCEPT !.retired = @ \/ IsPublication(c)]
    OBVIOUS
  <1>4. /\ coordinator' = IF IsCurrentOperation(c, now) THEN Classified(c, now, answer) ELSE c
        /\ fenced' = {p \in Retained(coordinator') : p.kind # o.kind}
        /\ UNCHANGED durable
    BY <1>1, <1>3 DEF Deliver, Reread
  <1>5. /\ o \in Fenced /\ Mounted(coordinator, o) /\ IsCurrentOperation(coordinator, o)
        /\ o.version = coordinator.seen.version /\ Coherent(coordinator)
    BY DEF FenceHolds, FenceTyped, FencedAreOfTheRevision, ScreenIsOfTheRevision, Coherent
  <1>6. /\ now.kind = o.kind /\ now.version = o.version
        /\ now.retired = (o.retired \/ IsPublication(c))
    BY <1>3, <1>5 DEF Fenced
  <1>7. coordinator' \in Coordinator /\ Coherent(coordinator') /\ ShowsTheBrowsers
    <2>1. CASE ~IsCurrentOperation(c, now)
      BY <1>2, <1>4, <2>1 DEF ShowsTheBrowsers
    <2>2. CASE IsCurrentOperation(c, now)
      <3>1. ~IsPublication(c)
        BY <1>6, <2>2 DEF IsCurrentOperation
      <3>2. c = coordinator /\ now.version = c.seen.version /\ now.version = durable.version
        BY <1>2, <1>5, <1>6, <3>1
      <3>3. coordinator' = Classified(c, now, answer)
        BY <1>4, <2>2
      <3>4. now.version \in Version /\ c.seen \in Durable
        BY <1>2, <1>5, <1>6 DEF Fenced, Version, Coordinator
      <3>5. CASE coordinator' = c
        BY <1>2, <3>2, <3>5 DEF ShowsTheBrowsers
      <3>6. CASE \E failure \in {"invalid", "unavailable"} : coordinator' = Failed(c, failure)
        <4>1. PICK failure \in {"invalid", "unavailable"} : coordinator' = Failed(c, failure)
          BY <3>6
        <4>2. CASE Readable(c)
          <5>1. coordinator' = Published(c, c.seen, failure)
            BY <4>1, <4>2 DEF Failed
          <5> QED  BY <3>4, <5>1, PublishedCoordinator DEF ShowsTheBrowsers
        <4>3. CASE ~Readable(c)
          BY <3>5, <4>1, <4>3 DEF Failed
        <4> QED  BY <4>2, <4>3
      <3>7. CASE now.kind = "me" /\ coordinator' = [c EXCEPT !.identity = now.version]
        <4>1. /\ coordinator' \in Coordinator /\ coordinator'.identity = now.version
              /\ coordinator'.seen = c.seen /\ coordinator'.failure = c.failure
              /\ coordinator'.rows = c.rows
          BY <1>2, <3>4, <3>7 DEF Coordinator
        <4>2. Readable(c)
          BY <2>2, <3>7 DEF IsCurrentOperation
        <4>3. Coherent(coordinator')
          BY <1>2, <3>2, <4>1, <4>2, FenceAssumption DEF Coherent, Readable
        <4> QED  BY <3>2, <4>1, <4>3 DEF ShowsTheBrowsers
      <3>8. CASE now.kind = "product" /\ coordinator' = [c EXCEPT !.rows = now.version]
        <4>1. /\ coordinator' \in Coordinator /\ coordinator'.rows = now.version
              /\ coordinator'.seen = c.seen /\ coordinator'.failure = c.failure
              /\ coordinator'.identity = c.identity
          BY <1>2, <3>4, <3>8 DEF Coordinator
        <4>2. c.failure = "none"
          BY <2>2, <3>8 DEF IsCurrentOperation
        <4>3. c.identity = now.version
          <5>1. Status(c) = "authenticated"
            BY <1>5, <1>6, <3>2, <3>8 DEF Mounted
          <5>2. c.identity # None
            BY <5>1 DEF Status
          <5> QED  BY <1>2, <3>2, <5>2 DEF Coherent
        <4>4. Coherent(coordinator')
          BY <1>2, <4>1, <4>2, <4>3 DEF Coherent, Readable
        <4> QED  BY <3>2, <4>1, <4>4 DEF ShowsTheBrowsers
      <3> QED  BY <3>3, <3>5, <3>6, <3>7, <3>8 DEF Classified
    <2> QED  BY <2>1, <2>2
  <1>8. fenced' \subseteq Retained(coordinator') /\ \A p \in fenced' : p.kind # o.kind
    BY <1>4
  <1> QED  BY <1>4, <1>7, <1>8, PublishKeeps

\* The steps of the fence that no page takes.
LEMMA FenceStepKeeps ==
    ASSUME FenceHolds, sent \in Nat, FenceStep
    PROVE  /\ FenceHolds' /\ ShowsTheBrowsers
           /\ \A o \in fenced' : o \in fenced \/ (o.kind # "signUp" /\ o.request = 0)
  <1>1. MaxEvents \in Nat /\ 0 \in 0..MaxEvents
    BY FenceAssumption
  <1>2. CASE StartMe
    BY <1>1, <1>2, DispatchKeeps DEF StartMe
  <1>3. CASE StartInbox
    BY <1>1, <1>3, DispatchKeeps DEF StartInbox
  <1>4. CASE RetryRead
    <2>1. PICK c : c = Refreshed(coordinator)
      OBVIOUS
    <2>2. /\ c \in Coordinator /\ Coherent(c)
          /\ c = coordinator \/ (c.identity = None /\ c.rows = None)
      BY <2>1, RefreshedCoordinator
    <2>3. /\ coordinator' = IF Registrable(c) THEN Published(c, c.seen, "none") ELSE c
          /\ fenced' = Retained(coordinator') /\ UNCHANGED durable
      BY <1>4, <2>1 DEF RetryRead, Publish
    <2>4. c.seen \in Durable
      BY <2>2 DEF Coordinator
    <2>5. coordinator' \in Coordinator /\ Coherent(coordinator') /\ ShowsTheBrowsers
      BY <2>2, <2>3, <2>4, PublishedCoordinator DEF ShowsTheBrowsers
    <2> QED  BY <2>3, <2>5, PublishKeeps
  <1>5. CASE Notice
    <2>1. /\ coordinator' = Refreshed(coordinator)
          /\ fenced' = Retained(coordinator') /\ UNCHANGED durable
      BY <1>5 DEF Notice, Publish
    <2>2. coordinator' \in Coordinator /\ Coherent(coordinator') /\ ShowsTheBrowsers
      BY <2>1, RefreshedCoordinator DEF ShowsTheBrowsers
    <2> QED  BY <2>1, <2>2, PublishKeeps
  <1>6. CASE MarkerChanges
    <2>1. UNCHANGED <<coordinator, fenced>> /\ durable' \in Durable
      <3>1. durable.version \in Nat /\ durable.version + sent < MaxEvents
        BY <1>6 DEF MarkerChanges, FenceHolds, FenceTyped, Durable
      <3>2. durable.version + 1 \in 0..MaxEvents
        BY <1>1, <3>1
      <3> QED  BY <1>6, <3>2 DEF MarkerChanges, Durable
    <2>2. FenceHolds'
      BY <2>1 DEF FenceHolds, FenceTyped, FencedAreOfTheRevision, ScreenIsOfTheRevision,
         IsCurrentOperation, Mounted, Readable, Registrable, Status
    <2> QED  BY <2>1, <2>2 DEF ShowsTheBrowsers
  <1>7. CASE \E o \in fenced : DeliverRead(o)
    BY <1>7, DeliverKeeps DEF DeliverRead
  <1> QED  BY <1>2, <1>3, <1>4, <1>5, <1>6, <1>7 DEF FenceStep

-----------------------------------------------------------------------------
(* The invariant, divided into the fence, the tokens, the pages and the    *)
(* wire.                                                                   *)

TokensTyped == token \in Seq({"current", "used", "void"}) /\ Len(token) <= MaxLinks

PagesHold ==
    /\ path \in Paths /\ opened \in Links \cup {None}
    /\ attempt \in Attempt /\ resend \in Resend
    /\ attempt.status = "busy" <=> attempt.requests # {}
    /\ OutcomesAreTrue /\ AttemptIsOfTheDocument

RequestsAreSent == \A o \in fenced : o.request <= sent

Parts ==
    /\ sent \in Nat /\ FenceHolds /\ RequestsAreSent
    /\ TokensTyped /\ PagesHold /\ WireIsSound

LEMMA InvariantParts == IInv <=> Parts
  BY DEF IInv, Parts, FenceHolds, FenceTyped, RequestsAreSent, TokensTyped, PagesHold,
     PageIsTruthful, TypeOK, FencedAreOfTheRevision

\* A token that is not current stays as it is, and none disappears.
TokensMove ==
    /\ TokensTyped'
    /\ \A l \in DOMAIN token : l \in DOMAIN token' /\ (~IsCurrent(l) => token'[l] = token[l])

LEMMA TokensRest ==
    ASSUME TokensTyped, UNCHANGED token
    PROVE  TokensMove
  BY DEF TokensTyped, TokensMove

LEMMA TokenEnds ==
    ASSUME TokensTyped, NEW l \in DOMAIN token, IsCurrent(l), NEW end \in {"used", "void"},
           token' = [token EXCEPT ![l] = end]
    PROVE  TokensMove /\ token'[l] = end
  <1>1. token' \in Seq({"current", "used", "void"}) /\ Len(token') = Len(token)
    BY DEF TokensTyped
  <1>2. \A k \in DOMAIN token : k \in DOMAIN token' /\ (k # l => token'[k] = token[k])
    OBVIOUS
  <1> QED  BY <1>1, <1>2 DEF TokensTyped, TokensMove

LEMMA TokenIsIssued ==
    ASSUME TokensTyped, Issue
    PROVE  TokensMove /\ Registered'
  <1> DEFINE ended == [l \in DOMAIN token |-> IF IsCurrent(l) THEN "void" ELSE token[l]]
  <1>1. token' = Append(ended, "current") /\ Len(token) < MaxLinks
    BY DEF Issue
  <1>2. /\ DOMAIN token = 1..Len(token) /\ Len(token) \in Nat
        /\ \A l \in 1..Len(token) : token[l] \in {"current", "used", "void"}
    BY DEF TokensTyped
  <1>3. /\ ended \in Seq({"current", "used", "void"}) /\ Len(ended) = Len(token)
        /\ DOMAIN ended = DOMAIN token
        /\ \A l \in DOMAIN token : ~IsCurrent(l) => ended[l] = token[l]
    BY <1>2
  <1> HIDE DEF ended
  <1>4. /\ token' \in Seq({"current", "used", "void"}) /\ Len(token') = Len(token) + 1
        /\ DOMAIN token' = 1..(Len(token) + 1)
        /\ \A l \in DOMAIN token : token'[l] = ended[l]
    BY <1>1, <1>2, <1>3
  <1>5. TokensTyped'
    BY <1>1, <1>2, <1>4, LinksAssumption DEF TokensTyped
  <1>6. \A l \in DOMAIN token : l \in DOMAIN token' /\ (~IsCurrent(l) => token'[l] = token[l])
    BY <1>2, <1>3, <1>4
  <1>7. token' # <<>>
    BY <1>2, <1>4
  <1> QED  BY <1>5, <1>6, <1>7 DEF TokensMove, Registered

LEMMA RegisteredForGood ==
    ASSUME TokensTyped, TokensMove, Registered
    PROVE  Registered'
  <1>1. 1 \in DOMAIN token
    BY EmptySeq DEF TokensTyped, Registered
  <1>2. 1 \in DOMAIN token'
    BY <1>1 DEF TokensMove
  <1>3. token' # <<>>
    BY <1>2
  <1> QED  BY <1>3 DEF Registered

\* What is true of an answer stays true while tokens move on.
LEMMA AnswerStaysTrue ==
    ASSUME TokensTyped, TokensMove, NEW r, AnswerIsTrue(r)
    PROVE  AnswerIsTrue(r)'
  <1>1. ASSUME r.op = "confirm"
        PROVE  /\ r.link \in DOMAIN token'
               /\ r.answer = "invalidLink" /\ r.answer # None => token'[r.link] # "current"
               /\ r.answer = "ok" /\ r.answer # None => token'[r.link] = "used"
    BY <1>1 DEF AnswerIsTrue, TokensMove, IsCurrent
  <1>2. r.op = "signUp" /\ r.answer = "ok" /\ r.answer # None => Registered'
    BY RegisteredForGood DEF AnswerIsTrue
  <1> QED  BY <1>1, <1>2 DEF AnswerIsTrue, IsCurrent

\* A sound message of the wire, as a predicate of its own.
Sound(r) == r \in Command /\ r.id \in 1..sent /\ ReachesItsPage(r) /\ AnswerIsTrue(r)

\* Pages and the fence only begin to wait for what is sent in this step.
OnlyNewWaits ==
    /\ \A i \in attempt'.requests : (i \in attempt.requests /\ opened' = opened) \/ i = sent + 1
    /\ \A o \in fenced' : o \in fenced \/ o.kind # "signUp" \/ o.request = sent + 1

LEMMA StaysSound ==
    ASSUME Parts, TokensMove, sent' \in Nat, sent' >= sent, OnlyNewWaits, NEW r \in wire
    PROVE  Sound(r)'
  <1>1. r \in Command /\ r.id \in 1..sent /\ ReachesItsPage(r) /\ AnswerIsTrue(r) /\ sent \in Nat
    BY DEF Parts, WireIsSound
  <1>2. AnswerIsTrue(r)'
    BY <1>1, AnswerStaysTrue DEF Parts
  <1>3. r.id # sent + 1 /\ r.id \in 1..sent'
    BY <1>1
  <1>4. ReachesItsPage(r)'
    BY <1>1, <1>3 DEF ReachesItsPage, OnlyNewWaits
  <1> QED  BY <1>1, <1>2, <1>3, <1>4 DEF Sound

\* A step that leaves the attempt alone.
LEMMA AttemptUntouched ==
    ASSUME Parts, UNCHANGED <<attempt, opened>>, TokensMove, sent' \in Nat, sent' >= sent,
           path' \in Paths, resend' \in Resend, FenceHolds', RequestsAreSent',
           \A o \in fenced' : o \in fenced \/ o.kind # "signUp" \/ o.request = sent + 1,
           \A r \in wire' : r \in wire \/ Sound(r)'
    PROVE  Parts'
  <1>1. OnlyNewWaits
    BY DEF OnlyNewWaits
  <1>2. WireIsSound'
    <2>1. \A r \in wire' : Sound(r)'
      BY <1>1, StaysSound
    <2> QED  BY <2>1 DEF WireIsSound, Sound
  <1>3. OutcomesAreTrue'
    BY DEF Parts, PagesHold, OutcomesAreTrue, AttemptIsOfTheDocument, TokensMove, IsCurrent
  <1>4. AttemptIsOfTheDocument'
    <2>1. \A i \in attempt.requests : i \in 1..sent'
      BY DEF Parts, PagesHold, AttemptIsOfTheDocument
    <2> QED  BY <2>1 DEF Parts, PagesHold, AttemptIsOfTheDocument, TokensMove
  <1>5. PagesHold'
    BY <1>3, <1>4 DEF Parts, PagesHold
  <1> QED  BY <1>2, <1>5 DEF Parts, TokensMove

\* The fence rests.
LEMMA FenceRests ==
    ASSUME Parts, UNCHANGED fenceVars, sent' \in Nat, sent' >= sent
    PROVE  FenceHolds' /\ RequestsAreSent' /\ UNCHANGED fenced
  <1>1. UNCHANGED <<durable, coordinator, fenced>>
    BY DEF fenceVars
  <1>2. FenceHolds'
    BY <1>1 DEF Parts, FenceHolds, FenceTyped, FencedAreOfTheRevision, ScreenIsOfTheRevision,
       IsCurrentOperation, Mounted, Readable, Registrable, Status
  <1>3. RequestsAreSent'
    BY <1>1, FenceAssumption DEF Parts, RequestsAreSent, FenceHolds, FenceTyped, Fenced
  <1> QED  BY <1>1, <1>2, <1>3

\* A command that is sent has a number of its own.
LEMMA SentCommand ==
    ASSUME Parts, NEW op \in {"signUp", "resend", "confirm"}, NEW link \in Links \cup {None},
           Send(op, link)
    PROVE  /\ sent' = sent + 1 /\ sent' \in 1..MaxEvents /\ sent' \in Nat /\ sent' >= sent
           /\ \E m \in Command :
                 /\ m.id = sent + 1 /\ m.op = op /\ m.link = link /\ m.answer = None
                 /\ wire' = wire \cup {m}
  <1>1. /\ sent \in Nat /\ durable.version \in Nat /\ MaxEvents \in Nat
        /\ sent' = sent + 1 /\ sent + durable.version < MaxEvents
    BY FenceAssumption DEF Parts, FenceHolds, FenceTyped, Durable, Send
  <1>2. sent + 1 \in 1..MaxEvents /\ sent + 1 \in Nat /\ sent + 1 >= sent
    BY <1>1
  <1> DEFINE m == [id |-> sent + 1, op |-> op, link |-> link, answer |-> None]
  <1>3. /\ m \in Command /\ m.id = sent + 1 /\ m.op = op /\ m.link = link /\ m.answer = None
    BY <1>2 DEF Command
  <1>4. wire' = wire \cup {m}
    BY DEF Send
  <1> HIDE DEF m
  <1> QED  BY <1>1, <1>2, <1>3, <1>4

\* An answer replaces its command, which may be forgotten.
LEMMA AnsweredCommand ==
    ASSUME Parts, TokensMove, UNCHANGED <<sent, attempt, opened, fenced>>,
           NEW r \in wire, NEW answers, Answer(r, answers),
           answers \subseteq {"ok", "error", "limited", "unavailable", "invalidLink"},
           r.op = "confirm" /\ "ok" \in answers => token'[r.link] = "used",
           r.op = "confirm" /\ "invalidLink" \in answers => token'[r.link] # "current",
           r.op = "signUp" /\ "ok" \in answers => Registered'
    PROVE  \A q \in wire' : q \in wire \/ Sound(q)'
  <1>1. PICK a \in answers :
           wire' = (wire \ {r}) \cup (IF Awaited(r) THEN {[r EXCEPT !.answer = a]} ELSE {})
    BY DEF Answer
  <1> DEFINE q == [r EXCEPT !.answer = a]
  <1>2. /\ r \in Command /\ r.id \in 1..sent /\ ReachesItsPage(r) /\ AnswerIsTrue(r)
        /\ sent' = sent
    BY DEF Parts, WireIsSound
  <1>3. /\ q \in Command /\ q.id = r.id /\ q.op = r.op /\ q.link = r.link /\ q.answer = a
    BY <1>2 DEF Command
  <1>4. \A p \in wire' : p \in wire \/ p = q
    BY <1>1
  <1> HIDE DEF q
  <1>5. ReachesItsPage(q)'
    BY <1>2, <1>3 DEF ReachesItsPage
  <1>6. AnswerIsTrue(q)'
    <2>1. q.op = "confirm" =>
             /\ q.link \in DOMAIN token'
             /\ q.answer = "invalidLink" => token'[q.link] # "current"
             /\ q.answer = "ok" => token'[q.link] = "used"
      BY <1>2, <1>3 DEF AnswerIsTrue, TokensMove
    <2>2. q.op = "signUp" /\ q.answer = "ok" => Registered'
      BY <1>3
    <2> QED  BY <2>1, <2>2 DEF AnswerIsTrue, IsCurrent
  <1>7. Sound(q)'
    BY <1>2, <1>3, <1>5, <1>6 DEF Sound
  <1> QED  BY <1>4, <1>7

-----------------------------------------------------------------------------
(* The pages of registration, the routes, and the servers.                 *)

LEMMA ResendKeeps ==
    ASSUME Parts, SubmitResend \/ ResendTimesOut \/ CountdownEnds
    PROVE  Parts'
  <1>1. /\ UNCHANGED <<fenceVars, token, path, opened, attempt>> /\ path' \in Paths
        /\ sent \in Nat /\ sent >= sent /\ resend \in Resend /\ MaxEvents \in Nat
    BY FenceAssumption DEF SubmitResend, ResendTimesOut, CountdownEnds, Parts, PagesHold
  <1>2. TokensMove
    BY <1>1, TokensRest DEF Parts
  <1>3. CASE SubmitResend
    <2>1. Send("resend", None) /\ resend' = [request |-> sent + 1, waits |-> FALSE]
      BY <1>3 DEF SubmitResend
    <2>2. sent' = sent + 1 /\ sent' \in 1..MaxEvents /\ sent' \in Nat /\ sent' >= sent
      BY <2>1, SentCommand
    <2>3. PICK m \in Command :
             /\ m.id = sent + 1 /\ m.op = "resend" /\ m.answer = None /\ wire' = wire \cup {m}
      BY <2>1, SentCommand
    <2>4. resend' \in Resend
      BY <2>1, <2>2 DEF Resend
    <2>5. FenceHolds' /\ RequestsAreSent' /\ fenced' = fenced
      BY <1>1, <2>2, FenceRests
    <2>6. ReachesItsPage(m)'
      <3>1. m.id \notin attempt.requests
        BY <1>1, <2>3 DEF Parts, PagesHold, AttemptIsOfTheDocument
      <3>2. \A o \in fenced : m.id # o.request
        BY <1>1, <2>3 DEF Parts, RequestsAreSent
      <3> QED  BY <1>1, <2>5, <3>1, <3>2 DEF ReachesItsPage
    <2>7. Sound(m)'
      BY <2>2, <2>3, <2>6 DEF Sound, AnswerIsTrue
    <2> QED  BY <1>1, <1>2, <2>2, <2>3, <2>4, <2>5, <2>7, AttemptUntouched
  <1>4. CASE ResendTimesOut \/ CountdownEnds
    <2>1. UNCHANGED <<wire, sent>>
      BY <1>4 DEF ResendTimesOut, CountdownEnds, wireVars
    <2>2. resend' \in Resend
      <3>1. CASE ResendTimesOut
        <4>1. resend' = ResendAnswered("failed") /\ 0 \in 0..MaxEvents
          BY <1>1, <3>1 DEF ResendTimesOut
        <4> QED  BY <4>1 DEF ResendAnswered, Resend
      <3>2. CASE CountdownEnds
        BY <1>1, <3>2 DEF CountdownEnds, Resend
      <3> QED  BY <1>4, <3>1, <3>2
    <2>3. FenceHolds' /\ RequestsAreSent' /\ fenced' = fenced
      BY <1>1, <2>1, FenceRests
    <2> QED  BY <1>1, <1>2, <2>1, <2>2, <2>3, AttemptUntouched
  <1> QED  BY <1>3, <1>4

LEMMA SettleResendKeeps ==
    ASSUME Parts, NEW r \in wire, SettleResend(r)
    PROVE  Parts'
  <1>1. /\ UNCHANGED <<fenceVars, sent, token, path, opened, attempt>> /\ path' \in Paths
        /\ sent' \in Nat /\ sent' >= sent /\ wire' = wire \ {r}
        /\ resend' = ResendAnswered(r.answer)
    BY DEF SettleResend, Parts, PagesHold
  <1>2. TokensMove
    BY <1>1, TokensRest DEF Parts
  <1>3. resend' \in Resend
    <2>1. 0 \in 0..MaxEvents
      BY FenceAssumption
    <2> QED  BY <1>1, <2>1 DEF ResendAnswered, Resend
  <1>4. FenceHolds' /\ RequestsAreSent' /\ fenced' = fenced
    BY <1>1, FenceRests
  <1> QED  BY <1>1, <1>2, <1>3, <1>4, AttemptUntouched

\* A page that is entered anew starts empty.
LEMMA RouteKeeps ==
    ASSUME Parts, Redirect \/ FollowLink
    PROVE  Parts'
  <1>1. /\ UNCHANGED <<fenceVars, wire, sent, token>>
        /\ \E p \in Paths : GoTo(p)
    BY DEF Redirect, FollowLink, wireVars, Paths
  <1>2. path' \in Paths /\ resend' \in Resend /\ UNCHANGED <<opened, attempt>>
    BY <1>1, FenceAssumption DEF GoTo, Resend, NoResend, Parts, PagesHold
  <1>3. sent' \in Nat /\ sent' >= sent
    BY <1>1 DEF Parts
  <1>4. FenceHolds' /\ RequestsAreSent' /\ fenced' = fenced
    BY <1>1, <1>3, FenceRests
  <1>5. TokensMove
    BY <1>1, TokensRest DEF Parts
  <1> QED  BY <1>1, <1>2, <1>3, <1>4, <1>5, AttemptUntouched

LEMMA ServersKeep ==
    ASSUME Parts,
           TokenExpires \/ \E r \in wire : ServeRegistration(r) \/ ServeConfirm(r)
    PROVE  Parts'
  <1>1. /\ UNCHANGED <<fenceVars, sent, path, opened, attempt, resend>>
        /\ path' \in Paths /\ resend' \in Resend /\ sent' \in Nat /\ sent' >= sent
    BY DEF TokenExpires, ServeRegistration, ServeConfirm, wireVars, pageVars, Parts, PagesHold
  <1>2. FenceHolds' /\ RequestsAreSent' /\ fenced' = fenced
    BY <1>1, FenceRests
  <1>3. TokensTyped
    BY DEF Parts
  <1>4. CASE TokenExpires
    <2>1. TokensMove
      BY <1>3, <1>4, TokenEnds DEF TokenExpires
    <2> QED  BY <1>1, <1>2, <1>4, <2>1, AttemptUntouched DEF TokenExpires, wireVars
  <1>5. ASSUME NEW r \in wire, ServeRegistration(r) PROVE Parts'
    <2>1. TokensMove
      BY <1>3, <1>5, TokenIsIssued, TokensRest DEF ServeRegistration
    <2>2. PICK answers : /\ Answer(r, answers)
                         /\ answers \subseteq {"ok", "error", "limited", "unavailable"}
                         /\ r.op = "signUp" /\ "ok" \in answers => Registered'
      <3>1. CASE Issue /\ Answer(r, {"ok", "error"})
        <4>1. Registered'
          BY <1>3, <3>1, TokenIsIssued
        <4> QED  BY <3>1, <4>1
      <3>2. CASE (Registered \/ r.op = "resend") /\ UNCHANGED token /\ Answer(r, {"ok"})
        <4>1. r.op = "signUp" => Registered'
          BY <3>2 DEF Registered
        <4> QED  BY <3>2, <4>1
      <3>3. CASE Answer(r, {"limited", "error", "unavailable"})
        <4>1. "ok" \notin {"limited", "error", "unavailable"}
          OBVIOUS
        <4> QED  BY <3>3, <4>1
      <3> QED  BY <1>5, <3>1, <3>2, <3>3 DEF ServeRegistration
    <2>3. r.op # "confirm"
      BY <1>5 DEF ServeRegistration
    <2>4. \A q \in wire' : q \in wire \/ Sound(q)'
      BY <1>1, <1>2, <2>1, <2>2, <2>3, AnsweredCommand
    <2> QED  BY <1>1, <1>2, <2>1, <2>4, AttemptUntouched
  <1>6. ASSUME NEW r \in wire, ServeConfirm(r) PROVE Parts'
    <2>1. r.op = "confirm" /\ r.link \in DOMAIN token
      BY <1>6 DEF ServeConfirm, Parts, WireIsSound, AnswerIsTrue
    <2>2. TokensMove
      BY <1>3, <1>6, <2>1, TokenEnds, TokensRest DEF ServeConfirm
    <2>3. PICK answers : /\ Answer(r, answers)
                         /\ answers \subseteq {"ok", "error", "limited", "invalidLink"}
                         /\ "ok" \in answers => token'[r.link] = "used"
                         /\ "invalidLink" \in answers => token'[r.link] # "current"
      <3>1. CASE /\ IsCurrent(r.link) /\ token' = [token EXCEPT ![r.link] = "used"]
                 /\ Answer(r, {"ok", "error"})
        <4>1. token'[r.link] = "used"
          BY <2>1, <3>1
        <4> QED  BY <3>1, <4>1
      <3>2. CASE ~IsCurrent(r.link) /\ UNCHANGED token /\ Answer(r, {"invalidLink"})
        <4>1. token'[r.link] # "current" /\ "ok" \notin {"invalidLink"}
          BY <3>2 DEF IsCurrent
        <4> QED  BY <3>2, <4>1
      <3>3. CASE Answer(r, {"limited", "error"})
        <4>1. "ok" \notin {"limited", "error"} /\ "invalidLink" \notin {"limited", "error"}
          OBVIOUS
        <4> QED  BY <3>3, <4>1
      <3> QED  BY <1>6, <3>1, <3>2, <3>3 DEF ServeConfirm
    <2>4. \A q \in wire' : q \in wire \/ Sound(q)'
      BY <1>1, <1>2, <2>1, <2>2, <2>3, AnsweredCommand
    <2> QED  BY <1>1, <1>2, <2>2, <2>4, AttemptUntouched
  <1> QED  BY <1>4, <1>5, <1>6

-----------------------------------------------------------------------------
(* The fence, and sign-up behind it.                                       *)

LEMMA FenceStepsKeep ==
    ASSUME Parts, FenceStep
    PROVE  Parts' /\ ShowsTheBrowsers
  <1>1. /\ UNCHANGED <<wire, sent, token, path, opened, attempt, resend>>
        /\ path' \in Paths /\ resend' \in Resend /\ sent' \in Nat /\ sent' >= sent
    BY DEF FenceStep, wireVars, pageVars, Parts, PagesHold
  <1>2. /\ FenceHolds' /\ ShowsTheBrowsers
        /\ \A o \in fenced' : o \in fenced \/ (o.kind # "signUp" /\ o.request = 0)
    BY FenceStepKeeps DEF Parts
  <1>3. RequestsAreSent'
    BY <1>1, <1>2 DEF Parts, RequestsAreSent
  <1>4. TokensMove
    BY <1>1, TokensRest DEF Parts
  <1> QED  BY <1>1, <1>2, <1>3, <1>4, AttemptUntouched

LEMMA SubmitSignUpKeeps ==
    ASSUME Parts, SubmitSignUp
    PROVE  Parts' /\ ShowsTheBrowsers
  <1>1. /\ UNCHANGED <<token, path, opened, attempt, resend>>
        /\ path' \in Paths /\ resend' \in Resend
        /\ sent \in Nat /\ FenceHolds /\ ~Waits("signUp") /\ Dispatch("signUp", sent + 1)
        /\ None \in Links \cup {None}
    BY DEF SubmitSignUp, pageVars, Parts, PagesHold
  <1>2. TokensMove
    BY <1>1, TokensRest DEF Parts
  <1>3. CASE \E o \in fenced' : o.request = sent + 1
    <2>1. Send("signUp", None)
      BY <1>3 DEF SubmitSignUp
    <2>2. sent' = sent + 1 /\ sent' \in 1..MaxEvents /\ sent' \in Nat /\ sent' >= sent
      BY <1>1, <2>1, SentCommand
    <2>3. PICK m \in Command :
             /\ m.id = sent + 1 /\ m.op = "signUp" /\ m.answer = None /\ wire' = wire \cup {m}
      BY <1>1, <2>1, SentCommand
    <2>4. sent + 1 \in Nat /\ sent + 1 \in 0..MaxEvents
      BY <2>2
    <2>5. /\ FenceHolds' /\ ShowsTheBrowsers
          /\ \A o \in fenced' : o \in fenced \/ (o.kind = "signUp" /\ o.request = sent + 1)
      BY <1>1, <2>4, DispatchKeeps
    <2>6. RequestsAreSent'
      <3>1. \A o \in fenced : o.request \in Nat /\ o.request <= sent
        BY <1>1, FenceAssumption DEF Parts, RequestsAreSent, FenceHolds, FenceTyped, Fenced
      <3>2. \A o \in fenced : o.request <= sent + 1
        BY <1>1, <3>1
      <3> QED  BY <2>2, <2>5, <3>2 DEF RequestsAreSent
    <2>7. ReachesItsPage(m)'
      <3>1. m.id \notin attempt.requests
        BY <1>1, <2>3 DEF Parts, PagesHold, AttemptIsOfTheDocument
      <3> QED  BY <1>1, <2>3, <3>1 DEF ReachesItsPage
    <2>8. Sound(m)'
      BY <2>2, <2>3, <2>7 DEF Sound, AnswerIsTrue
    <2> QED  BY <1>1, <1>2, <2>2, <2>3, <2>5, <2>6, <2>8, AttemptUntouched
  <1>4. CASE ~\E o \in fenced' : o.request = sent + 1
    <2>1. UNCHANGED <<wire, sent>> /\ sent' \in Nat /\ sent' >= sent /\ sent + 1 \in Nat
      BY <1>1, <1>4 DEF SubmitSignUp, wireVars
    <2>2. /\ FenceHolds' /\ ShowsTheBrowsers
          /\ \A o \in fenced' : o \in fenced \/ (o.kind = "signUp" /\ o.request = sent + 1)
      BY <1>1, <1>4, <2>1, DispatchKeeps
    <2>3. \A o \in fenced' : o \in fenced
      BY <1>4, <2>2
    <2>4. RequestsAreSent'
      BY <2>1, <2>3 DEF Parts, RequestsAreSent
    <2> QED  BY <1>1, <1>2, <2>1, <2>2, <2>3, <2>4, AttemptUntouched
  <1> QED  BY <1>3, <1>4

LEMMA SignUpEnds ==
    ASSUME Parts, NEW o \in fenced,
           SignUpTimesOut(o) \/ \E r \in wire : SettleSignUp(o, r)
    PROVE  Parts' /\ ShowsTheBrowsers
  <1>1. PICK answer : Deliver(o, answer)
    BY DEF SignUpTimesOut, SettleSignUp
  <1>2. FenceHolds' /\ ShowsTheBrowsers /\ fenced' \subseteq fenced
    BY <1>1, DeliverKeeps DEF Parts
  <1>3. /\ UNCHANGED <<sent, token, opened, attempt>> /\ wire' \subseteq wire
        /\ path' \in Paths /\ resend' \in Resend
    <2>1. path \in Paths /\ resend \in Resend /\ 0 \in 0..MaxEvents
      BY FenceAssumption DEF Parts, PagesHold
    <2>2. CASE UNCHANGED pageVars
      BY <2>1, <2>2 DEF SignUpTimesOut, SettleSignUp, wireVars, pageVars
    <2>3. CASE GoTo("/registration-pending")
      BY <2>1, <2>3 DEF SignUpTimesOut, SettleSignUp, wireVars, GoTo, Paths, Resend, NoResend
    <2> QED  BY <2>2, <2>3 DEF SignUpTimesOut, SettleSignUp
  <1>4. sent' \in Nat /\ sent' >= sent /\ RequestsAreSent'
    BY <1>2, <1>3 DEF Parts, RequestsAreSent
  <1>5. TokensMove
    BY <1>3, TokensRest DEF Parts
  <1> QED  BY <1>2, <1>3, <1>4, <1>5, AttemptUntouched

-----------------------------------------------------------------------------
(* Confirmation.                                                           *)

\* A step of the confirmation page, or a new document: the fence and the
\* tokens rest.
LEMMA AttemptMoves ==
    ASSUME Parts, UNCHANGED token, FenceHolds', RequestsAreSent', sent' \in Nat, sent' >= sent,
           OnlyNewWaits, \A o \in fenced' : o \in fenced,
           \A r \in wire' : r \in wire \/ Sound(r)', PagesHold'
    PROVE  Parts'
  <1>1. TokensMove
    BY TokensRest DEF Parts
  <1>2. \A r \in wire' : Sound(r)'
    BY <1>1, StaysSound
  <1> QED  BY <1>1, <1>2 DEF Parts, TokensMove, WireIsSound, Sound

LEMMA OpenDocumentKeeps ==
    ASSUME Parts, OpenDocument
    PROVE  Parts' /\ ShowsTheBrowsers
  <1>1. PICK link \in DOMAIN token \cup {None} :
           /\ opened' = link /\ attempt' = InitialAttempt(link)
           /\ path' = IF link = None THEN path ELSE "/confirm-email"
    BY DEF OpenDocument
  <1>2. /\ resend' = NoResend /\ coordinator' = NewCoordinator /\ fenced' = {}
        /\ UNCHANGED <<durable, wire, sent, token>>
    BY DEF OpenDocument, wireVars
  <1>3. /\ sent' \in Nat /\ sent' >= sent /\ RequestsAreSent'
        /\ \A o \in fenced' : o \in fenced
    BY <1>2 DEF Parts, RequestsAreSent
  <1>4. FenceHolds' /\ ShowsTheBrowsers
    <2>1. durable \in Durable /\ NewCoordinator = Published(coordinator, durable, "none")
      BY DEF Parts, FenceHolds, FenceTyped, NewCoordinator, Published
    <2>2. /\ coordinator' \in Coordinator /\ Coherent(coordinator')
          /\ coordinator'.identity = None /\ coordinator'.rows = None
      BY <1>2, <2>1, PublishedCoordinator
    <2> QED  BY <1>2, <2>2, PublishKeeps DEF Parts, ShowsTheBrowsers
  <1>5. /\ attempt'.link = link /\ attempt'.requests = {}
        /\ attempt'.status = IF link = None THEN "invalid" ELSE "ready"
        /\ attempt' \in Attempt /\ link \in Links \cup {None}
    <2>1. link \in Links \cup {None}
      BY <1>1, LinksAssumption DEF Parts, TokensTyped, Links
    <2> QED  BY <1>1, <2>1 DEF InitialAttempt, Attempt
  <1>6. PagesHold'
    <2>1. path' \in Paths /\ resend' \in Resend
      BY <1>1, <1>2, FenceAssumption DEF Parts, PagesHold, Paths, NoResend, Resend
    <2>2. OutcomesAreTrue'
      BY <1>1, <1>5 DEF OutcomesAreTrue
    <2>3. AttemptIsOfTheDocument'
      BY <1>1, <1>2, <1>5 DEF AttemptIsOfTheDocument
    <2> QED  BY <1>1, <1>5, <2>1, <2>2, <2>3 DEF PagesHold
  <1>7. OnlyNewWaits
    BY <1>2, <1>5 DEF OnlyNewWaits
  <1> QED  BY <1>2, <1>3, <1>4, <1>6, <1>7, AttemptMoves

LEMMA ConfirmKeeps ==
    ASSUME Parts, Confirm
    PROVE  Parts'
  <1>1. /\ UNCHANGED <<fenceVars, token, path, opened, resend>>
        /\ attempt.link # None /\ CanConfirm(attempt.status) /\ Send("confirm", attempt.link)
        /\ attempt' = [attempt EXCEPT !.status = "busy", !.requests = @ \cup {sent + 1}]
    BY DEF Confirm
  <1>2. /\ attempt \in Attempt /\ attempt.requests = {} /\ attempt.link = opened
        /\ opened \in DOMAIN token /\ opened \in Links \cup {None}
    BY <1>1 DEF Parts, PagesHold, AttemptIsOfTheDocument, CanConfirm
  <1>3. sent' = sent + 1 /\ sent' \in 1..MaxEvents /\ sent' \in Nat /\ sent' >= sent
    BY <1>1, <1>2, SentCommand
  <1>4. PICK m \in Command :
           /\ m.id = sent + 1 /\ m.op = "confirm" /\ m.link = opened /\ m.answer = None
           /\ wire' = wire \cup {m}
    BY <1>1, <1>2, SentCommand
  <1>5. /\ attempt'.requests = {sent + 1} /\ attempt'.status = "busy"
        /\ attempt'.link = opened /\ attempt' \in Attempt
    <2>1. PICK a \in Attempt : a = attempt
      BY <1>2
    <2>2. attempt' = [a EXCEPT !.status = "busy", !.requests = {sent + 1}]
      BY <1>1, <1>2, <2>1
    <2>3. {sent + 1} \in SUBSET (1..MaxEvents)
      BY <1>3
    <2> QED  BY <1>2, <2>1, <2>2, <2>3 DEF Attempt
  <1>6. FenceHolds' /\ RequestsAreSent' /\ fenced' = fenced
    BY <1>1, <1>3, FenceRests
  <1>7. PagesHold'
    <2>1. OutcomesAreTrue'
      BY <1>5 DEF OutcomesAreTrue
    <2>2. AttemptIsOfTheDocument'
      BY <1>1, <1>2, <1>3, <1>5 DEF AttemptIsOfTheDocument
    <2> QED  BY <1>1, <1>5, <2>1, <2>2 DEF PagesHold, Parts
  <1>8. Sound(m)'
    <2>1. ReachesItsPage(m)'
      BY <1>1, <1>4, <1>6 DEF ReachesItsPage, Parts, RequestsAreSent
    <2>2. AnswerIsTrue(m)'
      BY <1>1, <1>2, <1>4 DEF AnswerIsTrue
    <2> QED  BY <1>3, <1>4, <2>1, <2>2 DEF Sound
  <1>9. OnlyNewWaits
    BY <1>5, <1>6 DEF OnlyNewWaits
  <1> QED  BY <1>1, <1>3, <1>4, <1>6, <1>7, <1>8, <1>9, AttemptMoves

\* Only the request that is under way can be settled, and a definite outcome is true.
LEMMA SettlementKeeps ==
    ASSUME Parts, NEW id \in attempt.requests, NEW answer, attempt' = Settled(id, answer),
           UNCHANGED <<fenceVars, sent, token, path, opened, resend>>,
           wire' \subseteq wire,
           answer = "ok" => opened # None /\ token[opened] = "used",
           answer = "invalidLink" => opened # None /\ ~IsCurrent(opened)
    PROVE  Parts'
  <1>1. sent' \in Nat /\ sent' >= sent
    BY DEF Parts
  <1>2. FenceHolds' /\ RequestsAreSent' /\ fenced' = fenced
    BY <1>1, FenceRests
  <1>3. /\ attempt \in Attempt /\ attempt.requests = {id}
        /\ AttemptIsOfTheDocument /\ opened \in Links \cup {None}
    BY DEF Parts, PagesHold, AttemptIsOfTheDocument
  <1>4. StatusAfter(answer) \in {"success", "invalid", "rateLimited", "unknown"}
    BY DEF StatusAfter
  <1>5. /\ attempt'.requests = {} /\ attempt'.status = StatusAfter(answer)
        /\ attempt'.link \in {attempt.link, None} /\ attempt' \in Attempt
    BY <1>3, <1>4 DEF Settled, Attempt
  <1>6. /\ StatusAfter(answer) = "success" => answer = "ok"
        /\ StatusAfter(answer) = "invalid" => answer = "invalidLink"
    BY DEF StatusAfter
  <1>7. PagesHold'
    <2>1. OutcomesAreTrue'
      BY <1>5, <1>6 DEF OutcomesAreTrue, IsCurrent
    <2>2. AttemptIsOfTheDocument'
      BY <1>3, <1>5 DEF AttemptIsOfTheDocument
    <2> QED  BY <1>4, <1>5, <2>1, <2>2 DEF PagesHold, Parts
  <1>8. OnlyNewWaits
    BY <1>2, <1>5 DEF OnlyNewWaits
  <1> QED  BY <1>1, <1>2, <1>7, <1>8, AttemptMoves

LEMMA ConfirmSettles ==
    ASSUME Parts, ConfirmTimesOut \/ \E r \in wire : SettleConfirm(r)
    PROVE  Parts'
  <1>1. CASE ConfirmTimesOut
    <2>1. PICK id \in attempt.requests : attempt' = Settled(id, "none")
      BY <1>1 DEF ConfirmTimesOut
    <2> QED  BY <1>1, <2>1, SettlementKeeps DEF ConfirmTimesOut, wireVars
  <1>2. ASSUME NEW r \in wire, SettleConfirm(r) PROVE Parts'
    <2>1. /\ r.id \in attempt.requests /\ r.answer # None
          /\ attempt' = Settled(r.id, r.answer) /\ wire' = wire \ {r}
          /\ UNCHANGED <<fenceVars, sent, token, path, opened, resend>>
      BY <1>2 DEF SettleConfirm
    <2>2. r.op = "confirm" /\ r.link = opened /\ AnswerIsTrue(r) /\ r \in Command
      BY <2>1 DEF Parts, WireIsSound, ReachesItsPage
    <2>3. opened # None
      <3>1. opened \in DOMAIN token
        BY <2>2 DEF AnswerIsTrue
      <3>2. opened \in Nat
        BY <3>1 DEF Parts, TokensTyped
      <3> QED  BY <3>2, FenceAssumption
    <2>4. /\ r.answer = "ok" => token[opened] = "used"
          /\ r.answer = "invalidLink" => ~IsCurrent(opened)
      BY <2>1, <2>2 DEF AnswerIsTrue
    <2> QED  BY <2>1, <2>3, <2>4, SettlementKeeps
  <1> QED  BY <1>1, <1>2

-----------------------------------------------------------------------------
(* Every step, and the theorems.                                           *)

LEMMA InitHolds == Init => IInv
  <1> SUFFICES ASSUME Init PROVE Parts
    BY InvariantParts
  <1>1. /\ fenced = {} /\ wire = {} /\ sent = 0 /\ token = <<>> /\ opened = None
        /\ path = "/signup" /\ resend = NoResend /\ attempt = InitialAttempt(None)
    BY DEF Init
  <1>2. durable \in Durable
    BY FenceAssumption DEF Init, Durable
  <1>3. coordinator = Published(coordinator, durable, "none")
    BY DEF Init, NewCoordinator, Published
  <1>4. coordinator \in Coordinator /\ Coherent(coordinator)
    BY <1>2, <1>3, PublishedCoordinator
  <1>5. FenceHolds
    BY <1>1, <1>2, <1>4 DEF FenceHolds, FenceTyped, FencedAreOfTheRevision,
       ScreenIsOfTheRevision, Coherent
  <1>6. TokensTyped
    BY <1>1, LinksAssumption DEF TokensTyped
  <1>7. /\ attempt.link = None /\ attempt.requests = {} /\ attempt.status = "invalid"
        /\ attempt \in Attempt
    BY <1>1 DEF InitialAttempt, Attempt
  <1>8. PagesHold
    BY <1>1, <1>7, FenceAssumption DEF PagesHold, Paths, Resend, NoResend, OutcomesAreTrue,
       AttemptIsOfTheDocument
  <1> QED  BY <1>1, <1>5, <1>6, <1>8 DEF Parts, RequestsAreSent, WireIsSound

\* The steps that leave the fence's view of the session alone.
PageStep ==
    \/ ConfirmTimesOut \/ ResendTimesOut
    \/ Confirm \/ SubmitResend \/ CountdownEnds \/ Redirect \/ FollowLink \/ TokenExpires
    \/ \E r \in wire : SettleConfirm(r) \/ SettleResend(r) \/ ServeRegistration(r) \/ ServeConfirm(r)

LEMMA PageStepsKeep ==
    ASSUME Parts, PageStep
    PROVE  Parts' /\ UNCHANGED fenceVars
  <1>1. UNCHANGED fenceVars
    BY DEF PageStep, ConfirmTimesOut, ResendTimesOut, Confirm, SubmitResend, CountdownEnds,
       Redirect, FollowLink, TokenExpires, SettleConfirm, SettleResend, ServeRegistration,
       ServeConfirm
  <1> QED  BY <1>1, ConfirmSettles, ResendKeeps, ConfirmKeeps, RouteKeeps, ServersKeep,
              SettleResendKeeps DEF PageStep

LEMMA EveryStep ==
    ASSUME Next
    PROVE  \/ PageStep \/ FenceStep \/ OpenDocument \/ SubmitSignUp
           \/ \E o \in fenced : SignUpTimesOut(o) \/ \E r \in wire : SettleSignUp(o, r)
  BY DEF Next, Deadline, PageStep

LEMMA StepsKeep ==
    ASSUME Parts, [Next]_vars
    PROVE  Parts' /\ (ShowsTheBrowsers \/ UNCHANGED fenceVars)
  <1>1. CASE UNCHANGED vars
    <2>1. UNCHANGED <<fenceVars, durable, coordinator, fenced, wire, sent, token, path, opened,
                      attempt, resend>>
      BY <1>1 DEF vars, fenceVars, wireVars, pageVars
    <2>2. sent' \in Nat /\ sent' >= sent
      BY <2>1 DEF Parts
    <2>3. FenceHolds' /\ RequestsAreSent'
      BY <2>1, <2>2, FenceRests
    <2>4. TokensMove /\ path' \in Paths /\ resend' \in Resend
      BY <2>1, TokensRest DEF Parts, PagesHold
    <2> QED  BY <2>1, <2>2, <2>3, <2>4, AttemptUntouched
  <1>2. CASE Next
    BY <1>2, EveryStep, PageStepsKeep, FenceStepsKeep, OpenDocumentKeeps, SubmitSignUpKeeps,
       SignUpEnds
  <1> QED  BY <1>1, <1>2

LEMMA NextKeeps == IInv /\ [Next]_vars => IInv'
  <1>1. IInv' <=> Parts'
    BY InvariantParts, PTL
  <1> QED  BY <1>1, InvariantParts, StepsKeep

\* What the page says is true whatever answers are lost, late or of an earlier click: a
\* reported confirmation is the platform's, a given-up link cannot confirm, and a page
\* is only busy with a request of its own (ConfirmationAttempt, ConfirmEmailPage).
THEOREM PagesAreTruthful == Spec => []PageIsTruthful
  <1>1. IInv => PageIsTruthful
    BY DEF IInv
  <1> QED  BY <1>1, InitHolds, NextKeeps, PTL DEF Spec

\* No late answer overturns the definite outcome that a document has shown
\* (ConfirmationAttempt.settle).
THEOREM OutcomesStayFinal == Spec => OutcomesAreFinal
  <1>1. ASSUME IInv, [Next]_vars, attempt.status \in {"success", "invalid"}
        PROVE  \/ attempt' = attempt
               \/ fenced' = {} /\ attempt' = InitialAttempt(opened')
    <2>1. attempt.requests = {}
      BY <1>1, InvariantParts DEF Parts, PagesHold
    <2>2. CASE UNCHANGED vars
      BY <2>2 DEF vars, pageVars
    <2>3. CASE FenceStep \/ SubmitSignUp
      BY <2>3 DEF FenceStep, SubmitSignUp, pageVars
    <2>4. CASE OpenDocument
      BY <2>4 DEF OpenDocument
    <2>5. CASE \E o \in fenced : SignUpTimesOut(o) \/ \E r \in wire : SettleSignUp(o, r)
      BY <2>5 DEF SignUpTimesOut, SettleSignUp, pageVars, GoTo
    <2>6. CASE PageStep
      <3>1. ~Confirm /\ ~ConfirmTimesOut /\ \A r : ~SettleConfirm(r)
        BY <1>1, <2>1 DEF Confirm, CanConfirm, ConfirmTimesOut, SettleConfirm
      <3> QED  BY <2>6, <3>1 DEF PageStep, ResendTimesOut, SubmitResend, CountdownEnds, Redirect,
                  FollowLink, GoTo, TokenExpires, SettleResend, ServeRegistration, ServeConfirm,
                  pageVars
    <2> QED  BY <1>1, <2>2, <2>3, <2>4, <2>5, <2>6, EveryStep
  <1>2. IInv /\ [Next]_vars =>
          [attempt.status \in {"success", "invalid"} =>
             \/ attempt' = attempt
             \/ fenced' = {} /\ attempt' = InitialAttempt(opened')]_vars
    BY <1>1
  <1> QED  BY <1>2, InitHolds, NextKeeps, PTL DEF Spec, OutcomesAreFinal

\* The mailbox page follows an accepted sign-up of the browser's present generation.
LEMMA PendingIsEarned ==
    ASSUME Parts, Next, NEW o \in fenced, o \notin fenced', o.kind = "signUp",
           path' # path, path' = "/registration-pending"
    PROVE  Registered /\ o.version = durable.version /\ ~o.overtaken
  <1>1. fenced' # fenced
    OBVIOUS
  <1>2. ~PageStep
    BY <1>1, PageStepsKeep DEF fenceVars
  <1>3. ~FenceStep /\ ~SubmitSignUp
    BY DEF FenceStep, SubmitSignUp, pageVars
  <1>4. ~OpenDocument
    BY DEF OpenDocument
  <1>5. PICK p \in fenced : SignUpTimesOut(p) \/ \E r \in wire : SettleSignUp(p, r)
    BY <1>2, <1>3, <1>4, EveryStep
  <1>6. PICK r \in wire : SettleSignUp(p, r)
    BY <1>5 DEF SignUpTimesOut, pageVars
  <1>7. /\ coordinator.seen = durable /\ Accepts(coordinator, p, r.answer)
        /\ p.kind = "signUp" /\ r.id = p.request /\ r.answer # None
    BY <1>6 DEF SettleSignUp, pageVars
  <1>8. o = p /\ o.version = coordinator.seen.version
    BY <1>7 DEF Parts, FenceHolds, FencedAreOfTheRevision
  <1>9. r.answer = "ok" /\ ~p.overtaken
    BY <1>7 DEF Accepts
  <1>10. r.op = "signUp" /\ AnswerIsTrue(r)
    BY <1>7 DEF Parts, WireIsSound, ReachesItsPage
  <1>11. Registered
    BY <1>7, <1>9, <1>10 DEF AnswerIsTrue
  <1> QED  BY <1>7, <1>8, <1>9, <1>11

\* What is shown belongs to one generation of the session, the browser's when it came to
\* the screen: identity, inbox rows, and the page that follows a sign-up, whatever other
\* tabs do meanwhile (session-fence-link, SignUpPage).
THEOREM GenerationsStayApart == Spec => GenerationsAreKept
  <1>1. IInv /\ [Next]_vars =>
          [LET c == coordinator' IN
             /\ c.identity # None => c.identity = c.seen.version /\ Readable(c)
             /\ c.rows # None => c.rows = c.identity /\ c.failure = "none"
             /\ c.identity \notin {None, coordinator.identity} =>
                   c.identity = durable.version
             /\ c.rows \notin {None, coordinator.rows} =>
                   c.rows = durable.version]_fenceVars
    <2> SUFFICES ASSUME IInv, [Next]_vars, ~UNCHANGED fenceVars
                 PROVE  ShowsTheBrowsers /\ Coherent(coordinator')
      BY DEF ShowsTheBrowsers, Coherent
    <2>1. ShowsTheBrowsers /\ Parts'
      BY InvariantParts, StepsKeep
    <2>2. Coherent(coordinator')
      BY <2>1 DEF Parts, FenceHolds, ScreenIsOfTheRevision, Coherent, Readable
    <2> QED  BY <2>1, <2>2
  <1>2. IInv /\ [Next]_vars =>
          [\A o \in fenced :
             (o \notin fenced' /\ o.kind = "signUp" /\ path' # path
                /\ path' = "/registration-pending") =>
                /\ Registered
                /\ o.version = durable.version /\ ~o.overtaken]_vars
    BY InvariantParts, PendingIsEarned
  <1>3. Spec => ScreenIsOfOneGeneration
    BY <1>1, InitHolds, NextKeeps, PTL DEF Spec, ScreenIsOfOneGeneration
  <1>4. Spec => PendingPageIsEarned
    BY <1>2, InitHolds, NextKeeps, PTL DEF Spec, PendingPageIsEarned
  <1> QED  BY <1>3, <1>4 DEF GenerationsAreKept
=============================================================================
