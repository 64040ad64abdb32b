---------------------------- MODULE ArtifactStorage ----------------------------
(***************************************************************************)
(* The Platform's S3 adapter: getObject, headObject, verifyObject and      *)
(* writeObject of storage/s3-artifact-storage.                             *)
(*                                                                         *)
(* One key and the callers that use it at the same time.  An operation is  *)
(* one request to the provider and the judgement on its answer; a write is *)
(* two, a head and then a conditional put.  The provider may answer late,  *)
(* not at all or with an error, may carry out a put whose caller has given *)
(* up or whose condition no longer holds (Garage does not enforce          *)
(* If-None-Match atomically), may send a damaged or cut body, and may hold *)
(* an object that someone else stored there without the adapter's metadata.*)
(*                                                                         *)
(* A body is a member of Bodies and its own digest; all have one length    *)
(* but Cut, which is shorter.  Telemetry is left out, locations are either *)
(* the configured bucket's or not.                                         *)
(***************************************************************************)
EXTENDS Naturals

CONSTANTS
    Clients,
    Bodies,     \* bodies of full length
    Cut,        \* a body that lost its end
    Nothing     \* no object; no metadata

Code == {"already_exists", "integrity_mismatch", "invalid_location",
         "invalid_response", "not_found", "unavailable"}
StoredObject == [body : Bodies \cup {Cut}, sha256 : Bodies \cup {Nothing}, length : {2}]

ASSUME AdapterAssumption ==
    /\ Cut \notin Bodies /\ Nothing \notin Bodies \cup {Cut}
    /\ Nothing \notin StoredObject
    /\ Nothing \notin [code : Code \cup {"ok"}, body : Bodies \cup {Cut, Nothing}]

VARIABLES
    object,     \* the provider's object: body and declared sha256 and length
    call,       \* per caller: [pc, op, own, body, answer, taken]; taken: the key was in
                \* use before the call (history)
    puts,       \* puts on their way to the provider
    written,    \* bodies that a put has stored under the key (history)
    accidents   \* bound on what goes wrong at the provider

adapterVars == <<object, call, puts, written, accidents>>

Operation == {"get", "head", "verify", "write"}
Length(body) == IF body = Cut THEN 1 ELSE 2
digest(body) == body
Idle == [pc |-> "idle", op |-> "get", own |-> TRUE, body |-> Nothing, answer |-> Nothing,
         taken |-> FALSE]
Stored(body) == [body |-> body, sha256 |-> digest(body), length |-> Length(body)]

AdapterInit ==
    /\ object = Nothing /\ puts = {} /\ written = {} /\ accidents = 0
    /\ call = [c \in Clients |-> Idle]

Answer(c, answer) == call' = [call EXCEPT ![c].pc = "answered", ![c].answer = answer]
Fails(c, code) == Answer(c, [code |-> code, body |-> Nothing])
Succeeds(c, body) == Answer(c, [code |-> "ok", body |-> body])

\* The bucket must be the configured one, the key one of this object; what is
\* verified is what the database row says, what is written is never empty.
Invoke(c) ==
    /\ call[c].pc = "idle"
    /\ \E op \in Operation, own \in BOOLEAN :
       \E body \in IF op \in {"verify", "write"} THEN Bodies ELSE {Nothing} :
          call' = [call EXCEPT ![c] =
                     [Idle EXCEPT !.op = op, !.own = own, !.body = body, !.pc = "asserted",
                                  !.taken = object # Nothing]]
    /\ UNCHANGED <<object, puts, written, accidents>>

\* The provider's metadata is accepted when complete.
metadata(response) == response.sha256 # Nothing /\ response.length > 0

\* What arrives of the stored body.
Arriving(body) == {body} \union (IF accidents = 0 THEN {Cut} ELSE {})

\* A bug for comparison: a verification trusts the declared length and digest.
ReadTrusting(c) ==
    /\ call[c].pc = "asserted" /\ call[c].op \in {"get", "verify"}
    /\ \/ call[c].own /\ object = Nothing /\ Fails(c, "not_found")
       \/ /\ call[c].own /\ object # Nothing
          /\ IF call[c].op = "verify" /\ object.sha256 # digest(call[c].body)
             THEN Fails(c, "integrity_mismatch") ELSE Succeeds(c, object.body)
    /\ UNCHANGED <<object, puts, written, accidents>>

\* getObject and verifyObject judge the whole body: it must be as long as the
\* answer declares and hash to what the answer declares; a verification also
\* wants both to be what the caller expects.
Read(c) ==
    /\ call[c].pc = "asserted" /\ call[c].op \in {"get", "verify"}
    /\ \/ ~call[c].own /\ Fails(c, "invalid_location") /\ UNCHANGED accidents
       \/ call[c].own /\ Fails(c, "unavailable") /\ UNCHANGED accidents
       \/ call[c].own /\ object = Nothing /\ Fails(c, "not_found") /\ UNCHANGED accidents
       \/ /\ call[c].own /\ object # Nothing
          /\ \E body \in Arriving(object.body) :
                /\ accidents' = accidents + (IF body = object.body THEN 0 ELSE 1)
                /\ IF ~metadata(object) THEN Fails(c, "invalid_response")
                   ELSE IF \/ Length(body) # object.length \/ digest(body) # object.sha256
                           \/ /\ call[c].op = "verify"
                              /\ \/ object.length # Length(call[c].body)
                                 \/ object.sha256 # digest(call[c].body)
                        THEN Fails(c, "integrity_mismatch")
                   ELSE Succeeds(c, body)
    /\ UNCHANGED <<object, puts, written>>

\* A bug for comparison: a write leaves it to the put's condition.
headTrusting(c) ==
    /\ call[c].pc = "asserted" /\ call[c].op = "write"
    /\ call' = [call EXCEPT ![c].pc = "put"]
    /\ UNCHANGED <<object, puts, written, accidents>>

\* headObject, and the look before a write: a write goes on only after a clear
\* "not found".
head(c) ==
    /\ call[c].pc = "asserted" /\ call[c].op \in {"head", "write"}
    /\ \/ ~call[c].own /\ Fails(c, "invalid_location")
       \/ call[c].own /\ Fails(c, "unavailable")
       \/ /\ call[c].own /\ object = Nothing
          /\ IF call[c].op = "head" THEN Fails(c, "not_found")
             ELSE call' = [call EXCEPT ![c].pc = "put"]
       \/ /\ call[c].own /\ object # Nothing
          /\ IF ~metadata(object) THEN Fails(c, "invalid_response")
             ELSE IF call[c].op = "write" THEN Fails(c, "already_exists")
             ELSE Succeeds(c, Nothing)
    /\ UNCHANGED <<object, puts, written, accidents>>

SendPut(c) ==
    /\ call[c].pc = "put"
    /\ puts' = puts \union {[caller |-> c, body |-> call[c].body, awaited |-> TRUE]}
    /\ call' = [call EXCEPT ![c].pc = "waiting"]
    /\ UNCHANGED <<object, written, accidents>>

\* If-None-Match is no authority: over an object that exists by then a put is
\* refused with 412, or stored all the same; one that meets another put of the
\* key under way may be refused with 409.  mapError turns both into
\* already_exists.
ServePut(p) ==
    /\ puts' = puts \ {p}
    /\ \/ /\ object' = Stored(p.body) /\ written' = written \union {p.body}
          /\ IF p.awaited THEN Succeeds(p.caller, p.body) ELSE UNCHANGED call
       \/ /\ object # Nothing \/ puts # {p}
          /\ UNCHANGED <<object, written>>
          /\ IF p.awaited THEN Fails(p.caller, "already_exists") ELSE UNCHANGED call
    /\ UNCHANGED accidents

\* The request times out or its answer is lost; the put may still be served.
GiveUp(c) ==
    /\ call[c].pc = "waiting"
    /\ Fails(c, "unavailable")
    /\ puts' = {[p EXCEPT !.awaited = @ /\ p.caller # c] : p \in puts}
    /\ UNCHANGED <<object, written, accidents>>

Release(c) ==
    /\ call[c].pc = "answered"
    /\ call' = [call EXCEPT ![c] = Idle]
    /\ UNCHANGED <<object, puts, written, accidents>>

\* Bytes rot, or someone stores an object by other means.
Accident ==
    /\ accidents = 0 /\ accidents' = 1
    /\ \/ object # Nothing /\ \E b \in Bodies \union {Cut} : object' = [object EXCEPT !.body = b]
       \/ /\ object = Nothing
          /\ \E b \in Bodies : object' = [Stored(b) EXCEPT !.sha256 = Nothing]
    /\ UNCHANGED <<call, puts, written>>

AdapterNext ==
    \/ \E c \in Clients :
          Invoke(c) \/ Read(c) \/ head(c) \/ SendPut(c) \/ GiveUp(c) \/ Release(c)
    \/ \E p \in puts : ServePut(p)
    \/ Accident

AdapterSpec == AdapterInit /\ [][AdapterNext]_adapterVars

-----------------------------------------------------------------------------
Answered(c, op) == call[c].pc = "answered" /\ call[c].op = op
Ok(c) == call[c].answer.code = "ok"

\* A success vouches for its bytes, whatever the provider did to them: what a get
\* returns and what a verification confirms is whole and was stored here by a put
\* that declared it, the verification's is what its caller expected, and what a
\* write reports was stored.  Writing is write-once for all who come later: a write
\* that begins when the key is in use is never told of success.  "Already exists"
\* is only said of a key that has, or is about to have, an object (getObject,
\* verifyObject, writeObject, mapError).
SuccessVouches ==
    \A c \in Clients :
       /\ Answered(c, "get") /\ Ok(c) => call[c].answer.body \in written
       /\ Answered(c, "verify") /\ Ok(c) =>
             call[c].answer.body \in written /\ call[c].answer.body = call[c].body
       /\ Answered(c, "write") /\ Ok(c) => call[c].body \in written /\ ~call[c].taken
       /\ call[c].pc = "answered" /\ call[c].answer.code = "already_exists" =>
             call[c].op = "write" /\ (object # Nothing \/ puts # {})

-----------------------------------------------------------------------------
(* Why they hold: the inductive invariant. *)

CallRecord ==
    [pc : {"idle", "asserted", "put", "waiting", "answered"}, op : Operation, own : BOOLEAN,
     body : Bodies \cup {Nothing},
     answer : [code : Code \cup {"ok"}, body : Bodies \cup {Cut, Nothing}] \cup {Nothing},
     taken : BOOLEAN]

AdapterTypeOK ==
    /\ object \in StoredObject \cup {Nothing}
    /\ call \in [Clients -> CallRecord]
    /\ puts \subseteq [caller : Clients, body : Bodies, awaited : BOOLEAN]
    /\ written \subseteq Bodies

\* A put is awaited by the one call that sent it, for the body it was given.
PutsAreAwaitedOnce ==
    /\ \A p \in puts : p.awaited =>
          call[p.caller].pc = "waiting" /\ p.body = call[p.caller].body
    /\ \A p, q \in puts : p.awaited /\ q.awaited /\ p.caller = q.caller => p = q

WritersHaveBodies ==
    \A c \in Clients :
       /\ call[c].pc \in {"put", "waiting"} => call[c].op = "write"
       /\ call[c].pc # "idle" /\ call[c].op \in {"verify", "write"} => call[c].body \in Bodies

\* What the provider declares, a put has stored.
DigestsAreWritten == object # Nothing => object.sha256 \in written \cup {Nothing}

\* The object of a call that found the key in use is there for good, and keeps its
\* caller from putting another.
TakenStaysTaken ==
    \A c \in Clients :
       call[c].taken => object # Nothing /\ call[c].pc \notin {"put", "waiting"}

AdapterInv ==
    /\ AdapterTypeOK /\ PutsAreAwaitedOnce /\ WritersHaveBodies
    /\ DigestsAreWritten /\ TakenStaysTaken /\ SuccessVouches
=============================================================================
