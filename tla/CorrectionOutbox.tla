--------------------------- MODULE CorrectionOutbox ---------------------------
(***************************************************************************)
(* The relay of corrected-document events: rows of correction_event_outbox *)
(* are sent to a RabbitMQ queue by the gateway, by the call that submitted *)
(* the correction and by a timer, each row in its own few steps.           *)
(*                                                                         *)
(* A row is known by its place in the order of creation.  attempts and     *)
(* lastError, which nothing reads, are left out.                           *)
(***************************************************************************)
EXTENDS Integers, Sequences, FiniteSets

CONSTANTS
    Callers,     \* concurrent calls of the gateway
    Timer,       \* the asynchronous flush of the relay's interval
    BatchSize,   \* rows of one scan (take)
    MaxEvents,   \* bound on rows
    MaxFaults    \* bound on crashes, lost connections and failed row saves

ASSUME OutboxAssumption ==
    /\ Timer \notin Callers
    /\ {MaxEvents, MaxFaults} \subseteq Nat
    /\ BatchSize \in Nat \ {0}

Agents == Callers \cup {Timer}

VARIABLES
    outbox,   \* of each row: its status
    own,      \* of each call: the row it has committed and not flushed yet, or 0
    flush,    \* of each agent: the rows it still has to flush, and its step
    gateway,  \* "up", "disconnected" (no channel to the broker) or "down"
    wire,     \* rows sent on the channel and not yet with the broker
    queue,    \* rows in the durable queue
    lost,     \* rows sent on a channel that went away under them
    faults

vars == <<outbox, own, flush, gateway, wire, queue, lost, faults>>
brokerVars == <<wire, queue, lost>>

Idle == [rows |-> <<>>, step |-> "idle"]

Init ==
    /\ outbox = <<>>
    /\ own = [c \in Callers |-> 0]
    /\ flush = [a \in Agents |-> Idle]
    /\ gateway = "up"
    /\ wire = {} /\ queue = {} /\ lost = {}
    /\ faults = 0

isFlushing == flush[Timer].step # "idle"

Unpublished == {r \in DOMAIN outbox : outbox[r] # "published"}

\* orderBy createdAt, take BatchSize
Oldest(rows) ==
    LET place(r) == Cardinality({q \in rows : q <= r})
        size == IF Cardinality(rows) < BatchSize THEN Cardinality(rows) ELSE BatchSize
    IN  [i \in 1..size |-> CHOOSE r \in rows : place(r) = i]

\* The rows an agent has read, to be flushed one after the other.
FlushRows(a, rows) == flush' = [flush EXCEPT ![a] = [rows |-> rows, step |-> "publish"]]

\* The transaction of submitCorrections commits a row.
Enqueue(c) ==
    /\ gateway # "down"
    /\ own[c] = 0 /\ flush[c] = Idle
    /\ Len(outbox) < MaxEvents
    /\ outbox' = Append(outbox, "pending")
    /\ own' = [own EXCEPT ![c] = Len(outbox) + 1]
    /\ UNCHANGED <<flush, gateway, brokerVars, faults>>

\* flushOutboxByIds, after the commit: the row is read, and skipped if the
\* timer's flush has published it meanwhile.  The read may fail.
FlushOwnRow(c) ==
    /\ gateway # "down"
    /\ own[c] # 0
    /\ \/ outbox[own[c]] # "published" /\ FlushRows(c, <<own[c]>>)
       \/ UNCHANGED flush
    /\ own' = [own EXCEPT ![c] = 0]
    /\ UNCHANGED <<outbox, gateway, brokerVars, faults>>

\* A tick of the interval, unless the flush of an earlier tick is not over.
FlushPendingOutbox ==
    /\ gateway # "down"
    /\ ~isFlushing
    /\ Unpublished # {}
    /\ FlushRows(Timer, Oldest(Unpublished))
    /\ UNCHANGED <<outbox, own, gateway, brokerVars, faults>>

InStep(a, step) == gateway # "down" /\ flush[a].step = step

Row(a) == Head(flush[a].rows)

EnterStep(a, step) == flush' = [flush EXCEPT ![a].step = step]

NextRow(a) ==
    flush' = [flush EXCEPT ![a] =
        IF Len(@.rows) = 1 THEN Idle ELSE [rows |-> Tail(@.rows), step |-> "publish"]]

SetStatus(r, status) == outbox' = [outbox EXCEPT ![r] = status]

\* Mutant: published is recorded before the message is sent.
PublishAfterSave(a) ==
    /\ InStep(a, "publish")
    /\ gateway = "up"
    /\ SetStatus(Row(a), "published")
    /\ wire' = wire
    /\ EnterStep(a, "save")
    /\ UNCHANGED <<own, gateway, queue, lost, faults>>

\* sendToQueue writes to the channel and does not wait for the broker.
Publish(a) ==
    /\ InStep(a, "publish")
    /\ gateway = "up"
    /\ wire' = wire \cup {Row(a)}
    /\ EnterStep(a, "save")
    /\ UNCHANGED <<outbox, own, gateway, queue, lost, faults>>

\* getChannel throws: the channel is gone, and nothing connects again.
PublishFails(a) ==
    /\ InStep(a, "publish")
    /\ gateway = "disconnected"
    /\ EnterStep(a, "saveFailure")
    /\ UNCHANGED <<outbox, own, gateway, brokerVars, faults>>

SavePublished(a) ==
    /\ InStep(a, "save")
    /\ SetStatus(Row(a), "published")
    /\ NextRow(a)
    /\ UNCHANGED <<own, gateway, brokerVars, faults>>

\* The save is answered with an error, and may have been done.
SavePublishedFails(a) ==
    /\ InStep(a, "save")
    /\ faults < MaxFaults
    /\ faults' = faults + 1
    /\ outbox' = outbox \/ SetStatus(Row(a), "published")
    /\ EnterStep(a, "saveFailure")
    /\ UNCHANGED <<own, gateway, brokerVars>>

SaveFailure(a) ==
    /\ InStep(a, "saveFailure")
    /\ SetStatus(Row(a), "failed")
    /\ NextRow(a)
    /\ UNCHANGED <<own, gateway, brokerVars, faults>>

\* The rejection leaves the loop; submitCorrections catches it.
SaveFailureFails(c) ==
    /\ c \in Callers
    /\ InStep(c, "saveFailure")
    /\ faults < MaxFaults
    /\ faults' = faults + 1
    /\ flush' = [flush EXCEPT ![c] = Idle]
    /\ UNCHANGED <<outbox, own, gateway, brokerVars>>

FlushStep(a) ==
    \/ Publish(a) \/ PublishFails(a) \/ SavePublished(a) \/ SavePublishedFails(a)
    \/ SaveFailure(a) \/ SaveFailureFails(a)

-----------------------------------------------------------------------------
(* The broker, its connection and the process.                             *)

Deliver(r) ==
    /\ gateway = "up"
    /\ r \in wire
    /\ wire' = wire \ {r}
    /\ queue' = queue \cup {r}
    /\ UNCHANGED <<outbox, own, flush, gateway, lost, faults>>

ConnectionIsLost ==
    /\ lost' = lost \cup wire
    /\ wire' = {}
    /\ UNCHANGED queue

\* The connection's close event: channel = null.
ConnectionCloses ==
    /\ gateway = "up"
    /\ faults < MaxFaults
    /\ faults' = faults + 1
    /\ gateway' = "disconnected"
    /\ ConnectionIsLost
    /\ UNCHANGED <<outbox, own, flush>>

\* The process ends: by a crash, or by the unhandled rejection of a timer's
\* flush (its scan or the save of a failure failed).
Exit ==
    /\ gateway # "down"
    /\ faults < MaxFaults
    /\ faults' = faults + 1
    /\ gateway' = "down"
    /\ flush' = [a \in Agents |-> Idle]
    /\ ConnectionIsLost
    /\ own' = [c \in Callers |-> 0]
    /\ UNCHANGED outbox

\* connect() of onModuleInit has succeeded; without it the process ends again.
Start ==
    /\ gateway = "down"
    /\ gateway' = "up"
    /\ UNCHANGED <<outbox, own, flush, brokerVars, faults>>

Next ==
    \/ \E c \in Callers : Enqueue(c) \/ FlushOwnRow(c)
    \/ \E a \in Agents : FlushStep(a)
    \/ FlushPendingOutbox
    \/ \E r \in wire : Deliver(r)
    \/ ConnectionCloses \/ Exit \/ Start

Spec == Init /\ [][Next]_vars

\* The event loop runs the interval's timer and resolves what a flush awaits.
\* Nobody is bound to restart the gateway or the connection.
FairSpec == Spec /\ WF_vars(FlushPendingOutbox) /\ \A a \in Agents : WF_vars(FlushStep(a))

-----------------------------------------------------------------------------
\* Types; an agent has rows to flush, which exist, exactly while it flushes.
TypeOK ==
    /\ outbox \in Seq({"pending", "failed", "published"})
    /\ own \in [Callers -> 0..Len(outbox)]
    /\ flush \in [Agents -> [rows : Seq(1..Len(outbox)),
                             step : {"idle", "publish", "save", "saveFailure"}]]
    /\ \A a \in Agents : flush[a].rows = <<>> <=> flush[a].step = "idle"
    /\ gateway \in {"up", "disconnected", "down"}
    /\ {wire, queue, lost} \subseteq SUBSET DOMAIN outbox
    /\ faults \in 0..MaxFaults

Sent == wire \cup queue \cup lost

\* A row is published only if its event was sent, whichever of the flushes
\* that work on the row at once has saved it last.
PublishedWasSent == \A r \in DOMAIN outbox : outbox[r] = "published" => r \in Sent

\* What is checked, and proved in RecoveryProofs, of every state.
OutboxIsSound == TypeOK /\ PublishedWasSent

\* The inductive invariant: whoever is about to record a publication has sent
\* the event.
SentInv ==
    /\ flush = [a \in Agents |-> [rows |-> flush[a].rows, step |-> flush[a].step]]
    /\ outbox \in Seq({"pending", "failed", "published"})
    /\ \A a \in Agents : flush[a].step = "save" => Row(a) \in Sent
    /\ PublishedWasSent

\* Every committed event is published for good, if the gateway is up and
\* connected from some time on: a crash, a failed save, or a stale failure
\* saved over a publication only delays it (MaxEvents bounds the rows, so
\* there comes a time when all are published).
EventsArePublished == <>[](gateway = "up") => <>[](Unpublished = {})
=============================================================================
