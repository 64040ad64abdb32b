---------------------------- MODULE MailDispatcher ----------------------------
(***************************************************************************)
(* BoundedMailDispatcher of the platform service and the SMTP attempts it  *)
(* owns: a bounded queue, a bounded set of workers, a deadline for each,   *)
(* results that race it, cancellations that may fail, and shutdown.        *)
(*                                                                         *)
(* Abstractions.  Mails are valid messages, each enqueued at most once.    *)
(* A transport that breaks its contract is one whose start throws, or      *)
(* whose cancel throws and leaves the connection open; an attempt that     *)
(* ends by itself closes it.  Reports are left out.                        *)
(***************************************************************************)
EXTENDS Integers, Sequences, FiniteSets

CONSTANTS
    Mails,
    ActiveLimit, WaitingLimit \* MAIL_LIMITS.ACTIVE and WAITING

ASSUME MailAssumption ==
    /\ IsFiniteSet(Mails)
    /\ ActiveLimit \in Nat \ {0}
    /\ WaitingLimit \in Nat \ {0}

VARIABLES
    stopped,
    waiting, active, \* mails in the queue, and those a worker has
    mail,            \* the receipt of each mail: admission, then outcome
    connection,      \* of the attempt of each mail
    result           \* what its attempt has resolved to

mailVars == <<stopped, waiting, active, mail, connection, result>>

Results == {"sent", "smtp-failed", "timeout"}
Receipts == {"new", "refused", "queued", "stopped"} \cup Results
Phases == {"connecting", "session", "submitting"}
Connections == {"none", "leaked", "closed"} \cup Phases

Open(m) == connection[m] \in Phases \cup {"leaked"}

\* Mutant: a mail is settled again by whatever comes later.
SettledTwice(m) == mail[m] = "new"

Settled(m) == mail[m] # "queued"

-----------------------------------------------------------------------------
(* The dispatcher.  Each action is one synchronous call. *)

WorkersFree(a) == Cardinality(a) < ActiveLimit

\* dispatchWaiting, from queue w, workers a, receipts r and connections c:
\* the first n mails are taken; for those in "failing" start throws, which
\* settles them and frees their worker for the next.
DispatchWaiting(w, a, r, c) ==
    \E n \in 0..Len(w) :
        LET taken == {w[i] : i \in 1..n} IN
        \E failing \in SUBSET taken :
            LET workers == a \cup (taken \ failing) IN
            /\ \A i \in 1..n :
                  WorkersFree(a \cup ({w[j] : j \in 1..(i - 1)} \ failing))
            /\ n < Len(w) => ~WorkersFree(workers)
            /\ waiting' = SubSeq(w, n + 1, Len(w))
            /\ active' = workers
            /\ mail' = [m \in Mails |-> IF m \in failing THEN "smtp-failed" ELSE r[m]]
            /\ connection' = [m \in Mails |-> IF m \in taken \ failing
                                              THEN "connecting" ELSE c[m]]

EnqueueMail(m) ==
    /\ mail[m] = "new"
    /\ IF stopped \/ Len(waiting) >= WaitingLimit
       THEN /\ mail' = [mail EXCEPT ![m] = "refused"]
            /\ UNCHANGED <<waiting, active, connection>>
       ELSE DispatchWaiting(Append(waiting, m), active,
                            [mail EXCEPT ![m] = "queued"], connection)
    /\ UNCHANGED <<stopped, result>>

\* The attempts of S are cancelled; those of "broken" throw and stay open.
Cancelled(S, broken) ==
    [m \in Mails |-> IF m \in broken THEN "leaked"
                     ELSE IF m \in S /\ Open(m) THEN "closed"
                     ELSE connection[m]]

\* onApplicationShutdown, some receipts r being settled already.
StopAll(r, broken) ==
    /\ broken \subseteq {m \in active : Open(m)}
    /\ stopped' = TRUE
    /\ waiting' = <<>>
    /\ active' = {}
    /\ mail' = [m \in Mails |-> IF r[m] = "queued" THEN "stopped" ELSE r[m]]
    /\ connection' = Cancelled(active, broken)

\* Mutant: a failed cancellation is ignored.
CancelFailsQuietly(m) ==
    /\ DispatchWaiting(waiting, active \ {m},
                       [mail EXCEPT ![m] = "smtp-failed"], Cancelled({m}, {m}))
    /\ UNCHANGED stopped

\* The cancellation of m fails: its connection may live on, so nothing else
\* is ever started.
CancelFails(m) ==
    \E broken \in SUBSET active :
        m \in broken /\ StopAll([mail EXCEPT ![m] = "smtp-failed"], broken)

CancelSucceeds(m, outcome) ==
    /\ DispatchWaiting(waiting, active \ {m}, [mail EXCEPT ![m] = outcome],
                       Cancelled({m}, {}))
    /\ UNCHANGED stopped

\* finish
Finish(m, outcome) ==
    /\ ~Settled(m)
    /\ CancelSucceeds(m, outcome) \/ (Open(m) /\ CancelFails(m))
    /\ UNCHANGED result

\* Mutant: the deadline is forgotten once the message is being submitted.
DeadlineBeforeSubmission(m) ==
    m \in active /\ connection[m] # "submitting" /\ Finish(m, "timeout")

Deadline(m) == m \in active /\ Finish(m, "timeout")

HearResult(m) == result[m] # "none" /\ Finish(m, result[m])

OnApplicationShutdown ==
    /\ \E broken \in SUBSET active : StopAll(mail, broken)
    /\ UNCHANGED result

-----------------------------------------------------------------------------
(* SmtpMailAttempt. *)

Advance(m, from, to) ==
    /\ connection[m] = from
    /\ connection' = [connection EXCEPT ![m] = to]
    /\ UNCHANGED <<stopped, waiting, active, mail>>

Connected(m) == Advance(m, "connecting", "session") /\ UNCHANGED result

\* Greeting, STARTTLS and login are done.
Authenticated(m) == Advance(m, "session", "submitting") /\ UNCHANGED result

Resolve(m, r) == result' = [result EXCEPT ![m] = r]

Submitted(m) == Advance(m, "submitting", "closed") /\ Resolve(m, "sent")

\* An error, an early end, or a phase timeout.
Fail(m) ==
    \E phase \in Phases, r \in {"smtp-failed", "timeout"} :
        Advance(m, phase, "closed") /\ Resolve(m, r)

-----------------------------------------------------------------------------
MailInit ==
    /\ stopped = FALSE
    /\ waiting = <<>>
    /\ active = {}
    /\ mail = [m \in Mails |-> "new"]
    /\ connection = [m \in Mails |-> "none"]
    /\ result = [m \in Mails |-> "none"]

MailNext ==
    \/ \E m \in Mails :
          \/ EnqueueMail(m) \/ Deadline(m) \/ HearResult(m)
          \/ Connected(m) \/ Authenticated(m) \/ Submitted(m) \/ Fail(m)
    \/ OnApplicationShutdown

MailSpec == MailInit /\ [][MailNext]_mailVars

\* Timers fire; nothing is assumed of the SMTP server.
MailFairSpec == MailSpec /\ \A m \in Mails : WF_mailVars(Deadline(m))
-----------------------------------------------------------------------------
(* Properties *)

MailTypeOK ==
    /\ stopped \in BOOLEAN
    /\ waiting \in Seq(Mails)
    /\ active \subseteq Mails
    /\ mail \in [Mails -> Receipts]
    /\ connection \in [Mails -> Connections]
    /\ result \in [Mails -> Results \cup {"none"}]
    /\ Len(waiting) <= WaitingLimit
    /\ Cardinality(active) <= ActiveLimit

\* There are never more open connections than workers, those that a failed
\* cancellation has left behind included (docs/platform-mail.md: "rather than
\* risk exceeding physical concurrency limits").
ConnectionsAreBounded == Cardinality({m \in Mails : Open(m)}) <= ActiveLimit

\* A mail waits only while every worker is busy, and everything queued or in
\* a worker's hands is one unsettled mail: no wake-up is lost, no worker slot
\* is kept by a mail that has been settled, nothing is sent twice.
WaitingMeansBusy ==
    /\ waiting # <<>> => Cardinality(active) = ActiveLimit /\ ~stopped
    /\ {m \in Mails : ~Settled(m)} = active \cup {waiting[i] : i \in 1..Len(waiting)}
    /\ \A i, j \in 1..Len(waiting) : waiting[i] = waiting[j] => i = j
    /\ \A i \in 1..Len(waiting) : waiting[i] \notin active

\* The dispatcher's bounds and its books: connections, the queue, what each worker has.
MailIsBounded == MailTypeOK /\ ConnectionsAreBounded /\ WaitingMeansBusy

\* Of a deadline, a late result, a failed cancellation and a shutdown, the
\* first one decides: an outcome is final.
SettledOnce ==
    [][\A m \in Mails :
          mail[m] \notin {"new", "queued"} => mail'[m] = mail[m]]_mailVars

-----------------------------------------------------------------------------
(* Why they hold: the inductive invariant. *)

\* What has not been given to a worker has no attempt yet.
AttemptsAreTheWorkers ==
    \A m \in Mails :
        mail[m] = "new" \/ (\E i \in 1..Len(waiting) : waiting[i] = m) =>
            connection[m] = "none" /\ result[m] = "none"

\* Until it stops, the dispatcher has a worker for every open connection;
\* then it has neither workers nor a queue, for good.
WorkersOwnConnections ==
    IF stopped THEN active = {} /\ waiting = <<>>
    ELSE \A m \in Mails : Open(m) => m \in active

MailInv == MailIsBounded /\ AttemptsAreTheWorkers /\ WorkersOwnConnections
-----------------------------------------------------------------------------
\* Every mail that was admitted is settled, whatever the server does (Mails
\* is finite, so there comes a time when none is left).
QueuedIsSettled == []<>(\A m \in Mails : Settled(m))
=============================================================================
