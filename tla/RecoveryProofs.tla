---------------------------- MODULE RecoveryProofs ----------------------------
(***************************************************************************)
(* What fails and is cleaned up: the mail dispatcher keeps its bounds and  *)
(* its books and settles every mail at most once, for any mails and        *)
(* limits; a live verification keeps its ledger until nothing is left; a   *)
(* bootstrap of the object store that reports ready has isolated its       *)
(* services, and is refused for a cause only.                              *)
(*                                                                         *)
(* The dispatcher.  Two calls change it: DispatchWaiting, after a mail has *)
(* been admitted or settled, and StopAll.  Each has a lemma that           *)
(* establishes the invariant from what its callers hand it; the steps of   *)
(* an attempt only move one connection.                                    *)
(***************************************************************************)
EXTENDS RecoveryParts, FiniteSetTheorems, SequenceTheorems,
        WellFoundedInduction, TLAPS

InQueue(w) == {w[i] : i \in 1..Len(w)}

IsOpen(phase) == phase \in Phases \cup {"leaked"}

LEMMA MailsAreFinite ==
    ASSUME NEW S \in SUBSET Mails, NEW T \in SUBSET S
    PROVE  /\ IsFiniteSet(S) /\ IsFiniteSet(T)
           /\ Cardinality(T) <= Cardinality(S)
           /\ Cardinality(S) \in Nat /\ Cardinality(T) \in Nat
  <1>1. IsFiniteSet(S)
    BY MailAssumption, FS_Subset
  <1>2. IsFiniteSet(T) /\ Cardinality(T) <= Cardinality(S)
    BY <1>1, FS_Subset
  <1> QED  BY <1>1, <1>2, FS_CardinalityType

\* What a caller of DispatchWaiting hands it: a queue and workers without a
\* mail twice, which together are the unsettled mails, and no connection but
\* the workers'.
Orderly(w, a, r, c, res) ==
    /\ w \in Seq(Mails) /\ Len(w) <= WaitingLimit
    /\ a \in SUBSET Mails /\ Cardinality(a) <= ActiveLimit
    /\ r \in [Mails -> Receipts] /\ c \in [Mails -> Connections]
    /\ \A m \in Mails : r[m] = "queued" <=> m \in a \cup InQueue(w)
    /\ \A i, j \in 1..Len(w) : w[i] = w[j] => i = j
    /\ \A i \in 1..Len(w) : w[i] \notin a
    /\ \A m \in Mails : IsOpen(c[m]) => m \in a
    /\ \A m \in Mails : r[m] = "new" \/ m \in InQueue(w) => c[m] = "none" /\ res[m] = "none"

\* One more worker than there were when a worker was free.
LEMMA LastTaken ==
    ASSUME NEW w \in Seq(Mails), NEW a \in SUBSET Mails, Cardinality(a) <= ActiveLimit,
           NEW n \in 0..Len(w), NEW failing \in SUBSET {w[i] : i \in 1..n},
           \A i \in 1..n : WorkersFree(a \cup ({w[j] : j \in 1..(i - 1)} \ failing))
    PROVE  Cardinality(a \cup ({w[i] : i \in 1..n} \ failing)) <= ActiveLimit
  <1>1. CASE n = 0
    <2>1. a \cup ({w[i] : i \in 1..n} \ failing) = a
      BY <1>1
    <2> QED  BY <2>1
  <1>2. CASE n # 0
    <2> DEFINE b == a \cup ({w[j] : j \in 1..(n - 1)} \ failing)
               d == a \cup ({w[i] : i \in 1..n} \ failing)
    <2>1. n \in 1..n /\ n \in 1..Len(w) /\ w[n] \in Mails
      BY <1>2
    <2>2. b \subseteq Mails /\ Cardinality(b) < ActiveLimit
      BY <2>1 DEF WorkersFree
    <2>3. d \subseteq b \cup {w[n]}
      <3>1. \A i \in 1..n : i = n \/ i \in 1..(n - 1)
        BY <2>1
      <3> QED  BY <3>1
    <2> HIDE DEF b, d
    <2>4. Cardinality(b \cup {w[n]}) <= Cardinality(b) + 1 /\ b \cup {w[n]} \subseteq Mails
      <3>1. IsFiniteSet(b) /\ Cardinality(b) \in Nat
        BY <2>2, MailsAreFinite
      <3>2. Cardinality(b \cup {w[n]}) = IF w[n] \in b THEN Cardinality(b) ELSE Cardinality(b) + 1
        BY <3>1, FS_AddElement
      <3> QED  BY <2>1, <2>2, <3>1, <3>2
    <2>5. Cardinality(d) <= Cardinality(b \cup {w[n]}) /\ Cardinality(b) \in Nat
          /\ Cardinality(d) \in Nat /\ Cardinality(b \cup {w[n]}) \in Nat
      BY <2>2, <2>3, <2>4, MailsAreFinite
    <2>6. Cardinality(d) <= ActiveLimit
      BY <2>2, <2>4, <2>5, MailAssumption
    <2> QED  BY <2>6 DEF d
  <1> QED  BY <1>1, <1>2

\* What remains of a queue when its first n mails have been taken.
LEMMA RestOfQueue ==
    ASSUME NEW w \in Seq(Mails), NEW n \in 0..Len(w)
    PROVE  /\ SubSeq(w, n + 1, Len(w)) \in Seq(Mails)
           /\ Len(SubSeq(w, n + 1, Len(w))) = Len(w) - n
           /\ \A i \in 1..(Len(w) - n) : SubSeq(w, n + 1, Len(w))[i] = w[n + i]
  OBVIOUS

LEMMA DispatchKeeps ==
    ASSUME NEW w, NEW a, NEW r, NEW c, Orderly(w, a, r, c, result), DispatchWaiting(w, a, r, c),
           stopped = FALSE, stopped' = stopped, result' = result,
           result \in [Mails -> Results \cup {"none"}]
    PROVE  MailInv'
  <1> USE DEF Orderly
  <1>1. PICK n \in 0..Len(w) : \E failing \in SUBSET {w[i] : i \in 1..n} :
            LET workers == a \cup ({w[i] : i \in 1..n} \ failing) IN
            /\ \A i \in 1..n :
                  WorkersFree(a \cup ({w[j] : j \in 1..(i - 1)} \ failing))
            /\ n < Len(w) => ~WorkersFree(workers)
            /\ waiting' = SubSeq(w, n + 1, Len(w))
            /\ active' = workers
            /\ mail' = [m \in Mails |-> IF m \in failing THEN "smtp-failed" ELSE r[m]]
            /\ connection' = [m \in Mails |-> IF m \in {w[i] : i \in 1..n} \ failing
                                              THEN "connecting" ELSE c[m]]
    BY DEF DispatchWaiting
  <1> DEFINE taken == {w[i] : i \in 1..n}
  <1>2. PICK failing \in SUBSET taken :
            /\ \A i \in 1..n :
                  WorkersFree(a \cup ({w[j] : j \in 1..(i - 1)} \ failing))
            /\ n < Len(w) => ~WorkersFree(a \cup (taken \ failing))
            /\ waiting' = SubSeq(w, n + 1, Len(w))
            /\ active' = a \cup (taken \ failing)
            /\ mail' = [m \in Mails |-> IF m \in failing THEN "smtp-failed" ELSE r[m]]
            /\ connection' = [m \in Mails |-> IF m \in taken \ failing
                                              THEN "connecting" ELSE c[m]]
    BY <1>1
  <1>3. Cardinality(active') <= ActiveLimit
    BY <1>2, LastTaken
  <1>4. /\ waiting' \in Seq(Mails) /\ Len(waiting') = Len(w) - n /\ Len(w) \in Nat
        /\ \A i \in 1..Len(waiting') : n + i \in 1..Len(w) /\ waiting'[i] = w[n + i]
    BY <1>2, RestOfQueue
  <1>5. taken \subseteq InQueue(w) /\ InQueue(w) \subseteq Mails
    BY DEF InQueue
  <1>6. active' \subseteq Mails
    BY <1>2, <1>5
  <1>7. mail' \in [Mails -> Receipts] /\ connection' \in [Mails -> Connections]
    BY <1>2 DEF Receipts, Results, Connections, Phases
  <1>8. MailTypeOK'
    <2>1. Len(waiting') <= WaitingLimit
      BY <1>4, MailAssumption
    <2> QED  BY <1>3, <1>4, <1>6, <1>7, <2>1 DEF MailTypeOK
  <1>9. InQueue(waiting') = InQueue(w) \ taken
    <2>1. ASSUME NEW m \in InQueue(waiting') PROVE m \in InQueue(w) \ taken
      <3>1. PICK i \in 1..Len(waiting') : m = w[n + i] /\ n + i \in 1..Len(w)
        BY <1>4, <2>1 DEF InQueue
      <3>2. \A j \in 1..n : w[j] # w[n + i]
        BY <3>1, <1>4
      <3> QED  BY <3>1, <3>2 DEF InQueue
    <2>2. ASSUME NEW m \in InQueue(w) \ taken PROVE m \in InQueue(waiting')
      <3>1. PICK i \in 1..Len(w) : m = w[i]
        BY <2>2 DEF InQueue
      <3>2. i > n
        BY <2>2, <3>1
      <3>3. i - n \in 1..Len(waiting') /\ waiting'[i - n] = w[i]
        <4>1. i - n \in 1..Len(waiting') /\ n + (i - n) = i
          BY <1>4, <3>1, <3>2
        <4> QED  BY <1>4, <4>1
      <3> QED  BY <3>1, <3>3 DEF InQueue
    <2> QED  BY <2>1, <2>2
  <1>10. \A m \in Mails : Open(m)' => m \in active'
    BY <1>2, <1>5 DEF Open, IsOpen
  <1>11. ConnectionsAreBounded'
    <2>1. Cardinality({m \in Mails : Open(m)'}) <= Cardinality(active')
      BY <1>6, <1>10, MailsAreFinite
    <2>2. /\ Cardinality({m \in Mails : Open(m)'}) \in Nat /\ Cardinality(active') \in Nat
      BY <1>6, MailsAreFinite
    <2> QED  BY <1>3, <2>1, <2>2, MailAssumption DEF ConnectionsAreBounded
  <1>12. WaitingMeansBusy'
    <2>1. waiting' # <<>> => Cardinality(active') = ActiveLimit
      <3>1. Cardinality(active') \in Nat
        BY <1>6, MailsAreFinite
      <3>2. waiting' # <<>> => n < Len(w)
        BY <1>4
      <3> QED  BY <1>2, <1>3, <3>1, <3>2, MailAssumption DEF WorkersFree
    <2>2. \A m \in Mails : mail'[m] = "queued" <=> m \in active' \cup InQueue(waiting')
      <3>1. \A m \in InQueue(w) : m \notin a
        BY DEF InQueue
      <3> QED  BY <1>2, <1>5, <1>9, <3>1
    <2>3. {m \in Mails : ~Settled(m)'} = active' \cup InQueue(waiting')
      BY <1>5, <1>6, <1>9, <2>2 DEF Settled
    <2>4. \A i, j \in 1..Len(waiting') : waiting'[i] = waiting'[j] => i = j
      BY <1>4
    <2>5. \A i \in 1..Len(waiting') : waiting'[i] \notin active'
      <3>1. \A i \in 1..Len(waiting') : waiting'[i] \in InQueue(waiting')
        BY DEF InQueue
      <3>2. \A m \in InQueue(w) : m \notin a
        BY DEF InQueue
      <3> QED  BY <1>2, <1>9, <3>1, <3>2
    <2> QED  BY <2>1, <2>3, <2>4, <2>5 DEF WaitingMeansBusy, InQueue
  <1>13. AttemptsAreTheWorkers'
    <2>1. \A m \in Mails : mail'[m] = "new" \/ m \in InQueue(waiting') =>
              connection'[m] = "none" /\ result'[m] = "none"
      <3>1. ASSUME NEW m \in Mails, mail'[m] = "new" \/ m \in InQueue(waiting')
            PROVE  m \notin taken /\ (r[m] = "new" \/ m \in InQueue(w))
        BY <1>2, <1>5, <1>9, <3>1
      <3> QED  BY <1>2, <3>1
    <2> QED  BY <2>1 DEF AttemptsAreTheWorkers, InQueue
  <1>14. WorkersOwnConnections'
    BY <1>10 DEF WorkersOwnConnections
  <1> QED  BY <1>8, <1>11, <1>12, <1>13, <1>14 DEF MailInv, MailIsBounded

\* The dispatcher's own books, as it hands them on.
LEMMA BooksAreOrderly ==
    ASSUME MailInv, ~stopped
    PROVE  Orderly(waiting, active, mail, connection, result)
  <1>1. \A m \in Mails : mail[m] = "queued" <=> m \in active \cup InQueue(waiting)
    BY DEF MailInv, MailIsBounded, WaitingMeansBusy, Settled, InQueue, MailTypeOK
  <1> QED
    BY <1>1 DEF MailInv, MailIsBounded, MailTypeOK, WaitingMeansBusy, AttemptsAreTheWorkers,
       WorkersOwnConnections, Orderly, InQueue, IsOpen, Open

\* Nothing is in the dispatcher's hands once it has stopped.
LEMMA StoppedIsIdle ==
    ASSUME MailInv, NEW m \in Mails, mail[m] = "queued"
    PROVE  ~stopped
  BY DEF MailInv, MailIsBounded, WaitingMeansBusy, WorkersOwnConnections, Settled

LEMMA EnqueueKeeps ==
    ASSUME MailInv, NEW m \in Mails, EnqueueMail(m)
    PROVE  MailInv'
  <1>1. MailTypeOK /\ stopped' = stopped /\ result' = result
    BY DEF MailInv, MailIsBounded, EnqueueMail
  <1>2. CASE stopped \/ Len(waiting) >= WaitingLimit
    <2>1. /\ mail' \in [Mails -> Receipts] /\ mail'[m] = "refused" /\ mail[m] = "new"
          /\ \A k \in Mails : k # m => mail'[k] = mail[k]
          /\ UNCHANGED <<waiting, active, connection>>
      BY <1>1, <1>2 DEF EnqueueMail, MailTypeOK, Receipts
    <2>2. MailTypeOK' /\ ConnectionsAreBounded'
      BY <1>1, <2>1 DEF MailTypeOK, ConnectionsAreBounded, MailInv, MailIsBounded, Open
    <2>3. WaitingMeansBusy'
      <3>1. {k \in Mails : ~Settled(k)'} = {k \in Mails : ~Settled(k)}
        BY <2>1 DEF Settled
      <3> QED  BY <1>1, <2>1, <3>1 DEF WaitingMeansBusy, MailInv, MailIsBounded
    <2>4. AttemptsAreTheWorkers' /\ WorkersOwnConnections'
      BY <1>1, <2>1 DEF AttemptsAreTheWorkers, WorkersOwnConnections, MailInv, Open
    <2> QED  BY <2>2, <2>3, <2>4 DEF MailInv, MailIsBounded
  <1>3. CASE ~(stopped \/ Len(waiting) >= WaitingLimit)
    <2> DEFINE w == Append(waiting, m)
               r == [mail EXCEPT ![m] = "queued"]
    <2>1. Orderly(waiting, active, mail, connection, result)
      BY <1>3, BooksAreOrderly
    <2>2. /\ w \in Seq(Mails) /\ Len(w) = Len(waiting) + 1 /\ Len(waiting) \in Nat
          /\ w[Len(w)] = m /\ \A i \in 1..Len(waiting) : w[i] = waiting[i]
      BY <1>1 DEF MailTypeOK
    <2>3. Len(w) <= WaitingLimit
      BY <1>3, <2>2, MailAssumption
    <2>4. r \in [Mails -> Receipts] /\ r[m] = "queued"
          /\ \A k \in Mails : k # m => r[k] = mail[k]
      BY <1>1 DEF MailTypeOK, Receipts
    <2>5. mail[m] = "new" /\ DispatchWaiting(w, active, r, connection)
      BY <1>3 DEF EnqueueMail
    <2> HIDE DEF w, r
    <2>6. InQueue(w) = InQueue(waiting) \cup {m}
      <3>1. \A i \in 1..Len(w) : i = Len(w) \/ i \in 1..Len(waiting)
        BY <2>2
      <3>2. \A i \in 1..Len(waiting) : i \in 1..Len(w)
        BY <2>2
      <3>3. Len(w) \in 1..Len(w)
        BY <2>2
      <3> QED  BY <2>2, <3>1, <3>2, <3>3 DEF InQueue
    <2>7. m \notin active \cup InQueue(waiting)
      BY <2>1, <2>5 DEF Orderly
    <2>8. \A i, j \in 1..Len(w) : w[i] = w[j] => i = j
      <3>1. \A i \in 1..Len(w) : i = Len(w) \/ (i \in 1..Len(waiting) /\ w[i] = waiting[i])
        BY <2>2
      <3>2. \A i \in 1..Len(waiting) : waiting[i] # m
        BY <2>7 DEF InQueue
      <3> QED  BY <2>1, <2>2, <3>1, <3>2 DEF Orderly
    <2>9. \A i \in 1..Len(w) : w[i] \notin active
      <3>1. \A i \in 1..Len(w) : w[i] \in InQueue(w)
        BY DEF InQueue
      <3>2. \A k \in InQueue(waiting) : k \notin active
        BY <2>1 DEF InQueue, Orderly
      <3> QED  BY <2>6, <2>7, <3>1, <3>2
    <2>10. Orderly(w, active, r, connection, result)
      BY <2>1, <2>2, <2>3, <2>4, <2>5, <2>6, <2>7, <2>8, <2>9 DEF Orderly
    <2> QED  BY <1>1, <1>3, <2>5, <2>10, DispatchKeeps DEF MailTypeOK
  <1> QED  BY <1>2, <1>3

\* A mail is settled and its worker, if it has one, set free.
LEMMA CancelSucceedsKeeps ==
    ASSUME MailInv, NEW m \in active, NEW outcome \in Results, mail[m] = "queued",
           CancelSucceeds(m, outcome), result' = result
    PROVE  MailInv'
  <1> DEFINE r == [mail EXCEPT ![m] = outcome]
             c == Cancelled({m}, {})
             a == active \ {m}
  <1>1. MailTypeOK /\ m \in Mails /\ ~stopped
    BY StoppedIsIdle DEF MailInv, MailIsBounded, MailTypeOK
  <1>2. Orderly(waiting, active, mail, connection, result)
    BY <1>1, BooksAreOrderly
  <1>3. /\ r \in [Mails -> Receipts] /\ r[m] = outcome
        /\ \A k \in Mails : k # m => r[k] = mail[k]
    BY <1>1 DEF MailTypeOK, Receipts
  <1>4. /\ c \in [Mails -> Connections] /\ ~IsOpen(c[m])
        /\ \A k \in Mails : k # m => c[k] = connection[k]
    BY <1>1 DEF MailTypeOK, Cancelled, Connections, Phases, IsOpen, Open
  <1>5. Cardinality(a) <= ActiveLimit /\ a \in SUBSET Mails
    <2>1. Cardinality(a) <= Cardinality(active) /\ Cardinality(a) \in Nat
          /\ Cardinality(active) \in Nat
      BY <1>1, MailsAreFinite DEF MailTypeOK
    <2> QED  BY <1>1, <2>1, MailAssumption DEF MailTypeOK
  <1>6. m \notin InQueue(waiting)
    BY <1>2 DEF Orderly, InQueue
  <1>7. outcome # "queued" /\ outcome # "new"
    BY DEF Results
  <1>8. DispatchWaiting(waiting, a, r, c) /\ stopped' = stopped
    BY DEF CancelSucceeds
  <1> HIDE DEF r, c, a
  <1>9. Orderly(waiting, a, r, c, result)
    BY <1>1, <1>2, <1>3, <1>4, <1>5, <1>6, <1>7 DEF Orderly, a
  <1> QED  BY <1>1, <1>8, <1>9, DispatchKeeps DEF MailTypeOK

\* Everything is cancelled and settled; what stays open had a worker.
LEMMA StopAllKeeps ==
    ASSUME MailInv, NEW r \in [Mails -> Receipts], NEW broken \in SUBSET active, StopAll(r, broken),
           \A m \in Mails : r[m] = "new" => mail[m] = "new", result' = result
    PROVE  MailInv'
  <1>1. MailTypeOK
    BY DEF MailInv, MailIsBounded
  <1>2. /\ stopped' = TRUE /\ waiting' = <<>> /\ active' = {}
        /\ mail' \in [Mails -> Receipts] /\ connection' \in [Mails -> Connections]
        /\ \A m \in Mails : mail'[m] # "queued" /\ (mail'[m] = "new" => mail[m] = "new")
        /\ \A m \in Mails : /\ connection'[m] = connection[m] \/ Open(m)
                            /\ Open(m)' => Open(m) /\ (m \in active => m \in broken)
    BY <1>1 DEF StopAll, MailTypeOK, Receipts, Cancelled, Connections, Phases, Open
  <1>3. MailTypeOK'
    <2>1. Cardinality({}) = 0
      BY FS_EmptySet
    <2> QED  BY <1>1, <1>2, <2>1, MailAssumption DEF MailTypeOK
  <1>4. ConnectionsAreBounded'
    <2>1. {m \in Mails : Open(m)'} \subseteq {m \in Mails : Open(m)}
      BY <1>2
    <2>2. /\ Cardinality({m \in Mails : Open(m)'}) <= Cardinality({m \in Mails : Open(m)})
          /\ Cardinality({m \in Mails : Open(m)'}) \in Nat
          /\ Cardinality({m \in Mails : Open(m)}) \in Nat
      BY <2>1, MailsAreFinite
    <2> QED
      BY <2>2, MailAssumption DEF ConnectionsAreBounded, MailInv, MailIsBounded
  <1>5. WaitingMeansBusy'
    BY <1>2 DEF WaitingMeansBusy, Settled
  <1>6. AttemptsAreTheWorkers'
    BY <1>2 DEF AttemptsAreTheWorkers, MailInv, Open, Phases
  <1>7. WorkersOwnConnections'
    BY <1>2 DEF WorkersOwnConnections
  <1> QED  BY <1>3, <1>4, <1>5, <1>6, <1>7 DEF MailInv, MailIsBounded

LEMMA FinishKeeps ==
    ASSUME MailInv, NEW m \in active, NEW outcome \in Results, Finish(m, outcome)
    PROVE  MailInv'
  <1>1. m \in Mails /\ mail[m] = "queued" /\ result' = result
        /\ mail \in [Mails -> Receipts]
    BY DEF MailInv, MailIsBounded, MailTypeOK, Finish, Settled
  <1>2. CASE CancelSucceeds(m, outcome)
    BY <1>1, <1>2, CancelSucceedsKeeps
  <1>3. CASE CancelFails(m)
    <2> DEFINE r == [mail EXCEPT ![m] = "smtp-failed"]
    <2>1. r \in [Mails -> Receipts] /\ \A k \in Mails : r[k] = "new" => mail[k] = "new"
      BY <1>1 DEF Receipts, Results
    <2>2. PICK broken \in SUBSET active : StopAll(r, broken)
      BY <1>3 DEF CancelFails
    <2> HIDE DEF r
    <2> QED  BY <1>1, <2>1, <2>2, StopAllKeeps
  <1> QED  BY <1>2, <1>3 DEF Finish

\* Who has a result, and is not settled, is in a worker's hands.
LEMMA ResultsAreTheWorkers ==
    ASSUME MailInv, NEW m \in Mails, result[m] # "none", ~Settled(m)
    PROVE  m \in active /\ result[m] \in Results
  BY DEF MailInv, MailIsBounded, MailTypeOK, WaitingMeansBusy, AttemptsAreTheWorkers, Settled

\* An attempt goes on, or ends by itself.
LEMMA AdvanceKeeps ==
    ASSUME MailInv, NEW m \in Mails, NEW from \in Phases,
           NEW to \in {"session", "submitting", "closed"},
           Advance(m, from, to), result' \in [Mails -> Results \cup {"none"}],
           \A k \in Mails : k # m => result'[k] = result[k]
    PROVE  MailInv'
  <1> USE DEF Advance
  <1>1. MailTypeOK /\ Open(m)
    BY DEF MailInv, MailIsBounded, Open
  <1>2. /\ connection' \in [Mails -> Connections]
        /\ \A k \in Mails : k # m => connection'[k] = connection[k]
        /\ \A k \in Mails : Open(k)' => Open(k)
    BY <1>1 DEF MailTypeOK, Connections, Phases, Open
  <1>3. MailTypeOK'
    BY <1>1, <1>2 DEF MailTypeOK
  <1>4. ConnectionsAreBounded'
    <2>1. {k \in Mails : Open(k)'} \subseteq {k \in Mails : Open(k)}
      BY <1>2
    <2>2. /\ Cardinality({k \in Mails : Open(k)'}) <= Cardinality({k \in Mails : Open(k)})
          /\ Cardinality({k \in Mails : Open(k)'}) \in Nat
          /\ Cardinality({k \in Mails : Open(k)}) \in Nat
      BY <2>1, MailsAreFinite
    <2> QED
      BY <2>2, MailAssumption DEF ConnectionsAreBounded, MailInv, MailIsBounded
  <1>5. WaitingMeansBusy'
    BY DEF WaitingMeansBusy, Settled, MailInv, MailIsBounded
  <1>6. AttemptsAreTheWorkers'
    <2>1. mail[m] # "new" /\ \A i \in 1..Len(waiting) : waiting[i] # m
      BY DEF MailInv, AttemptsAreTheWorkers, Phases
    <2> QED  BY <1>2, <2>1 DEF AttemptsAreTheWorkers, MailInv
  <1>7. WorkersOwnConnections'
    BY <1>2 DEF WorkersOwnConnections, MailInv
  <1> QED  BY <1>3, <1>4, <1>5, <1>6, <1>7 DEF MailInv, MailIsBounded

LEMMA AttemptKeeps ==
    ASSUME MailInv, NEW m \in Mails, Connected(m) \/ Authenticated(m) \/ Submitted(m) \/ Fail(m)
    PROVE  MailInv'
  <1>1. result \in [Mails -> Results \cup {"none"}]
    BY DEF MailInv, MailIsBounded, MailTypeOK
  <1>2. CASE Connected(m) \/ Authenticated(m)
    BY <1>1, <1>2, AdvanceKeeps DEF Connected, Authenticated, Phases
  <1>3. ASSUME NEW r \in Results, NEW phase \in Phases, Advance(m, phase, "closed"), Resolve(m, r)
        PROVE  MailInv'
    BY <1>1, <1>3, AdvanceKeeps DEF Resolve
  <1>4. CASE Submitted(m)
    BY <1>3, <1>4 DEF Submitted, Phases, Results
  <1>5. CASE Fail(m)
    BY <1>3, <1>5 DEF Fail, Results
  <1> QED  BY <1>2, <1>4, <1>5

LEMMA InitHolds == MailInit => MailInv
  <1> SUFFICES ASSUME MailInit PROVE MailInv
    OBVIOUS
  <1>1. MailTypeOK
    <2>1. Cardinality({}) = 0 /\ 0 <= ActiveLimit /\ 0 <= WaitingLimit
      BY MailAssumption, FS_EmptySet
    <2>2. waiting = <<>> /\ waiting \in Seq(Mails) /\ Len(waiting) = 0
      BY DEF MailInit
    <2> QED  BY <2>1, <2>2 DEF MailInit, MailTypeOK, Receipts, Connections
  <1>2. {m \in Mails : Open(m)} = {}
    BY DEF MailInit, Open, Phases
  <1>3. ConnectionsAreBounded
    BY <1>2, MailAssumption, FS_EmptySet DEF ConnectionsAreBounded
  <1> QED
    BY <1>1, <1>2, <1>3 DEF MailInit, MailInv, MailIsBounded, WaitingMeansBusy, Settled,
       AttemptsAreTheWorkers, WorkersOwnConnections

LEMMA NextKeeps == MailInv /\ [MailNext]_mailVars => MailInv'
  <1> SUFFICES ASSUME MailInv, [MailNext]_mailVars PROVE MailInv'
    OBVIOUS
  <1>1. ASSUME NEW m \in Mails, EnqueueMail(m) PROVE MailInv'
    BY <1>1, EnqueueKeeps
  <1>2. ASSUME NEW m \in Mails, Deadline(m) PROVE MailInv'
    BY <1>2, FinishKeeps DEF Deadline, Results
  <1>3. ASSUME NEW m \in Mails, HearResult(m) PROVE MailInv'
    BY <1>3, ResultsAreTheWorkers, FinishKeeps DEF HearResult, Finish
  <1>4. ASSUME NEW m \in Mails, Connected(m) \/ Authenticated(m) \/ Submitted(m) \/ Fail(m)
        PROVE  MailInv'
    BY <1>4, AttemptKeeps
  <1>5. CASE OnApplicationShutdown
    BY <1>5, StopAllKeeps DEF OnApplicationShutdown, MailInv, MailIsBounded, MailTypeOK
  <1>6. CASE UNCHANGED mailVars
    BY <1>6 DEF mailVars, MailInv, MailIsBounded, MailTypeOK, ConnectionsAreBounded,
       WaitingMeansBusy,
       AttemptsAreTheWorkers, WorkersOwnConnections, Open, Settled
  <1> QED  BY <1>1, <1>2, <1>3, <1>4, <1>5, <1>6 DEF MailNext

\* The dispatcher's books, and why no connection is opened without a worker.
THEOREM DispatcherInvariant == MailSpec => []MailInv
  BY InitHolds, NextKeeps, PTL DEF MailSpec

\* Whatever races and whatever cancellation fails, there are never more open
\* connections than workers, the queue is bounded, and every unsettled mail is
\* in it or has one worker.
THEOREM BoundsAreKept == MailSpec => []MailIsBounded
  <1>1. MailInv => MailIsBounded
    BY DEF MailInv
  <1> QED  BY <1>1, DispatcherInvariant, PTL

\* A settled mail is neither admitted, in the queue, nor a worker's: nothing
\* that comes late finds it.
LEMMA SettledStays ==
    ASSUME MailInv, [MailNext]_mailVars, NEW k \in Mails, mail[k] \notin {"new", "queued"}
    PROVE  mail'[k] = mail[k]
  <1>1. mail \in [Mails -> Receipts] /\ k \notin active /\ k \notin InQueue(waiting)
    BY DEF MailInv, MailIsBounded, MailTypeOK, WaitingMeansBusy, Settled, InQueue
  <1>2. ASSUME NEW w \in Seq(Mails), NEW a, NEW r, NEW c, DispatchWaiting(w, a, r, c),
               k \notin InQueue(w)
        PROVE  mail'[k] = r[k]
    <2>1. \E failing \in SUBSET InQueue(w) :
             mail' = [m \in Mails |-> IF m \in failing THEN "smtp-failed" ELSE r[m]]
      <3>1. \A n \in 0..Len(w) : {w[i] : i \in 1..n} \subseteq InQueue(w)
        BY <1>2 DEF InQueue
      <3> QED  BY <1>2, <3>1 DEF DispatchWaiting
    <2>2. PICK failing \in SUBSET InQueue(w) :
             mail' = [m \in Mails |-> IF m \in failing THEN "smtp-failed" ELSE r[m]]
      BY <2>1
    <2> QED  BY <1>2, <2>2
  <1>3. ASSUME NEW r, NEW broken, StopAll(r, broken), r[k] = mail[k]
        PROVE  mail'[k] = mail[k]
    BY <1>3 DEF StopAll
  <1>4. ASSUME NEW m \in Mails, EnqueueMail(m) PROVE mail'[k] = mail[k]
    <2>1. m # k
      BY <1>4 DEF EnqueueMail
    <2>2. CASE stopped \/ Len(waiting) >= WaitingLimit
      BY <1>1, <1>4, <2>1, <2>2 DEF EnqueueMail
    <2>3. CASE ~(stopped \/ Len(waiting) >= WaitingLimit)
      <3> DEFINE w == Append(waiting, m)
                 r == [mail EXCEPT ![m] = "queued"]
      <3>1. DispatchWaiting(w, active, r, connection) /\ r[k] = mail[k]
        BY <1>1, <1>4, <2>1, <2>3 DEF EnqueueMail
      <3>2. w \in Seq(Mails) /\ k \notin InQueue(w)
        BY <1>1, <2>1 DEF MailInv, MailIsBounded, MailTypeOK, InQueue
      <3> HIDE DEF w, r
      <3> QED  BY <1>2, <3>1, <3>2
    <2> QED  BY <2>2, <2>3
  <1>5. ASSUME NEW m \in Mails, NEW outcome, Finish(m, outcome) PROVE mail'[k] = mail[k]
    <2>1. m # k
      BY <1>5 DEF Finish, Settled
    <2>2. CASE CancelSucceeds(m, outcome)
      <3> DEFINE r == [mail EXCEPT ![m] = outcome]
      <3>1. DispatchWaiting(waiting, active \ {m}, r, Cancelled({m}, {})) /\ r[k] = mail[k]
        BY <1>1, <2>1, <2>2 DEF CancelSucceeds
      <3>2. waiting \in Seq(Mails)
        BY DEF MailInv, MailIsBounded, MailTypeOK
      <3> HIDE DEF r
      <3> QED  BY <1>1, <1>2, <3>1, <3>2
    <2>3. CASE CancelFails(m)
      BY <1>1, <1>3, <2>1, <2>3 DEF CancelFails
    <2> QED  BY <1>5, <2>2, <2>3 DEF Finish
  <1>6. CASE OnApplicationShutdown
    BY <1>3, <1>6 DEF OnApplicationShutdown
  <1> QED
    BY <1>4, <1>5, <1>6 DEF MailNext, mailVars, Deadline, HearResult, Connected, Authenticated,
       Submitted, Fail, Advance

\* The first of a deadline, a result, a failed cancellation and a shutdown decides
\* what becomes of a mail, and nothing that comes later changes it.
THEOREM SettledForGood == MailSpec => SettledOnce
  <1>1. MailInv /\ [MailNext]_mailVars =>
          [\A m \in Mails : mail[m] \notin {"new", "queued"} => mail'[m] = mail[m]]_mailVars
    BY SettledStays
  <1> QED  BY <1>1, DispatcherInvariant, PTL DEF MailSpec, SettledOnce

-----------------------------------------------------------------------------
(* The live verification: its ledger is written ahead of what it owns and   *)
(* removed only after it, whoever dies.                                     *)

Owned ==
    /\ V!WorkerIsJoined /\ V!OutageIsOwned
    /\ V!RegistrationIsOwned /\ V!AccountsAreOwned

\* The runner.

LEMMA PreflightKeeps ==
    ASSUME LedgerNames, V!IInv, V!Preflight
    PROVE  V!IInv'
  <1>1. V!TypeOK'
    BY DEF V!Preflight, V!RunnerAt, V!Turn, V!Others, V!World, V!IInv, V!TypeOK, V!Entry,
           V!StopJob, V!RunnerPc, V!Before, V!Cleaning, V!Ending
  <1>2. V!WorkerIsJoined'
    BY DEF V!Preflight, V!RunnerAt, V!Turn, V!Others, V!World, LedgerNames, V!IInv,
           V!TypeOK, V!StopJob, V!WorkerIsJoined, V!Alive, V!Before, V!Ending, V!Cleaning
  <1>3. V!OutageIsOwned'
    BY DEF V!Preflight, V!RunnerAt, V!Turn, V!Others, V!World, LedgerNames, V!IInv,
           V!TypeOK, V!StopJob, V!OutageIsOwned, V!WorkerIsJoined, V!Alive, V!Ending,
           V!Cleaning
  <1>4. V!RegistrationIsOwned'
    BY DEF V!Preflight, V!RunnerAt, V!Turn, V!Others, V!World, LedgerNames, V!IInv,
           V!TypeOK, V!StopJob, V!RegistrationIsOwned, V!WorkerIsJoined, V!Quietly,
           V!Registered, V!Alive, V!Cleaning, V!Ending
  <1>5. V!AccountsAreOwned'
    BY DEF V!Preflight, V!RunnerAt, V!Turn, V!Others, V!World, LedgerNames, V!IInv,
           V!TypeOK, V!StopJob, V!AccountsAreOwned, V!WorkerIsJoined, V!Alive, V!Ending,
           V!Cleaning
  <1> QED  BY <1>1, <1>2, <1>3, <1>4, <1>5 DEF V!IInv

LEMMA WriteScopeKeeps ==
    ASSUME LedgerNames, V!IInv, V!WriteScope
    PROVE  V!IInv'
  <1>1. V!TypeOK'
    BY DEF V!WriteScope, V!RunnerAt, V!Turn, V!Others, V!World, V!IInv, V!TypeOK, V!Entry,
           V!StopJob, V!RunnerPc, V!Before, V!Cleaning, V!Ending
  <1>2. V!WorkerIsJoined'
    BY DEF V!WriteScope, V!RunnerAt, V!Turn, V!Others, V!World, V!Registered, LedgerNames,
           V!IInv, V!TypeOK, V!StopJob, V!WorkerIsJoined, V!Alive, V!Before, V!Ending, V!Cleaning
  <1>3. V!OutageIsOwned'
    BY DEF V!WriteScope, V!RunnerAt, V!Turn, V!Others, V!World, V!Registered, LedgerNames,
           V!IInv, V!TypeOK, V!StopJob, V!OutageIsOwned, V!WorkerIsJoined, V!Alive, V!Ending,
           V!Cleaning
  <1>4. V!RegistrationIsOwned'
    BY DEF V!WriteScope, V!RunnerAt, V!Turn, V!Others, V!World, V!Registered, LedgerNames,
           V!IInv, V!TypeOK, V!StopJob, V!RegistrationIsOwned, V!WorkerIsJoined, V!Quietly, V!Alive,
           V!Cleaning, V!Ending
  <1>5. V!AccountsAreOwned'
    BY DEF V!WriteScope, V!RunnerAt, V!Turn, V!Others, V!World, V!Registered, LedgerNames,
           V!IInv, V!TypeOK, V!StopJob, V!AccountsAreOwned, V!WorkerIsJoined, V!Alive, V!Ending,
           V!Cleaning
  <1> QED  BY <1>1, <1>2, <1>3, <1>4, <1>5 DEF V!IInv

LEMMA SpawnKeeps ==
    ASSUME LedgerNames, V!IInv, V!Spawn
    PROVE  V!IInv'
  <1>1. V!TypeOK'
    BY DEF V!Spawn, V!RunnerAt, V!Turn, V!World, V!IInv, V!TypeOK, V!Entry, V!StopJob,
           V!RunnerPc, V!Before, V!Cleaning, V!Ending
  <1>2. V!WorkerIsJoined'
    BY DEF V!Spawn, V!RunnerAt, V!Turn, V!World, V!IInv, V!TypeOK, V!StopJob,
           V!WorkerIsJoined, V!Alive, V!Before, V!Ending, V!Cleaning
  <1>3. V!OutageIsOwned'
    <2>1. child = "none" /\ job[V!StopJob] = "none" /\ worker.pc = "boot"
      BY DEF V!Spawn, V!RunnerAt, V!IInv, V!WorkerIsJoined, V!Before
    <2> QED  BY <2>1 DEF V!Spawn, V!RunnerAt, V!Turn, V!World, V!IInv, V!TypeOK,
           V!OutageIsOwned, V!StopJob, V!Cleaning, V!Ending
  <1>4. V!RegistrationIsOwned'
    BY DEF V!Spawn, V!RunnerAt, V!Turn, V!World, V!IInv, V!TypeOK, V!RegistrationIsOwned,
           V!Quietly, V!Registered
  <1>5. V!AccountsAreOwned'
    BY DEF V!Spawn, V!RunnerAt, V!Turn, V!World, V!IInv, V!TypeOK, V!AccountsAreOwned
  <1> QED  BY <1>1, <1>2, <1>3, <1>4, <1>5 DEF V!IInv

LEMMA InterruptKeeps ==
    ASSUME LedgerNames, V!IInv, V!Interrupt
    PROVE  V!IInv'
  <1>1. V!TypeOK'
    BY DEF V!Interrupt, V!World, V!IInv, V!TypeOK, V!Entry, V!StopJob, V!RunnerPc,
           V!Before, V!Cleaning, V!Ending
  <1>2. V!WorkerIsJoined'
    BY DEF V!Interrupt, V!World, V!Registered, LedgerNames, V!IInv, V!TypeOK, V!StopJob,
           V!WorkerIsJoined, V!Alive, V!Before, V!Ending, V!Cleaning
  <1>3. V!OutageIsOwned'
    BY DEF V!Interrupt, V!World, V!Registered, LedgerNames, V!IInv, V!TypeOK, V!StopJob,
           V!OutageIsOwned, V!WorkerIsJoined, V!Alive, V!Ending, V!Cleaning
  <1>4. V!RegistrationIsOwned'
    BY DEF V!Interrupt, V!World, V!Registered, LedgerNames, V!IInv, V!TypeOK, V!StopJob,
           V!RegistrationIsOwned, V!WorkerIsJoined, V!Quietly, V!Alive, V!Cleaning, V!Ending
  <1>5. V!AccountsAreOwned'
    BY DEF V!Interrupt, V!World, V!Registered, LedgerNames, V!IInv, V!TypeOK, V!StopJob,
           V!AccountsAreOwned, V!WorkerIsJoined, V!Alive, V!Ending, V!Cleaning
  <1> QED  BY <1>1, <1>2, <1>3, <1>4, <1>5 DEF V!IInv

LEMMA ForceStopKeeps ==
    ASSUME LedgerNames, V!IInv, V!ForceStop
    PROVE  V!IInv'
  <1>1. V!TypeOK'
    BY DEF V!ForceStop, V!RunnerAt, V!World, V!IInv, V!TypeOK, V!Entry, V!StopJob
  <1>2. V!WorkerIsJoined'
    BY DEF V!ForceStop, V!RunnerAt, V!World, V!Registered, LedgerNames, V!IInv, V!TypeOK,
           V!StopJob, V!WorkerIsJoined, V!Alive, V!Before, V!Ending, V!Cleaning
  <1>3. V!OutageIsOwned'
    BY DEF V!ForceStop, V!RunnerAt, V!World, V!Registered, LedgerNames, V!IInv, V!TypeOK,
           V!StopJob, V!OutageIsOwned, V!WorkerIsJoined, V!Alive, V!Ending, V!Cleaning
  <1>4. V!RegistrationIsOwned'
    BY DEF V!ForceStop, V!RunnerAt, V!World, V!Registered, LedgerNames, V!IInv, V!TypeOK,
           V!StopJob, V!RegistrationIsOwned, V!WorkerIsJoined, V!Quietly, V!Alive, V!Cleaning,
           V!Ending
  <1>5. V!AccountsAreOwned'
    BY DEF V!ForceStop, V!RunnerAt, V!World, V!Registered, LedgerNames, V!IInv, V!TypeOK,
           V!StopJob, V!AccountsAreOwned, V!WorkerIsJoined, V!Alive, V!Ending, V!Cleaning
  <1> QED  BY <1>1, <1>2, <1>3, <1>4, <1>5 DEF V!IInv

LEMMA JoinKeeps ==
    ASSUME LedgerNames, V!IInv, V!Join
    PROVE  V!IInv'
  <1>1. V!TypeOK'
    BY DEF V!Join, V!RunnerAt, V!Turn, V!Others, V!World, V!IInv, V!TypeOK, V!Entry,
           V!StopJob, V!RunnerPc, V!Before, V!Cleaning, V!Ending
  <1>2. V!WorkerIsJoined'
    BY DEF V!Join, V!RunnerAt, V!Turn, V!Others, V!World, V!Registered, LedgerNames, V!IInv,
           V!TypeOK, V!StopJob, V!WorkerIsJoined, V!Alive, V!Before, V!Ending, V!Cleaning
  <1>3. V!OutageIsOwned'
    BY DEF V!Join, V!RunnerAt, V!Turn, V!Others, V!World, V!Registered, LedgerNames, V!IInv,
           V!TypeOK, V!StopJob, V!OutageIsOwned, V!WorkerIsJoined, V!Alive, V!Ending, V!Cleaning
  <1>4. V!RegistrationIsOwned'
    BY DEF V!Join, V!RunnerAt, V!Turn, V!Others, V!World, V!Registered, LedgerNames, V!IInv,
           V!TypeOK, V!StopJob, V!RegistrationIsOwned, V!WorkerIsJoined, V!Quietly, V!Alive,
           V!Cleaning, V!Ending
  <1>5. V!AccountsAreOwned'
    BY DEF V!Join, V!RunnerAt, V!Turn, V!Others, V!World, V!Registered, LedgerNames, V!IInv,
           V!TypeOK, V!StopJob, V!AccountsAreOwned, V!WorkerIsJoined, V!Alive, V!Ending, V!Cleaning
  <1> QED  BY <1>1, <1>2, <1>3, <1>4, <1>5 DEF V!IInv

\* A turn of the runner, after a part of its cleanup that went well or failed.
LEMMA RunnerTurns ==
    ASSUME V!TypeOK, NEW pc \in V!RunnerPc,
           V!Turn(pc) \/ runner' = [runner EXCEPT !.pc = pc, !.cleanupFailed = TRUE]
    PROVE  /\ runner' \in [pc : V!RunnerPc, interrupted : BOOLEAN, cleanupFailed : BOOLEAN,
                           left : SUBSET Ids]
           /\ runner'.pc = pc /\ runner'.left = runner.left
           /\ ~runner'.cleanupFailed => ~runner.cleanupFailed /\ V!Turn(pc)
  <1>1. runner \in [pc : V!RunnerPc, interrupted : BOOLEAN, cleanupFailed : BOOLEAN,
                    left : SUBSET Ids]
    BY DEF V!TypeOK
  <1>2. CASE V!Turn(pc)
    BY <1>1, <1>2 DEF V!Turn
  <1>3. CASE runner' = [runner EXCEPT !.pc = pc, !.cleanupFailed = TRUE]
    <2>1. PICK half : half = [runner EXCEPT !.pc = pc]
      OBVIOUS
    <2>2. /\ half \in [pc : V!RunnerPc, interrupted : BOOLEAN, cleanupFailed : BOOLEAN,
                       left : SUBSET Ids]
          /\ half.pc = pc /\ half.left = runner.left
      BY <1>1, <2>1
    <2>3. runner' = [half EXCEPT !.cleanupFailed = TRUE]
      BY <1>3, <2>1
    <2> QED  BY <2>2, <2>3
  <1> QED  BY <1>2, <1>3

LEMMA RestorePlatformKeeps ==
    ASSUME LedgerNames, V!IInv, V!RestorePlatform
    PROVE  V!IInv'
  <1>1. /\ runner.pc = "restore" /\ V!TypeOK
        /\ UNCHANGED <<ledger, child, worker, job, late, users, signUp, mails>>
        /\ \E pc \in {"accounts"} :
              V!Turn(pc) \/ runner' = [runner EXCEPT !.pc = pc, !.cleanupFailed = TRUE]
    BY DEF V!RestorePlatform, V!RunnerAt, V!Others, V!World, V!IInv
  <1>2. PICK pc \in {"accounts"} :
              V!Turn(pc) \/ runner' = [runner EXCEPT !.pc = pc, !.cleanupFailed = TRUE]
    BY <1>1
  <1>3. pc \in V!RunnerPc
    BY DEF V!RunnerPc, V!Before, V!Cleaning, V!Ending
  <1>4. /\ runner' \in [pc : V!RunnerPc, interrupted : BOOLEAN, cleanupFailed : BOOLEAN,
                        left : SUBSET Ids]
        /\ runner'.pc = pc /\ runner'.left = runner.left
        /\ ~runner'.cleanupFailed => ~runner.cleanupFailed /\ V!Turn(pc)
    BY <1>1, <1>2, <1>3, RunnerTurns
  <1>5. /\ platformUp' \in BOOLEAN /\ (platformUp => platformUp')
        /\ ~runner'.cleanupFailed => platformUp' \/ "stop-intent" \notin ledger
    BY <1>1, <1>4 DEF V!RestorePlatform, V!TypeOK
  <1>6. V!TypeOK'
    BY <1>1, <1>4, <1>5 DEF V!TypeOK
  <1>7. V!WorkerIsJoined'
    BY <1>1, <1>2, <1>4 DEF V!IInv, V!WorkerIsJoined, V!Alive, V!Before, V!Ending, V!Cleaning
  <1>8. V!OutageIsOwned'
    BY <1>1, <1>2, <1>4, <1>5 DEF V!IInv, V!OutageIsOwned, V!Alive, V!Ending, V!Cleaning
  <1>9. V!RegistrationIsOwned'
    BY <1>1, <1>2, <1>4 DEF V!IInv, V!RegistrationIsOwned, V!Quietly
  <1>10. V!AccountsAreOwned'
    BY <1>1, <1>4 DEF V!IInv, V!AccountsAreOwned
  <1> QED  BY <1>6, <1>7, <1>8, <1>9, <1>10 DEF V!IInv

LEMMA CleanAccountKeeps ==
    ASSUME LedgerNames, V!IInv, V!CleanAccount
    PROVE  V!IInv'
  <1> DEFINE names == Ids \cup {V!StopJob}
  <1>1. PICK i \in Ids :
          /\ i \in runner.left
          /\ \/ /\ runner' = [runner EXCEPT !.left = @ \ {i}]
                /\ users' = users \ {i}
                /\ job' = [job EXCEPT ![i] = IF @ = "container" THEN "none" ELSE @]
             \/ /\ runner' = [runner EXCEPT !.left = @ \ {i}, !.cleanupFailed = TRUE]
                /\ users' = users /\ job' = job
    BY DEF V!CleanAccount, V!IInv, V!TypeOK
  <1>2. /\ runner.pc = "accounts" /\ i # V!StopJob /\ child \in {"none", "gone"}
        /\ UNCHANGED <<ledger, child, worker, late, platformUp, signUp, mails>>
    BY DEF V!CleanAccount, V!RunnerAt, LedgerNames, V!IInv, V!WorkerIsJoined, V!Cleaning
  <1>3. /\ runner' \in [pc : V!RunnerPc, interrupted : BOOLEAN, cleanupFailed : BOOLEAN,
                        left : SUBSET Ids]
        /\ runner'.pc = runner.pc /\ runner'.left = runner.left \ {i}
        /\ runner'.cleanupFailed \in BOOLEAN
        /\ ~runner'.cleanupFailed =>
              /\ ~runner.cleanupFailed /\ users' = users \ {i}
              /\ job' = [job EXCEPT ![i] = IF @ = "container" THEN "none" ELSE @]
    <2>1. runner \in [pc : V!RunnerPc, interrupted : BOOLEAN, cleanupFailed : BOOLEAN,
                      left : SUBSET Ids]
      BY DEF V!IInv, V!TypeOK
    <2>2. CASE runner' = [runner EXCEPT !.left = @ \ {i}]
      BY <1>1, <2>1, <2>2
    <2>3. CASE runner' = [runner EXCEPT !.left = @ \ {i}, !.cleanupFailed = TRUE]
      BY <1>1, <2>1, <2>3
    <2> QED  BY <1>1, <2>2, <2>3
  <1>4. /\ job' \in [names -> {"none", "spawned", "container"}]
        /\ \A j \in names : job'[j] \in {job[j], "none"}
        /\ users' \subseteq users /\ job'[V!StopJob] = job[V!StopJob]
        /\ ~runner'.cleanupFailed => i \notin users' /\ job'[i] # "container"
    BY <1>1, <1>2, <1>3 DEF V!IInv, V!TypeOK
  <1>5. V!TypeOK'
    BY <1>2, <1>3, <1>4 DEF V!IInv, V!TypeOK, V!Entry, V!StopJob
  <1>6. V!WorkerIsJoined'
    BY <1>1, <1>2, <1>3, <1>4 DEF V!IInv, V!WorkerIsJoined, V!Alive, V!StopJob, V!Before,
           V!Cleaning, V!Ending
  <1>7. V!OutageIsOwned'
    BY <1>2, <1>3, <1>4 DEF V!IInv, V!OutageIsOwned, V!Alive, V!StopJob, V!Cleaning,
           V!Ending
  <1>8. V!RegistrationIsOwned'
    BY <1>2, <1>3, <1>4 DEF V!IInv, V!RegistrationIsOwned, V!Quietly, V!Registered
  <1>9. V!AccountsAreOwned'
    BY <1>2, <1>3, <1>4 DEF V!IInv, V!AccountsAreOwned
  <1> QED  BY <1>5, <1>6, <1>7, <1>8, <1>9 DEF V!IInv

LEMMA CleanRegistrationKeeps ==
    ASSUME LedgerNames, V!IInv, V!CleanRegistration
    PROVE  V!IInv'
  <1>1. V!TypeOK'
    BY ZenonT(30) DEF V!CleanRegistration, V!RunnerAt, V!Turn, V!Others, V!World, V!IInv, V!TypeOK,
           V!Entry, V!StopJob, V!RunnerPc, V!Before, V!Cleaning, V!Ending
  <1>2. V!WorkerIsJoined'
    <2>1. /\ runner.pc = "accounts" /\ runner.left = {}
          /\ runner'.pc \in {"finish", "settle"} /\ runner'.left = runner.left
          /\ UNCHANGED <<ledger, child, worker, job>>
      BY DEF V!CleanRegistration, V!RunnerAt, V!Turn, V!Others, V!IInv, V!TypeOK
    <2> QED  BY <2>1 DEF V!IInv, V!WorkerIsJoined, V!Alive, V!StopJob, V!Before, V!Ending,
           V!Cleaning
  <1>3. V!OutageIsOwned'
    BY DEF V!CleanRegistration, V!RunnerAt, V!Turn, V!Others, V!World, V!IInv, V!TypeOK,
           V!StopJob, V!OutageIsOwned, V!Alive, V!Ending, V!Cleaning
  <1>4. V!RegistrationIsOwned'
    <2>1. "registration-owned" \notin ledger =>
            V!Quietly /\ mails.inbox = 0 /\ V!Registered \notin users
      <3>1. mails.inbox \in Nat /\ mails.flying \in Nat
        BY DEF V!IInv, V!TypeOK
      <3> QED  BY <3>1 DEF V!IInv, V!RegistrationIsOwned, V!Quietly
    <2> QED  BY <2>1 DEF V!CleanRegistration, V!RunnerAt, V!Turn, V!Others, V!World,
           V!IInv, V!TypeOK, V!RegistrationIsOwned, V!Quietly, V!Registered
  <1>5. V!AccountsAreOwned'
    BY DEF V!CleanRegistration, V!RunnerAt, V!Turn, V!Others, V!World, V!IInv, V!TypeOK,
           V!AccountsAreOwned
  <1> QED  BY <1>1, <1>2, <1>3, <1>4, <1>5 DEF V!IInv

LEMMA SettleKeeps ==
    ASSUME LedgerNames, V!IInv, V!Settle
    PROVE  V!IInv'
  <1>1. /\ runner.pc = "settle" /\ V!TypeOK
        /\ UNCHANGED <<ledger, child, worker, job, late, platformUp, users, signUp, mails>>
        /\ \E pc \in {"capture"} :
              V!Turn(pc) \/ runner' = [runner EXCEPT !.pc = pc, !.cleanupFailed = TRUE]
    BY DEF V!Settle, V!RunnerAt, V!Others, V!World, V!IInv
  <1>2. PICK pc \in {"capture"} :
              V!Turn(pc) \/ runner' = [runner EXCEPT !.pc = pc, !.cleanupFailed = TRUE]
    BY <1>1
  <1>3. pc \in V!RunnerPc
    BY DEF V!RunnerPc, V!Before, V!Cleaning, V!Ending
  <1>4. /\ runner' \in [pc : V!RunnerPc, interrupted : BOOLEAN, cleanupFailed : BOOLEAN,
                        left : SUBSET Ids]
        /\ runner'.pc = pc /\ runner'.left = runner.left
        /\ ~runner'.cleanupFailed => ~runner.cleanupFailed /\ V!Turn(pc)
    BY <1>1, <1>2, <1>3, RunnerTurns
  <1>5. V!TypeOK' /\ ~signUp /\ mails.flying = 0
    BY <1>1, <1>4 DEF V!Settle, V!TypeOK
  <1>6. V!WorkerIsJoined'
    BY <1>1, <1>2, <1>4 DEF V!IInv, V!WorkerIsJoined, V!Alive, V!Before, V!Ending, V!Cleaning
  <1>7. V!OutageIsOwned'
    BY <1>1, <1>2, <1>4 DEF V!IInv, V!OutageIsOwned, V!Alive, V!Ending, V!Cleaning
  <1>8. V!RegistrationIsOwned'
    BY <1>1, <1>2, <1>4, <1>5 DEF V!IInv, V!RegistrationIsOwned, V!Quietly
  <1>9. V!AccountsAreOwned'
    BY <1>1, <1>4 DEF V!IInv, V!AccountsAreOwned
  <1> QED  BY <1>5, <1>6, <1>7, <1>8, <1>9 DEF V!IInv

LEMMA CleanCaptureKeeps ==
    ASSUME LedgerNames, V!IInv, V!CleanCapture
    PROVE  V!IInv'
  <1>1. /\ runner.pc = "capture" /\ V!TypeOK
        /\ UNCHANGED <<ledger, child, worker, job, late, platformUp, users, signUp>>
        /\ \E pc \in {"empty", "finish"} :
              V!Turn(pc) \/ runner' = [runner EXCEPT !.pc = pc, !.cleanupFailed = TRUE]
    BY DEF V!CleanCapture, V!RunnerAt, V!Others, V!World, V!IInv
  <1>2. PICK pc \in {"empty", "finish"} :
              V!Turn(pc) \/ runner' = [runner EXCEPT !.pc = pc, !.cleanupFailed = TRUE]
    BY <1>1
  <1>3. pc \in V!RunnerPc
    BY DEF V!RunnerPc, V!Before, V!Cleaning, V!Ending
  <1>4. /\ runner' \in [pc : V!RunnerPc, interrupted : BOOLEAN, cleanupFailed : BOOLEAN,
                        left : SUBSET Ids]
        /\ runner'.pc = pc /\ runner'.left = runner.left
        /\ ~runner'.cleanupFailed => ~runner.cleanupFailed /\ V!Turn(pc)
    BY <1>1, <1>2, <1>3, RunnerTurns
  <1>5. V!TypeOK' /\ mails'.flying = mails.flying /\ mails'.inbox \in {0, mails.inbox}
    <2>1. mails \in [sent : Nat, flying : Nat, inbox : Nat]
      BY <1>1 DEF V!TypeOK
    <2>2. mails' = mails \/ mails' = [mails EXCEPT !.inbox = 0]
      BY DEF V!CleanCapture
    <2>3. /\ mails' \in [sent : Nat, flying : Nat, inbox : Nat]
          /\ mails'.flying = mails.flying /\ mails'.inbox \in {0, mails.inbox}
      BY <2>1, <2>2
    <2> QED  BY <1>1, <1>4, <2>3 DEF V!TypeOK
  <1>6. V!WorkerIsJoined'
    BY <1>1, <1>2, <1>4 DEF V!IInv, V!WorkerIsJoined, V!Alive, V!Before, V!Ending, V!Cleaning
  <1>7. V!OutageIsOwned'
    BY <1>1, <1>2, <1>4 DEF V!IInv, V!OutageIsOwned, V!Alive, V!Ending, V!Cleaning
  <1>8. V!RegistrationIsOwned'
    <2>1. pc = "finish" => runner'.cleanupFailed
      BY <1>1, <1>2, <1>4 DEF V!CleanCapture, V!Turn, V!TypeOK
    <2>2. mails'.inbox > 0 => mails.inbox > 0
      BY <1>1, <1>5 DEF V!TypeOK
    <2> QED  BY <1>1, <1>2, <1>4, <1>5, <2>1, <2>2 DEF V!IInv, V!RegistrationIsOwned, V!Quietly
  <1>9. V!AccountsAreOwned'
    BY <1>1, <1>4 DEF V!IInv, V!AccountsAreOwned
  <1> QED  BY <1>5, <1>6, <1>7, <1>8, <1>9 DEF V!IInv

LEMMA AssertEmptyKeeps ==
    ASSUME LedgerNames, V!IInv, V!AssertEmpty
    PROVE  V!IInv'
  <1>1. /\ runner.pc = "empty" /\ V!TypeOK
        /\ UNCHANGED <<ledger, child, worker, job, late, platformUp, users, signUp, mails>>
        /\ \E pc \in {"user", "finish"} :
              V!Turn(pc) \/ runner' = [runner EXCEPT !.pc = pc, !.cleanupFailed = TRUE]
    BY DEF V!AssertEmpty, V!RunnerAt, V!Others, V!World, V!IInv
  <1>2. PICK pc \in {"user", "finish"} :
              V!Turn(pc) \/ runner' = [runner EXCEPT !.pc = pc, !.cleanupFailed = TRUE]
    BY <1>1
  <1>3. pc \in V!RunnerPc
    BY DEF V!RunnerPc, V!Before, V!Cleaning, V!Ending
  <1>4. /\ runner' \in [pc : V!RunnerPc, interrupted : BOOLEAN, cleanupFailed : BOOLEAN,
                        left : SUBSET Ids]
        /\ runner'.pc = pc /\ runner'.left = runner.left
        /\ ~runner'.cleanupFailed => ~runner.cleanupFailed /\ V!Turn(pc)
    BY <1>1, <1>2, <1>3, RunnerTurns
  <1>5. V!TypeOK'
    BY <1>1, <1>4 DEF V!TypeOK
  <1>6. V!WorkerIsJoined'
    BY <1>1, <1>2, <1>4 DEF V!IInv, V!WorkerIsJoined, V!Alive, V!Before, V!Ending, V!Cleaning
  <1>7. V!OutageIsOwned'
    BY <1>1, <1>2, <1>4 DEF V!IInv, V!OutageIsOwned, V!Alive, V!Ending, V!Cleaning
  <1>8. V!RegistrationIsOwned'
    <2>1. /\ pc = "user" => mails.inbox = 0
          /\ pc = "finish" => runner'.cleanupFailed
      BY <1>1, <1>2, <1>4 DEF V!AssertEmpty, V!Turn, V!TypeOK
    <2> QED  BY <1>1, <1>2, <1>4, <2>1 DEF V!IInv, V!RegistrationIsOwned, V!Quietly
  <1>9. V!AccountsAreOwned'
    BY <1>1, <1>4 DEF V!IInv, V!AccountsAreOwned
  <1> QED  BY <1>5, <1>6, <1>7, <1>8, <1>9 DEF V!IInv

LEMMA DeleteRegisteredKeeps ==
    ASSUME LedgerNames, V!IInv, V!DeleteRegistered
    PROVE  V!IInv'
  <1>1. /\ runner.pc = "user" /\ V!TypeOK
        /\ UNCHANGED <<ledger, child, worker, job, late, platformUp, signUp, mails>>
        /\ \E pc \in {"finish"} :
              V!Turn(pc) \/ runner' = [runner EXCEPT !.pc = pc, !.cleanupFailed = TRUE]
    BY DEF V!DeleteRegistered, V!RunnerAt, V!Others, V!World, V!IInv
  <1>2. PICK pc \in {"finish"} :
              V!Turn(pc) \/ runner' = [runner EXCEPT !.pc = pc, !.cleanupFailed = TRUE]
    BY <1>1
  <1>3. pc \in V!RunnerPc
    BY DEF V!RunnerPc, V!Before, V!Cleaning, V!Ending
  <1>4. /\ runner' \in [pc : V!RunnerPc, interrupted : BOOLEAN, cleanupFailed : BOOLEAN,
                        left : SUBSET Ids]
        /\ runner'.pc = pc /\ runner'.left = runner.left
        /\ ~runner'.cleanupFailed => ~runner.cleanupFailed /\ V!Turn(pc)
    BY <1>1, <1>2, <1>3, RunnerTurns
  <1>5. /\ V!TypeOK' /\ users' \subseteq users
        /\ ~runner'.cleanupFailed => V!Registered \notin users'
    BY <1>1, <1>4 DEF V!DeleteRegistered, V!TypeOK
  <1>6. V!WorkerIsJoined'
    BY <1>1, <1>2, <1>4 DEF V!IInv, V!WorkerIsJoined, V!Alive, V!Before, V!Ending, V!Cleaning
  <1>7. V!OutageIsOwned'
    BY <1>1, <1>2, <1>4 DEF V!IInv, V!OutageIsOwned, V!Alive, V!Ending, V!Cleaning
  <1>8. V!RegistrationIsOwned'
    BY <1>1, <1>2, <1>4, <1>5 DEF V!IInv, V!RegistrationIsOwned, V!Quietly
  <1>9. V!AccountsAreOwned'
    BY <1>1, <1>4, <1>5 DEF V!IInv, V!AccountsAreOwned
  <1> QED  BY <1>5, <1>6, <1>7, <1>8, <1>9 DEF V!IInv

LEMMA LedgerFinishKeeps ==
    ASSUME LedgerNames, V!IInv, V!Finish
    PROVE  V!IInv'
  <1>1. /\ runner.pc = "finish" /\ runner.left = {}
        /\ runner' = [runner EXCEPT !.pc = "done"]
        /\ UNCHANGED <<child, worker, job, late, platformUp, users, signUp, mails>>
        /\ \/ runner.cleanupFailed /\ ledger' = ledger
           \/ ~runner.cleanupFailed /\ ledger' = {}
    BY DEF V!Finish, V!RunnerAt, V!Turn, V!Others, V!World, V!IInv, V!WorkerIsJoined, V!Ending
  <1>2. /\ runner'.pc = "done" /\ runner'.left = {}
        /\ runner'.cleanupFailed = runner.cleanupFailed
    BY <1>1 DEF V!IInv, V!TypeOK
  <1>3. V!TypeOK'
    BY <1>1 DEF V!IInv, V!TypeOK, V!Entry, V!StopJob, V!RunnerPc, V!Before, V!Cleaning, V!Ending
  <1>4. V!WorkerIsJoined'
    BY <1>1, <1>2 DEF V!IInv, V!WorkerIsJoined, V!Alive, V!StopJob, V!Before, V!Cleaning,
       V!Ending
  \* A ledger is removed when the Platform runs again, nothing registered is left and
  \* every account has been cleaned.
  <1>5. V!OutageIsOwned'
    BY <1>1, <1>2 DEF V!IInv, V!WorkerIsJoined, V!OutageIsOwned, V!Alive, V!StopJob,
       V!Cleaning, V!Ending
  <1>6. V!RegistrationIsOwned'
    <2>1. mails.inbox \in Nat /\ mails.flying \in Nat
      BY DEF V!IInv, V!TypeOK
    <2>2. ~runner.cleanupFailed =>
            ~(V!Registered \in users \/ mails.inbox > 0 \/ mails.flying > 0 \/ signUp)
      BY <1>1, <2>1 DEF V!IInv, V!RegistrationIsOwned, V!Quietly
    <2> QED  BY <1>1, <1>2, <2>2 DEF V!IInv, V!RegistrationIsOwned, V!Registered
  <1>7. V!AccountsAreOwned'
    BY <1>1, <1>2 DEF V!IInv, V!AccountsAreOwned
  <1> QED  BY <1>3, <1>4, <1>5, <1>6, <1>7 DEF V!IInv

LEMMA RunnerDiesKeeps ==
    ASSUME LedgerNames, V!IInv, V!RunnerDies
    PROVE  V!IInv'
  <1>1. V!TypeOK'
    BY DEF V!RunnerDies, V!Turn, V!Others, V!World, V!IInv, V!TypeOK, V!Entry, V!StopJob,
           V!RunnerPc, V!Before, V!Cleaning, V!Ending
  <1>2. V!WorkerIsJoined'
    BY DEF V!RunnerDies, V!Turn, V!Others, V!World, V!Registered, LedgerNames, V!IInv,
           V!TypeOK, V!StopJob, V!WorkerIsJoined, V!Alive, V!Before, V!Ending, V!Cleaning
  <1>3. V!OutageIsOwned'
    BY DEF V!RunnerDies, V!Turn, V!Others, V!World, V!Registered, LedgerNames, V!IInv,
           V!TypeOK, V!StopJob, V!OutageIsOwned, V!WorkerIsJoined, V!Alive, V!Ending, V!Cleaning
  <1>4. V!RegistrationIsOwned'
    BY DEF V!RunnerDies, V!Turn, V!Others, V!World, V!Registered, LedgerNames, V!IInv,
           V!TypeOK, V!StopJob, V!RegistrationIsOwned, V!WorkerIsJoined, V!Quietly, V!Alive,
           V!Cleaning, V!Ending
  <1>5. V!AccountsAreOwned'
    BY DEF V!RunnerDies, V!Turn, V!Others, V!World, V!Registered, LedgerNames, V!IInv,
           V!TypeOK, V!StopJob, V!AccountsAreOwned, V!WorkerIsJoined, V!Alive, V!Ending, V!Cleaning
  <1> QED  BY <1>1, <1>2, <1>3, <1>4, <1>5 DEF V!IInv

\* The worker.

LEMMA CreateAccountKeeps ==
    ASSUME LedgerNames, V!IInv, V!CreateAccount
    PROVE  V!IInv'
  <1> DEFINE names == Ids \cup {V!StopJob}
  <1>1. /\ V!Alive /\ worker.pc = "boot" /\ job[V!StopJob] = "none" /\ "scope" \in ledger
        /\ UNCHANGED <<runner, child, late, ledger, platformUp, users, signUp, mails>>
    BY DEF V!CreateAccount, V!Working, V!Quiet, V!World, V!Alive, V!IInv, V!OutageIsOwned,
           V!WorkerIsJoined
  <1>2. /\ worker' \in [pc : V!WorkerPc, stopped : BOOLEAN, left : SUBSET Ids]
        /\ worker'.pc \in {"creating", "reserve", "teardown"}
        /\ job' \in [names -> {"none", "spawned", "container"}]
        /\ \A j \in names : job'[j] = job[j] \/ job'[j] = "spawned"
        /\ job'[V!StopJob] = "none"
    <2>1. CASE job' = job
      <3>1. \/ \E i \in worker.left : worker' = [worker EXCEPT !.pc = "creating", !.left = @ \ {i}]
            \/ worker' = [worker EXCEPT !.pc = "reserve"]
            \/ worker' = [worker EXCEPT !.pc = "teardown"]
        BY DEF V!CreateAccount, V!Step
      <3>2. /\ worker' \in [pc : V!WorkerPc, stopped : BOOLEAN, left : SUBSET Ids]
            /\ worker'.pc \in {"creating", "reserve", "teardown"}
        <4>1. PICK old \in [pc : V!WorkerPc, stopped : BOOLEAN, left : SUBSET Ids] : old = worker
          BY DEF V!IInv, V!TypeOK
        <4> QED  BY <3>1, <4>1 DEF V!WorkerPc
      <3> QED  BY <1>1, <2>1, <3>2 DEF V!IInv, V!TypeOK
    <2>2. CASE job' # job
      <3>1. PICK i \in Ids : /\ job' = [job EXCEPT ![i] = "spawned"]
                             /\ worker' = [worker EXCEPT !.pc = "creating", !.left = @ \ {i}]
        BY <2>2 DEF V!CreateAccount, V!IInv, V!TypeOK
      <3>2. i # V!StopJob
        BY DEF LedgerNames
      <3>3. /\ worker' \in [pc : V!WorkerPc, stopped : BOOLEAN, left : SUBSET Ids]
            /\ worker'.pc = "creating"
        BY <3>1 DEF V!IInv, V!TypeOK, V!WorkerPc
      <3> QED  BY <1>1, <3>1, <3>2, <3>3 DEF V!IInv, V!TypeOK
    <2> QED  BY <2>1, <2>2
  <1>3. V!TypeOK'
    BY <1>1, <1>2 DEF V!IInv, V!TypeOK, V!Entry, V!StopJob
  <1>4. V!WorkerIsJoined'
    BY <1>1, <1>2 DEF V!IInv, V!WorkerIsJoined, V!Alive, V!StopJob, V!Before, V!Cleaning,
           V!Ending
  <1>5. V!OutageIsOwned'
    BY <1>1, <1>2 DEF V!IInv, V!OutageIsOwned, V!Alive, V!StopJob, V!Cleaning, V!Ending
  <1>6. V!RegistrationIsOwned'
    BY <1>1 DEF V!IInv, V!RegistrationIsOwned, V!Quietly, V!Registered
  <1>7. V!AccountsAreOwned'
    BY <1>1, <1>2 DEF V!IInv, V!AccountsAreOwned
  <1> QED  BY <1>3, <1>4, <1>5, <1>6, <1>7 DEF V!IInv

LEMMA CreatedAccountKeeps ==
    ASSUME LedgerNames, V!IInv, V!CreatedAccount
    PROVE  V!IInv'
  <1>1. V!TypeOK'
    BY DEF V!CreatedAccount, V!World, V!Working, V!Step, V!Quiet, V!IInv, V!TypeOK,
           V!Entry, V!StopJob, V!WorkerPc
  <1>2. V!WorkerIsJoined'
    BY DEF V!CreatedAccount, V!World, V!Working, V!Step, V!Quiet, V!Registered, LedgerNames,
           V!IInv, V!TypeOK, V!StopJob, V!WorkerIsJoined, V!Alive, V!Before, V!Ending, V!Cleaning
  <1>3. V!OutageIsOwned'
    BY DEF V!CreatedAccount, V!World, V!Working, V!Step, V!Quiet, V!Registered, LedgerNames,
           V!IInv, V!TypeOK, V!StopJob, V!OutageIsOwned, V!WorkerIsJoined, V!Alive, V!Ending,
           V!Cleaning
  <1>4. V!RegistrationIsOwned'
    BY DEF V!CreatedAccount, V!World, V!Working, V!Step, V!Quiet, V!Registered, LedgerNames,
           V!IInv, V!TypeOK, V!StopJob, V!RegistrationIsOwned, V!WorkerIsJoined, V!Quietly, V!Alive,
           V!Cleaning, V!Ending
  <1>5. V!AccountsAreOwned'
    BY DEF V!CreatedAccount, V!World, V!Working, V!Step, V!Quiet, V!Registered, LedgerNames,
           V!IInv, V!TypeOK, V!StopJob, V!AccountsAreOwned, V!WorkerIsJoined, V!Alive, V!Ending,
           V!Cleaning
  <1> QED  BY <1>1, <1>2, <1>3, <1>4, <1>5 DEF V!IInv

LEMMA ReserveRegistrationKeeps ==
    ASSUME LedgerNames, V!IInv, V!ReserveRegistration
    PROVE  V!IInv'
  <1>1. V!TypeOK'
    BY DEF V!ReserveRegistration, V!World, V!Working, V!Step, V!Quiet, V!Registered,
           V!IInv, V!TypeOK, V!Entry, V!StopJob, V!WorkerPc
  <1>2. V!WorkerIsJoined'
    BY DEF V!ReserveRegistration, V!World, V!Working, V!Step, V!Quiet, V!Registered,
           LedgerNames, V!IInv, V!TypeOK, V!StopJob, V!WorkerIsJoined, V!Alive, V!Before, V!Ending,
           V!Cleaning
  <1>3. V!OutageIsOwned'
    BY DEF V!ReserveRegistration, V!World, V!Working, V!Step, V!Quiet, V!Registered,
           LedgerNames, V!IInv, V!TypeOK, V!StopJob, V!OutageIsOwned, V!WorkerIsJoined, V!Alive,
           V!Ending, V!Cleaning
  <1>4. V!RegistrationIsOwned'
    BY DEF V!ReserveRegistration, V!World, V!Working, V!Step, V!Quiet, V!Registered,
           LedgerNames, V!IInv, V!TypeOK, V!StopJob, V!RegistrationIsOwned, V!WorkerIsJoined,
           V!Quietly, V!Alive, V!Cleaning, V!Ending
  <1>5. V!AccountsAreOwned'
    BY DEF V!ReserveRegistration, V!World, V!Working, V!Step, V!Quiet, V!Registered,
           LedgerNames, V!IInv, V!TypeOK, V!StopJob, V!AccountsAreOwned, V!WorkerIsJoined, V!Alive,
           V!Ending, V!Cleaning
  <1> QED  BY <1>1, <1>2, <1>3, <1>4, <1>5 DEF V!IInv

LEMMA SubmitSignUpKeeps ==
    ASSUME LedgerNames, V!IInv, V!SubmitSignUp
    PROVE  V!IInv'
  <1>1. V!TypeOK'
    BY DEF V!SubmitSignUp, V!Working, V!Quiet, V!IInv, V!TypeOK, V!Entry, V!StopJob
  <1>2. V!WorkerIsJoined'
    BY DEF V!SubmitSignUp, V!Working, V!Quiet, V!Registered, LedgerNames, V!IInv, V!TypeOK,
           V!StopJob, V!WorkerIsJoined, V!Alive, V!Before, V!Ending, V!Cleaning
  <1>3. V!OutageIsOwned'
    BY DEF V!SubmitSignUp, V!Working, V!Quiet, V!Registered, LedgerNames, V!IInv, V!TypeOK,
           V!StopJob, V!OutageIsOwned, V!WorkerIsJoined, V!Alive, V!Ending, V!Cleaning
  <1>4. V!RegistrationIsOwned'
    BY DEF V!SubmitSignUp, V!Working, V!Quiet, V!Registered, LedgerNames, V!IInv, V!TypeOK,
           V!StopJob, V!RegistrationIsOwned, V!WorkerIsJoined, V!Quietly, V!Alive, V!Cleaning,
           V!Ending
  <1>5. V!AccountsAreOwned'
    BY DEF V!SubmitSignUp, V!Working, V!Quiet, V!Registered, LedgerNames, V!IInv, V!TypeOK,
           V!StopJob, V!AccountsAreOwned, V!WorkerIsJoined, V!Alive, V!Ending, V!Cleaning
  <1> QED  BY <1>1, <1>2, <1>3, <1>4, <1>5 DEF V!IInv

LEMMA ReadLinkKeeps ==
    ASSUME LedgerNames, V!IInv, V!ReadLink
    PROVE  V!IInv'
  <1>1. V!TypeOK'
    BY DEF V!ReadLink, V!World, V!Working, V!Step, V!Quiet, V!Registered, V!IInv, V!TypeOK,
           V!Entry, V!StopJob, V!WorkerPc
  <1>2. V!WorkerIsJoined'
    BY DEF V!ReadLink, V!World, V!Working, V!Step, V!Quiet, V!Registered, LedgerNames, V!IInv,
           V!TypeOK, V!StopJob, V!WorkerIsJoined, V!Alive, V!Before, V!Ending, V!Cleaning
  <1>3. V!OutageIsOwned'
    BY DEF V!ReadLink, V!World, V!Working, V!Step, V!Quiet, V!Registered, LedgerNames, V!IInv,
           V!TypeOK, V!StopJob, V!OutageIsOwned, V!WorkerIsJoined, V!Alive, V!Ending, V!Cleaning
  <1>4. V!RegistrationIsOwned'
    BY DEF V!ReadLink, V!World, V!Working, V!Step, V!Quiet, V!Registered, LedgerNames, V!IInv,
           V!TypeOK, V!StopJob, V!RegistrationIsOwned, V!WorkerIsJoined, V!Quietly, V!Alive,
           V!Cleaning, V!Ending
  <1>5. V!AccountsAreOwned'
    BY DEF V!ReadLink, V!World, V!Working, V!Step, V!Quiet, V!Registered, LedgerNames, V!IInv,
           V!TypeOK, V!StopJob, V!AccountsAreOwned, V!WorkerIsJoined, V!Alive, V!Ending, V!Cleaning
  <1> QED  BY <1>1, <1>2, <1>3, <1>4, <1>5 DEF V!IInv

LEMMA StopPlatformKeeps ==
    ASSUME LedgerNames, V!IInv, V!StopPlatform
    PROVE  V!IInv'
  <1>1. V!TypeOK'
    BY DEF V!StopPlatform, V!World, V!Working, V!Quiet, V!StopJob, V!IInv, V!TypeOK,
           V!Entry, V!WorkerPc
  <1>2. V!WorkerIsJoined'
    BY DEF V!StopPlatform, V!World, V!Working, V!Quiet, V!Registered, LedgerNames, V!IInv,
           V!TypeOK, V!StopJob, V!WorkerIsJoined, V!Alive, V!Before, V!Ending, V!Cleaning
  <1>3. V!OutageIsOwned'
    BY DEF V!StopPlatform, V!World, V!Working, V!Quiet, V!Registered, LedgerNames, V!IInv,
           V!TypeOK, V!StopJob, V!OutageIsOwned, V!WorkerIsJoined, V!Alive, V!Ending, V!Cleaning
  <1>4. V!RegistrationIsOwned'
    BY DEF V!StopPlatform, V!World, V!Working, V!Quiet, V!Registered, LedgerNames, V!IInv,
           V!TypeOK, V!StopJob, V!RegistrationIsOwned, V!WorkerIsJoined, V!Quietly, V!Alive,
           V!Cleaning, V!Ending
  <1>5. V!AccountsAreOwned'
    BY DEF V!StopPlatform, V!World, V!Working, V!Quiet, V!Registered, LedgerNames, V!IInv,
           V!TypeOK, V!StopJob, V!AccountsAreOwned, V!WorkerIsJoined, V!Alive, V!Ending, V!Cleaning
  <1> QED  BY <1>1, <1>2, <1>3, <1>4, <1>5 DEF V!IInv

LEMMA StoppedPlatformKeeps ==
    ASSUME LedgerNames, V!IInv, V!StoppedPlatform
    PROVE  V!IInv'
  <1>1. V!TypeOK'
    BY DEF V!StoppedPlatform, V!World, V!Working, V!Step, V!Quiet, V!StopJob, V!IInv,
           V!TypeOK, V!Entry, V!WorkerPc
  <1>2. V!WorkerIsJoined'
    BY DEF V!StoppedPlatform, V!World, V!Working, V!Step, V!Quiet, V!Registered, LedgerNames,
           V!IInv, V!TypeOK, V!StopJob, V!WorkerIsJoined, V!Alive, V!Before, V!Ending, V!Cleaning
  <1>3. V!OutageIsOwned'
    BY DEF V!StoppedPlatform, V!World, V!Working, V!Step, V!Quiet, V!Registered, LedgerNames,
           V!IInv, V!TypeOK, V!StopJob, V!OutageIsOwned, V!WorkerIsJoined, V!Alive, V!Ending,
           V!Cleaning
  <1>4. V!RegistrationIsOwned'
    BY DEF V!StoppedPlatform, V!World, V!Working, V!Step, V!Quiet, V!Registered, LedgerNames,
           V!IInv, V!TypeOK, V!StopJob, V!RegistrationIsOwned, V!WorkerIsJoined, V!Quietly, V!Alive,
           V!Cleaning, V!Ending
  <1>5. V!AccountsAreOwned'
    BY DEF V!StoppedPlatform, V!World, V!Working, V!Step, V!Quiet, V!Registered, LedgerNames,
           V!IInv, V!TypeOK, V!StopJob, V!AccountsAreOwned, V!WorkerIsJoined, V!Alive, V!Ending,
           V!Cleaning
  <1> QED  BY <1>1, <1>2, <1>3, <1>4, <1>5 DEF V!IInv

LEMMA StartPlatformKeeps ==
    ASSUME LedgerNames, V!IInv, V!StartPlatform
    PROVE  V!IInv'
  <1>1. V!TypeOK'
    BY DEF V!StartPlatform, V!Working, V!Step, V!Quiet, V!IInv, V!TypeOK, V!Entry,
           V!StopJob, V!WorkerPc
  <1>2. V!WorkerIsJoined'
    BY DEF V!StartPlatform, V!Working, V!Step, V!Quiet, V!Registered, LedgerNames, V!IInv,
           V!TypeOK, V!StopJob, V!WorkerIsJoined, V!Alive, V!Before, V!Ending, V!Cleaning
  <1>3. V!OutageIsOwned'
    BY DEF V!StartPlatform, V!Working, V!Step, V!Quiet, V!Registered, LedgerNames, V!IInv,
           V!TypeOK, V!StopJob, V!OutageIsOwned, V!WorkerIsJoined, V!Alive, V!Ending, V!Cleaning
  <1>4. V!RegistrationIsOwned'
    BY DEF V!StartPlatform, V!Working, V!Step, V!Quiet, V!Registered, LedgerNames, V!IInv,
           V!TypeOK, V!StopJob, V!RegistrationIsOwned, V!WorkerIsJoined, V!Quietly, V!Alive,
           V!Cleaning, V!Ending
  <1>5. V!AccountsAreOwned'
    BY DEF V!StartPlatform, V!Working, V!Step, V!Quiet, V!Registered, LedgerNames, V!IInv,
           V!TypeOK, V!StopJob, V!AccountsAreOwned, V!WorkerIsJoined, V!Alive, V!Ending, V!Cleaning
  <1> QED  BY <1>1, <1>2, <1>3, <1>4, <1>5 DEF V!IInv

LEMMA WithdrawIntentKeeps ==
    ASSUME LedgerNames, V!IInv, V!WithdrawIntent
    PROVE  V!IInv'
  <1>1. V!TypeOK'
    BY DEF V!WithdrawIntent, V!World, V!Working, V!Quiet, V!IInv, V!TypeOK, V!Entry,
           V!StopJob, V!WorkerPc
  <1>2. V!WorkerIsJoined'
    BY DEF V!WithdrawIntent, V!World, V!Working, V!Quiet, V!Registered, LedgerNames, V!IInv,
           V!TypeOK, V!StopJob, V!WorkerIsJoined, V!Alive, V!Before, V!Ending, V!Cleaning
  <1>3. V!OutageIsOwned'
    BY DEF V!WithdrawIntent, V!World, V!Working, V!Quiet, V!Registered, LedgerNames, V!IInv,
           V!TypeOK, V!StopJob, V!OutageIsOwned, V!WorkerIsJoined, V!Alive, V!Ending, V!Cleaning
  <1>4. V!RegistrationIsOwned'
    BY DEF V!WithdrawIntent, V!World, V!Working, V!Quiet, V!Registered, LedgerNames, V!IInv,
           V!TypeOK, V!StopJob, V!RegistrationIsOwned, V!WorkerIsJoined, V!Quietly, V!Alive,
           V!Cleaning, V!Ending
  <1>5. V!AccountsAreOwned'
    BY DEF V!WithdrawIntent, V!World, V!Working, V!Quiet, V!Registered, LedgerNames, V!IInv,
           V!TypeOK, V!StopJob, V!AccountsAreOwned, V!WorkerIsJoined, V!Alive, V!Ending, V!Cleaning
  <1> QED  BY <1>1, <1>2, <1>3, <1>4, <1>5 DEF V!IInv

LEMMA EndScenariosKeeps ==
    ASSUME LedgerNames, V!IInv, V!EndScenarios
    PROVE  V!IInv'
  <1>1. V!TypeOK'
    BY DEF V!EndScenarios, V!World, V!Working, V!Step, V!Quiet, V!IInv, V!TypeOK, V!Entry,
           V!StopJob, V!WorkerPc
  <1>2. V!WorkerIsJoined'
    BY DEF V!EndScenarios, V!World, V!Working, V!Step, V!Quiet, V!Registered, LedgerNames,
           V!IInv, V!TypeOK, V!StopJob, V!WorkerIsJoined, V!Alive, V!Before, V!Ending, V!Cleaning
  <1>3. V!OutageIsOwned'
    BY DEF V!EndScenarios, V!World, V!Working, V!Step, V!Quiet, V!Registered, LedgerNames,
           V!IInv, V!TypeOK, V!StopJob, V!OutageIsOwned, V!WorkerIsJoined, V!Alive, V!Ending,
           V!Cleaning
  <1>4. V!RegistrationIsOwned'
    BY DEF V!EndScenarios, V!World, V!Working, V!Step, V!Quiet, V!Registered, LedgerNames,
           V!IInv, V!TypeOK, V!StopJob, V!RegistrationIsOwned, V!WorkerIsJoined, V!Quietly, V!Alive,
           V!Cleaning, V!Ending
  <1>5. V!AccountsAreOwned'
    BY DEF V!EndScenarios, V!World, V!Working, V!Step, V!Quiet, V!Registered, LedgerNames,
           V!IInv, V!TypeOK, V!StopJob, V!AccountsAreOwned, V!WorkerIsJoined, V!Alive, V!Ending,
           V!Cleaning
  <1> QED  BY <1>1, <1>2, <1>3, <1>4, <1>5 DEF V!IInv

LEMMA WorkerExitsKeeps ==
    ASSUME LedgerNames, V!IInv, V!WorkerExits
    PROVE  V!IInv'
  <1>1. V!TypeOK'
    BY DEF V!WorkerExits, V!World, V!Working, V!IInv, V!TypeOK, V!Entry, V!StopJob
  <1>2. V!WorkerIsJoined'
    BY DEF V!WorkerExits, V!World, V!Working, V!Registered, LedgerNames, V!IInv, V!TypeOK,
           V!StopJob, V!WorkerIsJoined, V!Alive, V!Before, V!Ending, V!Cleaning
  <1>3. V!OutageIsOwned'
    BY DEF V!WorkerExits, V!World, V!Working, V!Registered, LedgerNames, V!IInv, V!TypeOK,
           V!StopJob, V!OutageIsOwned, V!WorkerIsJoined, V!Alive, V!Ending, V!Cleaning
  <1>4. V!RegistrationIsOwned'
    BY DEF V!WorkerExits, V!World, V!Working, V!Registered, LedgerNames, V!IInv, V!TypeOK,
           V!StopJob, V!RegistrationIsOwned, V!WorkerIsJoined, V!Quietly, V!Alive, V!Cleaning,
           V!Ending
  <1>5. V!AccountsAreOwned'
    BY DEF V!WorkerExits, V!World, V!Working, V!Registered, LedgerNames, V!IInv, V!TypeOK,
           V!StopJob, V!AccountsAreOwned, V!WorkerIsJoined, V!Alive, V!Ending, V!Cleaning
  <1> QED  BY <1>1, <1>2, <1>3, <1>4, <1>5 DEF V!IInv

LEMMA WorkerDiesKeeps ==
    ASSUME LedgerNames, V!IInv, V!WorkerDies
    PROVE  V!IInv'
  <1>1. V!TypeOK'
    BY DEF V!WorkerDies, V!World, V!IInv, V!TypeOK, V!Entry, V!StopJob
  <1>2. V!WorkerIsJoined'
    BY DEF V!WorkerDies, V!World, V!Registered, LedgerNames, V!IInv, V!TypeOK, V!StopJob,
           V!WorkerIsJoined, V!Alive, V!Before, V!Ending, V!Cleaning
  <1>3. V!OutageIsOwned'
    BY DEF V!WorkerDies, V!World, V!Registered, LedgerNames, V!IInv, V!TypeOK, V!StopJob,
           V!OutageIsOwned, V!WorkerIsJoined, V!Alive, V!Ending, V!Cleaning
  <1>4. V!RegistrationIsOwned'
    BY DEF V!WorkerDies, V!World, V!Registered, LedgerNames, V!IInv, V!TypeOK, V!StopJob,
           V!RegistrationIsOwned, V!WorkerIsJoined, V!Quietly, V!Alive, V!Cleaning, V!Ending
  <1>5. V!AccountsAreOwned'
    BY DEF V!WorkerDies, V!World, V!Registered, LedgerNames, V!IInv, V!TypeOK, V!StopJob,
           V!AccountsAreOwned, V!WorkerIsJoined, V!Alive, V!Ending, V!Cleaning
  <1> QED  BY <1>1, <1>2, <1>3, <1>4, <1>5 DEF V!IInv

\* Tools and requests.

LEMMA StopContainerKeeps ==
    ASSUME LedgerNames, V!IInv, V!StopContainer
    PROVE  V!IInv'
  <1>1. V!TypeOK'
    BY DEF V!StopContainer, V!Orphaned, V!StopJob, V!IInv, V!TypeOK, V!Entry
  <1>2. V!WorkerIsJoined'
    BY DEF V!StopContainer, V!Orphaned, V!Registered, LedgerNames, V!IInv, V!TypeOK,
           V!StopJob, V!WorkerIsJoined, V!Alive, V!Before, V!Ending, V!Cleaning
  <1>3. V!OutageIsOwned'
    BY DEF V!StopContainer, V!Orphaned, V!Registered, LedgerNames, V!IInv, V!TypeOK,
           V!StopJob, V!OutageIsOwned, V!WorkerIsJoined, V!Alive, V!Ending, V!Cleaning
  <1>4. V!RegistrationIsOwned'
    BY DEF V!StopContainer, V!Orphaned, V!Registered, LedgerNames, V!IInv, V!TypeOK,
           V!StopJob, V!RegistrationIsOwned, V!WorkerIsJoined, V!Quietly, V!Alive, V!Cleaning,
           V!Ending
  <1>5. V!AccountsAreOwned'
    BY DEF V!StopContainer, V!Orphaned, V!Registered, LedgerNames, V!IInv, V!TypeOK,
           V!StopJob, V!AccountsAreOwned, V!WorkerIsJoined, V!Alive, V!Ending, V!Cleaning
  <1> QED  BY <1>1, <1>2, <1>3, <1>4, <1>5 DEF V!IInv

LEMMA CommitSignUpKeeps ==
    ASSUME LedgerNames, V!IInv, V!CommitSignUp
    PROVE  V!IInv'
  <1>1. V!TypeOK'
    <2>1. PICK old \in [sent : Nat, flying : Nat, inbox : Nat] : old = mails
      BY DEF V!IInv, V!TypeOK
    <2>2. mails' = old \/ mails' = [old EXCEPT !.flying = old.flying + 1]
      BY <2>1 DEF V!CommitSignUp
    <2>3. mails' \in [sent : Nat, flying : Nat, inbox : Nat]
      BY <2>1, <2>2
    <2> QED  BY <2>3 DEF V!CommitSignUp, V!IInv, V!TypeOK, V!Entry, V!StopJob
  <1>2. V!WorkerIsJoined'
    BY DEF V!CommitSignUp, V!Registered, LedgerNames, V!IInv, V!TypeOK, V!StopJob,
           V!WorkerIsJoined, V!Alive, V!Before, V!Ending, V!Cleaning
  <1>3. V!OutageIsOwned'
    BY DEF V!CommitSignUp, V!Registered, LedgerNames, V!IInv, V!TypeOK, V!StopJob,
           V!OutageIsOwned, V!WorkerIsJoined, V!Alive, V!Ending, V!Cleaning
  <1>4. V!RegistrationIsOwned'
    BY DEF V!CommitSignUp, V!Registered, LedgerNames, V!IInv, V!TypeOK, V!StopJob,
           V!RegistrationIsOwned, V!WorkerIsJoined, V!Quietly, V!Alive, V!Cleaning, V!Ending
  <1>5. V!AccountsAreOwned'
    BY DEF V!CommitSignUp, V!Registered, LedgerNames, V!IInv, V!TypeOK, V!StopJob,
           V!AccountsAreOwned, V!WorkerIsJoined, V!Alive, V!Ending, V!Cleaning
  <1> QED  BY <1>1, <1>2, <1>3, <1>4, <1>5 DEF V!IInv

LEMMA DeliverMailKeeps ==
    ASSUME LedgerNames, V!IInv, V!DeliverMail
    PROVE  V!IInv'
  <1>1. /\ mails' \in [sent : Nat, flying : Nat, inbox : Nat]
        /\ mails.flying \in Nat /\ mails.flying > 0
    <2>1. PICK old \in [sent : Nat, flying : Nat, inbox : Nat] : old = mails
      BY DEF V!IInv, V!TypeOK
    <2>2. PICK arrived \in {0, 1} :
             mails' = [old EXCEPT !.flying = old.flying - 1, !.inbox = old.inbox + arrived]
      BY <2>1 DEF V!DeliverMail
    <2>3. old.flying > 0 /\ old.flying - 1 \in Nat /\ old.inbox + arrived \in Nat
      BY <2>1 DEF V!DeliverMail
    <2> QED  BY <2>1, <2>2, <2>3
  <1>2. UNCHANGED <<runner, ledger, child, worker, job, late, platformUp, users, signUp>>
    BY DEF V!DeliverMail
  <1>3. V!TypeOK'
    BY <1>1, <1>2 DEF V!IInv, V!TypeOK, V!StopJob, V!Entry
  <1>4. (V!WorkerIsJoined /\ V!OutageIsOwned /\ V!AccountsAreOwned)'
    <2>1. V!WorkerIsJoined'
      BY <1>2 DEF V!IInv, V!WorkerIsJoined, V!Alive, V!StopJob
    <2>2. V!OutageIsOwned'
      BY <1>2 DEF V!IInv, V!OutageIsOwned, V!Alive, V!StopJob
    <2>3. V!AccountsAreOwned'
      BY <1>2 DEF V!IInv, V!AccountsAreOwned
    <2> QED  BY <2>1, <2>2, <2>3
  <1>5. V!RegistrationIsOwned'
    <2>1. ~V!Quietly /\ "registration-owned" \in ledger
      BY <1>1 DEF V!IInv, V!RegistrationIsOwned, V!Quietly
    <2>2. runner.pc \notin {"capture", "empty", "user"}
      BY <2>1 DEF V!IInv, V!RegistrationIsOwned
    <2>3. ~(runner.pc = "finish" /\ ~runner.cleanupFailed)
      BY <2>1 DEF V!IInv, V!RegistrationIsOwned
    <2> QED  BY <1>2, <2>1, <2>2, <2>3 DEF V!RegistrationIsOwned
  <1> QED  BY <1>3, <1>4, <1>5 DEF V!IInv

LEMMA StartContainerKeeps ==
    ASSUME LedgerNames, V!IInv, NEW i \in Ids, V!StartContainer(i)
    PROVE  V!IInv'
  <1>1. V!TypeOK'
    BY DEF V!StartContainer, V!World, V!Orphaned, V!IInv, V!TypeOK, V!Entry, V!StopJob
  <1>2. V!WorkerIsJoined'
    BY DEF V!StartContainer, V!World, V!Orphaned, V!Registered, LedgerNames, V!IInv, V!TypeOK,
           V!StopJob, V!WorkerIsJoined, V!Alive, V!Before, V!Ending, V!Cleaning
  <1>3. V!OutageIsOwned'
    BY DEF V!StartContainer, V!World, V!Orphaned, V!Registered, LedgerNames, V!IInv, V!TypeOK,
           V!StopJob, V!OutageIsOwned, V!WorkerIsJoined, V!Alive, V!Ending, V!Cleaning
  <1>4. V!RegistrationIsOwned'
    BY DEF V!StartContainer, V!World, V!Orphaned, V!Registered, LedgerNames, V!IInv, V!TypeOK,
           V!StopJob, V!RegistrationIsOwned, V!WorkerIsJoined, V!Quietly, V!Alive, V!Cleaning,
           V!Ending
  <1>5. V!AccountsAreOwned'
    BY DEF V!StartContainer, V!World, V!Orphaned, V!Registered, LedgerNames, V!IInv, V!TypeOK,
           V!StopJob, V!AccountsAreOwned, V!WorkerIsJoined, V!Alive, V!Ending, V!Cleaning
  <1> QED  BY <1>1, <1>2, <1>3, <1>4, <1>5 DEF V!IInv

LEMMA InsertAccountKeeps ==
    ASSUME LedgerNames, V!IInv, NEW i \in Ids, V!InsertAccount(i)
    PROVE  V!IInv'
  <1>1. V!TypeOK'
    BY DEF V!InsertAccount, V!IInv, V!TypeOK, V!Entry, V!StopJob
  <1>2. V!WorkerIsJoined'
    BY DEF V!InsertAccount, V!Registered, LedgerNames, V!IInv, V!TypeOK, V!StopJob,
           V!WorkerIsJoined, V!Alive, V!Before, V!Ending, V!Cleaning
  <1>3. V!OutageIsOwned'
    BY DEF V!InsertAccount, V!Registered, LedgerNames, V!IInv, V!TypeOK, V!StopJob,
           V!OutageIsOwned, V!WorkerIsJoined, V!Alive, V!Ending, V!Cleaning
  <1>4. V!RegistrationIsOwned'
    BY DEF V!InsertAccount, V!Registered, LedgerNames, V!IInv, V!TypeOK, V!StopJob,
           V!RegistrationIsOwned, V!WorkerIsJoined, V!Quietly, V!Alive, V!Cleaning, V!Ending
  <1>5. V!AccountsAreOwned'
    BY DEF V!InsertAccount, V!Registered, LedgerNames, V!IInv, V!TypeOK, V!StopJob,
           V!AccountsAreOwned, V!WorkerIsJoined, V!Alive, V!Ending, V!Cleaning
  <1> QED  BY <1>1, <1>2, <1>3, <1>4, <1>5 DEF V!IInv

LEMMA LedgerSteps ==
    ASSUME LedgerNames, V!IInv, [V!Next]_(V!vars)
    PROVE  V!IInv'
  <1>1. CASE UNCHANGED V!vars
    <2>1. V!TypeOK'
      BY <1>1 DEF V!vars, V!IInv, V!TypeOK, V!Entry, V!StopJob
    <2>2. V!WorkerIsJoined'
      BY <1>1 DEF V!vars, V!IInv, V!WorkerIsJoined, V!Alive, V!StopJob, V!Before,
             V!Cleaning, V!Ending
    <2>3. V!OutageIsOwned'
      BY <1>1 DEF V!vars, V!IInv, V!OutageIsOwned, V!Alive, V!StopJob, V!Cleaning, V!Ending
    <2>4. V!RegistrationIsOwned'
      BY <1>1 DEF V!vars, V!IInv, V!RegistrationIsOwned, V!Quietly, V!Registered
    <2>5. V!AccountsAreOwned'
      BY <1>1 DEF V!vars, V!IInv, V!AccountsAreOwned
    <2> QED  BY <2>1, <2>2, <2>3, <2>4, <2>5 DEF V!IInv
  <1>2. CASE V!Runner
    <2>1. CASE V!Preflight \/ V!WriteScope \/ V!Spawn \/ V!Deadline \/ V!ForceStop \/ V!Join
      BY <2>1, PreflightKeeps, WriteScopeKeeps, SpawnKeeps, InterruptKeeps, ForceStopKeeps,
         JoinKeeps DEF V!Deadline
    <2>2. CASE \/ V!RestorePlatform \/ V!CleanAccount \/ V!CleanRegistration \/ V!Settle
               \/ V!CleanCapture \/ V!AssertEmpty \/ V!DeleteRegistered \/ V!Finish
      BY <2>2, RestorePlatformKeeps, CleanAccountKeeps, CleanRegistrationKeeps, SettleKeeps,
         CleanCaptureKeeps, AssertEmptyKeeps, DeleteRegisteredKeeps, LedgerFinishKeeps
    <2> QED  BY <1>2, <2>1, <2>2 DEF V!Runner
  <1>3. CASE V!Worker
    BY <1>3, CreateAccountKeeps, CreatedAccountKeeps, ReserveRegistrationKeeps, SubmitSignUpKeeps,
       ReadLinkKeeps, StopPlatformKeeps, StoppedPlatformKeeps, StartPlatformKeeps,
       WithdrawIntentKeeps, EndScenariosKeeps, WorkerExitsKeeps, WorkerDiesKeeps
       DEF V!Worker
  <1>4. CASE V!Background
    BY <1>4, StopContainerKeeps, CommitSignUpKeeps, DeliverMailKeeps, StartContainerKeeps,
       InsertAccountKeeps DEF V!Background
  <1> QED  BY <1>1, <1>2, <1>3, <1>4, InterruptKeeps, RunnerDiesKeeps DEF V!Next

LEMMA LedgerInit ==
    ASSUME LedgerNames, V!Init
    PROVE  V!IInv
  <1>1. V!TypeOK
    BY DEF V!Init, V!TypeOK, V!Entry, V!RunnerPc, V!Before, V!Cleaning, V!Ending, V!WorkerPc
  <1>2. Owned
    BY DEF V!Init, Owned, V!WorkerIsJoined, V!OutageIsOwned, V!RegistrationIsOwned,
       V!AccountsAreOwned, V!Alive, V!StopJob, V!Before, V!Cleaning, V!Ending
  <1> QED  BY <1>1, <1>2 DEF V!IInv, Owned

\* Whoever dies between any two steps - worker, tool or runner - what is left of a live
\* verification is on its ledger, unless a tool outlived its worker (run-live's finally,
\* owned-platform-outage, createRegistrationFixture).
THEOREM LedgerIsKept == V!Spec => []NothingIsForgotten
  <1>1. V!IInv => NothingIsForgotten
    BY DEF V!IInv, NothingIsForgotten, V!NothingIsForgotten, V!OutageIsOwned,
       V!RegistrationIsOwned, V!AccountsAreOwned
  <1>2. LedgerNames
    BY PartsAssumption
  <1>3. V!Init => V!IInv
    BY <1>2, LedgerInit
  <1>4. V!IInv /\ [V!Next]_(V!vars) => V!IInv'
    BY <1>2, LedgerSteps
  <1> QED  BY <1>1, <1>3, <1>4, PTL DEF V!Spec

-----------------------------------------------------------------------------
(* The bootstrap.  Two invariants are kept side by side: what one run may    *)
(* rely on, whoever changes what from outside, and how everything stands as  *)
(* long as nobody does.                                                      *)

Isolating ==
    /\ G!TypeOK /\ G!FilesAreRead /\ G!LayoutIsChecked
    /\ G!OwnAccessIsGiven /\ G!VerifiedSoFar
Untouched == changes = 0 => G!Fresh \/ G!Undisturbed

Place(pc, at, peer) == [pc |-> pc, at |-> at, peer |-> peer, conf |-> run.conf]
Stored(g) ==
    g = [version |-> g.version, roles |-> g.roles, staged |-> g.staged, keys |-> g.keys,
         buckets |-> g.buckets, grants |-> g.grants, probes |-> g.probes]

LEMMA ServicesAreCounted ==
    ASSUME GarageServices
    PROVE  /\ G!N \in Nat /\ G!N >= 1 /\ G!Service = 1 .. G!N
  <1>1. Len(GARAGE_OWNERS) \in Nat /\ Len(GARAGE_OWNERS) # 0
    BY EmptySeq, LenProperties DEF GarageServices
  <1> QED  BY <1>1 DEF G!N, G!Service

LEMMA Placed ==
    ASSUME G!TypeOK
    PROVE  /\ \A pc : G!Goto(pc) => run' = Place(pc, 1, 1)
           /\ run = Place(run.pc, run.at, run.peer)
           /\ run.at \in Nat /\ run.peer \in Nat /\ changes \in Nat /\ Stored(garage)
  BY DEF G!TypeOK, G!Goto, Place, Stored

\* A run that ends owes nothing.
LEMMA Rests ==
    ASSUME Isolating, NEW pc \in {"idle", "failed", "refused"}, G!Rest(pc), changes' \in Nat,
           Stored(garage')
    PROVE  Isolating'
  <1> USE DEF G!Resting, G!Configured, G!Checked, G!Granting, G!Verifying
  <1>1. /\ run' = [pc |-> pc, at |-> 0, peer |-> 0, conf |-> run'.conf]
        /\ run'.pc = pc /\ run'.at = 0 /\ run'.peer = 0
    BY DEF G!Rest
  <1>2. G!TypeOK'
    BY <1>1 DEF G!TypeOK, Stored
  <1> QED  BY <1>1, <1>2 DEF Isolating, G!FilesAreRead, G!LayoutIsChecked, G!OwnAccessIsGiven,
              G!VerifiedSoFar

LEMMA FailsUndisturbed ==
    ASSUME G!Undisturbed, UNCHANGED <<infra, garage>>,
           G!Rest("failed") \/ (G!Rest("refused") /\ garage.staged # {})
    PROVE  G!Undisturbed'
  BY DEF G!Undisturbed, G!Rest, G!LayoutIsTheFirst, G!KeysAreTheFirst, G!Granting, G!Verifying,
     G!FirstKeys, G!Service, G!N, G!FirstInfra, G!DEFAULT_ASSIGNMENTS, G!KeyOf, G!OwnGrants

LEMMA RunningIsUndisturbed ==
    ASSUME Untouched, changes = 0, run.pc # "idle"
    PROVE  G!Undisturbed
  BY DEF Untouched, G!Fresh

\* What a preparing step has to leave: nothing is verified before the grants are made.
LEMMA Prepares ==
    ASSUME GarageServices, Isolating, UNCHANGED <<infra, platform, changes>>, Stored(garage'),
           NEW pc \in G!Configured \ G!Verifying, NEW at \in Nat, NEW peer \in Nat,
           run' = Place(pc, at, peer), run.pc \in G!Configured,
           pc \in {"import", "create", "allow"} => at \in G!Service,
           pc = "applied" => garage'.staged = {},
           pc \in G!Checked => /\ garage'.version = 1 /\ garage'.staged = {}
                               /\ garage'.roles = {run.conf.shape},
           pc = "allow" => \A s \in 1 .. at - 1 : G!OwnGrants(run.conf, s) \subseteq garage'.grants,
           pc = "health" => \A s \in G!Service : G!OwnGrants(run.conf, s) \subseteq garage'.grants
    PROVE  Isolating'
  <1>1. run'.pc = pc /\ run'.at = at /\ run'.peer = peer /\ run'.conf = run.conf
    BY DEF Place
  <1>2. pc \notin {"own", "peer", "probe", "remove", "anonymous", "ready"}
    BY DEF G!Verifying
  <1>3. G!TypeOK'
    BY <1>1, <1>2 DEF G!TypeOK, Isolating, Place, Stored, G!Service, G!N
  <1>4. G!FilesAreRead'
    BY <1>1 DEF G!FilesAreRead, Isolating, G!OwnerView
  <1>5. G!LayoutIsChecked'
    BY <1>1 DEF G!LayoutIsChecked, G!LayoutIsExpected, G!Checked, G!Granting, G!Verifying
  <1>6. G!OwnAccessIsGiven'
    BY <1>1, <1>2 DEF G!OwnAccessIsGiven, G!OwnGrants, G!Verifying, G!Service, G!N
  <1>7. G!VerifiedSoFar'
    BY <1>1, <1>2 DEF G!VerifiedSoFar
  <1> QED  BY <1>3, <1>4, <1>5, <1>6, <1>7 DEF Isolating

\* What a verifying step may not touch.
LEMMA Verifies ==
    ASSUME GarageServices, Isolating, UNCHANGED <<infra, platform, changes>>, Stored(garage'),
           NEW pc \in G!Verifying, NEW at \in Nat, NEW peer \in Nat,
           run' = Place(pc, at, peer), run.pc \in G!Verifying \cup {"health"},
           pc \in {"own", "peer", "probe", "remove"} => at \in G!Service /\ peer \in G!Service,
           garage'.version = garage.version, garage'.roles = garage.roles,
           garage'.staged = garage.staged, garage'.grants = garage.grants,
           G!VerifiedSoFar'
    PROVE  Isolating'
  <1>1. run'.pc = pc /\ run'.at = at /\ run'.peer = peer /\ run'.conf = run.conf
    BY DEF Place
  <1>2. /\ pc \in G!Configured /\ pc \in G!Checked /\ run.pc \in G!Configured
        /\ run.pc \in G!Checked /\ pc \notin {"import", "create", "allow", "applied"}
    BY DEF G!Verifying, G!Checked, G!Granting, G!Configured
  <1>3. G!TypeOK'
    BY <1>1, <1>2 DEF G!TypeOK, Isolating, Place, Stored, G!Service, G!N
  <1>4. G!FilesAreRead'
    BY <1>1, <1>2 DEF G!FilesAreRead, Isolating, G!OwnerView
  <1>5. G!LayoutIsChecked'
    BY <1>1, <1>2 DEF G!LayoutIsChecked, G!LayoutIsExpected, Isolating
  <1>6. G!OwnAccessIsGiven'
    BY <1>1, <1>2 DEF G!OwnAccessIsGiven, G!OwnGrants, Isolating, G!Service, G!N
  <1> QED  BY <1>3, <1>4, <1>5, <1>6 DEF Isolating

\* While nobody meddles, the files and the keys of the services stay those of the start.
LEMMA MovesUndisturbed ==
    ASSUME G!Undisturbed, UNCHANGED <<infra, garage>>, NEW pc, NEW at \in Nat, NEW peer,
           run' = Place(pc, at, peer), pc \notin {"remove", "refused"},
           pc = "apply" => garage.staged = {1}, pc = "applied" => garage.version = 1,
           pc = "import" => at <= 1 \/ (run.pc = "import" /\ at = run.at),
           pc \in {"buckets", "create", "deny"} \union G!Granting \union G!Verifying =>
              G!FirstKeys \subseteq garage.keys
    PROVE  G!Undisturbed'
  <1>1. run'.pc = pc /\ run'.at = at
    BY DEF Place
  <1>2. G!LayoutIsTheFirst'
    BY <1>1 DEF G!Undisturbed, G!LayoutIsTheFirst
  <1>3. G!KeysAreTheFirst'
    <2>1. /\ G!FirstKeys' = G!FirstKeys
          /\ \A s : G!KeyOf(G!FirstInfra, s)' = G!KeyOf(G!FirstInfra, s)
      BY DEF G!FirstKeys, G!KeyOf, G!FirstInfra, G!DEFAULT_ASSIGNMENTS, G!Service, G!N
    <2>2. pc = "import" => \A s \in 1 .. at - 1 : G!KeyOf(G!FirstInfra, s) \in garage.keys
      BY DEF G!Undisturbed, G!KeysAreTheFirst
    <2> QED  BY <1>1, <2>1, <2>2 DEF G!Undisturbed, G!KeysAreTheFirst, G!Granting, G!Verifying
  <1> QED  BY <1>1, <1>2, <1>3 DEF G!Undisturbed, G!FirstInfra, G!DEFAULT_ASSIGNMENTS,
              G!OwnGrants,
              G!Service, G!N

LEMMA SyncPlatformKeeps ==
    ASSUME GarageServices, Isolating, Untouched, G!SyncPlatform
    PROVE  Isolating' /\ Untouched'
  <1>1. /\ run.pc = "platform" /\ run' = Place("configuration", 1, 1)
        /\ platform' = G!OwnerView(infra) /\ UNCHANGED <<infra, garage, changes>>
    BY Placed DEF G!SyncPlatform, G!At, Isolating
  <1>2. Isolating'
    <2>1. run'.pc = "configuration" /\ run'.at = 1 /\ run'.peer = 1 /\ run'.conf = run.conf
      BY <1>1 DEF Place
    <2> USE DEF G!Resting, G!Configured, G!Checked, G!Granting, G!Verifying
    <2>2. G!TypeOK'
      BY <1>1, <2>1 DEF Isolating, G!TypeOK, Place
    <2> QED  BY <1>1, <2>1, <2>2 DEF Isolating, G!FilesAreRead, G!OwnerView, G!LayoutIsChecked,
                G!OwnAccessIsGiven, G!VerifiedSoFar
  <1>3. Untouched'
    BY <1>1, RunningIsUndisturbed, MovesUndisturbed DEF Untouched, G!Granting, G!Verifying
  <1> QED  BY <1>2, <1>3

LEMMA ImageSize ==
    ASSUME GarageServices, NEW values
    PROVE  /\ IsFiniteSet({values[s] : s \in G!Service})
           /\ Cardinality({values[s] : s \in G!Service}) <= G!N
           /\ (\A s, t \in G!Service : values[s] = values[t] => s = t) =>
                 Cardinality({values[s] : s \in G!Service}) = G!N
  <1>1. PICK n \in Nat : n = G!N /\ n >= 1 /\ G!Service = 1 .. n
    BY ServicesAreCounted
  <1>2. IsFiniteSet(1 .. n) /\ Cardinality(1 .. n) = n
    BY <1>1, FS_Interval
  <1> DEFINE f == [s \in 1 .. n |-> values[s]]
             T == {values[s] : s \in 1 .. n}
  <1>3. f \in Surjection(1 .. n, T)
    BY DEF Surjection
  <1>4. /\ IsFiniteSet(T) /\ Cardinality(T) <= n
        /\ (Cardinality(T) = n <=> f \in Injection(1 .. n, T))
    <2> HIDE DEF f, T
    <2> QED  BY <1>2, <1>3, FS_Surjection
  <1>5. (\A s, t \in 1 .. n : values[s] = values[t] => s = t) => f \in Injection(1 .. n, T)
    BY DEF Injection, IsInjective
  <1> QED  BY <1>1, <1>4, <1>5

LEMMA SameCount == ASSUME NEW S PROVE G!Cardinality(S) = Cardinality(S)
  BY DEF G!Cardinality, Cardinality

LEMMA FirstIsDistinct ==
    ASSUME GarageServices
    PROVE  /\ G!Distinct(G!FirstInfra.id) /\ G!Distinct(G!FirstInfra.secret)
           /\ G!Distinct(G!FirstInfra.bucket)
  <1>1. ASSUME NEW values, \A s, t \in G!Service : values[s] = values[t] => s = t
        PROVE  G!Distinct(values)
    BY <1>1, ImageSize, SameCount DEF G!Distinct
  <1>2. \A s, t \in G!Service :
          /\ G!FirstInfra.id[s] = G!FirstInfra.id[t] => s = t
          /\ G!FirstInfra.secret[s] = G!FirstInfra.secret[t] => s = t
          /\ G!FirstInfra.bucket[s] = G!FirstInfra.bucket[t] => s = t
    BY DEF G!FirstInfra, G!DEFAULT_ASSIGNMENTS, GarageServices
  <1> QED  BY <1>1, <1>2

LEMMA configurationKeeps ==
    ASSUME GarageServices, Isolating, Untouched, G!configuration
    PROVE  Isolating' /\ Untouched'
  <1>1. /\ run.pc = "configuration" /\ UNCHANGED <<infra, platform, garage, changes>>
        /\ \/ G!Rest("refused")
           \/ run' = [run EXCEPT !.pc = "status", !.conf = infra]
        /\ (G!Distinct(infra.bucket) /\ G!Distinct(infra.id) /\ G!Distinct(infra.secret)) =>
              run' = [run EXCEPT !.pc = "status", !.conf = infra]
    BY DEF G!configuration, G!At, G!Files, G!Bounds
  <1>2. CASE G!Rest("refused") /\ run'.pc # "status"
    <2>1. Isolating'
      BY <1>1, <1>2, Rests, Placed DEF Isolating
    <2>2. changes # 0
      <3> SUFFICES ASSUME changes = 0 PROVE FALSE
        OBVIOUS
      <3>1. infra = G!FirstInfra
        BY <1>1, RunningIsUndisturbed DEF G!Undisturbed
      <3>2. run' = [run EXCEPT !.pc = "status", !.conf = infra]
        BY <1>1, <3>1, FirstIsDistinct
      <3> QED  BY <1>2, <3>2 DEF Isolating, G!TypeOK
    <2> QED  BY <1>1, <2>1, <2>2 DEF Untouched
  <1>3. CASE run' = [run EXCEPT !.pc = "status", !.conf = infra]
    <2>1. /\ run' = [pc |-> "status", at |-> run.at, peer |-> run.peer, conf |-> infra]
          /\ run'.pc = "status" /\ run'.conf = infra
          /\ run'.at \in Nat /\ run'.peer \in Nat
      BY <1>3 DEF Isolating, G!TypeOK
    <2>2. G!TypeOK'
      BY <1>1, <2>1 DEF Isolating, G!TypeOK, G!Configured
    <2>3. Isolating'
      BY <1>1, <2>1, <2>2 DEF Isolating, G!FilesAreRead, G!OwnerView, G!LayoutIsChecked,
         G!OwnAccessIsGiven, G!VerifiedSoFar, G!Configured, G!Checked, G!Granting, G!Verifying
    <2>4. Untouched'
      BY <1>1, <2>1, RunningIsUndisturbed DEF Untouched, G!Undisturbed, G!LayoutIsTheFirst,
         G!KeysAreTheFirst, G!FirstKeys, G!FirstInfra, G!DEFAULT_ASSIGNMENTS, G!KeyOf,
         G!OwnGrants, G!Service, G!N, G!Granting, G!Verifying
    <2> QED  BY <2>3, <2>4
  <1> QED  BY <1>1, <1>2, <1>3 DEF G!Rest

LEMMA waitForStatusKeeps ==
    ASSUME GarageServices, Isolating, Untouched, G!waitForStatus
    PROVE  Isolating' /\ Untouched'
  <1>1. /\ run.pc = "status" /\ UNCHANGED <<infra, platform, garage, changes>>
        /\ \/ run' = Place("layout", 1, 1)
           \/ run' = Place("status", run.at + 1, run.peer)
           \/ G!Rest("failed")
    BY Placed DEF G!waitForStatus, G!Wait, G!At, G!Files, G!Bounds, Isolating, G!TypeOK, Place
  <1>2. run.at \in Nat /\ run.peer \in Nat /\ Stored(garage) /\ changes \in Nat
    BY Placed DEF Isolating
  <1>3. Isolating'
    BY <1>1, <1>2, Prepares, Rests DEF G!Configured, G!Checked, G!Granting, G!Verifying
  <1>4. Untouched'
    <2> SUFFICES ASSUME changes = 0 PROVE G!Undisturbed'
      BY <1>1 DEF Untouched
    <2>1. G!Undisturbed
      BY <1>1, RunningIsUndisturbed
    <2>2. CASE G!Rest("failed")
      BY <1>1, <2>1, <2>2, FailsUndisturbed
    <2>3. CASE run' = Place("layout", 1, 1)
      BY <1>1, <2>1, <2>3, MovesUndisturbed DEF G!Granting, G!Verifying
    <2>4. CASE run' = Place("status", run.at + 1, run.peer)
      <3>1. run.at + 1 \in Nat
        BY <1>2
      <3> QED  BY <1>1, <2>1, <2>4, <3>1, MovesUndisturbed DEF G!Granting, G!Verifying
    <2> QED  BY <1>1, <2>2, <2>3, <2>4
  <1> QED  BY <1>3, <1>4

LEMMA GetClusterLayoutKeeps ==
    ASSUME GarageServices, Isolating, Untouched, G!GetClusterLayout
    PROVE  Isolating' /\ Untouched'
  <1>1. /\ run.pc = "layout" /\ UNCHANGED <<infra, platform, garage, changes>>
        /\ \/ garage.staged # {} /\ G!Rest("refused")
           \/ garage.staged = {} /\ garage.version = 0 /\ run' = Place("stage", 1, 1)
           \/ /\ garage.staged = {} /\ run' = Place("applied", 1, 1)
              /\ ~(garage.version = 0 /\ garage.roles = {})
    BY Placed DEF G!GetClusterLayout, G!At, G!Files, G!Bounds, G!Refuse, Isolating
  <1>2. Stored(garage) /\ changes \in Nat
    BY Placed DEF Isolating
  <1>3. Isolating'
    BY <1>1, <1>2, Prepares, Rests DEF G!Configured, G!Checked, G!Granting, G!Verifying
  <1>4. Untouched'
    <2> SUFFICES ASSUME changes = 0 PROVE G!Undisturbed'
      BY <1>1 DEF Untouched
    <2>1. G!Undisturbed /\ (garage.version = 1 \/ (garage.version = 0 /\ garage.roles = {}))
      BY <1>1, RunningIsUndisturbed DEF G!Undisturbed, G!LayoutIsTheFirst
    <2> QED  BY <1>1, <2>1, MovesUndisturbed, FailsUndisturbed DEF G!Granting, G!Verifying
  <1> QED  BY <1>3, <1>4

LEMMA FirstIsFixed ==
    /\ G!FirstInfra' = G!FirstInfra /\ G!FirstKeys' = G!FirstKeys
    /\ \A s : G!OwnGrants(G!FirstInfra, s)' = G!OwnGrants(G!FirstInfra, s)
    /\ \A s : G!KeyOf(G!FirstInfra, s)' = G!KeyOf(G!FirstInfra, s)
    /\ G!Service' = G!Service
  BY DEF G!FirstKeys, G!KeyOf, G!FirstInfra, G!DEFAULT_ASSIGNMENTS, G!Service, G!N, G!OwnGrants

LEMMA ConfIsFirst ==
    ASSUME Isolating, G!Undisturbed, run.pc \in G!Configured
    PROVE  run.conf = G!FirstInfra /\ run.conf.shape = 1
  BY DEF Isolating, G!FilesAreRead, G!Undisturbed, G!FirstInfra

LEMMA UpdateClusterLayoutKeeps ==
    ASSUME GarageServices, Isolating, Untouched, G!UpdateClusterLayout
    PROVE  Isolating' /\ Untouched'
  <1>1. /\ UNCHANGED <<infra, platform, changes>>
        /\ run.pc = "stage" /\ run' = Place("apply", 1, 1)
        /\ garage' = [garage EXCEPT !.staged = {run.conf.shape}] /\ Stored(garage)
    BY Placed DEF G!UpdateClusterLayout, G!At, G!Files, G!Bounds, Isolating
  <1>2. Isolating'
    <2>1. Stored(garage')
      BY <1>1 DEF Stored
    <2> QED  BY <1>1, <2>1, Prepares DEF G!Configured, G!Checked, G!Granting, G!Verifying
  <1>3. Untouched'
    <2> SUFFICES ASSUME changes = 0 PROVE G!Undisturbed'
      BY <1>1 DEF Untouched
    <2>1. G!Undisturbed /\ run.conf = G!FirstInfra /\ run.conf.shape = 1
      BY <1>1, RunningIsUndisturbed, ConfIsFirst DEF G!Configured, G!Checked, G!Granting,
         G!Verifying
    <2>2. /\ garage'.version = garage.version /\ garage'.roles = garage.roles
          /\ garage'.staged = {1} /\ garage'.keys = garage.keys
          /\ garage'.buckets = garage.buckets /\ garage'.grants = garage.grants
      BY <1>1, <2>1 DEF Stored
    <2>3. run'.pc = "apply"
      BY <1>1 DEF Place
    <2> QED  BY <1>1, <2>1, <2>2, <2>3, FirstIsFixed DEF G!Undisturbed, G!LayoutIsTheFirst,
                G!KeysAreTheFirst, G!Granting, G!Verifying
  <1> QED  BY <1>2, <1>3

LEMMA ApplyClusterLayoutKeeps ==
    ASSUME GarageServices, Isolating, Untouched, G!ApplyClusterLayout
    PROVE  Isolating' /\ Untouched'
  <1>1. /\ UNCHANGED <<infra, platform, changes>>
        /\ run.pc = "apply" /\ run' = Place("applied", 1, 1) /\ Stored(garage)
        /\ garage' = [garage EXCEPT !.version = 1, !.roles = garage.staged, !.staged = {}]
    BY Placed DEF G!ApplyClusterLayout, G!At, G!Files, G!Bounds, Isolating
  <1>2. Isolating'
    <2>1. Stored(garage') /\ garage'.staged = {}
      BY <1>1 DEF Stored
    <2> QED  BY <1>1, <2>1, Prepares DEF G!Configured, G!Checked, G!Granting, G!Verifying
  <1>3. Untouched'
    <2> SUFFICES ASSUME changes = 0 PROVE G!Undisturbed'
      BY <1>1 DEF Untouched
    <2>1. G!Undisturbed /\ run.conf = G!FirstInfra /\ run.conf.shape = 1
      BY <1>1, RunningIsUndisturbed, ConfIsFirst DEF G!Configured, G!Checked, G!Granting,
         G!Verifying
    <2>2. garage.staged = {1}
      BY <1>1, <2>1 DEF G!Undisturbed, G!LayoutIsTheFirst
    <2>3. /\ garage'.version = 1 /\ garage'.roles = {1} /\ garage'.keys = garage.keys
          /\ garage'.buckets = garage.buckets /\ garage'.grants = garage.grants
      BY <1>1, <2>2 DEF Stored
    <2>4. run'.pc = "applied"
      BY <1>1 DEF Place
    <2> QED  BY <1>1, <2>1, <2>3, <2>4, FirstIsFixed DEF G!Undisturbed, G!LayoutIsTheFirst,
                G!KeysAreTheFirst, G!Granting, G!Verifying
  <1> QED  BY <1>2, <1>3

LEMMA CheckLayoutKeeps ==
    ASSUME GarageServices, Isolating, Untouched, G!CheckLayout
    PROVE  Isolating' /\ Untouched'
  <1>1. /\ UNCHANGED <<infra, platform, changes>>
        /\ run.pc = "applied" /\ UNCHANGED garage /\ Stored(garage)
        /\ \/ garage.version = 1 /\ garage.roles = {run.conf.shape} /\ run' = Place("keys", 1, 1)
           \/ ~(garage.version = 1 /\ garage.roles = {run.conf.shape}) /\ G!Rest("refused")
        /\ changes \in Nat /\ garage.staged = {}
    BY Placed DEF G!CheckLayout, G!LayoutIsExpected, G!Refuse, G!At, G!Files, G!Bounds,
       Isolating, G!LayoutIsChecked
  <1>2. Isolating'
    BY <1>1, Prepares, Rests DEF G!Configured, G!Checked, G!Granting, G!Verifying
  <1>3. Untouched'
    <2> SUFFICES ASSUME changes = 0 PROVE G!Undisturbed'
      BY <1>1 DEF Untouched
    <2>1. G!Undisturbed /\ run.conf = G!FirstInfra /\ run.conf.shape = 1
      BY <1>1, RunningIsUndisturbed, ConfIsFirst DEF G!Configured, G!Checked, G!Granting,
         G!Verifying
    <2>2. garage.version = 1 /\ garage.roles = {1}
      BY <1>1, <2>1 DEF G!Undisturbed, G!LayoutIsTheFirst
    <2> QED  BY <1>1, <2>1, <2>2, MovesUndisturbed DEF G!Granting, G!Verifying
  <1> QED  BY <1>2, <1>3

LEMMA ListKeysKeeps ==
    ASSUME GarageServices, Isolating, Untouched, G!ListKeys
    PROVE  Isolating' /\ Untouched'
  <1>1. /\ UNCHANGED <<infra, platform, changes>>
        /\ run.pc = "keys" /\ UNCHANGED garage /\ Stored(garage) /\ changes \in Nat
        /\ \/ G!KeysAreExpected /\ run' = Place("import", 1, 1)
           \/ ~G!KeysAreExpected /\ G!Rest("refused")
        /\ garage.version = 1 /\ garage.roles = {run.conf.shape} /\ garage.staged = {}
    BY Placed DEF G!ListKeys, G!LayoutIsExpected, G!Refuse, G!At, G!Files, G!Bounds, Isolating,
       G!LayoutIsChecked, G!Checked
  <1>2. Isolating'
    <2>1. 1 \in G!Service
      BY ServicesAreCounted
    <2> QED  BY <1>1, <2>1, Prepares, Rests DEF G!Configured, G!Checked, G!Granting, G!Verifying
  <1>3. Untouched'
    <2> SUFFICES ASSUME changes = 0 PROVE G!Undisturbed'
      BY <1>1 DEF Untouched
    <2>1. G!Undisturbed /\ run.conf = G!FirstInfra /\ run.conf.shape = 1
      BY <1>1, RunningIsUndisturbed, ConfIsFirst DEF G!Configured, G!Checked, G!Granting,
         G!Verifying
    <2>2. garage.keys \subseteq {G!KeyOf(G!FirstInfra, s) : s \in G!Service}
      BY <2>1 DEF G!Undisturbed, G!KeysAreTheFirst, G!FirstKeys
    <2>3. G!KeysAreExpected
      <3> DEFINE key == [s \in G!Service |-> G!KeyOf(G!FirstInfra, s)]
      <3>1. {G!KeyOf(G!FirstInfra, s) : s \in G!Service} = {key[s] : s \in G!Service}
        OBVIOUS
      <3>2. /\ IsFiniteSet({key[s] : s \in G!Service})
            /\ Cardinality({key[s] : s \in G!Service}) <= G!N
        <4> HIDE DEF key
        <4> QED  BY ImageSize
      <3>3. Cardinality(garage.keys) <= G!N
        <4>1. PICK All : All = {key[s] : s \in G!Service}
          OBVIOUS
        <4>2. garage.keys \in SUBSET All /\ IsFiniteSet(All) /\ Cardinality(All) <= G!N
          BY <2>2, <3>1, <3>2, <4>1
        <4>3. Cardinality(garage.keys) <= Cardinality(All)
          BY <4>2, FS_Subset
        <4>4. Cardinality(garage.keys) \in Nat /\ Cardinality(All) \in Nat /\ G!N \in Nat
          BY <4>2, FS_Subset, FS_CardinalityType, ServicesAreCounted
        <4> QED  BY <4>2, <4>3, <4>4
      <3>4. \A k \in garage.keys : \E s \in G!Service :
              run.conf.id[s] = k.id /\ k.name = GARAGE_OWNERS[s]
        BY <2>1, <2>2 DEF G!KeyOf
      <3> QED  BY <3>3, <3>4, SameCount DEF G!KeysAreExpected
    <2> QED  BY <1>1, <2>1, <2>3, MovesUndisturbed DEF G!Granting, G!Verifying
  <1> QED  BY <1>2, <1>3

LEMMA Iterates ==
    ASSUME GarageServices, Isolating, NEW pc, NEW change, NEW after, G!ForEach(pc, change, after)
    PROVE  /\ run.pc = pc /\ garage' = change /\ UNCHANGED <<infra, platform, changes>>
           /\ Stored(garage) /\ changes \in Nat /\ run.at \in Nat /\ run.peer \in Nat
           /\ \/ run.at = G!N /\ run' = Place(after, 1, 1)
              \/ run.at # G!N /\ run' = Place(pc, run.at + 1, run.peer)
           /\ 1 \in G!Service
           /\ run.at \in G!Service /\ run.at # G!N => run.at + 1 \in G!Service
  <1>1. /\ run.pc = pc /\ garage' = change /\ UNCHANGED <<infra, platform, changes>>
        /\ \/ run.at = G!N /\ G!Goto(after)
           \/ run.at # G!N /\ run' = [run EXCEPT !.at = @ + 1]
    BY DEF G!ForEach, G!At, G!Files, G!Bounds
  <1>2. run' = [run EXCEPT !.at = @ + 1] => run' = Place(pc, run.at + 1, run.peer)
    BY <1>1 DEF Isolating, G!TypeOK, Place
  <1>3. 1 \in G!Service /\ (run.at \in G!Service /\ run.at # G!N => run.at + 1 \in G!Service)
    BY ServicesAreCounted
  <1> QED  BY <1>1, <1>2, <1>3, Placed DEF Isolating

LEMMA ImportKeyKeeps ==
    ASSUME GarageServices, Isolating, Untouched, G!ImportKey
    PROVE  Isolating' /\ Untouched'
  <1>1. /\ UNCHANGED <<infra, platform, changes>>
        /\ run.pc = "import" /\ run.at \in G!Service /\ run.peer \in Nat /\ Stored(garage)
        /\ \/ run.at = G!N /\ run' = Place("buckets", 1, 1)
           \/ /\ run.at # G!N /\ run.at + 1 \in G!Service
              /\ run' = Place("import", run.at + 1, run.peer)
        /\ 1 \in G!Service
        /\ garage.version = 1 /\ garage.roles = {run.conf.shape} /\ garage.staged = {}
        /\ garage' = IF \E k \in garage.keys : k.id = run.conf.id[run.at] THEN garage
                     ELSE [garage EXCEPT !.keys = @ \union {G!KeyOf(run.conf, run.at)}]
    <2>1. run.pc = "import"
      BY DEF G!ImportKey, G!ForEach, G!At
    <2>2. /\ run.at \in G!Service /\ garage.version = 1
          /\ garage.roles = {run.conf.shape} /\ garage.staged = {}
      BY <2>1 DEF Isolating, G!TypeOK, G!LayoutIsChecked, G!LayoutIsExpected, G!Checked,
         G!Granting
    <2> QED  BY <2>1, <2>2, Iterates DEF G!ImportKey
  <1>2. Isolating'
    <2>1. /\ Stored(garage') /\ garage'.version = garage.version /\ garage'.roles = garage.roles
          /\ garage'.staged = garage.staged
      BY <1>1 DEF Stored
    <2>2. run.at + 1 \in Nat \/ run.at = G!N
      BY <1>1, ServicesAreCounted
    <2> QED  BY <1>1, <2>1, <2>2, Prepares DEF G!Configured, G!Checked, G!Granting, G!Verifying
  <1>3. Untouched'
    <2> SUFFICES ASSUME changes = 0 PROVE G!Undisturbed'
      BY <1>1 DEF Untouched
    <2>1. G!Undisturbed /\ run.conf = G!FirstInfra /\ run.conf.shape = 1
      BY <1>1, RunningIsUndisturbed, ConfIsFirst DEF G!Configured, G!Checked, G!Granting,
         G!Verifying
    <2>2. PICK n \in Nat, at \in Nat :
             n = G!N /\ at = run.at /\ G!Service = 1 .. n /\ at \in 1 .. n
      BY <1>1, ServicesAreCounted
    <2>3. /\ garage'.version = garage.version /\ garage'.roles = garage.roles
          /\ garage'.staged = garage.staged /\ garage'.grants = garage.grants
          /\ garage'.buckets = garage.buckets
          /\ garage'.keys = IF \E k \in garage.keys : k.id = G!FirstInfra.id[at] THEN garage.keys
                            ELSE garage.keys \cup {G!KeyOf(G!FirstInfra, at)}
      BY <1>1, <2>1, <2>2 DEF Stored
    <2>4. garage.keys \subseteq G!FirstKeys /\ G!KeyOf(G!FirstInfra, at) \in G!FirstKeys
      BY <2>1, <2>2 DEF G!Undisturbed, G!KeysAreTheFirst, G!FirstKeys
    <2>5. ASSUME NEW k \in garage.keys, k.id = G!FirstInfra.id[at]
          PROVE k = G!KeyOf(G!FirstInfra, at)
      <3>1. PICK s \in 1 .. n : k = G!KeyOf(G!FirstInfra, s)
        BY <2>2, <2>4 DEF G!FirstKeys
      <3>2. k.id = <<"id", s, 1>> /\ G!FirstInfra.id[at] = <<"id", at, 1>>
        BY <2>2, <3>1 DEF G!KeyOf, G!FirstInfra
      <3> QED  BY <2>5, <3>1, <3>2
    <2>6. /\ garage'.keys \subseteq G!FirstKeys /\ G!KeyOf(G!FirstInfra, at) \in garage'.keys
          /\ garage.keys \subseteq garage'.keys
      BY <2>3, <2>4, <2>5
    <2>7. \A s \in 1 .. at : G!KeyOf(G!FirstInfra, s) \in garage'.keys
      <3>1. \A s \in 1 .. at - 1 : G!KeyOf(G!FirstInfra, s) \in garage'.keys
        BY <1>1, <2>1, <2>2, <2>6 DEF G!Undisturbed, G!KeysAreTheFirst
      <3>2. \A s \in 1 .. at : s = at \/ s \in 1 .. at - 1
        OBVIOUS
      <3> QED  BY <2>6, <3>1, <3>2
    <2>8. \/ run'.pc = "import" /\ run'.at = at + 1
          \/ run'.pc = "buckets" /\ at = n
      BY <1>1, <2>2 DEF Place
    <2>9. G!KeysAreTheFirst'
      <3>1. run'.pc = "import" =>
               \A s \in 1 .. run'.at - 1 : G!KeyOf(G!FirstInfra, s) \in garage'.keys
        BY <2>7, <2>8
      <3>2. run'.pc = "buckets" => G!FirstKeys \subseteq garage'.keys
        BY <2>2, <2>7, <2>8 DEF G!FirstKeys
      <3> QED  BY <2>6, <2>8, <3>1, <3>2, FirstIsFixed DEF G!KeysAreTheFirst, G!Granting,
                  G!Verifying
    <2> QED  BY <1>1, <2>1, <2>3, <2>8, <2>9, FirstIsFixed DEF G!Undisturbed, G!LayoutIsTheFirst
  <1> QED  BY <1>2, <1>3

LEMMA ListBucketsKeeps ==
    ASSUME GarageServices, Isolating, Untouched, G!ListBuckets
    PROVE  Isolating' /\ Untouched'
  <1>1. /\ UNCHANGED <<infra, platform, changes>>
        /\ run.pc = "buckets" /\ UNCHANGED garage /\ Stored(garage) /\ changes \in Nat
        /\ 1 \in G!Service
        /\ \/ G!BucketsAreExpected /\ run' = Place("create", 1, 1)
           \/ ~G!BucketsAreExpected /\ G!Rest("refused")
        /\ garage.version = 1 /\ garage.roles = {run.conf.shape} /\ garage.staged = {}
    BY Placed, ServicesAreCounted DEF G!ListBuckets, G!LayoutIsExpected, G!Refuse, G!At,
       G!Files, G!Bounds, Isolating,
       G!LayoutIsChecked, G!Checked
  <1>2. Isolating'
    BY <1>1, Prepares, Rests DEF G!Configured, G!Checked, G!Granting, G!Verifying
  <1>3. Untouched'
    <2> SUFFICES ASSUME changes = 0 PROVE G!Undisturbed'
      BY <1>1 DEF Untouched
    <2>1. G!Undisturbed /\ run.conf = G!FirstInfra /\ run.conf.shape = 1
      BY <1>1, RunningIsUndisturbed, ConfIsFirst DEF G!Configured, G!Checked, G!Granting,
         G!Verifying
    <2>2. garage.buckets \subseteq {GARAGE_OWNERS[s] : s \in G!Service}
      BY <2>1 DEF G!Undisturbed
    <2>3. G!BucketsAreExpected
      <3>1. PICK All : All = {GARAGE_OWNERS[s] : s \in G!Service}
        OBVIOUS
      <3>2. garage.buckets \in SUBSET All /\ IsFiniteSet(All) /\ Cardinality(All) <= G!N
        BY <2>2, <3>1, ImageSize
      <3>3. Cardinality(garage.buckets) <= Cardinality(All)
        BY <3>2, FS_Subset
      <3>4. Cardinality(garage.buckets) \in Nat /\ Cardinality(All) \in Nat /\ G!N \in Nat
        BY <3>2, FS_Subset, FS_CardinalityType, ServicesAreCounted
      <3>5. {run.conf.bucket[s] : s \in G!Service} = All
        BY <2>1, <3>1 DEF G!FirstInfra, G!DEFAULT_ASSIGNMENTS
      <3> QED  BY <3>2, <3>3, <3>4, <3>5, SameCount DEF G!BucketsAreExpected
    <2>4. G!FirstKeys \subseteq garage.keys
      BY <1>1, <2>1 DEF G!Undisturbed, G!KeysAreTheFirst
    <2> QED  BY <1>1, <2>1, <2>3, <2>4, MovesUndisturbed DEF G!Granting, G!Verifying
  <1> QED  BY <1>2, <1>3

LEMMA CreateBucketKeeps ==
    ASSUME GarageServices, Isolating, Untouched, G!CreateBucket
    PROVE  Isolating' /\ Untouched'
  <1>1. /\ UNCHANGED <<infra, platform, changes>>
        /\ run.pc = "create" /\ run.at \in G!Service /\ run.peer \in Nat /\ Stored(garage)
        /\ \/ run.at = G!N /\ run' = Place("deny", 1, 1)
           \/ /\ run.at # G!N /\ run.at + 1 \in G!Service
              /\ run' = Place("create", run.at + 1, run.peer)
        /\ 1 \in G!Service
        /\ garage.version = 1 /\ garage.roles = {run.conf.shape} /\ garage.staged = {}
        /\ garage' = [garage EXCEPT !.buckets = @ \union {run.conf.bucket[run.at]}]
    <2>1. run.pc = "create"
      BY DEF G!CreateBucket, G!ForEach, G!At
    <2>2. /\ run.at \in G!Service /\ garage.version = 1
          /\ garage.roles = {run.conf.shape} /\ garage.staged = {}
      BY <2>1 DEF Isolating, G!TypeOK, G!LayoutIsChecked, G!LayoutIsExpected, G!Checked,
         G!Granting
    <2> QED  BY <2>1, <2>2, Iterates DEF G!CreateBucket
  <1>2. Isolating'
    <2>1. /\ Stored(garage')
          /\ garage'.version = garage.version /\ garage'.roles = garage.roles
          /\ garage'.staged = garage.staged
      BY <1>1 DEF Stored
    <2>2. run.at + 1 \in Nat \/ run.at = G!N
      BY <1>1, ServicesAreCounted
    <2> QED  BY <1>1, <2>1, <2>2, Prepares DEF G!Configured, G!Checked, G!Granting, G!Verifying
  <1>3. Untouched'
    <2> SUFFICES ASSUME changes = 0 PROVE G!Undisturbed'
      BY <1>1 DEF Untouched
    <2>1. G!Undisturbed /\ run.conf = G!FirstInfra /\ run.conf.shape = 1
      BY <1>1, RunningIsUndisturbed, ConfIsFirst DEF G!Configured, G!Checked, G!Granting,
         G!Verifying
    <2>2. /\ garage'.keys = garage.keys /\ garage'.grants = garage.grants
          /\ garage'.version = garage.version /\ garage'.roles = garage.roles
          /\ garage'.staged = garage.staged
          /\ garage'.buckets = garage.buckets \cup {GARAGE_OWNERS[run.at]}
      BY <1>1, <2>1 DEF Stored, G!FirstInfra, G!DEFAULT_ASSIGNMENTS
    <2>3. run'.pc \in {"create", "deny"}
      BY <1>1 DEF Place
    <2> QED  BY <1>1, <2>1, <2>2, <2>3, FirstIsFixed DEF G!Undisturbed, G!LayoutIsTheFirst,
                G!KeysAreTheFirst
  <1> QED  BY <1>2, <1>3

LEMMA DenyBucketKeyKeeps ==
    ASSUME GarageServices, Isolating, Untouched, G!DenyBucketKey
    PROVE  Isolating' /\ Untouched'
  <1>1. /\ UNCHANGED <<infra, platform, changes>>
        /\ run.pc = "deny" /\ Stored(garage)
        /\ garage' = [garage EXCEPT !.grants = @ \
                         {<<run.conf.id[run.at], run.conf.bucket[run.peer], p>> : p \in G!Perm}]
        /\ \/ run' = Place("deny", run.at, run.peer + 1)
           \/ run' = Place("deny", run.at + 1, 1)
           \/ run' = Place("allow", 1, 1)
        /\ run.at \in Nat /\ run.peer \in Nat /\ 1 \in G!Service
        /\ garage.version = 1 /\ garage.roles = {run.conf.shape} /\ garage.staged = {}
    <2>1. run.pc = "deny"
      BY DEF G!DenyBucketKey, G!At
    <2>2. /\ run.at \in Nat /\ run.peer \in Nat
          /\ garage.version = 1 /\ garage.roles = {run.conf.shape} /\ garage.staged = {}
      BY <2>1 DEF Isolating, G!TypeOK, G!LayoutIsChecked, G!LayoutIsExpected, G!Checked
    <2>3. \/ run' = Place("deny", run.at, run.peer + 1)
          \/ run' = Place("deny", run.at + 1, 1)
          \/ run' = Place("allow", 1, 1)
      BY <2>1 DEF G!DenyBucketKey, Isolating, G!TypeOK, Place
    <2> QED  BY <2>1, <2>2, <2>3, ServicesAreCounted, Placed DEF G!DenyBucketKey, G!Files,
                G!Bounds, Isolating
  <1>2. Isolating'
    <2>1. /\ Stored(garage')
          /\ garage'.version = garage.version /\ garage'.roles = garage.roles
          /\ garage'.staged = garage.staged
      BY <1>1 DEF Stored
    <2>2. run.at + 1 \in Nat /\ run.peer + 1 \in Nat
      BY <1>1
    <2> QED  BY <1>1, <2>1, <2>2, Prepares DEF G!Configured, G!Checked, G!Granting, G!Verifying
  <1>3. Untouched'
    <2> SUFFICES ASSUME changes = 0 PROVE G!Undisturbed'
      BY <1>1 DEF Untouched
    <2>1. G!Undisturbed /\ run.conf = G!FirstInfra /\ run.conf.shape = 1
      BY <1>1, RunningIsUndisturbed, ConfIsFirst DEF G!Configured, G!Checked, G!Granting,
         G!Verifying
    <2>2. /\ garage'.keys = garage.keys /\ garage'.buckets = garage.buckets
          /\ garage'.version = garage.version /\ garage'.roles = garage.roles
          /\ garage'.staged = garage.staged
          /\ garage'.grants \subseteq garage.grants
      BY <1>1 DEF Stored
    <2>3. run'.pc \in {"deny", "allow"}
      BY <1>1 DEF Place
    <2> QED  BY <1>1, <2>1, <2>2, <2>3, FirstIsFixed DEF G!Undisturbed, G!LayoutIsTheFirst,
                G!KeysAreTheFirst, G!Granting
  <1> QED  BY <1>2, <1>3

LEMMA AllowBucketKeyKeeps ==
    ASSUME GarageServices, Isolating, Untouched, G!AllowBucketKey
    PROVE  Isolating' /\ Untouched'
  <1>1. /\ UNCHANGED <<infra, platform, changes>>
        /\ run.pc = "allow" /\ run.at \in G!Service /\ run.peer \in Nat /\ Stored(garage)
        /\ \/ run.at = G!N /\ run' = Place("health", 1, 1)
           \/ /\ run.at # G!N /\ run.at + 1 \in G!Service
              /\ run' = Place("allow", run.at + 1, run.peer)
        /\ 1 \in G!Service
        /\ garage.version = 1 /\ garage.roles = {run.conf.shape} /\ garage.staged = {}
        /\ garage' = [garage EXCEPT !.grants = @ \union G!OwnGrants(run.conf, run.at)]
    <2>1. run.pc = "allow"
      BY DEF G!AllowBucketKey, G!ForEach, G!At
    <2>2. /\ run.at \in G!Service /\ garage.version = 1
          /\ garage.roles = {run.conf.shape} /\ garage.staged = {}
      BY <2>1 DEF Isolating, G!TypeOK, G!LayoutIsChecked, G!LayoutIsExpected, G!Checked,
         G!Granting
    <2> QED  BY <2>1, <2>2, Iterates DEF G!AllowBucketKey
  <1>2. Isolating'
    <2>1. /\ Stored(garage')
          /\ garage'.version = garage.version /\ garage'.roles = garage.roles
          /\ garage'.staged = garage.staged
          /\ garage'.grants = garage.grants \cup G!OwnGrants(run.conf, run.at)
      BY <1>1 DEF Stored
    <2>2. PICK n \in Nat, at \in Nat :
             n = G!N /\ at = run.at /\ G!Service = 1 .. n /\ at \in 1 .. n
      BY <1>1, ServicesAreCounted
    <2>3. \A s \in 1 .. at : G!OwnGrants(run.conf, s) \subseteq garage'.grants
      <3>1. \A s \in 1 .. at - 1 : G!OwnGrants(run.conf, s) \subseteq garage'.grants
        BY <1>1, <2>1, <2>2 DEF Isolating, G!OwnAccessIsGiven
      <3>2. \A s \in 1 .. at : s = at \/ s \in 1 .. at - 1
        OBVIOUS
      <3> QED  BY <2>1, <2>2, <3>1, <3>2
    <2>4. CASE at = n /\ run' = Place("health", 1, 1)
      BY <1>1, <2>1, <2>2, <2>3, <2>4, Prepares DEF G!Configured, G!Checked, G!Granting,
         G!Verifying
    <2>5. CASE run' = Place("allow", at + 1, run.peer) /\ at + 1 \in G!Service
      <3>1. at + 1 \in Nat /\ (at + 1) - 1 = at
        OBVIOUS
      <3> QED  BY <1>1, <2>1, <2>3, <2>5, <3>1, Prepares DEF G!Configured, G!Checked,
                  G!Granting, G!Verifying
    <2> QED  BY <1>1, <2>2, <2>4, <2>5
  <1>3. Untouched'
    <2> SUFFICES ASSUME changes = 0 PROVE G!Undisturbed'
      BY <1>1 DEF Untouched
    <2>1. G!Undisturbed /\ run.conf = G!FirstInfra /\ run.conf.shape = 1
      BY <1>1, RunningIsUndisturbed, ConfIsFirst DEF G!Configured, G!Checked, G!Granting,
         G!Verifying
    <2>2. /\ garage'.keys = garage.keys /\ garage'.buckets = garage.buckets
          /\ garage'.version = garage.version /\ garage'.roles = garage.roles
          /\ garage'.staged = garage.staged
          /\ garage'.grants = garage.grants \cup G!OwnGrants(G!FirstInfra, run.at)
      BY <1>1, <2>1 DEF Stored
    <2>3. run'.pc \in {"allow", "health"}
      BY <1>1 DEF Place
    <2>4. garage'.grants \subseteq UNION {G!OwnGrants(G!FirstInfra, s) : s \in G!Service}
      BY <1>1, <2>1, <2>2 DEF G!Undisturbed
    <2> QED  BY <1>1, <2>1, <2>2, <2>3, <2>4, FirstIsFixed DEF G!Undisturbed, G!LayoutIsTheFirst,
                G!KeysAreTheFirst, G!Granting
  <1> QED  BY <1>2, <1>3

LEMMA waitForHealthKeeps ==
    ASSUME GarageServices, Isolating, Untouched, G!waitForHealth
    PROVE  Isolating' /\ Untouched'
  <1>1. /\ run.pc = "health" /\ UNCHANGED <<infra, platform, garage, changes>>
        /\ \/ run' = Place("own", 1, 1)
           \/ run' = Place("health", run.at + 1, run.peer)
           \/ G!Rest("failed")
    BY Placed DEF G!waitForHealth, G!Wait, G!At, G!Files, G!Bounds, Isolating, G!TypeOK, Place
  <1>2. /\ run.at \in Nat /\ run.peer \in Nat /\ Stored(garage)
        /\ changes \in Nat /\ 1 \in G!Service
        /\ run.at + 1 \in Nat
    BY Placed, ServicesAreCounted DEF Isolating
  <1>3. /\ garage.version = 1 /\ garage.roles = {run.conf.shape} /\ garage.staged = {}
        /\ \A s \in G!Service : G!OwnGrants(run.conf, s) \subseteq garage.grants
    BY <1>1 DEF Isolating, G!LayoutIsChecked, G!LayoutIsExpected, G!OwnAccessIsGiven, G!Checked,
       G!Granting
  <1>4. Isolating'
    <2>1. CASE G!Rest("failed")
      BY <1>1, <1>2, <2>1, Rests
    <2>2. CASE run' = Place("health", run.at + 1, run.peer)
      BY <1>1, <1>2, <1>3, <2>2, Prepares DEF G!Configured, G!Checked, G!Granting, G!Verifying
    <2>3. CASE run' = Place("own", 1, 1)
      <3>1. run'.pc = "own" /\ run'.at = 1 /\ G!VerifiedSoFar'
        BY <2>3 DEF Place, G!VerifiedSoFar
      <3> QED  BY <1>1, <1>2, <2>3, <3>1, Verifies DEF G!Configured, G!Checked, G!Granting,
                  G!Verifying
    <2> QED  BY <1>1, <2>1, <2>2, <2>3
  <1>5. Untouched'
    <2> SUFFICES ASSUME changes = 0 PROVE G!Undisturbed'
      BY <1>1 DEF Untouched
    <2>1. G!Undisturbed /\ G!FirstKeys \subseteq garage.keys
      BY <1>1, RunningIsUndisturbed DEF G!Undisturbed, G!KeysAreTheFirst, G!Granting
    <2> QED  BY <1>1, <1>2, <2>1, MovesUndisturbed, FailsUndisturbed DEF G!Granting, G!Verifying
  <1> QED  BY <1>4, <1>5

\* What verifyS3 has seen depends on the keys, the permissions and the settings alone.
LEMMA SeenStays ==
    ASSUME garage'.keys = garage.keys, garage'.grants = garage.grants, run'.conf = run.conf
    PROVE  \A s : /\ G!OwnRead(s)' = G!OwnRead(s) /\ G!Verified(s)' = G!Verified(s)
                  /\ \A p : G!Isolated(s, p)' = G!Isolated(s, p)
  <1>1. \A s : (G!OwnRead(s)' = G!OwnRead(s)) /\ \A p : G!Isolated(s, p)' = G!Isolated(s, p)
    BY DEF G!OwnRead, G!Isolated, G!Allowed
  <1> QED  BY <1>1, FirstIsFixed DEF G!Verified

\* With only the services' own keys and grants there is nothing to refuse.
LEMMA ServicesAreIsolated ==
    ASSUME GarageServices, Isolating, G!Undisturbed, run.pc \in G!Verifying
    PROVE  \A s \in G!Service : G!OwnRead(s) /\ \A p \in G!Service : G!Isolated(s, p)
  <1>1. run.conf = G!FirstInfra
    BY ConfIsFirst DEF G!Verifying, G!Configured, G!Checked
  <1>2. /\ G!FirstKeys \subseteq garage.keys
        /\ garage.grants \subseteq UNION {G!OwnGrants(G!FirstInfra, s) : s \in G!Service}
    BY DEF G!Undisturbed, G!KeysAreTheFirst
  <1>3. \A s \in G!Service : G!OwnGrants(run.conf, s) \subseteq garage.grants
    BY DEF Isolating, G!OwnAccessIsGiven
  <1>4. ASSUME NEW s \in G!Service PROVE G!OwnRead(s)
    <2>1. G!KeyOf(run.conf, s) \in garage.keys
      BY <1>1, <1>2 DEF G!FirstKeys
    <2>2. <<run.conf.id[s], run.conf.bucket[s], "read">> \in garage.grants
      BY <1>3 DEF G!OwnGrants
    <2> QED  BY <2>1, <2>2 DEF G!OwnRead, G!Allowed, G!KeyOf
  <1>5. ASSUME NEW s \in G!Service, NEW p \in G!Service, p # s, NEW perm,
               <<run.conf.id[s], run.conf.bucket[p], perm>> \in garage.grants
        PROVE  FALSE
    <2>1. PICK t \in G!Service :
             <<run.conf.id[s], run.conf.bucket[p], perm>> \in G!OwnGrants(run.conf, t)
      BY <1>1, <1>2, <1>5
    <2>2. run.conf.id[s] = run.conf.id[t] /\ run.conf.bucket[p] = run.conf.bucket[t]
      BY <2>1 DEF G!OwnGrants
    <2>3. s = t /\ p = t
      BY <1>1, <2>2 DEF G!FirstInfra, G!DEFAULT_ASSIGNMENTS, GarageServices
    <2> QED  BY <1>5, <2>3
  <1> QED  BY <1>4, <1>5 DEF G!Isolated, G!Allowed

\* The next peer of a service, or the next service.
LEMMA NextPeerKeeps ==
    ASSUME GarageServices, Isolating, Untouched, run.pc \in {"peer", "probe"}, G!NextPeer,
           G!Isolated(run.at, run.peer), UNCHANGED <<infra, platform, garage, changes>>
    PROVE  Isolating' /\ Untouched'
  <1>1. PICK n \in Nat, at \in Nat, peer \in Nat :
           /\ n = G!N /\ n >= 1 /\ G!Service = 1 .. n /\ at = run.at /\ peer = run.peer
           /\ at \in 1 .. n /\ peer \in 1 .. n
    BY ServicesAreCounted DEF Isolating, G!TypeOK
  <1>2. /\ G!OwnRead(at) /\ \A p \in 1 .. peer - 1 : G!Isolated(at, p)
        /\ \A s \in 1 .. at - 1 : G!Verified(s)
    BY <1>1 DEF Isolating, G!VerifiedSoFar
  <1>3. \A p \in 1 .. peer : G!Isolated(at, p)
    <2>1. \A p \in 1 .. peer : p = peer \/ p \in 1 .. peer - 1
      OBVIOUS
    <2> QED  BY <1>1, <1>2, <2>1
  <1>4. peer = n => \A s \in 1 .. at : G!Verified(s)
    <2>1. \A s \in 1 .. at : s = at \/ s \in 1 .. at - 1
      OBVIOUS
    <2> QED  BY <1>1, <1>2, <1>3, <2>1 DEF G!Verified
  <1>5. \/ peer < n /\ run' = Place("peer", at, peer + 1)
        \/ peer = n /\ at < n /\ run' = Place("own", at + 1, 1)
        \/ peer = n /\ at = n /\ run' = Place("anonymous", at, peer)
    <2>1. \/ run.peer < G!N /\ run' = Place("peer", run.at, run.peer + 1)
          \/ ~(run.peer < G!N) /\ run.at < G!N /\ run' = Place("own", run.at + 1, 1)
          \/ ~(run.peer < G!N) /\ ~(run.at < G!N) /\ run' = Place("anonymous", run.at, run.peer)
      BY DEF G!NextPeer, Isolating, G!TypeOK, Place
    <2> QED  BY <1>1, <2>1
  <1>6. Stored(garage) /\ run'.conf = run.conf
    BY <1>5, Placed DEF Isolating, Place
  <1>7. \A s : /\ G!OwnRead(s)' = G!OwnRead(s) /\ G!Verified(s)' = G!Verified(s)
               /\ \A p : G!Isolated(s, p)' = G!Isolated(s, p)
    BY <1>6, SeenStays
  <1>8. G!VerifiedSoFar'
    <2>1. CASE peer < n /\ run' = Place("peer", at, peer + 1)
      <3>1. run'.pc = "peer" /\ run'.at = at /\ run'.peer = peer + 1 /\ run'.peer - 1 = peer
        BY <2>1 DEF Place
      <3> QED  BY <1>2, <1>3, <1>7, <3>1 DEF G!VerifiedSoFar
    <2>2. CASE peer = n /\ run' = Place("own", at + 1, 1)
      <3>1. run'.pc = "own" /\ run'.at = at + 1 /\ run'.at - 1 = at
        BY <2>2 DEF Place
      <3> QED  BY <1>4, <1>7, <2>2, <3>1 DEF G!VerifiedSoFar
    <2>3. CASE peer = n /\ at = n /\ run' = Place("anonymous", at, peer)
      <3>1. run'.pc = "anonymous"
        BY <2>3 DEF Place
      <3> QED  BY <1>1, <1>4, <1>7, <2>3, <3>1, FirstIsFixed DEF G!VerifiedSoFar
    <2> QED  BY <1>5, <2>1, <2>2, <2>3
  <1>9. Isolating'
    <2>1. at + 1 \in Nat /\ peer + 1 \in Nat
      OBVIOUS
    <2>2. /\ peer < n => peer + 1 \in G!Service
          /\ at < n => at + 1 \in G!Service
          /\ at \in G!Service /\ 1 \in G!Service
      BY <1>1
    <2> QED  BY <1>5, <1>6, <1>8, <2>1, <2>2, Verifies DEF G!Verifying
  <1>10. Untouched'
    <2> SUFFICES ASSUME changes = 0 PROVE G!Undisturbed'
      BY DEF Untouched
    <2>1. G!Undisturbed /\ G!FirstKeys \subseteq garage.keys
      BY RunningIsUndisturbed DEF G!Undisturbed, G!KeysAreTheFirst, G!Verifying
    <2>2. PICK pc \in {"peer", "own", "anonymous"}, a \in Nat, b \in Nat : run' = Place(pc, a, b)
      BY <1>5
    <2> QED  BY <2>1, <2>2, MovesUndisturbed
  <1> QED  BY <1>9, <1>10

LEMMA HeadOwnBucketKeeps ==
    ASSUME GarageServices, Isolating, Untouched, G!HeadOwnBucket
    PROVE  Isolating' /\ Untouched'
  <1>1. /\ run.pc = "own" /\ UNCHANGED <<infra, platform, garage, changes>>
        /\ \/ G!OwnRead(run.at) /\ run' = [run EXCEPT !.pc = "peer", !.peer = 1]
           \/ ~G!OwnRead(run.at) /\ G!Rest("refused")
    BY DEF G!HeadOwnBucket, G!OwnBucket, G!OwnRead, G!At, G!Files, G!Bounds
  <1>2. /\ run.at \in Nat /\ run.peer \in Nat /\ Stored(garage) /\ changes \in Nat
        /\ run.at \in G!Service /\ 1 \in G!Service
    BY <1>1, Placed, ServicesAreCounted DEF Isolating, G!TypeOK
  <1>3. CASE G!OwnRead(run.at) /\ run' = [run EXCEPT !.pc = "peer", !.peer = 1]
    <2>1. /\ run' = Place("peer", run.at, 1)
          /\ run'.pc = "peer" /\ run'.at = run.at /\ run'.peer = 1 /\ run'.conf = run.conf
      BY <1>3 DEF Isolating, G!TypeOK, Place
    <2>2. G!VerifiedSoFar'
      <3>1. \A s \in 1 .. run.at - 1 : G!Verified(s)
        BY <1>1 DEF Isolating, G!VerifiedSoFar
      <3>2. \A s : G!OwnRead(s)' = G!OwnRead(s) /\ G!Verified(s)' = G!Verified(s)
        BY <1>1, <2>1, SeenStays
      <3> QED  BY <1>3, <2>1, <3>1, <3>2 DEF G!VerifiedSoFar
    <2>3. Isolating'
      BY <1>1, <1>2, <2>1, <2>2, Verifies DEF G!Verifying
    <2>4. Untouched'
      <3> SUFFICES ASSUME changes = 0 PROVE G!Undisturbed'
        BY <1>1 DEF Untouched
      <3>1. G!Undisturbed /\ G!FirstKeys \subseteq garage.keys
        BY <1>1, RunningIsUndisturbed DEF G!Undisturbed, G!KeysAreTheFirst, G!Verifying
      <3> QED  BY <1>1, <1>2, <2>1, <3>1, MovesUndisturbed
    <2> QED  BY <2>3, <2>4
  <1>4. CASE ~G!OwnRead(run.at) /\ G!Rest("refused")
    <2>1. Isolating'
      BY <1>1, <1>2, <1>4, Rests
    <2>2. changes # 0
      BY <1>1, <1>2, <1>4, RunningIsUndisturbed, ServicesAreIsolated DEF G!Verifying
    <2> QED  BY <1>1, <2>1, <2>2 DEF Untouched
  <1> QED  BY <1>1, <1>3, <1>4

LEMMA HeadPeerBucketKeeps ==
    ASSUME GarageServices, Isolating, Untouched, G!HeadPeerBucket
    PROVE  Isolating' /\ Untouched'
  <1> DEFINE read == G!Allowed(run.conf, run.at, run.conf.bucket[run.peer], "read")
  <1>1. /\ run.pc = "peer" /\ UNCHANGED <<infra, platform, garage, changes>>
        /\ \/ run.peer = run.at /\ G!NextPeer
           \/ run.peer # run.at /\ read /\ G!Rest("refused")
           \/ run.peer # run.at /\ ~read /\ run' = [run EXCEPT !.pc = "probe"]
    BY DEF G!HeadPeerBucket, G!PeerBucket, G!At, G!Files, G!Bounds
  <1>2. /\ run.at \in Nat /\ run.peer \in Nat /\ Stored(garage) /\ changes \in Nat
        /\ run.at \in G!Service /\ run.peer \in G!Service
    BY <1>1, Placed DEF Isolating, G!TypeOK
  <1>3. CASE run.peer = run.at /\ G!NextPeer
    <2>1. G!Isolated(run.at, run.peer)
      BY <1>3 DEF G!Isolated
    <2> QED  BY <1>1, <1>3, <2>1, NextPeerKeeps
  <1>4. CASE run.peer # run.at /\ read /\ G!Rest("refused")
    <2>1. Isolating'
      BY <1>1, <1>2, <1>4, Rests
    <2>2. changes # 0
      <3>1. ~G!Isolated(run.at, run.peer)
        BY <1>4 DEF G!Isolated
      <3> QED  BY <1>1, <1>2, <3>1, RunningIsUndisturbed, ServicesAreIsolated DEF G!Verifying
    <2> QED  BY <1>1, <2>1, <2>2 DEF Untouched
  <1>5. CASE run.peer # run.at /\ ~read /\ run' = [run EXCEPT !.pc = "probe"]
    <2>1. /\ run' = Place("probe", run.at, run.peer)
          /\ run'.pc = "probe" /\ run'.at = run.at /\ run'.peer = run.peer /\ run'.conf = run.conf
      BY <1>5 DEF Isolating, G!TypeOK, Place
    <2>2. G!VerifiedSoFar'
      <3>1. /\ \A s \in 1 .. run.at - 1 : G!Verified(s)
            /\ G!OwnRead(run.at) /\ \A p \in 1 .. run.peer - 1 : G!Isolated(run.at, p)
        BY <1>1 DEF Isolating, G!VerifiedSoFar
      <3>2. \A s : /\ G!OwnRead(s)' = G!OwnRead(s) /\ G!Verified(s)' = G!Verified(s)
                   /\ \A p : G!Isolated(s, p)' = G!Isolated(s, p)
        BY <1>1, <2>1, SeenStays
      <3>3. ~G!Allowed(run.conf, run.at, run.conf.bucket[run.peer], "read")'
        BY <1>1, <1>5, <2>1 DEF G!Allowed
      <3> QED  BY <1>5, <2>1, <3>1, <3>2, <3>3 DEF G!VerifiedSoFar
    <2>3. Isolating'
      BY <1>1, <1>2, <2>1, <2>2, Verifies DEF G!Verifying
    <2>4. Untouched'
      <3> SUFFICES ASSUME changes = 0 PROVE G!Undisturbed'
        BY <1>1 DEF Untouched
      <3>1. G!Undisturbed /\ G!FirstKeys \subseteq garage.keys
        BY <1>1, RunningIsUndisturbed DEF G!Undisturbed, G!KeysAreTheFirst, G!Verifying
      <3> QED  BY <1>1, <1>2, <2>1, <3>1, MovesUndisturbed
    <2> QED  BY <2>3, <2>4
  <1> QED  BY <1>1, <1>3, <1>4, <1>5

LEMMA PutPermissionProbeKeeps ==
    ASSUME GarageServices, Isolating, Untouched, G!PutPermissionProbe
    PROVE  Isolating' /\ Untouched'
  <1> DEFINE write == G!Allowed(run.conf, run.at, run.conf.bucket[run.peer], "write")
  <1>1. /\ run.pc = "probe" /\ UNCHANGED <<infra, platform, changes>>
        /\ \/ /\ write /\ run' = [run EXCEPT !.pc = "remove"]
              /\ garage' = [garage EXCEPT !.probes =
                               @ \union {<<run.conf.bucket[run.peer], run.at>>}]
           \/ ~write /\ G!NextPeer /\ UNCHANGED garage
    BY DEF G!PutPermissionProbe, G!PeerBucket, G!At, G!Files, G!Bounds
  <1>2. /\ run.at \in Nat /\ run.peer \in Nat /\ Stored(garage)
        /\ run.at \in G!Service /\ run.peer \in G!Service
        /\ run.peer # run.at /\ ~G!Allowed(run.conf, run.at, run.conf.bucket[run.peer], "read")
    BY <1>1, Placed DEF Isolating, G!TypeOK, G!VerifiedSoFar
  <1>3. CASE ~write /\ G!NextPeer /\ UNCHANGED garage
    <2>1. G!Isolated(run.at, run.peer)
      BY <1>2, <1>3 DEF G!Isolated
    <2> QED  BY <1>1, <1>3, <2>1, NextPeerKeeps
  <1>4. CASE /\ write /\ run' = [run EXCEPT !.pc = "remove"]
             /\ garage' = [garage EXCEPT !.probes =
                              @ \union {<<run.conf.bucket[run.peer], run.at>>}]
    <2>1. run' = Place("remove", run.at, run.peer) /\ run'.pc = "remove"
      BY <1>4 DEF Isolating, G!TypeOK, Place
    <2>2. /\ Stored(garage') /\ garage'.version = garage.version /\ garage'.roles = garage.roles
          /\ garage'.staged = garage.staged /\ garage'.grants = garage.grants
      BY <1>2, <1>4 DEF Stored
    <2>3. G!VerifiedSoFar'
      BY <2>1 DEF G!VerifiedSoFar
    <2>4. Isolating'
      BY <1>1, <1>2, <2>1, <2>2, <2>3, Verifies DEF G!Verifying
    <2>5. changes # 0
      <3>1. ~G!Isolated(run.at, run.peer)
        BY <1>2, <1>4 DEF G!Isolated
      <3> QED  BY <1>1, <1>2, <3>1, RunningIsUndisturbed, ServicesAreIsolated DEF G!Verifying
    <2> QED  BY <1>1, <2>4, <2>5 DEF Untouched
  <1> QED  BY <1>1, <1>3, <1>4

LEMMA removePermissionProbeKeeps ==
    ASSUME GarageServices, Isolating, Untouched, G!removePermissionProbe
    PROVE  Isolating' /\ Untouched'
  <1>1. /\ run.pc = "remove" /\ UNCHANGED <<infra, platform, changes>> /\ G!Rest("refused")
        /\ \E probes : garage' = [garage EXCEPT !.probes = probes]
    BY DEF G!removePermissionProbe, G!At, G!Files, G!Bounds
  <1>2. Stored(garage') /\ changes \in Nat
    BY <1>1, Placed DEF Isolating, Stored
  <1>3. Isolating'
    BY <1>1, <1>2, Rests
  <1>4. changes # 0
    BY <1>1, RunningIsUndisturbed DEF G!Undisturbed
  <1> QED  BY <1>1, <1>3, <1>4 DEF Untouched

LEMMA HeadAnonymouslyKeeps ==
    ASSUME GarageServices, Isolating, Untouched, G!HeadAnonymously
    PROVE  Isolating' /\ Untouched'
  <1>1. /\ run.pc = "anonymous" /\ UNCHANGED <<infra, platform, garage, changes>>
        /\ run' = Place("ready", run.at, run.peer)
        /\ run.at \in Nat /\ run.peer \in Nat /\ Stored(garage)
    BY Placed DEF G!HeadAnonymously, G!At, G!Files, G!Bounds, Isolating, G!TypeOK, Place
  <1>2. run'.pc = "ready" /\ run'.conf = run.conf
    BY <1>1 DEF Place
  <1>3. G!VerifiedSoFar'
    <2>1. \A s \in G!Service : G!Verified(s)
      BY <1>1 DEF Isolating, G!VerifiedSoFar
    <2>2. \A s : G!Verified(s)' = G!Verified(s)
      BY <1>1, <1>2, SeenStays
    <2> QED  BY <1>2, <2>1, <2>2, FirstIsFixed DEF G!VerifiedSoFar
  <1>4. Isolating'
    BY <1>1, <1>3, Verifies DEF G!Verifying
  <1>5. Untouched'
    <2> SUFFICES ASSUME changes = 0 PROVE G!Undisturbed'
      BY <1>1 DEF Untouched
    <2>1. G!Undisturbed /\ G!FirstKeys \subseteq garage.keys
      BY <1>1, RunningIsUndisturbed DEF G!Undisturbed, G!KeysAreTheFirst, G!Verifying
    <2> QED  BY <1>1, <2>1, MovesUndisturbed
  <1> QED  BY <1>4, <1>5

LEMMA RunFails ==
    ASSUME GarageServices, Isolating, Untouched, G!Fail
    PROVE  Isolating' /\ Untouched'
  <1>1. /\ run.pc # "idle" /\ G!Rest("failed") /\ UNCHANGED <<infra, platform, garage, changes>>
    BY DEF G!Fail, G!Running, G!Resting, G!Files, G!Bounds
  <1>2. Isolating'
    BY <1>1, Rests, Placed DEF Isolating
  <1> QED  BY <1>1, <1>2, RunningIsUndisturbed, FailsUndisturbed DEF Untouched

LEMMA InitCredentialsKeeps ==
    ASSUME GarageServices, Isolating, Untouched, G!InitCredentials
    PROVE  Isolating' /\ Untouched'
  <1>1. /\ run.pc \in G!Resting /\ UNCHANGED <<platform, garage, changes>>
        /\ \/ /\ \E s \in G!Service : Junk \in {infra.id[s], infra.secret[s]}
              /\ G!Rest("refused") /\ UNCHANGED infra
           \/ infra' = G!Initialized /\ run' = Place("platform", 1, 1)
    BY Placed DEF G!InitCredentials, G!Running, Isolating
  <1>2. Stored(garage) /\ changes \in Nat
    BY Placed DEF Isolating
  <1>3. CASE /\ \E s \in G!Service : Junk \in {infra.id[s], infra.secret[s]}
             /\ G!Rest("refused") /\ UNCHANGED infra
    <2>1. Isolating'
      BY <1>1, <1>2, <1>3, Rests
    <2>2. changes # 0
      <3>1. PICK s \in G!Service : Junk = infra.id[s] \/ Junk = infra.secret[s]
        BY <1>3
      <3>2. infra # G!EmptyInfra
        BY <3>1 DEF G!EmptyInfra, GarageServices
      <3>3. infra # G!FirstInfra
        <4>1. <<"id", s, 1>> # Junk /\ <<"secret", s, 1>> # Junk
          BY DEF GarageServices
        <4>2. G!FirstInfra.id[s] = <<"id", s, 1>> /\ G!FirstInfra.secret[s] = <<"secret", s, 1>>
          BY DEF G!FirstInfra
        <4> QED  BY <3>1, <4>1, <4>2
      <3> QED  BY <3>2, <3>3 DEF Untouched, G!Fresh, G!Undisturbed
    <2> QED  BY <1>1, <2>1, <2>2 DEF Untouched
  <1>4. CASE infra' = G!Initialized /\ run' = Place("platform", 1, 1)
    <2>1. run'.pc = "platform" /\ run'.at = 1 /\ run'.peer = 1 /\ run'.conf = run.conf
      BY <1>4 DEF Place
    <2>2. Isolating'
      <3> USE DEF G!Resting, G!Configured, G!Checked, G!Granting, G!Verifying
      <3>1. G!TypeOK'
        BY <1>1, <1>2, <1>4, <2>1 DEF G!TypeOK, Place, Stored
      <3> QED  BY <2>1, <3>1 DEF Isolating, G!FilesAreRead, G!LayoutIsChecked, G!OwnAccessIsGiven,
                  G!VerifiedSoFar
    <2>3. ASSUME changes = 0 PROVE G!Undisturbed'
      <3>1. CASE G!Fresh
        <4>1. infra' = G!FirstInfra
          <5>1. infra = G!EmptyInfra /\ minted = 0
            BY <3>1 DEF G!Fresh
          <5>2. G!Generated("id", infra.id) = G!FirstInfra.id
            BY <5>1 DEF G!Generated, G!EmptyInfra, G!FirstInfra
          <5>3. G!Generated("secret", infra.secret) = G!FirstInfra.secret
            BY <5>1 DEF G!Generated, G!EmptyInfra, G!FirstInfra
          <5>4. [s \in G!Service |-> IF infra.bucket[s] = Unset THEN G!DEFAULT_ASSIGNMENTS[s]
                                     ELSE infra.bucket[s]] = G!FirstInfra.bucket
            BY <5>1 DEF G!EmptyInfra, G!FirstInfra, G!DEFAULT_ASSIGNMENTS
          <5>5. infra' = [infra EXCEPT !.id = G!FirstInfra.id, !.secret = G!FirstInfra.secret,
                                       !.bucket = G!FirstInfra.bucket]
            BY <1>4, <5>2, <5>3, <5>4 DEF G!Initialized
          <5> QED  BY <5>1, <5>5 DEF G!EmptyInfra, G!FirstInfra
        <4>2. /\ garage.version = 0 /\ garage.roles = {} /\ garage.keys = {}
              /\ garage.buckets = {} /\ garage.grants = {}
          BY <3>1 DEF G!Fresh, G!EmptyGarage
        <4> QED  BY <1>1, <2>1, <4>1, <4>2, FirstIsFixed DEF G!Undisturbed, G!LayoutIsTheFirst,
                    G!KeysAreTheFirst, G!Granting, G!Verifying
      <3>2. CASE G!Undisturbed
        <4>1. infra' = G!FirstInfra
          <5>1. infra = G!FirstInfra
            BY <3>2 DEF G!Undisturbed
          <5>2. G!Generated("id", infra.id) = infra.id
            BY <5>1 DEF G!Generated, G!FirstInfra, GarageServices
          <5>3. G!Generated("secret", infra.secret) = infra.secret
            BY <5>1 DEF G!Generated, G!FirstInfra, GarageServices
          <5>4. [s \in G!Service |-> IF infra.bucket[s] = Unset THEN G!DEFAULT_ASSIGNMENTS[s]
                                     ELSE infra.bucket[s]] = infra.bucket
            BY <5>1 DEF G!FirstInfra, G!DEFAULT_ASSIGNMENTS
          <5>5. infra' = [infra EXCEPT !.id = infra.id, !.secret = infra.secret,
                                       !.bucket = infra.bucket]
            BY <1>4, <5>2, <5>3, <5>4 DEF G!Initialized
          <5> QED  BY <5>1, <5>5 DEF G!FirstInfra
        <4> QED  BY <1>1, <2>1, <3>2, <4>1, FirstIsFixed DEF G!Undisturbed, G!LayoutIsTheFirst,
                    G!KeysAreTheFirst, G!Granting, G!Verifying
      <3> QED  BY <2>3, <3>1, <3>2 DEF Untouched
    <2> QED  BY <1>1, <2>2, <2>3 DEF Untouched
  <1> QED  BY <1>1, <1>3, <1>4

\* Whatever is done from outside ends the untouched history; beside a run it only adds.
LEMMA ChangesKeep ==
    ASSUME GarageServices, Isolating, G!EditFiles \/ G!ResetVolumes \/ G!UseGarageCli
    PROVE  Isolating' /\ Untouched'
  <1>1. Stored(garage) /\ changes' = changes + 1 /\ changes' \in Nat /\ changes' # 0
    BY Placed DEF G!EditFiles, G!ResetVolumes, G!UseGarageCli, G!Change, Isolating
  <1>2. CASE G!Rest("idle") /\ Stored(garage')
    BY <1>1, <1>2, Rests DEF Untouched
  <1>3. CASE G!UseGarageCli /\ UNCHANGED run /\ G!Running
    <2>1. /\ run.pc \notin {"own", "peer", "probe", "remove", "anonymous", "ready"}
          /\ UNCHANGED <<infra, platform>>
      BY <1>3 DEF G!UseGarageCli, G!Running, G!Resting
    <2>2. /\ Stored(garage') /\ garage'.version = garage.version /\ garage'.roles = garage.roles
          /\ garage'.staged = garage.staged /\ garage.grants \subseteq garage'.grants
      BY <1>1, <1>3 DEF G!UseGarageCli, Stored
    <2>3. G!TypeOK'
      BY <1>1, <1>3, <2>1, <2>2, FirstIsFixed DEF Isolating, G!TypeOK, Stored
    <2>4. G!FilesAreRead'
      BY <1>3, <2>1 DEF Isolating, G!FilesAreRead, G!OwnerView
    <2>5. G!LayoutIsChecked'
      BY <1>3, <2>2 DEF Isolating, G!LayoutIsChecked, G!LayoutIsExpected
    <2>6. G!OwnAccessIsGiven'
      <3>1. \A s : G!OwnGrants(run.conf, s)' = G!OwnGrants(run.conf, s)
        BY <1>3 DEF G!OwnGrants
      <3> QED  BY <1>3, <2>2, <3>1, FirstIsFixed DEF Isolating, G!OwnAccessIsGiven
    <2>7. G!VerifiedSoFar'
      <3>1. run'.pc \notin {"own", "peer", "probe", "remove", "anonymous", "ready"}
        BY <1>3, <2>1
      <3> QED  BY <3>1 DEF G!VerifiedSoFar
    <2> QED  BY <1>1, <2>3, <2>4, <2>5, <2>6, <2>7 DEF Isolating, Untouched
  <1>4. \/ G!Rest("idle") /\ Stored(garage')
        \/ G!UseGarageCli /\ UNCHANGED run /\ G!Running
    <2>1. Stored(G!EmptyGarage)
      BY DEF Stored, G!EmptyGarage
    <2>2. CASE G!UseGarageCli
      <3>1. Stored(garage')
        BY <1>1, <2>2 DEF G!UseGarageCli, Stored
      <3> QED  BY <2>2, <3>1 DEF G!UseGarageCli
    <2> QED  BY <1>1, <2>1, <2>2 DEF G!EditFiles, G!ResetVolumes
  <1> QED  BY <1>1, <1>2, <1>3, <1>4 DEF Untouched

LEMMA BootstrapInit ==
    ASSUME GarageServices, G!Init
    PROVE  Isolating /\ Untouched
  <1>1. /\ run.pc = "idle" /\ run = [pc |-> "idle", at |-> 0, peer |-> 0, conf |-> G!EmptyInfra]
        /\ garage = G!EmptyGarage /\ infra = G!EmptyInfra /\ minted = 0 /\ changes = 0
    BY DEF G!Init
  <1>2. Isolating
    <2> USE DEF G!Resting, G!Configured, G!Checked, G!Granting, G!Verifying
    <2>1. G!TypeOK
      BY <1>1 DEF G!TypeOK, G!EmptyGarage
    <2> QED  BY <1>1, <2>1 DEF Isolating, G!FilesAreRead, G!LayoutIsChecked, G!OwnAccessIsGiven,
                G!VerifiedSoFar
  <1> QED  BY <1>1, <1>2 DEF Untouched, G!Fresh

LEMMA BootstrapSteps ==
    ASSUME GarageServices, Isolating, Untouched, [G!Next]_G!vars
    PROVE  Isolating' /\ Untouched'
  <1>1. CASE G!Proceed
    BY <1>1, SyncPlatformKeeps, configurationKeeps, waitForStatusKeeps, GetClusterLayoutKeeps,
       UpdateClusterLayoutKeeps, ApplyClusterLayoutKeeps, CheckLayoutKeeps, ListKeysKeeps,
       ImportKeyKeeps, ListBucketsKeeps, CreateBucketKeeps, DenyBucketKeyKeeps,
       AllowBucketKeyKeeps, waitForHealthKeeps, HeadOwnBucketKeeps, HeadPeerBucketKeeps,
       PutPermissionProbeKeeps, removePermissionProbeKeeps, HeadAnonymouslyKeeps DEF G!Proceed
  <1>2. CASE UNCHANGED G!vars
    <2>1. UNCHANGED <<infra, platform, garage, run, minted, changes>>
      BY <1>2 DEF G!vars
    <2>2. /\ \A s : /\ G!OwnRead(s)' = G!OwnRead(s) /\ G!Verified(s)' = G!Verified(s)
                    /\ \A p : G!Isolated(s, p)' = G!Isolated(s, p)
          /\ \A s : G!OwnGrants(run.conf, s)' = G!OwnGrants(run.conf, s)
          /\ ~G!Allowed(run.conf, run.at, run.conf.bucket[run.peer], "read") =>
                ~G!Allowed(run.conf, run.at, run.conf.bucket[run.peer], "read")'
      BY <2>1, SeenStays DEF G!OwnGrants, G!Allowed
    <2>3. /\ G!TypeOK' /\ G!FilesAreRead' /\ G!LayoutIsChecked'
      BY <2>1, FirstIsFixed DEF Isolating, G!TypeOK, G!FilesAreRead, G!OwnerView,
         G!LayoutIsChecked, G!LayoutIsExpected
    <2>4. G!OwnAccessIsGiven'
      BY <2>1, <2>2, FirstIsFixed DEF Isolating, G!OwnAccessIsGiven
    <2>5. G!VerifiedSoFar'
      BY <2>1, <2>2, FirstIsFixed DEF Isolating, G!VerifiedSoFar
    <2>6. Untouched'
      BY <2>1, FirstIsFixed DEF Untouched, G!Fresh, G!Undisturbed, G!LayoutIsTheFirst,
         G!KeysAreTheFirst, G!EmptyInfra, G!EmptyGarage, G!DEFAULT_ASSIGNMENTS, G!Service, G!N
    <2> QED  BY <2>3, <2>4, <2>5, <2>6 DEF Isolating
  <1> QED  BY <1>1, <1>2, InitCredentialsKeeps, RunFails, ChangesKeep DEF G!Next

LEMMA BootstrapInvariant == G!Spec => [](Isolating /\ Untouched)
  <1>1. GarageServices
    BY PartsAssumption
  <1>2. G!Init => Isolating /\ Untouched
    BY <1>1, BootstrapInit
  <1>3. Isolating /\ Untouched /\ [G!Next]_(G!vars) => Isolating' /\ Untouched'
    BY <1>1, BootstrapSteps
  <1> QED  BY <1>2, <1>3, PTL DEF G!Spec

(* For any services and whatever was changed from outside: a bootstrap that *)
(* reports ready leaves the layout, the keys and the permissions the files  *)
(* promise, and every service shut out of its peers' buckets.               *)
THEOREM ReadyIsIsolated == G!Spec => []ReadyMeansIsolated
  <1>1. Isolating => ReadyMeansIsolated
    <2> SUFFICES ASSUME Isolating, run.pc = "ready" PROVE G!ReadyMeansIsolated
      BY DEF ReadyMeansIsolated, G!ReadyMeansIsolated, G!At
    <2>1. run.pc \in G!Configured /\ run.pc \in G!Checked /\ run.pc \in G!Verifying
      BY DEF G!Configured, G!Checked, G!Verifying
    <2>2. /\ run.conf = infra /\ platform = G!OwnerView(infra)
          /\ G!LayoutIsExpected /\ garage.staged = {}
      BY <2>1 DEF Isolating, G!FilesAreRead, G!LayoutIsChecked
    <2>3. ASSUME NEW s \in G!Service
          PROVE  /\ G!Allowed(infra, s, infra.bucket[s], "read")
                 /\ G!Allowed(infra, s, infra.bucket[s], "write")
                 /\ \A p \in G!Service \ {s}, perm \in {"read", "write"} :
                       ~G!Allowed(infra, s, infra.bucket[p], perm)
      <3>1. G!Verified(s) /\ G!OwnGrants(infra, s) \subseteq garage.grants
        BY <2>1, <2>2 DEF Isolating, G!VerifiedSoFar, G!OwnAccessIsGiven
      <3>2. G!Allowed(infra, s, infra.bucket[s], "read")
        BY <2>2, <3>1 DEF G!Verified, G!OwnRead
      <3>3. G!Allowed(infra, s, infra.bucket[s], "write")
        BY <3>1, <3>2 DEF G!Allowed, G!OwnGrants
      <3>4. ASSUME NEW p \in G!Service \ {s}, NEW perm \in {"read", "write"}
            PROVE  ~G!Allowed(infra, s, infra.bucket[p], perm)
        BY <2>2, <3>1 DEF G!Verified, G!Isolated
      <3> QED  BY <3>2, <3>3, <3>4
    <2> QED  BY <2>2, <2>3 DEF G!ReadyMeansIsolated
  <1> QED  BY <1>1, BootstrapInvariant, PTL

(* For any services: while nobody meddles, however often a run is cut off,  *)
(* the next is refused over a staged layout only, and every key in Garage   *)
(* is one the env file still opens.                                         *)
THEOREM RefusedForACause == G!Spec => []RefusalsHaveACause
  <1>1. Untouched => RefusalsHaveACause
    BY DEF RefusalsHaveACause, Untouched, G!Fresh, G!Undisturbed, G!RefusalsHaveACause, G!At,
       G!EmptyGarage,
       G!KeysAreTheFirst, G!FirstKeys
  <1> QED  BY <1>1, BootstrapInvariant, PTL

-----------------------------------------------------------------------------
(* The outbox relay, for any callers, batches, rows and faults: every agent *)
(* works on rows that exist, and an event whose row is published has been   *)
(* sent.                                                                    *)

\* Nothing that was sent is unsent, and no row is published by the step.
Quiet ==
    /\ Sent \subseteq Sent'
    /\ outbox' \in Seq({"pending", "failed", "published"})
    /\ \A r \in DOMAIN outbox' :
          outbox'[r] = "published" => r \in DOMAIN outbox /\ outbox[r] = "published"

LEMMA QuietStep ==
    ASSUME SentInv, Quiet,
           flush' = [a \in Agents |-> [rows |-> flush'[a].rows, step |-> flush'[a].step]],
           \A a \in Agents : flush'[a].step = "save" => flush'[a] = flush[a]
    PROVE  SentInv'
  <1>1. PublishedWasSent'
    BY DEF SentInv, Quiet, PublishedWasSent
  <1>2. \A a \in Agents : flush'[a].step = "save" => Row(a)' \in Sent'
    BY DEF SentInv, Quiet, Row
  <1> QED  BY <1>1, <1>2 DEF SentInv, Quiet

\* What an agent does next leaves the others where they are.
LEMMA FlushChanges ==
    ASSUME SentInv, NEW a \in Agents, NEW rows, NEW step,
           flush' = [flush EXCEPT ![a] = [rows |-> rows, step |-> step]]
    PROVE  /\ flush' = [b \in Agents |-> [rows |-> flush'[b].rows, step |-> flush'[b].step]]
           /\ flush'[a] = [rows |-> rows, step |-> step]
           /\ \A b \in Agents : b # a => flush'[b] = flush[b]
  <1>1. /\ DOMAIN flush = Agents
        /\ \A b \in Agents : flush[b] = [rows |-> flush[b].rows, step |-> flush[b].step]
    BY DEF SentInv
  <1> QED  BY <1>1

LEMMA EntersStep ==
    ASSUME SentInv, NEW a \in Agents, NEW step, EnterStep(a, step)
    PROVE  flush' = [flush EXCEPT ![a] = [rows |-> flush[a].rows, step |-> step]]
  <1>1. PICK rows, old : flush[a] = [rows |-> rows, step |-> old]
    BY DEF SentInv
  <1>2. [flush[a] EXCEPT !.step = step] = [rows |-> flush[a].rows, step |-> step]
    BY <1>1
  <1> QED  BY <1>2 DEF EnterStep

LEMMA NextRowEnters ==
    ASSUME SentInv, NEW a \in Agents, NextRow(a)
    PROVE  \E rows, step : /\ step # "save"
                          /\ flush' = [flush EXCEPT ![a] = [rows |-> rows, step |-> step]]
  <1>1. CASE Len(flush[a].rows) = 1
    <2>1. flush' = [flush EXCEPT ![a] = [rows |-> <<>>, step |-> "idle"]]
      BY <1>1 DEF NextRow, Idle
    <2> QED  BY <2>1
  <1>2. CASE Len(flush[a].rows) # 1
    <2>1. flush' = [flush EXCEPT ![a] = [rows |-> Tail(flush[a].rows), step |-> "publish"]]
      BY <1>2 DEF NextRow
    <2> QED  BY <2>1
  <1> QED  BY <1>1, <1>2

\* A step that only sends an agent elsewhere than to its save.
LEMMA AgentStep ==
    ASSUME SentInv, Quiet, NEW a \in Agents, NEW rows, NEW step, step # "save",
           flush' = [flush EXCEPT ![a] = [rows |-> rows, step |-> step]]
    PROVE  SentInv'
  BY FlushChanges, QuietStep

LEMMA SetStatusIsTyped ==
    ASSUME SentInv, NEW r, NEW status \in {"pending", "failed", "published"}, SetStatus(r, status)
    PROVE  /\ outbox' \in Seq({"pending", "failed", "published"})
           /\ DOMAIN outbox' = DOMAIN outbox
           /\ \A q \in DOMAIN outbox : outbox'[q] = IF q = r THEN status ELSE outbox[q]
  <1> DEFINE Statuses == {"pending", "failed", "published"}
  <1>1. outbox \in Seq(Statuses) /\ outbox' = [outbox EXCEPT ![r] = status] /\ status \in Statuses
    BY DEF SentInv, SetStatus
  <1> HIDE DEF Statuses
  <1>2. /\ DOMAIN outbox' = DOMAIN outbox
        /\ \A q \in DOMAIN outbox : outbox'[q] = IF q = r THEN status ELSE outbox[q]
    BY <1>1
  <1>3. outbox' \in Seq(Statuses)
    <2>1. outbox \in [1..Len(outbox) -> Statuses] /\ Len(outbox) \in Nat
      BY <1>1
    <2>2. outbox' \in [1..Len(outbox) -> Statuses]
      BY <1>1, <2>1
    <2> QED  BY <2>1, <2>2
  <1> QED  BY <1>2, <1>3 DEF Statuses

\* Recording the publication of a row that was sent.
LEMMA SavedAsPublished ==
    ASSUME SentInv, NEW a \in Agents, Row(a) \in Sent, SetStatus(Row(a), "published"),
           UNCHANGED brokerVars, NEW rows, NEW step, step # "save",
           flush' = [flush EXCEPT ![a] = [rows |-> rows, step |-> step]]
    PROVE  SentInv'
  <1>1. Sent' = Sent
    BY DEF Sent, brokerVars
  <1>2. PublishedWasSent' /\ outbox' \in Seq({"pending", "failed", "published"})
    BY <1>1, SetStatusIsTyped DEF SentInv, PublishedWasSent
  <1>3. \A b \in Agents : flush'[b].step = "save" => Row(b)' \in Sent'
    BY <1>1, FlushChanges DEF SentInv, Row
  <1> QED  BY <1>2, <1>3, FlushChanges DEF SentInv

LEMMA InitSentInv == Init => SentInv
  BY DEF Init, SentInv, Idle, PublishedWasSent

LEMMA FlushStepKeeps ==
    ASSUME SentInv, NEW a \in Agents, FlushStep(a)
    PROVE  SentInv'
  <1>1. CASE Publish(a)
    <2>1. flush' = [flush EXCEPT ![a] = [rows |-> flush[a].rows, step |-> "save"]]
      BY <1>1, EntersStep DEF Publish
    <2>2. Sent' = Sent \cup {Row(a)} /\ outbox' = outbox
      BY <1>1 DEF Publish, Sent
    <2>3. \A b \in Agents : flush'[b].step = "save" => Row(b)' \in Sent'
      BY <2>1, <2>2, FlushChanges DEF SentInv, Row
    <2> QED  BY <2>1, <2>2, <2>3, FlushChanges DEF SentInv, PublishedWasSent
  <1>2. CASE PublishFails(a)
    <2>1. Quiet
      BY <1>2 DEF PublishFails, Quiet, SentInv, Sent, brokerVars
    <2> QED  BY <1>2, <2>1, EntersStep, AgentStep DEF PublishFails
  <1>3. CASE SavePublished(a)
    <2>1. PICK rows, step : /\ step # "save"
                            /\ flush' = [flush EXCEPT ![a] = [rows |-> rows, step |-> step]]
      BY <1>3, NextRowEnters DEF SavePublished
    <2> QED  BY <1>3, <2>1, SavedAsPublished DEF SavePublished, InStep, SentInv
  <1>4. CASE SavePublishedFails(a)
    <2>1. flush' = [flush EXCEPT ![a] = [rows |-> flush[a].rows, step |-> "saveFailure"]]
      BY <1>4, EntersStep DEF SavePublishedFails
    <2>2. CASE outbox' = outbox
      BY <1>4, <2>1, <2>2, AgentStep DEF SavePublishedFails, Quiet, SentInv, Sent, brokerVars
    <2>3. CASE SetStatus(Row(a), "published")
      BY <1>4, <2>1, <2>3, SavedAsPublished DEF SavePublishedFails, InStep, SentInv
    <2> QED  BY <1>4, <2>2, <2>3 DEF SavePublishedFails
  <1>5. CASE SaveFailure(a)
    <2>1. PICK rows, step : /\ step # "save"
                            /\ flush' = [flush EXCEPT ![a] = [rows |-> rows, step |-> step]]
      BY <1>5, NextRowEnters DEF SaveFailure
    <2>2. Quiet
      BY <1>5, SetStatusIsTyped DEF SaveFailure, Quiet, Sent, brokerVars
    <2> QED  BY <2>1, <2>2, AgentStep
  <1>6. CASE SaveFailureFails(a)
    BY <1>6, AgentStep DEF SaveFailureFails, Quiet, SentInv, Sent, brokerVars, Idle
  <1> QED  BY <1>1, <1>2, <1>3, <1>4, <1>5, <1>6 DEF FlushStep

LEMMA NextKeepsSentInv == SentInv /\ [Next]_vars => SentInv'
  <1> SUFFICES ASSUME SentInv, [Next]_vars PROVE SentInv'
    OBVIOUS
  <1>1. ASSUME NEW c \in Callers, Enqueue(c) PROVE SentInv'
    <2>1. Quiet
      BY <1>1 DEF Enqueue, Quiet, SentInv, Sent, brokerVars
    <2> QED  BY <1>1, <2>1, QuietStep DEF Enqueue, SentInv
  <1>2. ASSUME NEW c \in Callers, FlushOwnRow(c) PROVE SentInv'
    <2>1. Quiet
      BY <1>2 DEF FlushOwnRow, Quiet, SentInv, Sent, brokerVars
    <2>2. CASE UNCHANGED flush
      BY <2>1, <2>2, QuietStep DEF SentInv
    <2>3. CASE FlushRows(c, <<own[c]>>)
      BY <2>1, <2>3, AgentStep DEF FlushRows, Agents
    <2> QED  BY <1>2, <2>2, <2>3 DEF FlushOwnRow
  <1>3. ASSUME NEW a \in Agents, FlushStep(a) PROVE SentInv'
    BY <1>3, FlushStepKeeps
  <1>4. CASE FlushPendingOutbox
    <2>1. Quiet
      BY <1>4 DEF FlushPendingOutbox, Quiet, SentInv, Sent, brokerVars
    <2> QED  BY <1>4, <2>1, AgentStep DEF FlushPendingOutbox, FlushRows, Agents
  <1>5. ASSUME UNCHANGED <<outbox, flush>>, Sent' = Sent PROVE SentInv'
    BY <1>5, QuietStep DEF Quiet, SentInv
  <1>6. ASSUME NEW r \in wire, Deliver(r) PROVE SentInv'
    BY <1>5, <1>6 DEF Deliver, Sent
  <1>7. CASE ConnectionCloses
    BY <1>5, <1>7 DEF ConnectionCloses, ConnectionIsLost, Sent
  <1>8. CASE Exit
    <2>1. Quiet
      BY <1>8 DEF Exit, ConnectionIsLost, Quiet, SentInv, Sent
    <2> QED  BY <1>8, <2>1, QuietStep DEF Exit, Idle
  <1>9. CASE Start \/ UNCHANGED vars
    BY <1>5, <1>9 DEF Start, vars, brokerVars, Sent
  <1> QED  BY <1>1, <1>2, <1>3, <1>4, <1>6, <1>7, <1>8, <1>9 DEF Next

-----------------------------------------------------------------------------
(* Types.  The only step that is not plain is the scan: that it reads the  *)
(* oldest rows is a fact about ranks in a finite set of naturals.          *)

\* Some naturals have a least one: the form of induction the provers have.
LEMMA Least ==
    ASSUME NEW T \in SUBSET Nat, T # {}
    PROVE  \E x \in T : \A y \in T : x <= y
  <1>1. IsWellFoundedOn(OpToRel(<, Nat), Nat)
    BY NatLessThanWellFounded
  <1>2. PICK R : R = OpToRel(<, Nat)
    OBVIOUS
  <1>3. \A x, y \in Nat : x < y => <<x, y>> \in R
    BY <1>2 DEF OpToRel
  <1>4. IsWellFoundedOn(R, Nat)
    BY <1>1, <1>2
  <1>5. PICK x \in T : \A y \in T : ~(<<y, x>> \in R)
    BY <1>4, WFMin
  <1>6. \A y \in T : ~(y < x)
    BY <1>3, <1>5
  <1>7. \A y \in T : x <= y
    BY <1>6
  <1> QED  BY <1>7

\* Among finitely many rows there is an i-th oldest.
LEMMA Ranked ==
    ASSUME NEW n \in Nat, NEW rows \in SUBSET (1..n), NEW i \in 1..Cardinality(rows)
    PROVE  \E r \in rows : Cardinality({q \in rows : q <= r}) = i
  <1> DEFINE upTo(k) == {q \in rows : q <= k}
             T == {k \in Nat : Cardinality(upTo(k)) >= i}
  <1>0. /\ IsFiniteSet(1..n)
        /\ \A r \in rows : r \in Nat /\ 1 <= r /\ r <= n
    BY FS_Interval
  <1>1. IsFiniteSet(rows)
    BY <1>0, FS_Subset
  <1>2. Cardinality(rows) \in Nat /\ i \in Nat /\ 1 <= i /\ i <= Cardinality(rows)
    BY <1>1, FS_CardinalityType
  <1>3. ASSUME NEW k \in Nat
        PROVE  IsFiniteSet(upTo(k)) /\ Cardinality(upTo(k)) \in Nat
    <2>1. upTo(k) \subseteq rows
      OBVIOUS
    <2> HIDE DEF upTo
    <2> QED  BY <1>1, <2>1, FS_Subset, FS_CardinalityType
  <1>4. \A k, q : q \in upTo(k) <=> q \in rows /\ q <= k
    OBVIOUS
  <1> HIDE DEF upTo
  <1>5. upTo(n) = rows /\ upTo(0) = {}
    <2>1. \A q : q \in upTo(n) <=> q \in rows
      BY <1>0, <1>4
    <2>2. \A q \in rows : ~(q <= 0)
      BY <1>0
    <2>3. \A q : q \notin upTo(0)
      BY <1>4, <2>2
    <2> QED  BY <2>1, <2>3
  <1>6. ASSUME NEW k \in Nat, k \notin rows, k # 0
        PROVE  upTo(k) = upTo(k - 1)
    <2>1. \A q \in rows : q <= k <=> q <= k - 1
      BY <1>0, <1>6
    <2>2. \A q : q \in upTo(k) <=> q \in upTo(k - 1)
      BY <1>4, <2>1
    <2> QED  BY <2>2
  <1>7. ASSUME NEW k \in rows
        PROVE  upTo(k) = upTo(k - 1) \cup {k} /\ k \notin upTo(k - 1)
    <2>1. ~(k <= k - 1) /\ \A q \in rows : q <= k <=> q <= k - 1 \/ q = k
      BY <1>0
    <2>2. k \notin upTo(k - 1) /\ \A q : q \in upTo(k) <=> q \in upTo(k - 1) \/ q = k
      BY <1>0, <1>4, <2>1
    <2> QED  BY <2>2
  <1>8. n \in T
    BY <1>2, <1>5
  <1>9. PICK k \in T : \A j \in T : k <= j
    <2>1. T \in SUBSET Nat /\ T # {}
      BY <1>8
    <2> HIDE DEF T
    <2> QED  BY <2>1, Least
  <1>10. k # 0
    BY <1>2, <1>5, FS_EmptySet
  <1>11. k - 1 \in Nat /\ k - 1 \notin T
    BY <1>9, <1>10
  <1>12. Cardinality(upTo(k - 1)) < i /\ i <= Cardinality(upTo(k))
    BY <1>2, <1>3, <1>11
  <1>13. k \in rows
    BY <1>2, <1>3, <1>6, <1>10, <1>11, <1>12
  <1>14. Cardinality(upTo(k)) = Cardinality(upTo(k - 1)) + 1
    BY <1>3, <1>7, <1>11, <1>13, FS_AddElement
  <1>15. Cardinality(upTo(k)) = i
    BY <1>2, <1>3, <1>11, <1>12, <1>14
  <1> QED  BY <1>13, <1>15 DEF upTo

\* A scan reads rows that are there, and at least one if there is any.
LEMMA OldestAreRows ==
    ASSUME NEW n \in Nat, NEW rows \in SUBSET (1..n), rows # {}
    PROVE  Oldest(rows) \in Seq(rows) /\ Oldest(rows) # <<>>
  <1> DEFINE size == IF Cardinality(rows) < BatchSize THEN Cardinality(rows) ELSE BatchSize
             row(i) == CHOOSE r \in rows : Cardinality({q \in rows : q <= r}) = i
  <1>0. /\ IsFiniteSet(1..n)
        /\ \A r \in rows : r \in Nat /\ 1 <= r /\ r <= n
    BY FS_Interval
  <1>1. IsFiniteSet(rows)
    BY <1>0, FS_Subset
  <1>2. Cardinality(rows) \in Nat \ {0}
    BY <1>1, FS_CardinalityType, FS_EmptySet
  <1>3. size \in Nat \ {0} /\ size <= Cardinality(rows)
    BY <1>2, OutboxAssumption
  <1>4. \A i \in 1..Cardinality(rows) : row(i) \in rows
    BY Ranked
  <1>5. Oldest(rows) = [i \in 1..size |-> row(i)]
    BY DEF Oldest
  <1> HIDE DEF size, row
  <1>6. Oldest(rows) \in [1..size -> rows]
    BY <1>2, <1>3, <1>4, <1>5
  <1>7. DOMAIN Oldest(rows) = 1..size
    BY <1>5
  <1> QED  BY <1>3, <1>6, <1>7
Steps == {"idle", "publish", "save", "saveFailure"}

\* The part of TypeOK about the agents, of f and of a relay with n rows.
FlushTyped(f, n) ==
    /\ f \in [Agents -> [rows : Seq(1..n), step : Steps]]
    /\ \A a \in Agents : f[a].rows = <<>> <=> f[a].step = "idle"

LEMMA SeqOfMore ==
    ASSUME NEW S, NEW T, S \subseteq T, NEW s \in Seq(S)
    PROVE  s \in Seq(T)
  <1>1. s \in [1..Len(s) -> S] /\ Len(s) \in Nat
    OBVIOUS
  <1>2. s \in [1..Len(s) -> T]
    BY <1>1
  <1> QED  BY <1>1, <1>2

\* More rows leave every agent's rows in existence.
LEMMA FlushTypedGrows ==
    ASSUME NEW f, NEW n \in Nat, NEW m \in Nat, n <= m, FlushTyped(f, n)
    PROVE  FlushTyped(f, m)
  <1>1. \A s \in Seq(1..n) : s \in Seq(1..m)
    <2>1. 1..n \subseteq 1..m
      OBVIOUS
    <2> QED  BY <2>1, SeqOfMore
  <1> DEFINE Old == Seq(1..n)
             New == Seq(1..m)
  <1>2. f \in [Agents -> [rows : Old, step : Steps]]
    BY DEF FlushTyped
  <1>3. \A s \in Old : s \in New
    BY <1>1
  <1> HIDE DEF Old, New
  <1>4. f \in [Agents -> [rows : New, step : Steps]]
    BY <1>2, <1>3
  <1> QED  BY <1>4 DEF FlushTyped, New

LEMMA FlushTypedSet ==
    ASSUME NEW n \in Nat, FlushTyped(flush, n), NEW a \in Agents,
           NEW rows \in Seq(1..n), NEW step \in Steps, rows = <<>> <=> step = "idle",
           flush' = [flush EXCEPT ![a] = [rows |-> rows, step |-> step]]
    PROVE  FlushTyped(flush', n)
  <1> DEFINE Rows == Seq(1..n)
  <1>1. flush \in [Agents -> [rows : Rows, step : Steps]] /\ rows \in Rows
    BY DEF FlushTyped
  <1> HIDE DEF Rows
  <1>2. flush' \in [Agents -> [rows : Rows, step : Steps]]
    BY <1>1
  <1>3. \A b \in Agents : flush'[b].rows = <<>> <=> flush'[b].step = "idle"
    BY <1>1 DEF FlushTyped
  <1> QED  BY <1>2, <1>3 DEF FlushTyped, Rows

LEMMA EntersTyped ==
    ASSUME TypeOK, NEW a \in Agents, flush[a].step # "idle",
           NEW step \in Steps \ {"idle"}, EnterStep(a, step)
    PROVE  FlushTyped(flush', Len(outbox))
  <1>1. Len(outbox) \in Nat /\ FlushTyped(flush, Len(outbox))
    BY DEF TypeOK, FlushTyped, Steps
  <1>2. flush' = [flush EXCEPT ![a] = [rows |-> flush[a].rows, step |-> step]]
    <2>1. flush[a] = [rows |-> flush[a].rows, step |-> flush[a].step]
      BY <1>1 DEF FlushTyped
    <2>2. [flush[a] EXCEPT !.step = step] = [rows |-> flush[a].rows, step |-> step]
      BY <2>1
    <2> QED  BY <2>2 DEF EnterStep
  <1>3. flush[a].rows \in Seq(1..Len(outbox)) /\ flush[a].rows # <<>>
    BY <1>1 DEF FlushTyped
  <1> QED  BY <1>1, <1>2, <1>3, FlushTypedSet

\* The row an agent works on exists.
LEMMA RowExists ==
    ASSUME TypeOK, NEW a \in Agents, flush[a].step # "idle"
    PROVE  Row(a) \in DOMAIN outbox
  <1>1. flush[a].rows \in Seq(1..Len(outbox)) /\ flush[a].rows # <<>>
    BY DEF TypeOK
  <1> QED  BY <1>1 DEF Row, TypeOK

LEMMA NextRowTyped ==
    ASSUME TypeOK, NEW a \in Agents, flush[a].step # "idle", NextRow(a)
    PROVE  FlushTyped(flush', Len(outbox))
  <1>1. Len(outbox) \in Nat /\ FlushTyped(flush, Len(outbox))
    BY DEF TypeOK, FlushTyped, Steps
  <1>2. flush[a].rows \in Seq(1..Len(outbox)) /\ flush[a].rows # <<>>
    BY <1>1 DEF FlushTyped
  <1>3. CASE Len(flush[a].rows) = 1
    <2>1. flush' = [flush EXCEPT ![a] = [rows |-> <<>>, step |-> "idle"]]
      BY <1>3 DEF NextRow, Idle
    <2>2. <<>> \in Seq(1..Len(outbox)) /\ "idle" \in Steps
      BY DEF Steps
    <2> QED  BY <1>1, <2>1, <2>2, FlushTypedSet
  <1>4. CASE Len(flush[a].rows) # 1
    <2>1. flush' = [flush EXCEPT ![a] = [rows |-> Tail(flush[a].rows), step |-> "publish"]]
      BY <1>4 DEF NextRow
    <2>2. Tail(flush[a].rows) \in Seq(1..Len(outbox)) /\ Tail(flush[a].rows) # <<>>
      <3> DEFINE N == 1..Len(outbox)
      <3>1. flush[a].rows \in Seq(N)
        BY <1>2
      <3> HIDE DEF N
      <3>2. Tail(flush[a].rows) \in Seq(N)
        BY <1>2, <3>1
      <3>3. Len(flush[a].rows) \in Nat /\ Len(flush[a].rows) # 0
        BY <1>2, <3>1, EmptySeq
      <3>4. Len(Tail(flush[a].rows)) = Len(flush[a].rows) - 1
        BY <1>2, <3>1
      <3>5. Len(Tail(flush[a].rows)) # 0
        BY <1>4, <3>3, <3>4
      <3>6. Tail(flush[a].rows) # <<>>
        BY <3>5, EmptySeq
      <3> QED  BY <3>2, <3>6 DEF N
    <2>3. "publish" \in Steps /\ "publish" # "idle"
      BY DEF Steps
    <2> QED  BY <1>1, <2>1, <2>2, <2>3, FlushTypedSet
  <1> QED  BY <1>3, <1>4

LEMMA SetStatusKeepsRows ==
    ASSUME TypeOK, NEW r, NEW status \in {"pending", "failed", "published"}, SetStatus(r, status)
    PROVE  /\ outbox' \in Seq({"pending", "failed", "published"})
           /\ Len(outbox') = Len(outbox)
           /\ DOMAIN outbox' = DOMAIN outbox
  <1> DEFINE Statuses == {"pending", "failed", "published"}
  <1>1. outbox \in Seq(Statuses) /\ outbox' = [outbox EXCEPT ![r] = status] /\ status \in Statuses
    BY DEF TypeOK, SetStatus
  <1> HIDE DEF Statuses
  <1>2. outbox \in [1..Len(outbox) -> Statuses] /\ Len(outbox) \in Nat
    BY <1>1
  <1>3. outbox' \in [1..Len(outbox) -> Statuses]
    BY <1>1, <1>2
  <1> QED  BY <1>2, <1>3 DEF Statuses

\* A step of agents and row states, that enqueues nothing.
LEMMA TypeStep ==
    ASSUME TypeOK, FlushTyped(flush', Len(outbox)),
           outbox' \in Seq({"pending", "failed", "published"}),
           Len(outbox') = Len(outbox), DOMAIN outbox' = DOMAIN outbox,
           \A c \in Callers : own'[c] \in {own[c], 0},
           own' = [c \in Callers |-> own'[c]],
           gateway' \in {"up", "disconnected", "down"},
           wire' \subseteq DOMAIN outbox, queue' \subseteq DOMAIN outbox,
           lost' \subseteq DOMAIN outbox,
           faults' \in 0..MaxFaults
    PROVE  TypeOK'
  <1>1. own' \in [Callers -> 0..Len(outbox')]
    BY DEF TypeOK
  <1>2. /\ flush' \in [Agents -> [rows : Seq(1..Len(outbox')),
                                  step : {"idle", "publish", "save", "saveFailure"}]]
        /\ \A a \in Agents : flush'[a].rows = <<>> <=> flush'[a].step = "idle"
    BY DEF FlushTyped, Steps
  <1>3. {wire', queue', lost'} \subseteq SUBSET DOMAIN outbox'
    OBVIOUS
  <1> QED  BY <1>1, <1>2, <1>3 DEF TypeOK

LEMMA FlushStepTyped ==
    ASSUME TypeOK, NEW a \in Agents, FlushStep(a)
    PROVE  TypeOK'
  <1>1. flush[a].step # "idle"
    BY DEF FlushStep, Publish, PublishFails, SavePublished, SavePublishedFails,
           SaveFailure, SaveFailureFails, InStep
  <1>2. Row(a) \in DOMAIN outbox
    BY <1>1, RowExists
  <1>3. /\ own = [c \in Callers |-> own[c]] /\ outbox \in Seq({"pending", "failed", "published"})
        /\ wire \subseteq DOMAIN outbox /\ queue \subseteq DOMAIN outbox
        /\ lost \subseteq DOMAIN outbox
        /\ gateway \in {"up", "disconnected", "down"}
        /\ faults \in 0..MaxFaults /\ (faults < MaxFaults => faults + 1 \in 0..MaxFaults)
    BY OutboxAssumption DEF TypeOK
  <1>4. {"publish", "save", "saveFailure"} \subseteq Steps \ {"idle"}
    BY DEF Steps
  <1>5. CASE Publish(a)
    <2>1. FlushTyped(flush', Len(outbox))
      BY <1>1, <1>4, <1>5, EntersTyped DEF Publish
    <2>2. wire' \subseteq DOMAIN outbox
      BY <1>2, <1>3, <1>5 DEF Publish
    <2> QED  BY <1>3, <1>5, <2>1, <2>2, TypeStep DEF Publish
  <1>6. CASE PublishFails(a)
    <2>1. FlushTyped(flush', Len(outbox))
      BY <1>1, <1>4, <1>6, EntersTyped DEF PublishFails
    <2> QED  BY <1>3, <1>6, <2>1, TypeStep DEF PublishFails, brokerVars
  <1>7. CASE SavePublished(a)
    <2>1. FlushTyped(flush', Len(outbox))
      BY <1>1, <1>7, NextRowTyped DEF SavePublished
    <2>2. /\ outbox' \in Seq({"pending", "failed", "published"})
          /\ Len(outbox') = Len(outbox) /\ DOMAIN outbox' = DOMAIN outbox
      BY <1>7, SetStatusKeepsRows DEF SavePublished
    <2> QED  BY <1>3, <1>7, <2>1, <2>2, TypeStep DEF SavePublished, brokerVars
  <1>8. CASE SavePublishedFails(a)
    <2>1. FlushTyped(flush', Len(outbox))
      BY <1>1, <1>4, <1>8, EntersTyped DEF SavePublishedFails
    <2>2. /\ outbox' \in Seq({"pending", "failed", "published"})
          /\ Len(outbox') = Len(outbox) /\ DOMAIN outbox' = DOMAIN outbox
      BY <1>3, <1>8, SetStatusKeepsRows DEF SavePublishedFails
    <2> QED  BY <1>3, <1>8, <2>1, <2>2, TypeStep DEF SavePublishedFails, brokerVars
  <1>9. CASE SaveFailure(a)
    <2>1. FlushTyped(flush', Len(outbox))
      BY <1>1, <1>9, NextRowTyped DEF SaveFailure
    <2>2. /\ outbox' \in Seq({"pending", "failed", "published"})
          /\ Len(outbox') = Len(outbox) /\ DOMAIN outbox' = DOMAIN outbox
      BY <1>9, SetStatusKeepsRows DEF SaveFailure
    <2> QED  BY <1>3, <1>9, <2>1, <2>2, TypeStep DEF SaveFailure, brokerVars
  <1>10. CASE SaveFailureFails(a)
    <2>1. FlushTyped(flush', Len(outbox))
      <3>1. flush' = [flush EXCEPT ![a] = [rows |-> <<>>, step |-> "idle"]]
        BY <1>10 DEF SaveFailureFails, Idle
      <3>2. Len(outbox) \in Nat /\ FlushTyped(flush, Len(outbox))
        BY DEF TypeOK, FlushTyped, Steps
      <3>3. <<>> \in Seq(1..Len(outbox)) /\ "idle" \in Steps
        BY DEF Steps
      <3> QED  BY <3>1, <3>2, <3>3, FlushTypedSet
    <2> QED  BY <1>3, <1>10, <2>1, TypeStep DEF SaveFailureFails, brokerVars
  <1> QED  BY <1>5, <1>6, <1>7, <1>8, <1>9, <1>10 DEF FlushStep

LEMMA InitTypeOK == Init => TypeOK
  <1> SUFFICES ASSUME Init PROVE TypeOK
    OBVIOUS
  <1>1. outbox = <<>> /\ Len(outbox) = 0 /\ Idle = [rows |-> <<>>, step |-> "idle"]
    BY DEF Init, Idle
  <1>2. <<>> \in Seq(1..Len(outbox))
    OBVIOUS
  <1>3. /\ flush \in [Agents -> [rows : Seq(1..Len(outbox)),
                                 step : {"idle", "publish", "save", "saveFailure"}]]
        /\ \A a \in Agents : flush[a].rows = <<>> <=> flush[a].step = "idle"
    BY <1>1, <1>2 DEF Init
  <1>4. own \in [Callers -> 0..Len(outbox)] /\ outbox \in Seq({"pending", "failed", "published"})
    BY <1>1 DEF Init
  <1>5. faults \in 0..MaxFaults
    BY OutboxAssumption DEF Init
  <1> QED  BY <1>3, <1>4, <1>5 DEF Init, TypeOK

LEMMA NextKeepsTypeOK == TypeOK /\ [Next]_vars => TypeOK'
  <1> SUFFICES ASSUME TypeOK, [Next]_vars PROVE TypeOK'
    OBVIOUS
  <1>1. /\ own \in [Callers -> 0..Len(outbox)] /\ own = [c \in Callers |-> own[c]]
        /\ outbox \in Seq({"pending", "failed", "published"})
        /\ Len(outbox) \in Nat /\ DOMAIN outbox = 1..Len(outbox)
        /\ wire \subseteq DOMAIN outbox /\ queue \subseteq DOMAIN outbox
        /\ lost \subseteq DOMAIN outbox
        /\ gateway \in {"up", "disconnected", "down"}
        /\ faults \in 0..MaxFaults /\ (faults < MaxFaults => faults + 1 \in 0..MaxFaults)
    BY OutboxAssumption DEF TypeOK
  <1>2. FlushTyped(flush, Len(outbox))
    BY DEF TypeOK, FlushTyped, Steps
  <1>3. "publish" \in Steps /\ "idle" \in Steps /\ "publish" # "idle"
    BY DEF Steps
  <1>4. ASSUME NEW c \in Callers, Enqueue(c) PROVE TypeOK'
    <2>1. /\ outbox' \in Seq({"pending", "failed", "published"})
          /\ Len(outbox') = Len(outbox) + 1 /\ DOMAIN outbox' = 1..(Len(outbox) + 1)
      BY <1>1, <1>4 DEF Enqueue
    <2>2. FlushTyped(flush', Len(outbox'))
      BY <1>1, <1>2, <1>4, <2>1, FlushTypedGrows DEF Enqueue
    <2>3. own' \in [Callers -> 0..Len(outbox')]
      <3>1. \A d \in Callers : own[d] \in 0..Len(outbox')
        BY <1>1, <2>1
      <3>2. Len(outbox) + 1 \in 0..Len(outbox')
        BY <1>1, <2>1
      <3> QED  BY <1>1, <1>4, <3>1, <3>2 DEF Enqueue
    <2>4. DOMAIN outbox \subseteq DOMAIN outbox'
      BY <1>1, <2>1
    <2> QED  BY <1>1, <1>4, <2>1, <2>2, <2>3, <2>4
             DEF Enqueue, TypeOK, FlushTyped, Steps, brokerVars
  <1>5. ASSUME NEW c \in Callers, FlushOwnRow(c) PROVE TypeOK'
    <2>1. own[c] \in 1..Len(outbox)
      BY <1>1, <1>5 DEF FlushOwnRow
    <2>2. FlushTyped(flush', Len(outbox))
      <3>1. <<own[c]>> \in Seq(1..Len(outbox)) /\ <<own[c]>> # <<>>
        BY <2>1
      <3>2. CASE FlushRows(c, <<own[c]>>)
        BY <1>1, <1>2, <1>3, <3>1, <3>2, FlushTypedSet DEF FlushRows, Agents
      <3> QED  BY <1>2, <1>5, <3>2 DEF FlushOwnRow
    <2> QED  BY <1>1, <1>5, <2>2, TypeStep DEF FlushOwnRow, brokerVars
  <1>6. ASSUME NEW a \in Agents, FlushStep(a) PROVE TypeOK'
    BY <1>6, FlushStepTyped
  <1>7. CASE FlushPendingOutbox
    <2>1. Unpublished \in SUBSET (1..Len(outbox)) /\ Unpublished # {}
      BY <1>1, <1>7 DEF Unpublished, FlushPendingOutbox
    <2>2. Oldest(Unpublished) \in Seq(Unpublished) /\ Oldest(Unpublished) # <<>>
      BY <1>1, <2>1, OldestAreRows
    <2>3. Oldest(Unpublished) \in Seq(1..Len(outbox))
      BY <2>1, <2>2, SeqOfMore
    <2>4. FlushTyped(flush', Len(outbox))
      BY <1>1, <1>2, <1>3, <1>7, <2>2, <2>3, FlushTypedSet
         DEF FlushPendingOutbox, FlushRows, Agents
    <2> QED  BY <1>1, <1>7, <2>4, TypeStep DEF FlushPendingOutbox, brokerVars
  <1>8. ASSUME NEW r \in wire, Deliver(r) PROVE TypeOK'
    BY <1>1, <1>2, <1>8, TypeStep DEF Deliver
  <1>9. CASE ConnectionCloses
    BY <1>1, <1>2, <1>9, TypeStep DEF ConnectionCloses, ConnectionIsLost
  <1>10. CASE Exit
    <2>1. FlushTyped(flush', Len(outbox))
      <3>1. flush' = [a \in Agents |-> [rows |-> <<>>, step |-> "idle"]]
        BY <1>10 DEF Exit, Idle
      <3>2. <<>> \in Seq(1..Len(outbox))
        OBVIOUS
      <3> QED  BY <1>3, <3>1, <3>2 DEF FlushTyped
    <2> QED  BY <1>1, <1>10, <2>1, TypeStep DEF Exit, ConnectionIsLost
  <1>11. CASE Start
    BY <1>1, <1>2, <1>11, TypeStep DEF Start, brokerVars
  <1>12. CASE UNCHANGED vars
    BY <1>1, <1>2, <1>12, TypeStep DEF vars
  <1> QED  BY <1>4, <1>5, <1>6, <1>7, <1>8, <1>9, <1>10, <1>11, <1>12 DEF Next

-----------------------------------------------------------------------------
\* A row is published only if its event was sent: the state of the row never
\* runs ahead of the channel, whoever flushes it and whatever fails.
THEOREM PublicationsWereSent == Spec => []PublishedWasSent
  <1>1. SentInv => PublishedWasSent
    BY DEF SentInv
  <1> QED  BY <1>1, InitSentInv, NextKeepsSentInv, PTL DEF Spec
\* The relay's state is what the code takes it to be: whichever agents work on
\* the same rows, each has rows exactly while it flushes, and the rows exist.
THEOREM RelayIsSound == Spec => []OutboxIsSound
  BY InitTypeOK, NextKeepsTypeOK, PublicationsWereSent, PTL DEF Spec, OutboxIsSound
=============================================================================
