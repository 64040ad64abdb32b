----------------------------- MODULE SessionMarker -----------------------------
(***************************************************************************)
(* The session marker the tabs of one browser share in localStorage, and   *)
(* the transitions of session-marker-transitions.ts: pure functions from a *)
(* marker to the next one, each applied atomically by                      *)
(* SessionMarkerStore.update.  A transition of the code that throws has a  *)
(* predicate of its own here, and leaves the marker alone.                 *)
(*                                                                         *)
(* Action ids and epochs are fresh UUIDs: numbers never handed out before. *)
(***************************************************************************)
EXTENDS Integers

CONSTANTS NoAction, NoMarker   \* action: null, and an unreadable marker

\* Only a sign-out is ever ready or failed (assertMarkerConsistency).
Action ==
    [id : Nat, kind : {"sign-in"}, status : {"pending", "unknown"}] \cup
    [id : Nat, kind : {"sign-out"},
     status : {"ready", "pending", "failed", "unknown"}]

Marker == [action : Action \cup {NoAction}, epoch : Nat,
           logoutIntent : BOOLEAN,
           revocation : {"none", "unconfirmed", "confirmed"}]

ASSUME MarkerAssumption == NoAction \notin Action /\ NoMarker \notin Marker

InitialMarker == [action |-> NoAction, epoch |-> 0, logoutIntent |-> FALSE,
                  revocation |-> "none"]

\* What an older version may have left: an intent with no action to prove it.
LegacyMarker == [InitialMarker EXCEPT !.logoutIntent = TRUE,
                                      !.revocation = "unconfirmed"]

IsPending(m) == m # NoMarker /\ m.action # NoAction /\ m.action.status = "pending"

\* The action the caller settles is still its own pending one.
OwnsPending(m, id) == IsPending(m) /\ m.action.id = id

ReadySignOut(epoch) == [id |-> epoch, kind |-> "sign-out", status |-> "ready"]

RequiresReset(m) ==
    \/ m = NoMarker
    \/ m.action # NoAction /\ m.action.status \in {"failed", "unknown"}
    \/ m.action = NoAction /\ m.logoutIntent /\ m.revocation = "unconfirmed"

\* Confirmed logout, or no logout at all, and nothing under way: a sign-in
\* may begin.
AcceptsSignIn(m) ==
    m.action = NoAction /\ (m.logoutIntent => m.revocation = "confirmed")

BeginSignIn(m, id) ==
    [m EXCEPT !.action = [id |-> id, kind |-> "sign-in", status |-> "pending"],
              !.epoch = id]

\* Mutant: the epoch is not compared, an acknowledged login always wins.
AcknowledgeSignInAnyEpoch(m, id, epoch) ==
    IF ~(OwnsPending(m, id) /\ m.action.kind = "sign-in") THEN m
    ELSE [m EXCEPT !.action = NoAction, !.epoch = epoch,
                   !.logoutIntent = FALSE, !.revocation = "none"]

\* A newer logout intent has changed the epoch; then the new session is
\* prepared for sign-out instead of being accepted.
AcknowledgeSignIn(m, id, epoch) ==
    IF ~(OwnsPending(m, id) /\ m.action.kind = "sign-in") THEN m
    ELSE IF m.epoch = id
         THEN [m EXCEPT !.action = NoAction, !.epoch = epoch,
                        !.logoutIntent = FALSE, !.revocation = "none"]
         ELSE [m EXCEPT !.action = ReadySignOut(epoch), !.epoch = epoch]

\* A logout that somebody else has finished, or a newer login superseded.
SignOutSuperseded(m) == ~m.logoutIntent \/ m.revocation = "confirmed"

MayDispatchSignOut(m) ==
    /\ ~SignOutSuperseded(m)
    /\ m.action # NoAction
    /\ m.action.kind = "sign-out" /\ m.action.status = "ready"

BeginSignOut(m, id) ==
    [m EXCEPT !.action = [id |-> id, kind |-> "sign-out", status |-> "pending"],
              !.epoch = id]

AcknowledgeSignOut(m, id, epoch) ==
    IF ~(OwnsPending(m, id) /\ m.action.kind = "sign-out") THEN m
    ELSE [m EXCEPT !.action = NoAction, !.epoch = epoch,
                   !.logoutIntent = TRUE, !.revocation = "confirmed"]

\* How a cookie request ended, as classifyCookieActionFailure sees it: a
\* GraphQL error proves that the server has answered.
Completed(reply) == reply \in {"rejected", "error"}

\* The marker of a failed action, given what becomes of the action.
Failed(m, action, epoch, reply) ==
    [m EXCEPT !.action = action, !.epoch = epoch,
              !.logoutIntent = IF reply = "rejected" THEN @ ELSE TRUE,
              !.revocation = IF reply = "rejected" THEN @ ELSE "unconfirmed"]

\* Mutant: a request without an answer is taken for a failed one.
FailCookieActionUncertain(m, id, epoch, reply) ==
    IF ~OwnsPending(m, id) THEN m
    ELSE Failed(m, ReadySignOut(epoch), epoch, reply)

FailCookieAction(m, id, epoch, reply) ==
    IF ~OwnsPending(m, id) THEN m
    ELSE Failed(m,
           CASE ~Completed(reply) -> [m.action EXCEPT !.status = "unknown"]
             [] Completed(reply) /\ m.action.kind = "sign-out" ->
                   [m.action EXCEPT !.status = "failed"]
             [] Completed(reply) /\ m.action.kind = "sign-in" ->
                   IF reply = "rejected"
                      /\ ~(m.logoutIntent /\ m.revocation = "unconfirmed")
                   THEN NoAction ELSE ReadySignOut(epoch),
           epoch, reply)

OrphanPendingAction(m, epoch) ==
    IF ~IsPending(m) THEN m
    ELSE [m EXCEPT !.action.status = "unknown", !.epoch = epoch,
                   !.logoutIntent = TRUE, !.revocation = "unconfirmed"]

\* Mutant: recording the intent again makes any state a retry.
PublishLogoutIntentAnyway(m, epoch) ==
    [m EXCEPT !.action = IF @ = NoAction THEN ReadySignOut(epoch) ELSE @,
              !.epoch = epoch,
              !.logoutIntent = TRUE, !.revocation = "unconfirmed"]

PublishLogoutIntent(m, epoch) ==
    IF RequiresReset(m) THEN m
    ELSE [m EXCEPT !.action = IF @ = NoAction THEN ReadySignOut(epoch) ELSE @,
                   !.epoch = epoch,
                   !.logoutIntent = TRUE, !.revocation = "unconfirmed"]

\* assertMarkerConsistency: a marker that fails it is refused by the next
\* reader, and blocks the browser.
Consistent(m) ==
    /\ m.logoutIntent <=> m.revocation # "none"
    /\ (m.action # NoAction /\ m.action.status = "unknown") =>
          m.revocation = "unconfirmed"
    /\ (m.action # NoAction /\ m.action.status \in {"ready", "failed"}) =>
          /\ m.action.kind = "sign-out"
          /\ m.revocation = "unconfirmed"
=============================================================================
