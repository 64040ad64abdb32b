----------------------------- MODULE SessionFence -----------------------------
(***************************************************************************)
(* One document's Apollo link between the session coordinator and every    *)
(* GraphQL operation (session-fence-link.ts), and the view it leads to.    *)
(* The coordinator is module SessionCoordination's, summarised: of the     *)
(* marker only what a read or a registration may do is kept, and other     *)
(* tabs, sign-in and sign-out are whoever else writes it.                  *)
(***************************************************************************)
EXTENDS Naturals

CONSTANTS
    MaxEvents,   \* bound on commands and changes of the marker together
    None

ASSUME FenceAssumption ==
    /\ MaxEvents \in Nat
    /\ None \notin Nat

VARIABLES
    durable,     \* the marker in localStorage
    coordinator, \* the document's snapshot of it, and what it resolved to
    fenced,      \* operations that wait for an answer behind the fence
    sent         \* commands sent so far

fenceVars == <<durable, coordinator, fenced>>

\* "open": reads may go; "acting": a cookie action is pending or unknown, or
\* a logout unconfirmed; "loggedOut": a confirmed logout.
Durable == [version : 0..MaxEvents, state : {"open", "acting", "loggedOut"}]

Version == 0..MaxEvents \cup {None}

Coordinator ==
    [seen : Durable, failure : {"none", "invalid", "unavailable"},
     identity : Version,  \* version the shown user was asked for at
     rows : Version]      \* version the shown inbox was asked for at

\* A revision is only compared with the current one: "retired" says that
\* there has been a publication since the operation captured its own, and
\* "overtaken" that the page had submitted it at an older one.
Fenced ==
    [kind : {"me", "product", "signUp"}, version : 0..MaxEvents,
     request : 0..MaxEvents, retired : BOOLEAN, overtaken : BOOLEAN]

Readable(c) == c.seen.state = "open"

Registrable(c) == c.seen.state \in {"open", "loggedOut"}

\* BROWSER_AUTH_STATUS of selectSessionView.
Status(c) ==
    CASE c.seen.state = "acting" -> "withheld"
      [] c.seen.state = "loggedOut" -> "anonymous"
      [] c.failure = "invalid" -> "anonymous"
      [] c.failure = "unavailable" -> "unavailable"
      [] c.identity # None -> "authenticated"
      [] OTHER -> "loading"

\* A publication is a new revision: the view resolves anew, and protected
\* pages unmount.
Published(c, seen, failure) ==
    [seen |-> seen, failure |-> failure, identity |-> None, rows |-> None]

Refreshed(c) == IF c.seen = durable THEN c ELSE Published(c, durable, "none")

\* coordinator.fail at a current revision.
Failed(c, failure) ==
    IF Readable(c) THEN Published(c, c.seen, failure) ELSE c

\* isCurrentOperation, the marker having been reread.
IsCurrentOperation(c, o) ==
    /\ ~o.retired
    /\ IF o.kind = "signUp" THEN Registrable(c)
       ELSE Readable(c) /\ (o.kind = "me" \/ c.failure = "none")

\* The inbox unsubscribes when it is unmounted.
Mounted(c, o) == o.kind = "product" => Status(c) = "authenticated"

\* A new resolution is no publication.
IsPublication(c) ==
    c.seen # coordinator.seen \/ c.failure # coordinator.failure

AfterPublication(c) ==
    {[o EXCEPT !.retired = @ \/ IsPublication(c)] : o \in fenced}

\* Every publication lets the fence cancel what it retires.
Retained(c) ==
    {o \in AfterPublication(c) : IsCurrentOperation(c, o) /\ Mounted(c, o)}

Waits(kind) == \E o \in fenced : o.kind = kind

Publish(c) == coordinator' = c /\ fenced' = Retained(c)

\* createFencedObservable: the generation is captured after a reread, and an
\* operation it does not admit is not sent.
Dispatch(kind, request) ==
    LET c == Refreshed(coordinator)
        o == [kind |-> kind, version |-> c.seen.version, request |-> request,
              retired |-> FALSE, overtaken |-> c # coordinator]
    IN /\ coordinator' = c
       /\ fenced' = Retained(c) \cup
             {p \in {o} : IsCurrentOperation(c, p) /\ Mounted(c, p)}
       /\ UNCHANGED durable

\* What classifySessionFailure, and for Me reconcileSession, make of an
\* answer at a revision that is still current.
Classified(c, o, answer) ==
    CASE answer = "data" /\ o.kind = "me" -> [c EXCEPT !.identity = o.version]
      [] answer = "data" /\ o.kind = "product" -> [c EXCEPT !.rows = o.version]
      [] answer \in {"invalid", "unavailable"} -> Failed(c, answer)
      [] answer = "error" /\ o.kind = "me" -> Failed(c, "unavailable")
      [] OTHER -> c

\* Mutant: the coordinator is not reread before a delivery.
RereadAtDelivery(c) == c

Reread(c) == Refreshed(c)

\* next, error: an obsolete operation is cancelled instead.
Deliver(o, answer) ==
    LET c == Reread(coordinator)
        now == [o EXCEPT !.retired = @ \/ IsPublication(c)]
    IN /\ coordinator' = IF IsCurrentOperation(c, now)
                         THEN Classified(c, now, answer) ELSE c
       /\ fenced' = {p \in Retained(coordinator') : p.kind # o.kind}
       /\ UNCHANGED durable

Reads == {"data", "invalid", "unavailable", "error"}

\* The answer to a read, or its deadline ("error"): an error without a code.
DeliverRead(o) ==
    /\ o.kind \in {"me", "product"}
    /\ \E answer \in Reads : Deliver(o, answer)

\* useSessionBootstrap: once per revision.
StartMe ==
    /\ Status(coordinator) = "loading" /\ ~Waits("me")
    /\ Dispatch("me", 0)

\* The inbox queries when it is mounted.
StartInbox ==
    /\ Status(coordinator) = "authenticated" /\ coordinator.rows = None
    /\ ~Waits("product")
    /\ Dispatch("product", 0)

\* SessionBoundary's retry of an unavailable read.
RetryRead ==
    LET c == Refreshed(coordinator) IN
    /\ Status(coordinator) = "unavailable"
    /\ Publish(IF Registrable(c) THEN Published(c, c.seen, "none") ELSE c)
    /\ UNCHANGED durable

\* A storage event or a peer's hint.
Notice ==
    /\ coordinator.seen # durable
    /\ Publish(Refreshed(coordinator))
    /\ UNCHANGED durable

\* Another tab's action, or this one's.
MarkerChanges ==
    /\ durable.version + sent < MaxEvents
    /\ \E state \in {"open", "acting", "loggedOut"} :
          durable' = [version |-> durable.version + 1, state |-> state]
    /\ UNCHANGED <<coordinator, fenced>>

NewCoordinator ==
    [seen |-> durable, failure |-> "none", identity |-> None, rows |-> None]

\* What is on the screen was asked for, and answered, in one generation of the
\* session: the one the coordinator has seen, which was still the browser's
\* when the answer came; nothing is while the session is withheld.  So an
\* account's inbox is never shown to the next.
ScreenIsOfOneGeneration ==
    [][LET c == coordinator' IN
         /\ c.identity # None => c.identity = c.seen.version /\ Readable(c)
         /\ c.rows # None => c.rows = c.identity /\ c.failure = "none"
         /\ c.identity \notin {None, coordinator.identity} =>
               c.identity = durable.version
         /\ c.rows \notin {None, coordinator.rows} =>
               c.rows = durable.version]_fenceVars

-----------------------------------------------------------------------------
(* Why it holds: invariants. *)

\* What waits was asked for at the revision that the coordinator has seen, by
\* a page that is mounted, and once.
FencedAreOfTheRevision ==
    /\ \A o \in fenced :
          /\ IsCurrentOperation(coordinator, o) /\ Mounted(coordinator, o)
          /\ o.version = coordinator.seen.version
    /\ \A o, p \in fenced : o.kind = p.kind => o = p

ScreenIsOfTheRevision ==
    LET c == coordinator IN
    /\ c.identity # None => c.identity = c.seen.version /\ Readable(c)
    /\ c.rows # None => c.rows = c.identity /\ c.failure = "none"
=============================================================================
