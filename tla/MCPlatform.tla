------------------------------ MODULE MCPlatform ------------------------------
(***************************************************************************)
(* Parts of the platform, and the gate over what it is built from, side by *)
(* side: a behaviour is of the source reservations, of the S3 adapter, of  *)
(* the identity limiter, or of the dependency gate; the variables of the   *)
(* others rest.  The limiter's two maps share nothing but the clock, so    *)
(* each is explored on its own.                                            *)
(***************************************************************************)
EXTENDS MCSourceObjectReservation, IdentityLimiter, ArtifactStorage, DependencyPolicy

CONSTANT MaxPuts  \* bound on puts under way at once

VARIABLE subject  \* the part

mcVars == <<subject, vars, adapterVars, limiterVars, gateVars>>

\* The reviewed chain, shortened.
ReviewedChain ==
    "braces" :> {} @@ "micromatch" :> {"braces"}
        @@ "loader" :> {"micromatch"} @@ "cli" :> {"loader", "micromatch"}

\* Checks are named in the order in which they are reserved.
FourChecks == 1..4
InOrder ==
    \A c, d \in Checks : c < d /\ check[c].stage = "new" => check[d].stage = "new"

NoReservations ==
    /\ Init
    /\ documentObject = [d \in Documents |-> NoRow] /\ bytes = [k \in Key |-> NoBytes]

\* Where the gate is not the subject, there is nothing for it to read, and it says no.
NoRepository ==
    /\ report = <<>> /\ lock = <<>> /\ allowScripts = <<>> /\ npmrc = <<>> /\ effective = <<>>
    /\ workspaces = <<>> /\ manifests = <<>> /\ expired = TRUE /\ edits = 0

MCInit ==
    /\ AdapterInit /\ LimiterInit
    /\ \/ subject = "reservation" /\ Init /\ NoRepository
       \/ subject \in {"adapter", "signIn", "signUp"} /\ NoReservations /\ NoRepository
       \/ subject = "gate" /\ NoReservations /\ GateInit

MCNext ==
    /\ UNCHANGED subject
    /\ \/ subject = "reservation" /\ Next /\ UNCHANGED <<adapterVars, limiterVars, gateVars>>
       \/ /\ subject = "adapter" /\ AdapterNext /\ Cardinality(puts') <= MaxPuts
          /\ UNCHANGED <<vars, limiterVars, gateVars>>
       \/ /\ subject = "signIn" /\ LimiterNext /\ InOrder'
          /\ UNCHANGED <<vars, adapterVars, gateVars, registration>>
       \/ subject = "signUp" /\ LimiterNext /\ UNCHANGED <<vars, adapterVars, gateVars, check>>
       \/ subject = "gate" /\ GateNext /\ UNCHANGED <<vars, adapterVars, limiterVars>>

MCSpec == MCInit /\ [][MCNext]_mcVars
=============================================================================
