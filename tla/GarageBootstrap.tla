---------------------------- MODULE GarageBootstrap ----------------------------
(***************************************************************************)
(* Preparing the local object store: infra/local/garage.                   *)
(*                                                                         *)
(* One run is the script local-garage-bootstrap.sh: init-credentials.mjs   *)
(* fills the infrastructure env file and copies the Platform's part into   *)
(* its own env file; bootstrap.mjs then brings an empty, half-prepared or  *)
(* prepared Garage to one applied layout, one key and one bucket per       *)
(* service, and proves over S3 that every key reaches its own bucket and   *)
(* no other.  Each call to Garage is a step, and a run may end between any *)
(* two of them: a timeout, an error answer or an interrupted terminal, the *)
(* call having had its effect or not.                                      *)
(*                                                                         *)
(* Between runs the developer edits the env files, deletes the volumes or  *)
(* uses Garage's own CLI.  The RPC secret, ports and host names play no    *)
(* part; shell overrides of the env file are not set.  Unset is an absent  *)
(* value or the template's marker, Junk one of the wrong format.           *)
(***************************************************************************)
EXTENDS Naturals, Sequences, FiniteSets

CONSTANTS
    GARAGE_OWNERS,        \* the services, in order; the first is the Platform
    Unset, Junk,          \* model values
    READINESS_ATTEMPTS,   \* probes of one readiness wait
    MaxRuns, MaxChanges   \* bounds: runs started, changes made from outside

VARIABLES
    infra,       \* infra/local/.env.local
    platform,    \* apps/platform-service/.env.local
    garage,      \* what Garage has stored
    run,         \* the script: where it is, what it has read
    minted,      \* rounds of generated credentials
    runs, changes

vars == <<infra, platform, garage, run, minted, runs, changes>>

N == Len(GARAGE_OWNERS)
Service == 1 .. N
Perm == {"owner", "read", "write"}

-----------------------------------------------------------------------------
\* The two env files.

DEFAULT_ASSIGNMENTS == [s \in Service |-> GARAGE_OWNERS[s]]

EmptyInfra ==
    [id |-> [s \in Service |-> Unset], secret |-> [s \in Service |-> Unset],
     bucket |-> DEFAULT_ASSIGNMENTS, shape |-> 1]

EmptyPlatform == [id |-> Unset, secret |-> Unset, bucket |-> Unset]

isValidCredential(value) == value \notin {Unset, Junk}

Generated(name, values) ==
    [s \in Service |-> IF values[s] = Unset THEN <<name, s, minted + 1>> ELSE values[s]]

\* What the initializer writes: only what is unset is filled in.
Initialized ==
    [infra EXCEPT !.id = Generated("id", infra.id),
                  !.secret = Generated("secret", infra.secret),
                  !.bucket = [s \in Service |-> IF infra.bucket[s] = Unset
                                                THEN DEFAULT_ASSIGNMENTS[s] ELSE infra.bucket[s]]]

OwnerView(file) == [id |-> file.id[1], secret |-> file.secret[1], bucket |-> file.bucket[1]]

-----------------------------------------------------------------------------
\* Garage, as the scripts use it.

EmptyGarage ==
    [version |-> 0, roles |-> {}, staged |-> {}, keys |-> {}, buckets |-> {},
     grants |-> {}, probes |-> {}]

KeyOf(conf, s) == [id |-> conf.id[s], secret |-> conf.secret[s], name |-> GARAGE_OWNERS[s]]
OwnGrants(conf, s) == {<<conf.id[s], conf.bucket[s], p>> : p \in {"read", "write"}}

\* An S3 request is let through when the key is known under that secret and
\* holds the permission; every other request is answered with 403.
Allowed(conf, s, bucket, perm) ==
    /\ \E k \in garage.keys : k.id = conf.id[s] /\ k.secret = conf.secret[s]
    /\ <<conf.id[s], bucket, perm>> \in garage.grants

-----------------------------------------------------------------------------
\* The script's control.

Resting == {"idle", "ready", "failed", "refused"}
Running == run.pc \notin Resting
At(pc) == run.pc = pc

Rest(pc) == run' = [pc |-> pc, at |-> 0, peer |-> 0, conf |-> EmptyInfra]
Goto(pc) == run' = [run EXCEPT !.pc = pc, !.at = 1, !.peer = 1]
Refuse == Rest("refused") /\ UNCHANGED garage
Files == <<infra, platform, minted>>
Bounds == <<runs, changes>>

Init ==
    /\ infra = EmptyInfra /\ platform = EmptyPlatform
    /\ garage = EmptyGarage
    /\ run = [pc |-> "idle", at |-> 0, peer |-> 0, conf |-> EmptyInfra]
    /\ minted = 0 /\ runs = 0 /\ changes = 0

\* A malformed credential is never replaced; otherwise the completed file
\* takes the place of the old one in a single rename.
InitCredentials ==
    /\ ~Running /\ runs < MaxRuns
    /\ runs' = runs + 1
    /\ \/ /\ \E s \in Service : Junk \in {infra.id[s], infra.secret[s]}
          /\ Rest("refused")
          /\ UNCHANGED <<infra, minted>>
       \/ /\ \A s \in Service : Junk \notin {infra.id[s], infra.secret[s]}
          /\ infra' = Initialized
          /\ minted' = minted + (IF Initialized = infra THEN 0 ELSE 1)
          /\ Goto("platform")
    /\ UNCHANGED <<platform, garage, changes>>

\* A bug for comparison: what is set in the Platform's file stays.
SyncUnset ==
    /\ At("platform")
    /\ platform' = IF platform = EmptyPlatform THEN OwnerView(infra) ELSE platform
    /\ Goto("configuration")
    /\ UNCHANGED <<infra, garage, minted, runs, changes>>

\* The Platform's file follows the infrastructure's, whatever it held.
SyncPlatform ==
    /\ At("platform")
    /\ platform' = OwnerView(infra)
    /\ Goto("configuration")
    /\ UNCHANGED <<infra, garage, minted, runs, changes>>

Distinct(values) == Cardinality({values[s] : s \in Service}) = N

configuration ==
    /\ At("configuration")
    /\ \/ /\ Distinct(infra.bucket) /\ Distinct(infra.id) /\ Distinct(infra.secret)
          /\ \A s \in Service :
                isValidCredential(infra.id[s]) /\ isValidCredential(infra.secret[s])
          /\ run' = [run EXCEPT !.pc = "status", !.conf = infra]
       \/ /\ ~(Distinct(infra.bucket) /\ Distinct(infra.id) /\ Distinct(infra.secret))
          /\ Rest("refused")
    /\ UNCHANGED <<Files, garage, Bounds>>

\* Both readiness waits: an answer moves on, silence is probed again, and the
\* last silent probe ends the run.  Garage is healthy only with a layout.
Wait(pc, answers, next) ==
    /\ At(pc)
    /\ \/ answers /\ next
       \/ run.at < READINESS_ATTEMPTS /\ run' = [run EXCEPT !.at = @ + 1]
       \/ run.at = READINESS_ATTEMPTS /\ Rest("failed")
    /\ UNCHANGED <<Files, garage, Bounds>>

waitForStatus == Wait("status", TRUE, Goto("layout"))
waitForHealth == Wait("health", garage.roles # {}, Goto("own"))

GetClusterLayout ==
    /\ At("layout")
    /\ \/ garage.staged # {} /\ Refuse
       \/ /\ garage.staged = {} /\ UNCHANGED garage
          /\ Goto(IF garage.version = 0 /\ garage.roles = {} THEN "stage" ELSE "applied")
    /\ UNCHANGED <<Files, Bounds>>

UpdateClusterLayout ==
    /\ At("stage")
    /\ garage' = [garage EXCEPT !.staged = {run.conf.shape}]
    /\ Goto("apply")
    /\ UNCHANGED <<Files, Bounds>>

ApplyClusterLayout ==
    /\ At("apply")
    /\ garage' = [garage EXCEPT !.version = 1, !.roles = garage.staged, !.staged = {}]
    /\ Goto("applied")
    /\ UNCHANGED <<Files, Bounds>>

LayoutIsExpected == garage.version = 1 /\ garage.roles = {run.conf.shape}

CheckLayout ==
    /\ At("applied")
    /\ \/ LayoutIsExpected /\ Goto("keys") /\ UNCHANGED garage
       \/ ~LayoutIsExpected /\ Refuse
    /\ UNCHANGED <<Files, Bounds>>

\* A bug for comparison: a key is only expected until all are there.
KeysAreMissing ==
    /\ Cardinality(garage.keys) < N
    /\ \A k \in garage.keys :
          \E s \in Service : run.conf.id[s] = k.id /\ k.name = GARAGE_OWNERS[s]

\* Existing keys are recognised by id and name; their secret is not shown.
KeysAreExpected ==
    /\ Cardinality(garage.keys) <= N
    /\ \A k \in garage.keys :
          \E s \in Service : run.conf.id[s] = k.id /\ k.name = GARAGE_OWNERS[s]

ListKeys ==
    /\ At("keys")
    /\ \/ KeysAreExpected /\ Goto("import") /\ UNCHANGED garage
       \/ ~KeysAreExpected /\ Refuse
    /\ UNCHANGED <<Files, Bounds>>

\* One iteration of a loop over the services.
ForEach(pc, change, after) ==
    /\ At(pc)
    /\ garage' = change
    /\ IF run.at = N THEN Goto(after) ELSE run' = [run EXCEPT !.at = @ + 1]
    /\ UNCHANGED <<Files, Bounds>>

ImportKey ==
    ForEach("import",
            IF \E k \in garage.keys : k.id = run.conf.id[run.at] THEN garage
            ELSE [garage EXCEPT !.keys = @ \union {KeyOf(run.conf, run.at)}],
            "buckets")

BucketsAreExpected ==
    /\ Cardinality(garage.buckets) <= N
    /\ garage.buckets \subseteq {run.conf.bucket[s] : s \in Service}

ListBuckets ==
    /\ At("buckets")
    /\ \/ BucketsAreExpected /\ Goto("create") /\ UNCHANGED garage
       \/ ~BucketsAreExpected /\ Refuse
    /\ UNCHANGED <<Files, Bounds>>

CreateBucket ==
    ForEach("create", [garage EXCEPT !.buckets = @ \union {run.conf.bucket[run.at]}], "deny")

\* Every permission of every managed key goes first ...
DenyBucketKey ==
    /\ At("deny")
    /\ garage' = [garage EXCEPT !.grants = @ \
                     {<<run.conf.id[run.at], run.conf.bucket[run.peer], p>> : p \in Perm}]
    /\ run' = IF run.peer < N THEN [run EXCEPT !.peer = @ + 1]
              ELSE IF run.at < N THEN [run EXCEPT !.at = @ + 1, !.peer = 1]
              ELSE [run EXCEPT !.pc = "allow", !.at = 1, !.peer = 1]
    /\ UNCHANGED <<Files, Bounds>>

\* ... and only then does each key get its own bucket back.
AllowBucketKey ==
    ForEach("allow", [garage EXCEPT !.grants = @ \union OwnGrants(run.conf, run.at)], "health")

-----------------------------------------------------------------------------
\* verifyS3: each service against its own bucket, then against each peer's.

OwnBucket == run.conf.bucket[run.at]
PeerBucket == run.conf.bucket[run.peer]
NextPeer ==
    run' = IF run.peer < N THEN [run EXCEPT !.pc = "peer", !.peer = @ + 1]
           ELSE IF run.at < N THEN [run EXCEPT !.pc = "own", !.at = @ + 1, !.peer = 1]
           ELSE [run EXCEPT !.pc = "anonymous"]

HeadOwnBucket ==
    /\ At("own")
    /\ \/ /\ Allowed(run.conf, run.at, OwnBucket, "read")
          /\ run' = [run EXCEPT !.pc = "peer", !.peer = 1]
       \/ ~Allowed(run.conf, run.at, OwnBucket, "read") /\ Rest("refused")
    /\ UNCHANGED <<Files, garage, Bounds>>

HeadPeerBucket ==
    /\ At("peer")
    /\ \/ run.peer = run.at /\ NextPeer
       \/ /\ run.peer # run.at
          /\ IF Allowed(run.conf, run.at, PeerBucket, "read")
             THEN Rest("refused") ELSE run' = [run EXCEPT !.pc = "probe"]
    /\ UNCHANGED <<Files, garage, Bounds>>

\* A write that is let through leaves an object behind, which the bucket's
\* owner has to delete before the run is refused.
PutPermissionProbe ==
    /\ At("probe")
    /\ \/ /\ Allowed(run.conf, run.at, PeerBucket, "write")
          /\ garage' = [garage EXCEPT !.probes = @ \union {<<PeerBucket, run.at>>}]
          /\ run' = [run EXCEPT !.pc = "remove"]
       \/ /\ ~Allowed(run.conf, run.at, PeerBucket, "write")
          /\ NextPeer /\ UNCHANGED garage
    /\ UNCHANGED <<Files, Bounds>>

removePermissionProbe ==
    /\ At("remove")
    /\ garage' = [garage EXCEPT !.probes =
                     IF Allowed(run.conf, run.peer, PeerBucket, "write")
                     THEN @ \ {<<PeerBucket, run.at>>} ELSE @]
    /\ Rest("refused")
    /\ UNCHANGED <<Files, Bounds>>

\* No bucket answers a request that carries no key.
HeadAnonymously ==
    /\ At("anonymous")
    /\ run' = [run EXCEPT !.pc = "ready"]
    /\ UNCHANGED <<Files, garage, Bounds>>

\* The run ends before its next step: a timeout, an error or an interruption.
Fail ==
    /\ Running
    /\ Rest("failed")
    /\ UNCHANGED <<Files, garage, Bounds>>

-----------------------------------------------------------------------------
\* What happens from outside.

Change == changes < MaxChanges /\ changes' = changes + 1 /\ UNCHANGED <<minted, runs>>

EditedInfra ==
    {EmptyInfra}
    \union {[infra EXCEPT !.id[s] = Unset, !.secret[s] = Unset] : s \in Service}
    \union {[infra EXCEPT !.secret[s] = v] : s \in Service, v \in {Unset, Junk}}
    \union {[infra EXCEPT !.id[2] = infra.id[1]],
            [infra EXCEPT !.bucket[1] = infra.bucket[2], !.bucket[2] = infra.bucket[1]],
            [infra EXCEPT !.bucket[1] = Unset],
            [infra EXCEPT !.shape = 3 - @]}

EditFiles ==
    /\ ~Running /\ Change /\ Rest("idle")
    /\ \/ infra' \in EditedInfra /\ UNCHANGED platform
       \/ platform' = EmptyPlatform /\ UNCHANGED infra
    /\ UNCHANGED garage

\* local:reset deletes the volumes and keeps the env files.
ResetVolumes ==
    /\ ~Running /\ Change /\ Rest("idle")
    /\ garage' = EmptyGarage
    /\ UNCHANGED <<infra, platform>>

\* Garage's own CLI, between runs or beside one that has not begun to verify:
\* a permission, a key or a bucket that no service asked for.
UseGarageCli ==
    /\ run.pc \notin {"own", "peer", "probe", "remove", "anonymous"}
    /\ Change
    /\ \/ \E k \in garage.keys, b \in garage.buckets, p \in Perm :
             garage' = [garage EXCEPT !.grants = @ \union {<<k.id, b, p>>}]
       \/ garage' = [garage EXCEPT !.keys = @ \union
                        {[id |-> Unset, secret |-> Unset, name |-> "other"]}]
       \/ garage' = [garage EXCEPT !.buckets = @ \union {"other"}]
    /\ IF Running THEN UNCHANGED run ELSE Rest("idle")
    /\ UNCHANGED <<infra, platform>>

Proceed ==
    \/ SyncPlatform \/ configuration \/ waitForStatus
    \/ GetClusterLayout \/ UpdateClusterLayout \/ ApplyClusterLayout \/ CheckLayout
    \/ ListKeys \/ ImportKey \/ ListBuckets \/ CreateBucket
    \/ DenyBucketKey \/ AllowBucketKey \/ waitForHealth
    \/ HeadOwnBucket \/ HeadPeerBucket \/ PutPermissionProbe \/ removePermissionProbe
    \/ HeadAnonymously

Next ==
    \/ InitCredentials \/ Proceed \/ Fail
    \/ EditFiles \/ ResetVolumes \/ UseGarageCli

\* Every call is bounded by a timeout, and the script does nothing but call.
Fairness == WF_vars(Proceed)
Spec == Init /\ [][Next]_vars /\ Fairness

-----------------------------------------------------------------------------
\* A run that reports ready leaves exactly what the env files promise,
\* whatever earlier runs and hands had left: the layout, one key per service
\* under the secret on file, and no key with access to a peer's bucket
\* (verifyS3, reconcileBucketGrants, bootstrapKeys).
ReadyMeansIsolated ==
    At("ready") =>
        /\ LayoutIsExpected /\ run.conf = infra /\ platform = OwnerView(infra)
        /\ garage.staged = {}
        /\ \A s \in Service :
              /\ Allowed(infra, s, infra.bucket[s], "read")
              /\ Allowed(infra, s, infra.bucket[s], "write")
              /\ \A p \in Service \ {s}, perm \in {"read", "write"} :
                    ~Allowed(infra, s, infra.bucket[p], perm)

\* Credentials are on file before Garage learns them, so that an interrupted
\* run is accepted by the next: while nobody meddles, a run is refused only
\* over a layout that was staged and never applied (bootstrapLayout), and a
\* key in Garage is always one the file can still open.
RefusalsHaveACause ==
    changes = 0 =>
        /\ At("refused") => garage.staged # {}
        /\ \A k \in garage.keys : \E s \in Service : k = KeyOf(infra, s)

\* Every run ends, whatever Garage answers: waits are bounded.
RunsEnd == []<>(~Running)

-----------------------------------------------------------------------------
(* Why both hold: the inductive invariant. *)

Granting == {"allow", "health"}
Verifying == {"own", "peer", "probe", "remove", "anonymous", "ready"}
Checked == {"keys", "import", "buckets", "create", "deny"} \union Granting \union Verifying
Configured == {"status", "layout", "stage", "apply", "applied"} \union Checked

TypeOK ==
    /\ run.pc \in Configured \union {"platform", "configuration"} \union Resting
    /\ run = [pc |-> run.pc, at |-> run.at, peer |-> run.peer, conf |-> run.conf]
    /\ run.at \in Nat /\ run.peer \in Nat
    /\ run.pc \in {"import", "create", "allow"} => run.at \in Service
    /\ run.pc \in {"own", "peer", "probe", "remove"} => run.at \in Service /\ run.peer \in Service
    /\ garage = [version |-> garage.version, roles |-> garage.roles, staged |-> garage.staged,
                 keys |-> garage.keys, buckets |-> garage.buckets, grants |-> garage.grants,
                 probes |-> garage.probes]
    /\ changes \in Nat

\* What a run has read is still what the files say; they are edited between runs.
FilesAreRead ==
    /\ run.pc \in Configured \union {"configuration"} => platform = OwnerView(infra)
    /\ run.pc \in Configured => run.conf = infra

LayoutIsChecked ==
    /\ run.pc = "applied" => garage.staged = {}
    /\ run.pc \in Checked => LayoutIsExpected /\ garage.staged = {}

\* Own access given so far: nobody takes it back while the run goes on.
OwnAccessIsGiven ==
    /\ run.pc = "allow" => \A s \in 1 .. run.at - 1 : OwnGrants(run.conf, s) \subseteq garage.grants
    /\ run.pc \in Verifying \union {"health"} =>
          \A s \in Service : OwnGrants(run.conf, s) \subseteq garage.grants

\* What verifyS3 has seen of a service and its peers remains so until it ends.
OwnRead(s) == Allowed(run.conf, s, run.conf.bucket[s], "read")
Isolated(s, p) ==
    p # s => \A perm \in {"read", "write"} : ~Allowed(run.conf, s, run.conf.bucket[p], perm)
Verified(s) == OwnRead(s) /\ \A p \in Service : Isolated(s, p)

VerifiedSoFar ==
    /\ run.pc \in {"own", "peer", "probe"} => \A s \in 1 .. run.at - 1 : Verified(s)
    /\ run.pc \in {"peer", "probe"} =>
          OwnRead(run.at) /\ \A p \in 1 .. run.peer - 1 : Isolated(run.at, p)
    /\ run.pc = "probe" => /\ run.peer # run.at
                           /\ ~Allowed(run.conf, run.at, run.conf.bucket[run.peer], "read")
    /\ run.pc \in {"anonymous", "ready"} => \A s \in Service : Verified(s)

\* While nobody meddles there are one set of credentials, on file before Garage
\* learns any of it, one layout, and no grants but the services' own.
FirstInfra ==
    [id |-> [s \in Service |-> <<"id", s, 1>>], secret |-> [s \in Service |-> <<"secret", s, 1>>],
     bucket |-> DEFAULT_ASSIGNMENTS, shape |-> 1]

FirstKeys == {KeyOf(FirstInfra, s) : s \in Service}
Fresh == infra = EmptyInfra /\ garage = EmptyGarage /\ minted = 0 /\ run.pc = "idle"

LayoutIsTheFirst ==
    /\ <<garage.version, garage.roles>> \in {<<0, {}>>, <<1, {1}>>}
    /\ run.pc = "apply" => garage.staged = {1}
    /\ run.pc = "applied" => garage.version = 1

KeysAreTheFirst ==
    /\ garage.keys \subseteq FirstKeys
    /\ run.pc = "import" => \A s \in 1 .. run.at - 1 : KeyOf(FirstInfra, s) \in garage.keys
    /\ run.pc \in {"buckets", "create", "deny"} \union Granting \union Verifying =>
          FirstKeys \subseteq garage.keys

Undisturbed ==
    /\ infra = FirstInfra
    /\ LayoutIsTheFirst /\ KeysAreTheFirst
    /\ garage.buckets \subseteq {GARAGE_OWNERS[s] : s \in Service}
    /\ garage.grants \subseteq UNION {OwnGrants(FirstInfra, s) : s \in Service}
    /\ run.pc # "remove"
    /\ run.pc = "refused" => garage.staged # {}

IInv ==
    /\ TypeOK /\ FilesAreRead /\ LayoutIsChecked /\ OwnAccessIsGiven /\ VerifiedSoFar
    /\ changes = 0 => Fresh \/ Undisturbed

=============================================================================
