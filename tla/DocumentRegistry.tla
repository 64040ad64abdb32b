--------------------------- MODULE DocumentRegistry ---------------------------
(***************************************************************************)
(* Document types: the platform reads the files of its registry when it    *)
(* starts, and does not start with one that it cannot use; the gateway     *)
(* asks for a type when it first needs it, keeps the promise of the answer *)
(* and lets every call share it (document-registry.service.ts of both).    *)
(***************************************************************************)
EXTENDS DocumentTypes

CONSTANTS
    Directories, \* what the registry's directory may hold: sequences of files
    Calls,       \* concurrent calls of the gateway
    MaxRequests  \* bound on the gateway's requests

VARIABLES
    directory,   \* the files of the platform that is deployed
    registry,    \* the types that the platform serves; Down while it does not run
    cache,       \* the gateway's promise of each type: a request's number, 0 for none
    requests,    \* each request: its type, and its outcome
    call         \* each call: what it waits for, or what it was told

registryVars == <<directory, registry, cache, requests, call>>

-----------------------------------------------------------------------------
(* The platform *)

Down == [t \in {} |-> 0]

\* onModuleInit: every file is valid and has a type of its own, and there is one.
Loads(files) ==
    /\ files # <<>>
    /\ \A i \in DOMAIN files : ValidDocumentType(files[i])
    /\ \A i, j \in DOMAIN files : files[i].type = files[j].type => i = j

Types(files) == {files[i].type : i \in DOMAIN files}

Start ==
    /\ registry = Down /\ Loads(directory)
    /\ registry' = [t \in Types(directory) |->
                      directory[CHOOSE i \in DOMAIN directory : directory[i].type = t].version]
    /\ UNCHANGED <<directory, cache, requests, call>>

\* A deployment replaces the files and ends the process.
Deploy ==
    /\ registry # Down
    /\ registry' = Down
    /\ directory' \in Directories
    /\ UNCHANGED <<cache, requests, call>>

-----------------------------------------------------------------------------
(* The gateway *)

Idle == [step |-> "idle", request |-> 0]

\* A bug for comparison: only an answer is kept, and not the promise of one.
KeepsAnswersOnly(t) == cache[t] # 0 /\ requests[cache[t]].outcome = "found"

Cached(t) == cache[t] # 0

\* getDocumentTypeOrThrow: the promise in the cache, or that of a new request.
GetDocumentType(c, t) ==
    /\ call[c].step # "waiting"
    /\ \/ /\ Cached(t)
          /\ UNCHANGED <<requests, cache>>
       \/ /\ ~Cached(t) /\ Len(requests) < MaxRequests
          /\ requests' = Append(requests, [type |-> t, outcome |-> "pending", version |-> 0])
          /\ cache' = [cache EXCEPT ![t] = Len(requests) + 1]
    /\ call' = [call EXCEPT ![c] = [step |-> "waiting", request |-> cache'[t]]]
    /\ UNCHANGED <<directory, registry>>

\* The handler of a failure empties the cache, before any call that shares it resumes.
Forget(n) == cache' = [cache EXCEPT ![requests[n].type] = 0]

\* The platform's answer arrives: the type, or that there is none; or there is no answer.
Settles(n) ==
    /\ requests[n].outcome = "pending"
    /\ LET t == requests[n].type
       IN  \/ /\ t \in DOMAIN registry
              /\ requests' = [requests EXCEPT ![n].outcome = "found", ![n].version = registry[t]]
              /\ UNCHANGED cache
           \/ /\ requests' = [requests EXCEPT ![n].outcome = "failed"]
              /\ Forget(n)
    /\ UNCHANGED <<directory, registry, call>>

Resume(c) ==
    /\ call[c].step = "waiting" /\ requests[call[c].request].outcome # "pending"
    /\ call' = [call EXCEPT ![c].step = requests[call[c].request].outcome]
    /\ UNCHANGED <<directory, registry, cache, requests>>

Wanted == UNION {Types(d) : d \in Directories}

RegistryInit ==
    /\ directory \in Directories /\ registry = Down
    /\ cache = [t \in Wanted |-> 0] /\ requests = <<>>
    /\ call = [c \in Calls |-> Idle]

RegistryNext ==
    \/ Start \/ Deploy
    \/ \E c \in Calls : Resume(c) \/ \E t \in Wanted : GetDocumentType(c, t)
    \/ \E n \in DOMAIN requests : Settles(n)

-----------------------------------------------------------------------------
\* What the next call is given is never a failure, and all calls of one process work with
\* one configuration of a type, though the platform is upgraded under them: a session is
\* read and merged by the same fields.
RegistryIsShared ==
    /\ \A t \in Wanted : cache[t] # 0 => requests[cache[t]].outcome # "failed"
    /\ \A m, n \in DOMAIN requests :
         requests[m].type = requests[n].type /\ requests[m].outcome = "found"
            /\ requests[n].outcome = "found" => m = n

-----------------------------------------------------------------------------
(* Why: a promise that has not failed is the one in the cache.             *)

ReleasedVersions == UNION {{d[i].version : i \in DOMAIN d} : d \in Directories}

Request ==
    [type : Wanted, outcome : {"pending", "found", "failed"},
     version : ReleasedVersions \cup {0}]

RegistryTyped ==
    /\ directory \in Directories
    /\ \A t \in DOMAIN registry : registry[t] \in ReleasedVersions
    /\ requests \in Seq(Request)
    /\ cache \in [Wanted -> 0..Len(requests)]

CacheIsCurrent ==
    /\ \A t \in Wanted : cache[t] # 0 =>
          requests[cache[t]].type = t /\ requests[cache[t]].outcome # "failed"
    /\ \A n \in DOMAIN requests :
          requests[n].outcome # "failed" => cache[requests[n].type] = n
=============================================================================
