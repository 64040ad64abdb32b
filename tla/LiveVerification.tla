--------------------------- MODULE LiveVerification ---------------------------
(***************************************************************************)
(* The live browser verification and what it owns: scripts/e2e/run-live,   *)
(* its worker (apps/web/test/e2e-live/support), the tools they spawn       *)
(* (local-e1-tool.sh, db/verify/platform-auth-http) and the mail capture.  *)
(*                                                                         *)
(* The runner writes a ledger directory before anything is owned, spawns   *)
(* the worker, and after the worker has ended restores the Platform,       *)
(* deletes the accounts and cleans the registration; it removes the ledger *)
(* only when all of that went well.  The worker may be stopped, forced or  *)
(* die between any two steps, a tool it spawned may outlive it, mail may   *)
(* still be on its way, and the runner itself may be killed.               *)
(*                                                                         *)
(* Output filtering, credentials and the browser's scenarios are left out. *)
(***************************************************************************)
EXTENDS Naturals, FiniteSets

CONSTANTS
    Ids,         \* the accounts' ids, recorded before the worker starts; strings
    MaxMails     \* bound: confirmation mails submitted

VARIABLES
    runner,     \* [pc, interrupted, cleanupFailed, left: accounts not yet cleaned]
    ledger,     \* what the run directory holds; {} when there is none
    child,      \* the spawned test process
    worker,     \* [pc, stopped, left: accounts not yet created]
    job,        \* tools at work: creating an account, stopping the Platform
    platformUp, \* the Platform container runs and is healthy
    users,      \* accounts in the database; Registered is the browser's own
    signUp,     \* a sign-up request is on its way
    mails,      \* [sent, flying, inbox]
    late        \* what a tool did after its worker was gone

vars == <<runner, ledger, child, worker, job, platformUp, users, signUp, mails, late>>

Registered == "registered"
StopJob == "stop"
World == <<platformUp, users, signUp, mails>>

Init ==
    /\ runner = [pc |-> "start", interrupted |-> FALSE, cleanupFailed |-> FALSE, left |-> Ids]
    /\ ledger = {}
    /\ child = "none"
    /\ worker = [pc |-> "boot", stopped |-> FALSE, left |-> Ids]
    /\ job = [j \in Ids \union {StopJob} |-> "none"]
    /\ platformUp \in BOOLEAN
    /\ users = {} /\ signUp = FALSE /\ mails = [sent |-> 0, flying |-> 0, inbox |-> 0]
    /\ late = {}

RunnerAt(pc) == runner.pc = pc
Turn(pc) == runner' = [runner EXCEPT !.pc = pc]
Others == <<child, worker, job, late>>

-----------------------------------------------------------------------------
\* The runner, up to the worker's end.

\* The check tool wants every service healthy before anything is owned.
Preflight ==
    /\ RunnerAt("start")
    /\ \/ platformUp /\ Turn("ledger") /\ ledger' = {"dir"}
       \/ Turn("rejected") /\ UNCHANGED ledger
    /\ UNCHANGED <<Others, World>>

WriteScope ==
    /\ RunnerAt("ledger")
    /\ \/ ledger' = ledger \union {"scope"} /\ Turn("spawn")
       \/ Turn("restore") /\ UNCHANGED ledger
    /\ UNCHANGED <<Others, World>>

Spawn ==
    /\ RunnerAt("spawn")
    /\ \/ runner.interrupted /\ Turn("restore") /\ UNCHANGED child
       \/ ~runner.interrupted /\ Turn("join") /\ child' = "running"
    /\ UNCHANGED <<ledger, worker, job, late, World>>

\* A signal, or the deadline over the whole run, asks the worker to stop ...
Interrupt ==
    /\ runner.pc \in {"ledger", "spawn", "join"} /\ ~runner.interrupted
    /\ runner' = [runner EXCEPT !.interrupted = TRUE]
    /\ child' = IF child = "running" THEN "stopping" ELSE child
    /\ UNCHANGED <<ledger, worker, job, late, World>>

Deadline == RunnerAt("join") /\ Interrupt

\* ... and half a minute later makes it.
ForceStop ==
    /\ RunnerAt("join") /\ runner.interrupted
    /\ child \in {"running", "stopping"} /\ child' = "gone"
    /\ UNCHANGED <<runner, ledger, worker, job, late, World>>

Join ==
    /\ RunnerAt("join") /\ child = "gone"
    /\ Turn("restore")
    /\ UNCHANGED <<ledger, Others, World>>

-----------------------------------------------------------------------------
\* The runner's cleanup, no longer interruptible.

RestorePlatform ==
    /\ RunnerAt("restore")
    /\ \/ "stop-intent" \notin ledger /\ Turn("accounts") /\ UNCHANGED platformUp
       \/ "stop-intent" \in ledger /\ Turn("accounts") /\ platformUp' = TRUE
       \/ /\ "stop-intent" \in ledger
          /\ platformUp' \in {platformUp, TRUE}
          /\ runner' = [runner EXCEPT !.pc = "accounts", !.cleanupFailed = TRUE]
    /\ UNCHANGED <<ledger, Others, users, signUp, mails>>

\* The tool first stops the container that may still be creating the account.
CleanAccount ==
    /\ RunnerAt("accounts") /\ runner.left # {}
    /\ \E i \in runner.left :
          \/ /\ runner' = [runner EXCEPT !.left = @ \ {i}]
             /\ users' = users \ {i}
             /\ job' = [job EXCEPT ![i] = IF @ = "container" THEN "none" ELSE @]
          \/ /\ runner' = [runner EXCEPT !.left = @ \ {i}, !.cleanupFailed = TRUE]
             /\ UNCHANGED <<users, job>>
    /\ UNCHANGED <<ledger, child, worker, late, platformUp, signUp, mails>>

CleanRegistration ==
    /\ RunnerAt("accounts") /\ runner.left = {}
    /\ \/ "registration-owned" \notin ledger /\ Turn("finish")
       \/ "registration-owned" \in ledger /\ platformUp /\ Turn("settle")
       \/ /\ "registration-owned" \in ledger
          /\ runner' = [runner EXCEPT !.pc = "finish", !.cleanupFailed = TRUE]
    /\ UNCHANGED <<ledger, Others, World>>

\* The wait outlasts a request and a mail attempt that had begun.
Settle ==
    /\ RunnerAt("settle") /\ ~signUp /\ mails.flying = 0
    /\ Turn("capture")
    /\ UNCHANGED <<ledger, Others, World>>

\* search and delete: what is found is deleted, by id.
CleanCapture ==
    /\ RunnerAt("capture")
    /\ \/ mails' = [mails EXCEPT !.inbox = 0] /\ Turn("empty")
       \/ UNCHANGED mails /\ runner' = [runner EXCEPT !.pc = "finish", !.cleanupFailed = TRUE]
    /\ UNCHANGED <<ledger, Others, platformUp, users, signUp>>

AssertEmpty ==
    /\ RunnerAt("empty")
    /\ \/ mails.inbox = 0 /\ Turn("user")
       \/ runner' = [runner EXCEPT !.pc = "finish", !.cleanupFailed = TRUE]
    /\ UNCHANGED <<ledger, Others, World>>

DeleteRegistered ==
    /\ RunnerAt("user")
    /\ \/ users' = users \ {Registered} /\ Turn("finish")
       \/ UNCHANGED users /\ runner' = [runner EXCEPT !.pc = "finish", !.cleanupFailed = TRUE]
    /\ UNCHANGED <<ledger, Others, platformUp, signUp, mails>>

\* A bug for comparison: only an interrupted run keeps its ledger.
FinishTidily ==
    /\ RunnerAt("finish")
    /\ ledger' = IF runner.cleanupFailed /\ runner.interrupted THEN ledger ELSE {}
    /\ Turn("done")
    /\ UNCHANGED <<Others, World>>

\* One failed cleanup keeps the whole ledger.
Finish ==
    /\ RunnerAt("finish")
    /\ ledger' = IF runner.cleanupFailed THEN ledger ELSE {}
    /\ Turn("done")
    /\ UNCHANGED <<Others, World>>

\* Out of memory, kill -9, or a second Ctrl-C once the handlers are off.
RunnerDies ==
    /\ runner.pc \notin {"start", "done", "killed", "rejected"}
    /\ Turn("killed")
    /\ UNCHANGED <<ledger, Others, World>>

-----------------------------------------------------------------------------
\* The worker.

Working(pc) == child \in {"running", "stopping"} /\ worker.pc = pc
Step(pc) == worker' = [worker EXCEPT !.pc = pc]
Quiet == <<runner, child, late>>

\* Accounts are created one after the other, each by a tool of its own; any
\* failed precondition goes to the teardown.
CreateAccount ==
    /\ Working("boot")
    /\ \/ \E i \in worker.left :
             /\ platformUp
             /\ job' = [job EXCEPT ![i] = "spawned"]
             /\ worker' = [worker EXCEPT !.pc = "creating", !.left = @ \ {i}]
       \/ worker.left = {} /\ Step("reserve") /\ UNCHANGED job
       \/ Step("teardown") /\ UNCHANGED job
    /\ UNCHANGED <<Quiet, ledger, World>>

CreatedAccount ==
    /\ Working("creating") /\ \A i \in Ids : job[i] = "none"
    /\ Step("boot")
    /\ UNCHANGED <<Quiet, ledger, job, World>>

\* Ownership of a registration is on file before a browser can submit one.
ReserveRegistration ==
    /\ Working("reserve")
    /\ \/ /\ platformUp /\ Registered \notin users /\ mails.inbox = 0
          /\ ledger' = ledger \union {"registration-owned"}
          /\ Step("use")
       \/ Step("teardown") /\ UNCHANGED ledger
    /\ UNCHANGED <<Quiet, job, World>>

SubmitSignUp ==
    /\ Working("use") /\ "registration-owned" \in ledger
    /\ ~signUp /\ mails.sent < MaxMails
    /\ signUp' = TRUE /\ mails' = [mails EXCEPT !.sent = @ + 1]
    /\ UNCHANGED <<Quiet, ledger, worker, job, platformUp, users>>

\* Exactly one captured mail yields a link; more are refused as duplicates.
ReadLink ==
    /\ Working("use") /\ platformUp
    /\ \/ mails.inbox = 1 /\ Registered \in users /\ UNCHANGED worker
       \/ mails.inbox # 1 /\ Step("teardown")
    /\ UNCHANGED <<Quiet, ledger, job, World>>

\* The intent is on file before the tool is called.
StopPlatform ==
    /\ Working("use") /\ ~worker.stopped
    /\ ledger' = ledger \union {"stop-intent"}
    /\ job' = [job EXCEPT ![StopJob] = "spawned"]
    /\ worker' = [worker EXCEPT !.pc = "stopping", !.stopped = TRUE]
    /\ UNCHANGED <<Quiet, World>>

StoppedPlatform ==
    /\ Working("stopping") /\ job[StopJob] = "none"
    /\ \/ ~platformUp /\ Step("use")
       \/ Step("teardown")
    /\ UNCHANGED <<Quiet, ledger, job, World>>

\* A worker that stopped the Platform starts it, waits for it to answer, and
\* only then withdraws the intent; the teardown does the same once more.
StartPlatform ==
    /\ worker.stopped
    /\ \/ Working("use") /\ Step("restored")
       \/ Working("teardown") /\ Step("restored at end")
    /\ platformUp' = TRUE
    /\ UNCHANGED <<Quiet, ledger, job, users, signUp, mails>>

WithdrawIntent ==
    /\ Working("restored") \/ Working("restored at end")
    /\ ledger' = ledger \ {"stop-intent"}
    /\ worker' = [worker EXCEPT !.stopped = FALSE,
                                !.pc = IF @ = "restored" THEN "use" ELSE "teardown"]
    /\ UNCHANGED <<Quiet, job, World>>

\* Scenarios end, pass or fail, and so does a worker asked to stop.
EndScenarios ==
    /\ Working("use") /\ Step("teardown")
    /\ UNCHANGED <<Quiet, ledger, job, World>>

WorkerExits ==
    /\ Working("teardown")
    /\ child' = "gone"
    /\ UNCHANGED <<runner, late, ledger, worker, job, World>>

WorkerDies ==
    /\ child \in {"running", "stopping"} /\ child' = "gone"
    /\ UNCHANGED <<runner, late, ledger, worker, job, World>>

-----------------------------------------------------------------------------
\* Tools and requests run on their own once begun.

Orphaned(effect) == IF child = "gone" THEN late \union {effect} ELSE late

StartContainer(i) ==
    /\ job[i] = "spawned"
    /\ job' = [job EXCEPT ![i] = "container"]
    /\ late' = Orphaned(i)
    /\ UNCHANGED <<runner, ledger, child, worker, World>>

InsertAccount(i) ==
    /\ job[i] = "container"
    /\ job' = [job EXCEPT ![i] = "none"]
    /\ users' \in {users, users \union {i}}
    /\ UNCHANGED <<runner, ledger, child, worker, late, platformUp, signUp, mails>>

StopContainer ==
    /\ job[StopJob] = "spawned"
    /\ job' = [job EXCEPT ![StopJob] = "none"]
    /\ \/ platformUp' = FALSE /\ late' = Orphaned(StopJob)
       \/ UNCHANGED <<platformUp, late>>
    /\ UNCHANGED <<runner, ledger, child, worker, users, signUp, mails>>

\* The Platform commits the account and hands the mail to its dispatcher.
CommitSignUp ==
    /\ signUp /\ signUp' = FALSE
    /\ \/ /\ platformUp
          /\ users' = users \union {Registered}
          /\ mails' = [mails EXCEPT !.flying = @ + 1]
       \/ UNCHANGED <<users, mails>>
    /\ UNCHANGED <<runner, ledger, child, worker, job, late, platformUp>>

DeliverMail ==
    /\ mails.flying > 0
    /\ \E arrived \in {0, 1} :
          mails' = [mails EXCEPT !.flying = @ - 1, !.inbox = @ + arrived]
    /\ UNCHANGED <<runner, ledger, child, worker, job, late, platformUp, users, signUp>>

Runner ==
    \/ Preflight \/ WriteScope \/ Spawn \/ Deadline \/ ForceStop \/ Join
    \/ RestorePlatform \/ CleanAccount \/ CleanRegistration
    \/ Settle \/ CleanCapture \/ AssertEmpty \/ DeleteRegistered \/ Finish

Worker ==
    \/ CreateAccount \/ CreatedAccount \/ ReserveRegistration
    \/ SubmitSignUp \/ ReadLink
    \/ StopPlatform \/ StoppedPlatform \/ StartPlatform \/ WithdrawIntent
    \/ EndScenarios \/ WorkerExits \/ WorkerDies

Background ==
    \/ \E i \in Ids : StartContainer(i) \/ InsertAccount(i)
    \/ StopContainer \/ CommitSignUp \/ DeliverMail

Next == Runner \/ Interrupt \/ RunnerDies \/ Worker \/ Background

\* Tools, requests and waits are bounded; the worker is promised nothing.
Fairness == WF_vars(Runner) /\ WF_vars(Background)
Spec == Init /\ [][Next]_vars /\ Fairness

-----------------------------------------------------------------------------
\* The ledger is written ahead: whatever a run has left in the world, and
\* whenever the runner or the worker died, the directory that names it is
\* still there - unless a tool outlived its worker and acted behind the
\* cleanup's back (run-live's finally, owned-platform-outage,
\* createRegistrationFixture).
NothingIsForgotten ==
    runner.pc \notin {"start", "rejected"} =>
        /\ ~platformUp => "stop-intent" \in ledger \/ StopJob \in late
        /\ Registered \in users \/ mails.inbox > 0 \/ signUp => "registration-owned" \in ledger
        /\ \A i \in users \intersect Ids : "scope" \in ledger \/ i \in late

\* The runner always gets to its end, and so to its cleanup, however the
\* worker behaves.
RunnerEnds == <>(runner.pc \in {"done", "killed", "rejected"})

-----------------------------------------------------------------------------
(* Why nothing is forgotten: the inductive invariant. *)

Entry == {"dir", "scope", "stop-intent", "registration-owned"}
Before == {"start", "rejected", "ledger", "spawn"}
Ending == {"settle", "capture", "empty", "user", "finish", "done"}
Cleaning == Ending \union {"accounts"}
RunnerPc == Before \union {"join", "restore", "killed"} \union Cleaning
WorkerPc == {"boot", "creating", "reserve", "use", "stopping", "restored",
             "restored at end", "teardown"}

TypeOK ==
    /\ runner \in [pc : RunnerPc, interrupted : BOOLEAN, cleanupFailed : BOOLEAN,
                   left : SUBSET Ids]
    /\ ledger \subseteq Entry
    /\ child \in {"none", "running", "stopping", "gone"}
    /\ worker \in [pc : WorkerPc, stopped : BOOLEAN, left : SUBSET Ids]
    /\ job \in [Ids \union {StopJob} -> {"none", "spawned", "container"}]
    /\ platformUp \in BOOLEAN /\ signUp \in BOOLEAN
    /\ mails \in [sent : Nat, flying : Nat, inbox : Nat]

Alive == child \in {"running", "stopping"}

\* A worker lives only while the runner waits for it or was killed waiting; until it is
\* spawned no tool is at work, before the first check there is no ledger, and before the
\* cleanup no account is taken off the list.
WorkerIsJoined ==
    /\ Alive => runner.pc \in {"join", "killed"} /\ "scope" \in ledger /\ runner.left = Ids
    /\ child = "none" => /\ worker.pc = "boot"
                         /\ \A j \in Ids \union {StopJob} : job[j] = "none"
    /\ runner.pc \in Before => child = "none"
    /\ runner.pc = "start" => ledger = {}
    /\ runner.pc \in {"spawn", "join"} => "scope" \in ledger
    /\ runner.left # Ids => child \in {"none", "gone"}
    /\ runner.pc \in Before \union {"join", "restore"} => runner.left = Ids
    /\ runner.pc \in Ending => runner.left = {}
    /\ runner.pc \in Cleaning \union {"restore"} => child \in {"none", "gone"}

\* The Platform is down on file, or because of a tool nobody waits for; while the worker
\* says that it has started it again, no tool is left that would stop it.
OutageIsOwned ==
    /\ runner.pc \notin {"start", "rejected"} =>
          (~platformUp => "stop-intent" \in ledger \/ StopJob \in late)
    /\ job[StopJob] # "none" =>
          worker.pc = "stopping" /\ (Alive => "stop-intent" \in ledger)
    /\ worker.pc \in {"restored", "restored at end"} => platformUp
    /\ runner.pc \in Cleaning /\ ~runner.cleanupFailed => platformUp \/ StopJob \in late

\* All that a registration leaves behind is owned, and is gone when its cleanup says so.
Quietly == ~signUp /\ mails.flying = 0
RegistrationIsOwned ==
    /\ Registered \in users \/ mails.inbox > 0 \/ mails.flying > 0 \/ signUp =>
          "registration-owned" \in ledger
    /\ runner.pc \in {"capture", "empty", "user"} => Quietly
    /\ runner.pc = "user" => mails.inbox = 0
    /\ runner.pc = "finish" /\ ~runner.cleanupFailed =>
          Quietly /\ mails.inbox = 0 /\ Registered \notin users

\* An account, and a container about to create one, is in the recorded scope; of what
\* was cleaned nothing comes back but by a tool that had not started its container.
AccountsAreOwned ==
    /\ \A i \in Ids : i \in users \/ job[i] = "container" => "scope" \in ledger \/ i \in late
    /\ ~runner.cleanupFailed =>
          \A i \in Ids \ runner.left : i \in users \/ job[i] = "container" => i \in late

IInv == TypeOK /\ WorkerIsJoined /\ OutageIsOwned /\ RegistrationIsOwned /\ AccountsAreOwned

=============================================================================
