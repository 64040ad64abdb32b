---------------------------- MODULE RecoveryParts ----------------------------
(***************************************************************************)
(* Four machines that must come to an end whatever fails: the outbox relay *)
(* and the mail dispatcher, by their own names, the object store's         *)
(* bootstrap (G) and the live verification (V).  They have no variable in  *)
(* common.                                                                 *)
(***************************************************************************)
EXTENDS CorrectionOutbox, MailDispatcher

CONSTANTS
    GARAGE_OWNERS, Unset, Junk, READINESS_ATTEMPTS, MaxRuns, MaxChanges, \* GarageBootstrap
    Ids, MaxMails                                                        \* LiveVerification

VARIABLES
    infra, platform, garage, run, minted, runs, changes,        \* GarageBootstrap
    runner, ledger, child, worker, job, platformUp, users, signUp, mails, late
                                                                \* LiveVerification

garageVars == <<infra, platform, garage, run, minted, runs, changes>>
liveVars == <<runner, ledger, child, worker, job, platformUp, users, signUp, mails, late>>

G == INSTANCE GarageBootstrap

V == INSTANCE LiveVerification

\* There are services, each named once; what is generated is neither unset nor junk.
GarageServices ==
    /\ GARAGE_OWNERS \in Seq(STRING) /\ GARAGE_OWNERS # <<>>
    /\ \A s, t \in G!Service : GARAGE_OWNERS[s] = GARAGE_OWNERS[t] => s = t
    /\ Unset # Junk
    /\ \A s \in G!Service : {<<"id", s, 1>>, <<"secret", s, 1>>} \cap {Unset, Junk} = {}

\* Accounts are named by ids, neither the registered user nor a job has one.
LedgerNames == V!Registered \notin Ids /\ V!StopJob \notin Ids

ASSUME PartsAssumption == GarageServices /\ LedgerNames

\* The object store's bootstrap, as GarageBootstrap states it.
ReadyMeansIsolated == G!ReadyMeansIsolated
RefusalsHaveACause == G!RefusalsHaveACause

\* The ledger of the live verification, as LiveVerification states it.
NothingIsForgotten == V!NothingIsForgotten
=============================================================================
