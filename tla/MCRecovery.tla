------------------------------ MODULE MCRecovery ------------------------------
(***************************************************************************)
(* Four machines that must come to an end whatever fails, side by side: a  *)
(* behaviour is of the outbox relay, of the mail dispatcher, of the object *)
(* store's bootstrap or of the live verification; the variables of the     *)
(* others rest.                                                            *)
(***************************************************************************)
EXTENDS RecoveryParts

VARIABLES subject  \* which of the four

mcVars == <<subject, vars, mailVars, garageVars, liveVars>>

TwoServices == <<"platform", "extraction">>

MCInit ==
    /\ Init /\ MailInit /\ G!Init /\ V!Init
    /\ subject \in {"outbox", "mail", "bootstrap", "verification"}
    /\ subject = "verification" \/ platformUp

MCNext ==
    /\ UNCHANGED subject
    /\ \/ subject = "outbox" /\ Next /\ UNCHANGED <<mailVars, garageVars, liveVars>>
       \/ subject = "mail" /\ MailNext /\ UNCHANGED <<vars, garageVars, liveVars>>
       \/ subject = "bootstrap" /\ G!Next /\ UNCHANGED <<vars, mailVars, liveVars>>
       \/ subject = "verification" /\ V!Next /\ UNCHANGED <<vars, mailVars, garageVars>>

\* The fairness of each, when it is the one that runs.
MCSpec ==
    /\ MCInit /\ [][MCNext]_mcVars
    /\ WF_vars(subject = "outbox" /\ FlushPendingOutbox)
    /\ \A a \in Agents : WF_vars(subject = "outbox" /\ FlushStep(a))
    /\ \A m \in Mails : WF_mailVars(subject = "mail" /\ Deadline(m))
    /\ WF_garageVars(subject = "bootstrap" /\ G!Proceed)
    /\ WF_liveVars(subject = "verification" /\ V!Runner)
    /\ WF_liveVars(subject = "verification" /\ V!Background)

-----------------------------------------------------------------------------
\* Whatever fails on the way, an admitted mail is settled, a bootstrap run ends, the
\* live runner gets to the end of its cleanup, and a committed event is published.
\* A behaviour is of one machine, so the first three are one: QueuedIsSettled,
\* G!RunsEnd and V!RunnerEnds.
AtRest ==
    /\ \A m \in Mails : Settled(m)
    /\ ~G!Running
    /\ subject = "verification" => runner.pc \in {"done", "killed", "rejected"}

EverythingSettles == []<>AtRest /\ EventsArePublished
=============================================================================
