----------------------------- MODULE MCMgmtMain -----------------------------
(***************************************************************************)
(* Instances of the main leaf for TLC: its downloads, and the service it   *)
(* gives to the peer.  The service's model has the main leaf's lock and    *)
(* work in the little it waits for, so one of the two moves in a           *)
(* behaviour, chosen at the start.                                         *)
(***************************************************************************)
EXTENDS MgmtMainProps, TLC

CONSTANTS A, B, C, shell, junk, plp, ulp1

\* The shell has one region, A.  Of the packages one fills A and has room for
\* B and C, and one fills B.
MCUuids == (shell :> <<A>>) @@ (junk :> <<A>>) @@ (plp :> <<A, B, C>>) @@ (ulp1 :> <<B>>)

ASSUME InstanceTwoLevels == TwoLevels

CONSTANTS Kinds, MaxRequests, MaxTests, MaxCalls, Unbind

ASSUME ServiceAssumption == {MaxRequests, MaxTests, MaxCalls} \subseteq Nat

VARIABLES
    part,
    held, listening, mailboxLock, cblock, main, test, tests, domain, asked, over,
    kind, told, freed, works, threads, msg, leaving, calls

serviceVars ==
    <<held, listening, mailboxLock, cblock, main, test, tests, domain, asked,
      over, kind, told, freed, works, threads, msg, leaving, calls>>

Service == INSTANCE MailboxService
              WITH lock <- mailboxLock, events <- works, pc <- threads

allVars == <<part, vars, serviceVars>>

MCInit ==
    /\ part \in {"downloads", "service"}
    /\ Init /\ Service!Init
    /\ part = "downloads" => works[1][1] = "up"

Downloads(step) == part = "downloads" /\ step /\ UNCHANGED <<part, serviceVars>>
Serves(step)    == part = "service" /\ step /\ UNCHANGED <<part, vars>>

MCNext == Downloads(Next) \/ Serves(Service!Next)

\* The fairness of the two, each while it is the one that moves.
DownloadsFairness ==
    /\ \A t \in Worker : WF_allVars(Downloads(Process(t)))
    /\ \A t \in Loader : WF_allVars(Downloads(DownloadDone(t)))
    /\ WF_allVars(Downloads(Handle))

ServiceFairness ==
    /\ WF_allVars(Serves(Service!Work))
    /\ WF_allVars(Serves(Service!Drop \/ Service!Receive))
    /\ WF_allVars(Serves(Service!Serve))
    /\ \A t \in {"listener", "resetter"} : WF_allVars(Serves(Service!Resets(t)))
    /\ WF_allVars(Serves(Service!Answered)) /\ WF_allVars(Serves(Service!Downloaded))

MCSpec == MCInit /\ [][MCNext]_allVars /\ DownloadsFairness /\ ServiceFairness

\* xmgmt-main-mailbox.c:114-133, 704-713.  A test message is sent at most once
\* and is not freed while it is in use; a service that let go of the mailbox is
\* not called any more.
ServiceSafe == Service!TestMessageOnce /\ Service!QuietWhenGone

\* xmgmt-main-mailbox.c:622-667, xmgmt-main.c:110, 785.  Requests of the peer,
\* resets and downloads come to an end beside each other.
RequestsServed == Service!RequestsServed
=============================================================================
