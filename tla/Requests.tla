------------------------------- MODULE Requests -------------------------------
(***************************************************************************)
(* The HTTP interface at work: telemetry, the enterprise control plane,    *)
(* publications and imports, each behind the same door, in one database.   *)
(***************************************************************************)
EXTENDS Stars, Enterprise, Submission

vars == <<accessVars, rowVars, starVars, enterpriseVars>>

Init ==
    /\ AccessInit
    /\ EnterpriseInit
    /\ RowsInit
    /\ StarsInit

Process == Start \/ Tick

\* What a call does by itself.
Step(c) ==
    \/ AccessStep(c) /\ UNCHANGED <<rowVars, starVars, enterpriseVars>>
    \/ StarsStep(c) /\ UNCHANGED enterpriseVars
    \/ EnterpriseStep(c) /\ UNCHANGED starVars
    \/ SubmissionStep(c) /\ UNCHANGED <<starVars, enterpriseVars>>
    \/ (TakeLock(c) \/ KillVictim(c) \/ Confirm(c)) /\ UNCHANGED <<starVars, enterpriseVars>>

Next ==
    \/ Process /\ UNCHANGED <<rowVars, starVars, enterpriseVars>>
    \/ \E c \in Calls :
        \/ Step(c)
        \/ Break(c) /\ UNCHANGED <<starVars, enterpriseVars>>

\* A thread of the server runs until its call is answered.  Each of its steps changes
\* pc, takes a lock off its plan or counts a star event.
Spec == Init /\ [][Next]_vars /\ \A c \in Calls : WF_<<pc, plan, counts>>(c \in InService /\ Step(c))

=============================================================================
