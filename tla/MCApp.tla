-------------------------------- MODULE MCApp -------------------------------
(* The enrolment screen and the service, which share the application's       *)
(* process and no state of its own: one of them at a time.                   *)
EXTENDS ServiceLifecycle

CONSTANT MaxScans

VARIABLES
  part,  \* the one that acts
  userSettings, alive, button, resumed, scanners, writing, admin

Enrolment == INSTANCE Enrollment

screen == <<userSettings, alive, button, resumed, scanners, writing, admin>>

MCInit == part \in {"service", "enrolment"} /\ Init /\ Enrolment!Init

Service(A) == part = "service" /\ A /\ UNCHANGED <<part, screen>>

EnrolmentStep == part = "enrolment" /\ Enrolment!Next /\ UNCHANGED <<part, vars>>

MCNext == Service(Next) \/ EnrolmentStep

\* Fairness of ServiceLifecycle, for the behaviours in which the service acts.
MCFairness ==
  /\ WF_vars(Service(onCreate)) /\ WF_vars(Service(releasePython)) /\ WF_vars(Service(ToPython))
  /\ \A t \in Creators :
       /\ SF_vars(Service(\E i \in Instances : ReceiverInitializes(i, t)))
       /\ SF_vars(Service(initializePython(t)))
  /\ \A t \in Workers : WF_vars(Service(Handle(t)))

MCSpec == MCInit /\ [][MCNext]_<<part, vars, screen>> /\ MCFairness

\* Of Enrollment.
BadScanIsForEver == Enrolment!BadScanIsForEver

=============================================================================
