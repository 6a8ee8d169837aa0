------------------------------ MODULE Admission ------------------------------
(***************************************************************************)
(* The admission of Agent runs as Service.acquireRunSlot and               *)
(* releaseRunSlot decide it: with a coordinator the place of a run is a    *)
(* lease in Redis (RunLease), without one it is a place in the limiter of  *)
(* the process (RunLimiter).  The choice is made when the service is built *)
(* and never changes, and a runSlot holds one kind of place: the other     *)
(* half is never touched.                                                  *)
(***************************************************************************)
EXTENDS RunLimiter, RunLease

VARIABLE distributed   \* Service.semaphore is set

admissionVars == <<limiterVars, vars, distributed>>

AdmissionInit == LimiterInit /\ Init /\ distributed \in BOOLEAN

Locally == ~distributed /\ LimiterNext /\ UNCHANGED <<vars, distributed>>

InRedis(Step) == distributed /\ Step /\ UNCHANGED <<limiterVars, distributed>>

AdmissionNext == Locally \/ InRedis(Next)

\* The fairness of RunLease; none is needed of the limiter.
AdmissionFairness ==
  /\ WF_admissionVars(InRedis(Tick))
  /\ \A r \in Runs :
       /\ WF_admissionVars(InRedis(Heartbeat(r)))
       /\ WF_admissionVars(InRedis(ReleaseKey(r)))
       /\ WF_admissionVars(InRedis(Released(r)))

AdmissionSpec == AdmissionInit /\ [][AdmissionNext]_admissionVars /\ AdmissionFairness
=============================================================================
