---------------------------- MODULE MCSupervisor ----------------------------
(***************************************************************************)
(* Supervisor under the fairness that the Go scheduler, its timers and the *)
(* cancellation of a context provide.                                      *)
(***************************************************************************)
EXTENDS Supervisor

\* The loop takes some ready case as long as there is one (Go's select is
\* not fair between cases, so no case has fairness of its own).  A blocked
\* send or a timer goes on once it can.  The transport, the ingress and the
\* provider are only assumed to end once their context is cancelled.
Fairness ==
    /\ WF_vars(Loop)
    /\ WF_vars(Return)
    /\ WF_vars(ctxDone /\ (Startup \/ Reject \/ Supervise))
    /\ WF_vars(cancelled /\ \E err \in {"nil", "ingress"} : IngressReturns(err))
    /\ \A i \in Workers :
          /\ WF_vars(OnReady(i))
          /\ WF_vars(SendResult(i))
          /\ WF_vars(BackoffEnds(i))
          /\ WF_vars(cancelled /\ \E err \in RunErrors : RunnerReturns(i, err))

FairSpec == Spec /\ Fairness
=============================================================================
