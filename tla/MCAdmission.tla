---------------------------- MODULE MCAdmission ----------------------------
(***************************************************************************)
(* The admission of requests: to the slots of the scheduler, with the      *)
(* quotas of scheduler.py line 28, and to the builds of the proxy store,   *)
(* each explored on its own; and what must end in the life of a request.   *)
(***************************************************************************)
EXTENDS RenderScheduler, PreviewStore, TLC

VARIABLES part    \* which of the two moves

MCKinds == {"preview", "prepare", "export"}
MCInteractive == {"preview", "prepare"}
MCQuotas == [k \in MCKinds |-> 1]

\* All requests of the store, or two of them with disturbances or edits.
Arrived == {r \in Requests : req[r].at # "new"}
Focus ==
    \/ edits = 0 /\ disturbances = 0
    \/ (edits = 0 \/ disturbances = 0) /\ Cardinality(Arrived) <= 2

MCInit == ProxyInit /\ calibration = CHOOSE c \in Calibrations : TRUE
MCNext ==
    \/ ProxyNext /\ Focus'
    \/ (\A r \in Arrived : req[r].at \in Answered) /\ UNCHANGED proxyVars

AdmissionInit == MCInit /\ Init /\ part \in {"slots", "store"}
AdmissionNext ==
    \/ part = "slots" /\ Next /\ UNCHANGED <<part, proxyVars>>
    \/ part = "store" /\ MCNext /\ UNCHANGED <<part, vars>>
AdmissionSpec == AdmissionInit /\ [][AdmissionNext]_<<part, proxyVars, vars>>

\* The same without symmetry and focus, with the fairness of every thread.
RequestInit == Init /\ ProxyInit /\ part \in {"slots", "store"}
RequestNext ==
    \/ part = "slots" /\ Next /\ UNCHANGED <<part, proxyVars>>
    \/ part = "store" /\ ProxyNext /\ UNCHANGED <<part, vars>>
RequestSpec ==
    /\ RequestInit /\ [][RequestNext]_<<part, proxyVars, vars>>
    /\ \A r \in Requests : WF_proxyVars(part = "store" /\ RequestStep(r))
    /\ \A t \in Threads : WF_vars(part = "slots" /\ Progress(t))

\* Threads and requests are permuted together: one of the two sets is at rest.
Twin == CHOOSE f \in [Threads -> Requests] : \A t, u \in Threads : f[t] = f[u] => t = u
AllAlike ==
    {p @@ [r \in Requests |-> Twin[p[CHOOSE t \in Threads : Twin[t] = r]]] : p \in Permutations(Threads)}
=============================================================================
