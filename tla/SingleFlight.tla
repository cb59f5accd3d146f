---------------------------- MODULE SingleFlight ----------------------------
(***************************************************************************)
(* What PreviewEntry.get_or_compute promises its callers ("one computation *)
(* per key"), without saying how: at most one caller computes a key at a   *)
(* time, and a call ends with an outcome of its own key that was in force  *)
(* at some moment while the call was open.  A value may be forgotten at    *)
(* any time; a failure is in force only until its computation is over.     *)
(***************************************************************************)
CONSTANTS Callers, Keys, Outcomes, Nothing

VARIABLES
    phase,     \* "idle", "open", "computing", "decided" or "closed"
    wanted,    \* the key of the call
    offers,    \* outcomes in force since the call was opened
    answer,    \* what the call ended with
    inForce    \* the outcome a new call of the key could get now

flightVars == <<phase, wanted, offers, answer, inForce>>

FlightInit ==
    /\ phase = [c \in Callers |-> "idle"]
    /\ wanted = [c \in Callers |-> Nothing]
    /\ offers = [c \in Callers |-> {}]
    /\ answer = [c \in Callers |-> Nothing]
    /\ inForce = [k \in Keys |-> Nothing]

Open(c, k) ==
    /\ phase[c] = "idle"
    /\ phase' = [phase EXCEPT ![c] = "open"]
    /\ wanted' = [wanted EXCEPT ![c] = k]
    /\ offers' = [offers EXCEPT ![c] = {inForce[k]} \ {Nothing}]
    /\ UNCHANGED <<answer, inForce>>

Compute(c) ==
    /\ phase[c] = "open"
    /\ \A d \in Callers : wanted[d] = wanted[c] => phase[d] # "computing"
    /\ phase' = [phase EXCEPT ![c] = "computing"]
    /\ UNCHANGED <<wanted, offers, answer, inForce>>

\* Keeping a new value may take the place of others.
Decide(c, o) ==
    /\ phase[c] = "computing"
    /\ phase' = [phase EXCEPT ![c] = "decided"]
    /\ \E lost \in SUBSET (Keys \ {wanted[c]}) :
         inForce' = [k \in Keys |-> IF k = wanted[c] THEN o
                                     ELSE IF k \in lost THEN Nothing ELSE inForce[k]]
    /\ offers' = [d \in Callers |->
                    IF wanted[d] = wanted[c] /\ phase[d] # "closed" THEN offers[d] \cup {o}
                                                                    ELSE offers[d]]
    /\ UNCHANGED <<wanted, answer>>

\* The call ends; a computation that ends with it may take its outcome along.
Close(c) ==
    /\ phase[c] \in {"open", "decided"}
    /\ \E o \in offers[c] : answer' = [answer EXCEPT ![c] = o]
    /\ phase' = [phase EXCEPT ![c] = "closed"]
    /\ \/ UNCHANGED inForce
       \/ phase[c] = "decided" /\ inForce' = [inForce EXCEPT ![wanted[c]] = Nothing]
    /\ UNCHANGED <<wanted, offers>>

\* Values are forgotten for want of space, several at a time.
Forget ==
    /\ \E lost \in SUBSET Keys : inForce' = [k \in Keys |-> IF k \in lost THEN Nothing ELSE inForce[k]]
    /\ UNCHANGED <<phase, wanted, offers, answer>>

FlightNext ==
    \/ \E c \in Callers : (\E k \in Keys : Open(c, k)) \/ Compute(c) \/ Close(c)
    \/ \E c \in Callers, o \in Outcomes : Decide(c, o)
    \/ Forget

SingleFlightSpec == FlightInit /\ [][FlightNext]_flightVars
=============================================================================
