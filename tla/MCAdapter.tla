----------------------------- MODULE MCAdapter -----------------------------
(***************************************************************************)
(* An instance of both halves of the IBKR client for TLC.  Requests with a *)
(* number and requests without one share no state, so that it is enough to *)
(* let either half move while the other one rests: part says which.        *)
(*                                                                         *)
(* Threads and orders are alike, and the properties are safety: the        *)
(* symmetry is sound.                                                      *)
(***************************************************************************)
EXTENDS AdapterRequests, AdapterQueries, TLC

VARIABLE part

\* The half that rests is in one of its initial states.
AdapterInit ==
    /\ RequestsInit /\ QueriesInit
    /\ part \in {"requests", "queries"}
    /\ part = "requests" => order = [o \in Orders |-> "none"]

AdapterNext ==
    \/ part = "requests" /\ RequestsNext /\ UNCHANGED <<queryVars, part>>
    \/ part = "queries" /\ QueriesNext /\ UNCHANGED <<requestVars, part>>

AdapterSpec == AdapterInit /\ [][AdapterNext]_<<requestVars, queryVars, part>>

AdapterSymmetry == Permutations(Callers) \cup Permutations(Readers) \cup Permutations(Orders)
=============================================================================
