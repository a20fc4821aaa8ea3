---------------------------- MODULE PolicyInForce ----------------------------
(***************************************************************************)
(* What the governance of risk policies promises whoever authorizes an     *)
(* order: in every scope at most one version is in force, it was approved  *)
(* by somebody who did not propose it, and once a scope has a policy it is *)
(* never without one again.                                                *)
(***************************************************************************)
EXTENDS Naturals

CONSTANTS
    Scopes,      \* "global" and the scopes of accounts
    Versions,    \* version numbers
    None         \* stands for "no version"

VARIABLES
    approved,    \* scope -> its versions approved by another than their proposer
    inForce      \* scope -> the version in force, or None

vars == <<approved, inForce>>

Init ==
    /\ approved = [s \in Scopes |-> {}]
    /\ inForce = [s \in Scopes |-> None]

Approve(s, v) ==
    /\ approved' = [approved EXCEPT ![s] = @ \union {v}]
    /\ UNCHANGED inForce

PutInForce(s, v) ==
    /\ v \in approved[s]
    /\ inForce' = [inForce EXCEPT ![s] = v]
    /\ UNCHANGED approved

Next == \E s \in Scopes, v \in Versions : Approve(s, v) \/ PutInForce(s, v)

Spec == Init /\ [][Next]_vars
=============================================================================
