-------------------------- MODULE MCSessionControl --------------------------
(* One process, with one order that opens risk and one flatten. *)
EXTENDS SessionControl, TLC

CONSTANTS o1, f1

OneOrder == {o1}
NoEvents == {}

Nothing == [e \in Events |-> 0]

\* Kills, clears, armings and a flatten or an operator's reconciliation against each other.
KillAndClear == [Nothing EXCEPT !["kills"] = 1, !["clears"] = 1, !["arms"] = 1,
                                !["requests"] = 1]

\* A kill that may be cleared, a connection loss, a failed reconciliation and an audit.
Faults == [Nothing EXCEPT !["kills"] = 1, !["clears"] = 1, !["losses"] = 1,
                          !["failures"] = 1, !["audits"] = 1]

OneKillOneArm == [Nothing EXCEPT !["kills"] = 1, !["arms"] = 1]
=============================================================================
