------------------------- MODULE MCOrderSubmission -------------------------
(* One order, submitted by one or by two processes. *)
EXTENDS OrderSubmission, TLC

CONSTANTS o1, p1, p2, t1

OneOrder == {o1}
OneTerm == {t1}
NoGroups == {}
Unit == [t \in {t1} |-> 1]
Two == [t \in {t1} |-> 2]
FirstTerms == [o \in Orders |-> t1]

\* The two processes run the same program.
ProcessSymmetry == Permutations(Processes)
=============================================================================
