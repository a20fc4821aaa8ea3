--------------------------- MODULE MCOrderLedger ---------------------------
(* One order in full detail, with two versions of its terms. *)
EXTENDS OrderLedger, TLC

CONSTANTS o1, t1, t2

OneOrder == {o1}
NoGroups == {}
TwoTerms == {t1, t2}
OneThenTwo == (t1 :> 1) @@ (t2 :> 2)
FirstTerms == [o \in Orders |-> t1]
=============================================================================
