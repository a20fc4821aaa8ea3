--------------------------- MODULE MCPreTradeRisk ---------------------------
(***************************************************************************)
(* Instances of PreTradeRisk for TLC: a tight and a wide policy, the wide  *)
(* one outside the hard envelope.  Entries are alike, and the properties   *)
(* are safety: the symmetry is sound.                                      *)
(***************************************************************************)
EXTENDS PreTradeRisk, TLC

Tight == [gross |-> 2, symbol |-> 2, count |-> 2, traded |-> 3, safe |-> TRUE]
Wide == [gross |-> 3, symbol |-> 3, count |-> 3, traded |-> 3, safe |-> FALSE]
TwoPolicies == {Tight, Wide}
Environment == [gross |-> 4, symbol |-> 4, count |-> 4, traded |-> 4, safe |-> TRUE]

EntrySymmetry == Permutations(Entries)
=============================================================================
