--------------------------- MODULE MCLinkedOrders ---------------------------
(* One bracket: entry, take profit and stop loss, and two quantities for its entry. *)
EXTENDS LinkedOrders, TLC

CONSTANTS e, p, s, t1, t2

BracketOrders == {e, p, s}
BracketGroups == {{e, p, s}}
OneEntry == {e}
Nothing == {}
OneBracket == {<<e, p, s>>}
TwoTerms == {t1, t2}
OneThenTwo == (t1 :> 1) @@ (t2 :> 2)
FirstTerms == [o \in Orders |-> t1]
=============================================================================
