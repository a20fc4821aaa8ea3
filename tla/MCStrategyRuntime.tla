-------------------------- MODULE MCStrategyRuntime --------------------------
(***************************************************************************)
(* Instances of StrategyRuntime for TLC.                                   *)
(***************************************************************************)
EXTENDS StrategyRuntime

\* Two bars at different times; two decisions of the first and none of the second.
MCBarTime == [b \in 1..NumBars |-> b]
MCDecisions == [b \in 1..NumBars |-> IF b = 1 THEN 2 ELSE 0]
=============================================================================
