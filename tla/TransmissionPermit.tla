------------------------- MODULE TransmissionPermit -------------------------
(***************************************************************************)
(* What the ledger promises whoever is about to call IBKR: the permission  *)
(* to transmit an order is granted at most once, only while the order is   *)
(* an open intent, to linked orders together; and an order that was        *)
(* refused or closed stays so.                                             *)
(***************************************************************************)
EXTENDS Naturals

CONSTANTS
    Orders,      \* client order ids
    Batches      \* the sets of orders that are permitted together

VARIABLES
    phase,       \* where each order is in its life
    permits      \* how often its transmission was permitted

vars == <<phase, permits>>

Init ==
    /\ phase = [o \in Orders |-> "none"]
    /\ permits = [o \in Orders |-> 0]

Move(o, from, to) ==
    /\ phase[o] = from
    /\ phase' = [phase EXCEPT ![o] = to]
    /\ UNCHANGED permits

Register(o) == Move(o, "none", "intent")

Refuse(o) == Move(o, "intent", "refused")

Close(o) == Move(o, "open", "closed")

Permit(batch) ==
    /\ \A o \in batch : phase[o] = "intent"
    /\ phase' = [o \in Orders |-> IF o \in batch THEN "open" ELSE phase[o]]
    /\ permits' = [o \in Orders |-> IF o \in batch THEN permits[o] + 1 ELSE permits[o]]

Next ==
    \/ \E o \in Orders : Register(o) \/ Refuse(o) \/ Close(o)
    \/ \E batch \in Batches : Permit(batch)

Spec == Init /\ [][Next]_vars
=============================================================================
