--------------------------- MODULE OrderLifecycle ---------------------------
(***************************************************************************)
(* The vocabulary of the order life cycle: its states, the transitions a   *)
(* caller of the ledger may ask for, the rank that keeps a late broker     *)
(* status from moving an order backwards, and the reading of a broker      *)
(* status as a life-cycle state.  Constant-level: no variables.            *)
(***************************************************************************)
EXTENDS Integers

CONSTANTS
    Terms,          \* versions of the order terms (quantity, prices, TIF) a request may carry
    TermQuantity,   \* the quantity each version asks for
    NoTerms         \* a broker record never filled by openOrder, or no pending replacement

ASSUME TermsAssumption ==
    /\ NoTerms \notin Terms
    /\ TermQuantity \in [Terms -> Nat \ {0}]

TERMINAL_ORDER_STATES ==
    {"RISK_REJECTED", "FILLED", "CANCELLED", "REJECTED", "EXPIRED", "VALIDATED"}

WORKING_STATES ==
    {"SUBMITTING", "ACKNOWLEDGED", "PARTIAL_FILL", "CANCEL_PENDING",
     "REPLACE_PENDING", "UNKNOWN"}

PRE_SUBMISSION_STATES == {"INTENT_PERSISTED", "AUTHORIZED"}

OrderLifecycleState ==
    PRE_SUBMISSION_STATES \cup WORKING_STATES \cup TERMINAL_ORDER_STATES

\* The pairs <<from, to>> that OrderLedger.transition accepts besides from = to.
ALLOWED_TRANSITIONS ==
    ({"INTENT_PERSISTED"} \X {"RISK_REJECTED", "AUTHORIZED", "UNKNOWN", "EXPIRED"})
    \cup ({"AUTHORIZED"} \X {"SUBMITTING", "RISK_REJECTED", "UNKNOWN", "EXPIRED"})
    \cup ({"SUBMITTING"} \X
            {"ACKNOWLEDGED", "PARTIAL_FILL", "FILLED", "CANCEL_PENDING",
             "CANCELLED", "REJECTED", "UNKNOWN", "EXPIRED", "VALIDATED"})
    \cup ({"ACKNOWLEDGED"} \X
            {"PARTIAL_FILL", "FILLED", "CANCEL_PENDING", "CANCELLED",
             "REJECTED", "UNKNOWN", "EXPIRED", "REPLACE_PENDING"})
    \cup ({"PARTIAL_FILL"} \X
            {"PARTIAL_FILL", "FILLED", "CANCEL_PENDING", "CANCELLED",
             "UNKNOWN", "EXPIRED", "REPLACE_PENDING"})
    \cup ({"CANCEL_PENDING"} \X
            {"PARTIAL_FILL", "FILLED", "CANCELLED", "UNKNOWN", "EXPIRED"})
    \cup ({"REPLACE_PENDING"} \X
            {"ACKNOWLEDGED", "PARTIAL_FILL", "FILLED", "CANCEL_PENDING",
             "CANCELLED", "REJECTED", "UNKNOWN"})
    \cup ({"UNKNOWN"} \X
            {"ACKNOWLEDGED", "PARTIAL_FILL", "FILLED", "CANCEL_PENDING",
             "CANCELLED", "REJECTED", "EXPIRED"})

MayTransition(from, to) == from = to \/ <<from, to>> \in ALLOWED_TRANSITIONS

\* The linear part of the life cycle.  REPLACE_PENDING, UNKNOWN and the terminal
\* states have no rank: they are never a regression by rank.
RankedBelow(s, t) ==
    \/ s = "INTENT_PERSISTED" /\ t \in {"AUTHORIZED", "SUBMITTING", "ACKNOWLEDGED",
                                        "PARTIAL_FILL", "CANCEL_PENDING"}
    \/ s = "AUTHORIZED"       /\ t \in {"SUBMITTING", "ACKNOWLEDGED", "PARTIAL_FILL",
                                        "CANCEL_PENDING"}
    \/ s = "SUBMITTING"       /\ t \in {"ACKNOWLEDGED", "PARTIAL_FILL", "CANCEL_PENDING"}
    \/ s = "ACKNOWLEDGED"     /\ t \in {"PARTIAL_FILL", "CANCEL_PENDING"}
    \/ s = "PARTIAL_FILL"     /\ t = "CANCEL_PENDING"

\* _is_order_state_regression: whether a broker-reported state is older than the row's.
IsOrderStateRegression(current, target) ==
    /\ current # target
    /\ current # "UNKNOWN"
    /\ \/ target = "UNKNOWN"
       \/ RankedBelow(target, current)

-----------------------------------------------------------------------------
(* Broker statuses: IBKR's status words, grouped as the code groups them.  *)

BrokerWord ==
    {"PendingSubmit", "Submitted", "PendingCancel", "Cancelled", "Filled", "Inactive"}

BrokerOrderStatus ==
    [status    : BrokerWord,
     filled    : Nat,
     remaining : Nat,
     terms     : Terms \cup {NoTerms}]

\* The order of the tests is the code's: a cancelled order with a partial fill is
\* reported as PARTIAL_FILL because the fill test comes before the status word.
LifecycleFromBrokerStatus(st) ==
    IF st.terms # NoTerms /\ st.filled >= TermQuantity[st.terms] THEN "FILLED"
    ELSE IF st.filled > 0 /\ st.remaining > 0 THEN "PARTIAL_FILL"
    ELSE CASE st.status = "Filled"        -> "FILLED"
           [] st.status = "Cancelled"     -> "CANCELLED"
           [] st.status = "PendingCancel" -> "CANCEL_PENDING"
           [] st.status = "Inactive"      -> "REJECTED"
           [] st.status = "PendingSubmit" -> "SUBMITTING"
           [] st.status = "Submitted"     -> "ACKNOWLEDGED"
           [] OTHER                       -> "UNKNOWN"

\* broker_status_matches_request, on the part of the request that terms stand for.
BrokerStatusMatches(st, terms) == st.terms # NoTerms /\ st.terms = terms
=============================================================================
