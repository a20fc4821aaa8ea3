---------------------------- MODULE OrderLedger ----------------------------
(***************************************************************************)
(* The durable order ledger: one row per order intent, the executions      *)
(* linked to it, and every operation of OrderLedger that changes an order  *)
(* row.  Each operation is one database transaction, hence one action.     *)
(*                                                                         *)
(* The module is open: it says what each operation does to the row,        *)
(* whichever process, thread or callback asks for it.  OrderSubmission     *)
(* adds the callers.  Prices, identifiers and timestamps are abstracted to *)
(* `terms' (the version of the request) and `brokerId' (an identity was    *)
(* recorded).                                                              *)
(***************************************************************************)
EXTENDS OrderLifecycle, FiniteSetsExt

CONSTANTS
    Orders,          \* client_order_ids
    Groups,          \* bracket and OCA groups: sets of linked orders
    Entries,         \* the parent orders of brackets
    WhatIfOrders,    \* orders sent as margin previews only
    InitialTerms,    \* the terms each intent is created with
    Roots,           \* execution root identifiers of one order
    Versions,        \* correction suffixes of an execution root
    RepeatsCorrected,\* whether IBKR reports an execution again that it has corrected
    MaxRevision      \* bound on the revision of a row

ASSUME LedgerAssumption ==
    /\ Groups \subseteq SUBSET Orders
    /\ \A g, h \in Groups : g # h => g \cap h = {}   \* an intent names one group
    /\ Entries \subseteq UNION Groups
    /\ WhatIfOrders \subseteq Orders
    /\ InitialTerms \in [Orders -> Terms]
    /\ RepeatsCorrected \in BOOLEAN
    /\ MaxRevision \in Nat

VARIABLES
    rows,        \* broker_orders: the row of each order
    executions,  \* broker_executions of each order, by root
    executed,    \* SUM(quantity) of the executions of an order that are not superseded
    claims       \* history: how many times the right to call placeOrder was granted

ledgerVars == <<rows, executions, executed, claims>>

RowState == OrderLifecycleState \cup {"ABSENT"}

\* last_error, by kind.  A conflict names the two states, because the text does.
Remark ==
    ({"none", "reason", "prior terms confirmed", "terms mismatch", "ttl elapsed"}
        \X {"-"} \X {"-"})
    \cup ({"terminal conflict"} \X OrderLifecycleState \X OrderLifecycleState)

Plain(kind) == <<kind, "-", "-">>

Row ==
    [state     : RowState,
     brokerId  : BOOLEAN,
     terms     : Terms,
     pending   : Terms \cup {NoTerms},
     filled    : Int,
     remaining : Nat,
     remark    : Remark,
     revision  : Nat]

\* The versions stored of one execution with their quantities, those that are not
\* superseded, and the sum of the latter.
ExecutionEntry == [quantity : [Versions -> Nat], current : SUBSET Versions, live : Nat]
NoExecution == [quantity |-> [v \in Versions |-> 0], current |-> {}, live |-> 0]

Seen(o, root) == {v \in Versions : executions[o][root].quantity[v] > 0}

Quantities == {TermQuantity[t] : t \in Terms}

Linked(o) == \E g \in Groups : o \in g

\* replace() refuses rows that name a parent order or an OCA group.  The parent order of a
\* bracket names neither.
Replaceable(o) == ~Linked(o) \/ o \in Entries

Exists(o) == rows[o].state # "ABSENT"

\* Only orders that were claimed can be known to the broker.
AtBroker(o) == claims[o] > 0

\* Bound: a row at MaxRevision takes no further change.
CanRevise(o) == rows[o].revision < MaxRevision

Lesser(a, b) == IF a < b THEN a ELSE b
AtLeastZero(a) == IF a > 0 THEN a ELSE 0

Init ==
    /\ rows = [o \in Orders |->
                 [state |-> "ABSENT", brokerId |-> FALSE, terms |-> InitialTerms[o],
                  pending |-> NoTerms, filled |-> 0, remaining |-> 0,
                  remark |-> Plain("none"), revision |-> 0]]
    /\ executions = [o \in Orders |-> [r \in Roots |-> NoExecution]]
    /\ executed = [o \in Orders |-> 0]
    /\ claims = [o \in Orders |-> 0]

\* Every operation but a claim of submission and an execution changes one row only.
ChangeRow(o, row) ==
    /\ rows' = [rows EXCEPT ![o] = row]
    /\ UNCHANGED <<executions, executed, claims>>

Revised(row, state) == [row EXCEPT !.state = state, !.revision = @ + 1]

-----------------------------------------------------------------------------
(* Operations asked for by the execution layer.                            *)

\* create_or_get_intent, first call.  A replay returns the row unchanged.
CreateIntent(o) ==
    /\ ~Exists(o)
    /\ ChangeRow(o, [rows[o] EXCEPT !.state = "INTENT_PERSISTED",
                                    !.remaining = TermQuantity[rows[o].terms],
                                    !.revision = 1])

\* The states the callers of transition ask for.  UNKNOWN follows a placeOrder whose
\* outcome is not known, CANCELLED and REJECTED a broker error about a known order.
CallerTargets(o) ==
    {"RISK_REJECTED", "AUTHORIZED", "EXPIRED"}
    \cup IF AtBroker(o) THEN {"UNKNOWN", "CANCELLED", "REJECTED"} ELSE {}

\* Faulty variant: the terminal test of transition is missing.
TransitionReopening(o, target) ==
    /\ Exists(o)
    /\ CanRevise(o)
    /\ MayTransition(rows[o].state, target) \/ rows[o].state \in TERMINAL_ORDER_STATES
    /\ ChangeRow(o, [Revised(rows[o], target) EXCEPT !.remark = Plain("reason")])

Transition(o, target) ==
    /\ Exists(o)
    /\ CanRevise(o)
    /\ MayTransition(rows[o].state, target)
    /\ ChangeRow(o, IF target = "AUTHORIZED" THEN Revised(rows[o], target)
                    ELSE [Revised(rows[o], target) EXCEPT !.remark = Plain("reason")])

\* Faulty variant: the compare-and-set forgets to compare.
ClaimSubmissionUnchecked(o) ==
    /\ ~Linked(o)
    /\ CanRevise(o)
    /\ rows[o].state \in {"AUTHORIZED", "UNKNOWN"}
    /\ rows' = [rows EXCEPT ![o] = Revised(@, "SUBMITTING")]
    /\ claims' = [claims EXCEPT ![o] = @ + 1]
    /\ UNCHANGED <<executions, executed>>

\* claim_submission: the compare-and-set that grants the right to call placeOrder.
ClaimSubmission(o) ==
    /\ ~Linked(o)
    /\ CanRevise(o)
    /\ rows[o].state = "AUTHORIZED"
    /\ rows' = [rows EXCEPT ![o] = Revised(@, "SUBMITTING")]
    /\ claims' = [claims EXCEPT ![o] = @ + 1]
    /\ UNCHANGED <<executions, executed>>

\* Faulty variant: the update is committed whatever number of rows it matched.
ClaimSubmissionGroupPartial(g) ==
    LET ready == {o \in g : rows[o].state = "AUTHORIZED"} IN
    /\ ready # {}
    /\ \A o \in ready : CanRevise(o)
    /\ rows' = [o \in Orders |-> IF o \in ready THEN Revised(rows[o], "SUBMITTING")
                                                ELSE rows[o]]
    /\ claims' = [o \in Orders |-> IF o \in ready THEN claims[o] + 1 ELSE claims[o]]
    /\ UNCHANGED <<executions, executed>>

\* claim_submission_group: every member AUTHORIZED, or the update is rolled back.
ClaimSubmissionGroup(g) ==
    /\ g # {}
    /\ \A o \in g : rows[o].state = "AUTHORIZED" /\ CanRevise(o)
    /\ rows' = [o \in Orders |-> IF o \in g THEN Revised(rows[o], "SUBMITTING")
                                            ELSE rows[o]]
    /\ claims' = [o \in Orders |-> IF o \in g THEN claims[o] + 1 ELSE claims[o]]
    /\ UNCHANGED <<executions, executed>>

\* The row that claim_replacement can update.
MayReplace(o, terms) ==
    /\ Replaceable(o)
    /\ rows[o].brokerId
    /\ rows[o].state \in {"ACKNOWLEDGED", "PARTIAL_FILL"}
    /\ rows[o].pending # terms
    /\ rows[o].filled <= TermQuantity[terms]

\* claim_replacement at the row's present revision (any other revision updates no row).
\* replace() has returned before for the pending terms themselves.
ClaimReplacement(o, terms) ==
    /\ CanRevise(o)
    /\ MayReplace(o, terms)
    /\ ChangeRow(o, [Revised(rows[o], "REPLACE_PENDING") EXCEPT !.pending = terms])

\* claim_cancellation at the row's present revision.
ClaimCancellation(o) ==
    /\ CanRevise(o)
    /\ rows[o].brokerId
    /\ rows[o].state \in {"SUBMITTING", "ACKNOWLEDGED", "PARTIAL_FILL",
                          "REPLACE_PENDING", "UNKNOWN"}
    /\ ChangeRow(o, Revised(rows[o], "CANCEL_PENDING"))

\* mark_expired_after_cancel: a cancellation that the TTL asked for.
MarkExpiredAfterCancel(o) ==
    /\ CanRevise(o)
    /\ rows[o].state = "CANCELLED"
    /\ ChangeRow(o, [Revised(rows[o], "EXPIRED") EXCEPT !.remark = Plain("ttl elapsed")])

-----------------------------------------------------------------------------
(* Broker statuses: apply_reconciled_status.                               *)

\* Faulty variant: the promoted replacement stays pending.
PromotedKeepingPending(row) ==
    [row EXCEPT !.terms = row.pending,
                !.remaining = AtLeastZero(TermQuantity[row.pending] - row.filled)]

\* _promote_pending_request: the replacement becomes the confirmed request.
Promoted(row) ==
    [row EXCEPT !.terms = row.pending,
                !.pending = NoTerms,
                !.remaining = AtLeastZero(TermQuantity[row.pending] - row.filled)]

\* Whether a reconciliation finds terms that are neither confirmed nor pending.
TermsMismatch(row, st, settle) ==
    /\ row.pending # NoTerms
    /\ settle
    /\ ~BrokerStatusMatches(st, row.pending)
    /\ ~BrokerStatusMatches(st, row.terms)

PendingSettled(row, st, settle) ==
    IF row.pending = NoTerms THEN row
    ELSE IF BrokerStatusMatches(st, row.pending) THEN Promoted(row)
    ELSE IF TermsMismatch(row, st, settle) THEN [row EXCEPT !.remark = Plain("terms mismatch")]
    ELSE IF settle THEN [row EXCEPT !.pending = NoTerms,
                                    !.remark = Plain("prior terms confirmed")]
    ELSE row

\* A status without terms cannot end a pending replacement, an older state cannot
\* replace a newer one, and a terminal state cannot be replaced at all.
KeepsState(row, target) ==
    \/ row.state \in TERMINAL_ORDER_STATES
    \/ /\ row.state = "REPLACE_PENDING"
       /\ row.pending # NoTerms
       /\ target \notin TERMINAL_ORDER_STATES
    \/ IsOrderStateRegression(row.state, target)

StateApplied(row, target, mismatch) ==
    IF mismatch
    THEN [row EXCEPT !.state = IF @ \in TERMINAL_ORDER_STATES THEN @ ELSE "UNKNOWN"]
    ELSE [row EXCEPT !.state = IF KeepsState(row, target) THEN @ ELSE target,
                     !.remark = IF row.state \in TERMINAL_ORDER_STATES /\ row.state # target
                                THEN <<"terminal conflict", row.state, target>>
                                ELSE @]

BrokerFieldsApplied(row, target, st) ==
    [row EXCEPT !.brokerId = TRUE,
                !.filled = st.filled,
                !.remaining = st.remaining,
                !.pending = IF target \in TERMINAL_ORDER_STATES THEN NoTerms ELSE @]

\* The row the transaction writes, before its revision.
RowFromStatus(row, target, st, settle) ==
    BrokerFieldsApplied(
        StateApplied(PendingSettled(row, st, settle), target, TermsMismatch(row, st, settle)),
        target, st)

\* Faulty variant: the comparison leaves out the fields that are not the state.
RevisedIfStateChanged(before, after) ==
    IF after.state = before.state THEN after ELSE [after EXCEPT !.revision = @ + 1]

\* _broker_revision_fields: a callback that changes nothing keeps the revision.
RevisedIfChanged(before, after) ==
    IF after = before THEN after ELSE [after EXCEPT !.revision = @ + 1]

\* Statuses IBKR can report: some total quantity split into filled and remaining.
StatusOf(word, terms, total, filled) ==
    [status |-> word, terms |-> terms, filled |-> filled, remaining |-> total - filled]

ApplyReconciledStatus(o, target, st, settle) ==
    /\ AtBroker(o)
    /\ CanRevise(o)
    /\ ChangeRow(o, RevisedIfChanged(rows[o], RowFromStatus(rows[o], target, st, settle)))

\* The state read from the status; submit() asks for VALIDATED for a margin preview.
ReconcileStatus(o) ==
    \E word \in BrokerWord, terms \in Terms \cup {NoTerms}, total \in Quantities :
    \E filled \in 0..total, settle \in BOOLEAN :
        LET st == StatusOf(word, terms, total, filled) IN
        ApplyReconciledStatus(o, LifecycleFromBrokerStatus(st), st, settle)

ValidatePreview(o) ==
    \E word \in BrokerWord, terms \in Terms \cup {NoTerms}, total \in Quantities :
        /\ o \in WhatIfOrders
        /\ ApplyReconciledStatus(o, "VALIDATED", StatusOf(word, terms, total, 0), FALSE)

-----------------------------------------------------------------------------
(* Executions: upsert_execution of an execution id not stored before.      *)

\* The sum once the live version of the root, if any, is superseded.
ExecutedAfter(o, root, quantity) ==
    executed[o] - executions[o][root].live + quantity

\* Faulty variant: any fill below the quantity makes the row PARTIAL_FILL.
RowFromExecutionReopening(row, total, corrects) ==
    LET q == TermQuantity[row.terms]
        counted == corrects \/ total >= row.filled
        filled == IF counted THEN Lesser(q, total) ELSE row.filled
        remaining == IF counted THEN AtLeastZero(q - filled) ELSE row.remaining
    IN [Revised(row, IF remaining = 0 /\ filled > 0 THEN "FILLED"
                     ELSE IF filled > 0 THEN "PARTIAL_FILL"
                     ELSE row.state)
          EXCEPT !.filled = filled, !.remaining = remaining]

\* Faulty variant: executions beyond the quantity are not cut off.
RowFromExecutionOverfilled(row, total, corrects) ==
    LET q == TermQuantity[row.terms]
        counted == corrects \/ total >= row.filled
        filled == IF counted THEN total ELSE row.filled
        remaining == IF counted THEN q - total ELSE row.remaining
    IN [Revised(row, IF remaining <= 0 THEN "FILLED"
                     ELSE IF row.state \in TERMINAL_ORDER_STATES THEN row.state
                     ELSE "PARTIAL_FILL")
          EXCEPT !.filled = filled, !.remaining = remaining]

\* Faulty variant: the execution is added to the fills that statuses have reported.
RowFromExecutionAdding(row, total, corrects) ==
    LET q == TermQuantity[row.terms]
        filled == Lesser(q, row.filled + total)
        remaining == AtLeastZero(q - filled)
    IN [Revised(row, IF remaining = 0 THEN "FILLED"
                     ELSE IF row.state \in TERMINAL_ORDER_STATES THEN row.state
                     ELSE "PARTIAL_FILL")
          EXCEPT !.filled = filled, !.remaining = remaining]

RowFromExecution(row, total, corrects) ==
    LET q == TermQuantity[row.terms]
        counted == corrects \/ total >= row.filled
        filled == IF counted THEN Lesser(q, total) ELSE row.filled
        remaining == IF counted THEN AtLeastZero(q - filled) ELSE row.remaining
    IN [Revised(row, IF remaining = 0 /\ filled > 0 THEN "FILLED"
                     ELSE IF filled > 0 /\ row.state \notin TERMINAL_ORDER_STATES
                     THEN "PARTIAL_FILL"
                     ELSE row.state)
          EXCEPT !.filled = filled, !.remaining = remaining]

UpsertExecution(o, root, version, quantity) ==
    LET total == ExecutedAfter(o, root, quantity)
        corrects == Seen(o, root) # {}
    IN /\ AtBroker(o)
       /\ CanRevise(o)
       /\ version \notin Seen(o, root)
       /\ \E q \in Quantities : total <= q
       /\ executions' = [executions EXCEPT ![o][root] =
                           [quantity |-> [@.quantity EXCEPT ![version] = quantity],
                            current |-> {version}, live |-> quantity]]
       /\ executed' = [executed EXCEPT ![o] = total]
       /\ rows' = [rows EXCEPT ![o] = RowFromExecution(@, total, corrects)]
       /\ UNCHANGED claims

RecordExecution(o) ==
    \E root \in Roots, version \in Versions, total \in Quantities :
    \E quantity \in 1..total : UpsertExecution(o, root, version, quantity)

\* upsert_execution of a stored execution: "superseded" is reset with the other columns, and
\* the order row is left alone.
RepeatExecution(o, root, version) ==
    LET quantity == executions[o][root].quantity[version]
    IN /\ RepeatsCorrected
       /\ version \in Seen(o, root) \ executions[o][root].current
       /\ executions' = [executions EXCEPT ![o][root] =
                           [quantity |-> @.quantity, current |-> @.current \cup {version},
                            live |-> @.live + quantity]]
       /\ executed' = [executed EXCEPT ![o] = @ + quantity]
       /\ UNCHANGED <<rows, claims>>

-----------------------------------------------------------------------------
Next ==
    \/ \E o \in Orders :
        \/ CreateIntent(o)
        \/ \E target \in CallerTargets(o) : Transition(o, target)
        \/ ClaimSubmission(o)
        \/ \E terms \in Terms : ClaimReplacement(o, terms)
        \/ ClaimCancellation(o)
        \/ MarkExpiredAfterCancel(o)
        \/ ReconcileStatus(o)
        \/ ValidatePreview(o)
        \/ RecordExecution(o)
        \/ \E root \in Roots, version \in Versions : RepeatExecution(o, root, version)
    \/ \E g \in Groups : ClaimSubmissionGroup(g)

Spec == Init /\ [][Next]_ledgerVars

-----------------------------------------------------------------------------
(* Properties.                                                             *)

\* The rows, the stored executions and the history of claims have their types.
TypeOK ==
    /\ rows \in [Orders -> Row]
    /\ executions \in [Orders -> [Roots -> ExecutionEntry]]
    /\ executed \in [Orders -> Int]
    /\ claims \in [Orders -> Nat]

\* The right to call placeOrder is granted at most once per intent, and once it is
\* granted no later operation makes the row look as if it had not been: a replay,
\* a TTL scan or a callback can never lead to a second transmission.
ClaimedOnce ==
    \A o \in Orders :
        /\ claims[o] <= 1
        /\ rows[o].state \in PRE_SUBMISSION_STATES \cup {"ABSENT", "RISK_REJECTED"}
             => claims[o] = 0
        /\ rows[o].state \in WORKING_STATES => claims[o] = 1

\* The members of a bracket or OCA group are claimed together or not at all, even when
\* one member is rejected or expires between its authorization and the claim.
GroupClaimedTogether ==
    \A g \in Groups : \A a, b \in g : claims[a] = claims[b]

\* No operation reopens a terminal row; a terminal row may only turn FILLED on execution
\* evidence, or from CANCELLED to EXPIRED when the TTL asked for the cancellation.
TerminalNeverReopens ==
    [][\A o \in Orders :
         rows[o].state \in TERMINAL_ORDER_STATES =>
            \/ rows'[o].state = rows[o].state
            \/ rows'[o].state = "FILLED" /\ executions'[o] # executions[o]
            \/ rows[o].state = "CANCELLED" /\ rows'[o].state = "EXPIRED"]_ledgerVars

\* A revision number identifies one content of the row: an operator's replace or cancel
\* claimed at the revision it has read acts on exactly what it has read.
RevisionIdentifiesContent ==
    [][\A o \in Orders :
         /\ rows'[o].revision >= rows[o].revision
         /\ rows'[o].revision = rows[o].revision => rows'[o] = rows[o]]_ledgerVars

\* The confirmed terms of an order change only to the terms of the replacement that was
\* claimed for it, and that ends the replacement.
TermsChangeByReplacement ==
    [][\A o \in Orders :
         rows'[o].terms # rows[o].terms =>
            /\ rows'[o].terms = rows[o].pending
            /\ rows'[o].pending = NoTerms]_ledgerVars

\* tests/test_execution_lifecycle.py:597, an execution correction "supersedes prior fill
\* version": of every execution root one version counts, and their sum is what the order is
\* known to have executed.
CorrectionsCountOnce ==
    \A o \in Orders :
        /\ \A r \in Roots : Cardinality(executions[o][r].current) <= 1
        /\ executed[o] = MapThenSumSet(LAMBDA r : executions[o][r].live, Roots)

\* The life of an order as its caller at the broker's side sees it.
PhaseOf(o) ==
    IF ~Exists(o) THEN "none"
    ELSE IF rows[o].state \in PRE_SUBMISSION_STATES THEN "intent"
    ELSE IF rows[o].state \in WORKING_STATES THEN "open"
    ELSE IF claims[o] = 0 THEN "refused" ELSE "closed"

Batches == {{o} : o \in {x \in Orders : ~Linked(x)}} \cup (Groups \ {{}})

Permission ==
    INSTANCE TransmissionPermit WITH phase <- [o \in Orders |-> PhaseOf(o)], permits <- claims

\* The ledger implements the permission protocol: whatever the callers, callbacks and
\* reconciliations do, and in whatever order, transmission is permitted once per order.
ImplementsPermission == Permission!Spec
=============================================================================
